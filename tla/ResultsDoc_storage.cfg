SPECIFICATION Spec
CONSTANTS
    c1 = c1
    c2 = c2
    e1 = e1
    e2 = e2
    old = old
    sib = sib
    k1 = k1
    k2 = k2
    Clients = {c1, c2}
    Edits = {e1}
    Legacy = {old}
    Sibling = {}
    Unprojected = {}
    Keys = {k1, k2}
    KeyOf <- MCKeyOf
    Template = {k1, k2}
    NewTemplate = {k1}
    SnapshotCap = 1
    SnapshotEvery = 2
    Verbs = {"restore", "snapshot"}
    InOrder = FALSE
    EarlyCrash = FALSE
    Published = FALSE
    MaxCrashes = 1
    MaxFails = 1
    MaxRestores = 1
    MaxCaptures = 1
    MaxWrites = 2
INVARIANT TypeOK
INVARIANT AckedIsDurable
INVARIANT NoWipe
PROPERTY ImplementsDurableDoc
PROPERTY RestoreIsReversible
PROPERTY SeqsNeverReused

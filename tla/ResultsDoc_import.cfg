SPECIFICATION Spec
CONSTANTS
    c1 = c1
    c2 = c2
    e1 = e1
    e2 = e2
    old = old
    sib = sib
    k1 = k1
    k2 = k2
    Clients = {c1}
    Edits = {e1}
    Legacy = {old}
    Sibling = {}
    Unprojected = {}
    Keys = {k1, k2}
    KeyOf <- MCKeyOf
    Template = {k1, k2}
    NewTemplate = {k1}
    SnapshotCap = 2
    SnapshotEvery = 2
    Verbs = {"import", "followup"}
    InOrder = TRUE
    EarlyCrash = FALSE
    Published = TRUE
    MaxCrashes = 1
    MaxFails = 0
    MaxRestores = 0
    MaxCaptures = 1
    MaxWrites = 2
INVARIANT ImportIsDurable
INVARIANT ImportSnapshotPrecedes

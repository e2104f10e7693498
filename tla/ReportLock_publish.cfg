SPECIFICATION FairSpec
CONSTANTS
    c1 = c1
    c2 = c2
    e1 = e1
    e2 = e2
    f1 = f1
    p1 = p1
    p2 = p2
    Clients = {c1, c2}
    Typed = {e1}
    Posted = {}
    Publishers = {p1}
    Overlap = FALSE
    InOrder = TRUE
    LoseLocks = FALSE
    LoseUnlocks = TRUE
    MaxVersions = 2
    MaxWrites = 2
    MaxUnlocks = 1
PROPERTY ReopenedLetsIn
INVARIANT MarkedWhilePublished
PROPERTY VersionIsComplete

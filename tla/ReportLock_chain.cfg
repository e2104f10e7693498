SPECIFICATION Spec
CONSTANTS
    c1 = c1
    c2 = c2
    e1 = e1
    e2 = e2
    f1 = f1
    p1 = p1
    p2 = p2
    Clients = {}
    Typed = {}
    Posted = {e1, e2}
    Publishers = {p1, p2}
    Overlap = TRUE
    InOrder = FALSE
    LoseLocks = TRUE
    LoseUnlocks = FALSE
    MaxVersions = 3
    MaxWrites = 1
    MaxUnlocks = 1
CHECK_DEADLOCK FALSE
INVARIANT ChainIntact

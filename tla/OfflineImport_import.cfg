SPECIFICATION Spec
CONSTANTS
    mk = mk
    up = up
    fin = fin
    other = other
    k1 = k1
    k2 = k2
    k3 = k3
    i1 = i1
    i2 = i2
    r1 = r1
    r2 = r2
    r3 = r3
    d1 = d1
    Entries = {mk, up, fin, other}
    Prints = {mk, up, fin, other}
    Keys = {k1, k2, k3}
    Op <- Ops
    KeyOf <- MintedBy
    Target <- About
    Place <- Order
    Imports = {r1, r2, r3}
    Package <- Parcels
    Exported <- Dates
    Directs = {d1}
    Sent <- Choice
    ClaimDays = 1
    LedgerDays = 1
    MaxAge = 1
    MaxSkew = 1
    RecordDays = 2
    Days = 4
    MaxOpen = 2
    MaxFaults = 1
    MaxOffice = 1
SYMMETRY Twins
CHECK_DEADLOCK FALSE
INVARIANT AppliedOnce
INVARIANT SkippedTookHold
PROPERTY DeletedStaysDeleted
PROPERTY CompletedWithUpdate

SPECIFICATION Spec
CONSTANTS
    first = first
    quota = quota
    erase = erase
    second = second
    Commands = {first, second, erase, quota}
    Kind <- Kinds
    Seq <- Order
    CredSeq <- Passwords
    Asks = {erase}
    e1 = e1
    Events = {e1}
    MaxCopies = 1
    SlowPublisher = FALSE
    Copies <- Deliveries
    MaxFaults = 1
CHECK_DEADLOCK FALSE
INVARIANT CommandNotLost
INVARIANT NewestCredentialWins
INVARIANT OperationReported
INVARIANT NoEventLost

SPECIFICATION Spec
CONSTANTS
    early = early
    middle = middle
    late = late
    Bookings = {early, middle, late}
    Start <- From
    Length <- Hours
    Id <- Ids
    MaxClock = 1
    MaxFaults = 1
    MaxOff = 1
CHECK_DEADLOCK FALSE
INVARIANT SomeoneKeepsTheSlot
INVARIANT DoubleOnlyIfLinkedLate
INVARIANT LosersLeaveNothing

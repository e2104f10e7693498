SPECIFICATION Spec
CONSTANTS
    anna = anna
    ben = ben
    q1 = q1
    q2 = q2
    q3 = q3
    none = none
    Signers = {anna, ben}
    Requests = {q1, q2, q3}
    For <- TwoTabs
    May <- Answers
    ClaimAttempts = 3
    MaxDeaths = 1
    NoClaim = none
CHECK_DEADLOCK FALSE
INVARIANT SignedIsRecorded
PROPERTY ImplementsAgreement
INVARIANT EnvelopeRolledForward
INVARIANT ExpiryReachedSigners

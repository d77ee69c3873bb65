SPECIFICATION FairSpec
CONSTANTS
    Callers = {c1, c2}
    Ids <- MCIds
    Diag = "diag"
    TxQueueSize = 2
    MaxOps = 3
    MaxPolls = 1
INVARIANTS
    TypeOK
    DriverReleasedLast
    FreshAnswer
    NoTheft
PROPERTY CallsReturn
CHECK_DEADLOCK FALSE

SPECIFICATION Spec
CONSTANTS
    Callers = {c1, c2}
    Ids <- MCIds
    Diag = "diag"
    TxQueueSize = 2
    MaxOps = 3
    MaxPolls = 1
INVARIANT MasterReadFindsIdle
CHECK_DEADLOCK FALSE

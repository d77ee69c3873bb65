SPECIFICATION Spec
CONSTANTS
    Clients = {c1, c2}
    Requests <- MCWithBroadcast
    Nads = {1, 2}
    Stranger = 3
    Broadcast = 127
    Scripts <- MCAny
    Retryable = {1}
    MaxRetries = 1
    TxQueueSize = 2
    RxQueueSize = 1
    ErrorQueueSize = 1
    ContinuousSlavePoll = FALSE
    Patient = FALSE
    Endless = FALSE
    MaxCalls = 2
    MaxFailures = 1
INVARIANTS
    TypeOK
    NotRepeated
    ExecutedInOrder
    PolledWhileWaiting
SYMMETRY Symmetry
CHECK_DEADLOCK FALSE

SPECIFICATION FairSpec
CONSTANTS
    Clients = {c1, c2}
    Requests <- MCTwoModes
    Nads = {1, 2}
    Stranger = 3
    Broadcast = 127
    Scripts <- MCPending
    Retryable = {1}
    MaxRetries = 0
    TxQueueSize = 1
    RxQueueSize = 1
    ErrorQueueSize = 1
    ContinuousSlavePoll = TRUE
    Patient = FALSE
    Endless = TRUE
    MaxCalls = 2
    MaxFailures = 0
PROPERTY WaitsEnd
CHECK_DEADLOCK FALSE

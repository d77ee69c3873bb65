SPECIFICATION FairContexts
CONSTANTS
    Clients = {c1, c2}
    Requests <- MCRequests
    Nads = {1, 2}
    Stranger = 3
    Broadcast = 127
    Scripts <- MCTimely
    Retryable = {1}
    MaxRetries = 1
    TxQueueSize = 2
    RxQueueSize = 2
    ErrorQueueSize = 1
    ContinuousSlavePoll = FALSE
    Patient = TRUE
    Endless = FALSE
    MaxCalls = 2
    MaxFailures = 0
PROPERTIES
    ImplementsService
    CallsReturn
CHECK_DEADLOCK FALSE

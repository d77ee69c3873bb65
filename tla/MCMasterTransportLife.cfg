SPECIFICATION FairSpec
CONSTANTS
    c1 = c1
    c2 = c2
    Callers = {c1, c2}
    Sizes = {2}
    TxQueueSize = 2
    RxQueueSize = 1
    ErrorQueueSize = 1
    DriverQueueSize = 1
    ContinuousSlavePoll = FALSE
    MaxOps = 3
    MaxAnswers = 1
    MaxFaults = 0
PROPERTIES
    CallsReturn
    QueueDrains
    ComesToRest
CHECK_DEADLOCK FALSE

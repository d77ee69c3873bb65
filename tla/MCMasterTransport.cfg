SPECIFICATION Spec
CONSTANTS
    c1 = c1
    c2 = c2
    Callers = {c1, c2}
    Sizes = {1, 2}
    TxQueueSize = 3
    RxQueueSize = 1
    ErrorQueueSize = 1
    DriverQueueSize = 1
    ContinuousSlavePoll = FALSE
    MaxOps = 4
    MaxAnswers = 2
    MaxFaults = 1
SYMMETRY CallerSymmetry
INVARIANTS
    TypeOK
    QuietAfterClose
    TransmitNeverBlocks
    WholeMessages
    StopQuiesces
CHECK_DEADLOCK FALSE

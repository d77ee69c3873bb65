SPECIFICATION Spec
CONSTANTS
    N = 2
    Broadcast = 127
    InitialNad <- MCNad
    SerialFrames <- MCSerial
    Requests <- MCBroadcast
    TxQueueSize = 4
    RxQueueSize = 1
    EventQueueSize = 20
    Patient = TRUE
    MaxRequests = 1
INVARIANT WholeAnswers
CHECK_DEADLOCK FALSE

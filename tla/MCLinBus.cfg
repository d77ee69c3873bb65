SPECIFICATION Spec
CONSTANTS
    N = 1
    Broadcast = 127
    InitialNad <- MCNad
    SerialFrames <- MCSerial
    Requests <- MCAllRequests
    TxQueueSize = 4
    RxQueueSize = 1
    EventQueueSize = 2
    Patient = FALSE
    MaxRequests = 3
INVARIANTS
    TypeOK
    NeverStuck
    InOrder
CHECK_DEADLOCK FALSE

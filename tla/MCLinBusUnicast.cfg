SPECIFICATION FairSpec
CONSTANTS
    N = 2
    Broadcast = 127
    InitialNad <- MCNad
    SerialFrames <- MCSerial
    Requests <- MCUnicast
    TxQueueSize = 4
    RxQueueSize = 3
    EventQueueSize = 20
    Patient = TRUE
    MaxRequests = 2
INVARIANTS
    WholeAnswers
    AnswersMatch
    NotGivenUp
PROPERTY RequestEnds
CHECK_DEADLOCK FALSE

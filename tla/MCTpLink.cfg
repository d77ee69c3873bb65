SPECIFICATION Spec
CONSTANTS
    Payloads = {}
    RxQueueSize = 2
    ErrorQueueSize = 1
    Messages <- MCMessages
    Noise <- MCNoise
    MaxSent = 3
    MaxLost = 18
    MaxDup = 1
INVARIANTS
    TypeOK
    RxAccounting
    CleanDelivery
    IntactUnderOneLoss
PROPERTIES
    ImplementsChannel
CHECK_DEADLOCK FALSE

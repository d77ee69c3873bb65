SPECIFICATION Spec
CONSTANTS
    Callers = {a, b}
    Channels = {k1, k2}
    QueueSize = 1
    MaxCalls = 3
    TsmasterCalls = 2
    ToomossCalls = 5
    ToomossFrames = 3
    MaxFrames = 2
INVARIANTS
    TypeOK
    LibraryPresent
    ClosedCleanly
    OvertakenOnlyIfPassedOn
    OwnAnswers
    HeaderAsPrepared
    PanicOnlyIfOverlapped
    Released
SYMMETRY Symmetry
CHECK_DEADLOCK FALSE

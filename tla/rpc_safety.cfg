SPECIFICATION Spec
CONSTANTS
    u1 = u1
    u2 = u2
    echo = echo
    none = none
    Thread = {u1, u2, echo}
    EchoLoop = echo
    NoThread = none
    NetCap = 1
    PeerFaults = {}
    MaxCall = 3
    MaxTick = 0
    MaxEcho = 0
    MaxNoise = 1
    MaxOdd = 0
    MaxClose = 0
    MaxEvents = 4
    HasTicker = FALSE
SYMMETRY UserSymmetry
INVARIANT TypeOK
INVARIANT NoPanic
INVARIANT NoSilentSuccess
INVARIANT CallbackOwned
INVARIANT CallbackNeverBlocks
INVARIANT OwnReply
PROPERTY ImplementsService
CHECK_DEADLOCK FALSE

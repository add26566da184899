SPECIFICATION Spec
CONSTANTS
    u1 = u1
    echo = echo
    none = none
    Thread = {u1, echo}
    EchoLoop = echo
    NoThread = none
    NetCap = 2
    PeerFaults = {}
    MaxCall = 1
    MaxTick = 0
    MaxEcho = 0
    MaxNoise = 0
    MaxOdd = 1
    MaxClose = 0
    MaxEvents = 2
    HasTicker = FALSE
INVARIANT NoPanic
CHECK_DEADLOCK FALSE

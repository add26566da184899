SPECIFICATION FairSpec
CONSTANTS
    u1 = u1
    u2 = u2
    echo = echo
    none = none
    Thread = {u1, u2, echo}
    EchoLoop = echo
    NoThread = none
    NetCap = 1
    PeerFaults = {}
    MaxCall = 2
    MaxTick = 0
    MaxEcho = 0
    MaxNoise = 0
    MaxOdd = 0
    MaxClose = 0
    MaxEvents = 2
    HasTicker = FALSE
PROPERTY CanceledReturns
CHECK_DEADLOCK FALSE

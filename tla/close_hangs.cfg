SPECIFICATION FairSpec
CONSTANTS
    u1 = u1
    echo = echo
    none = none
    Thread = {u1, echo}
    EchoLoop = echo
    NoThread = none
    NetCap = 2
    PeerFaults = {"broken"}
    MaxCall = 1
    MaxTick = 0
    MaxEcho = 0
    MaxNoise = 0
    MaxOdd = 0
    MaxClose = 1
    MaxEvents = 3
    HasTicker = FALSE
PROPERTY CloseReturns
CHECK_DEADLOCK FALSE

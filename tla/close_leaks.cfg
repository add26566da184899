SPECIFICATION FairAnsweringSpec
CONSTANTS
    u1 = u1
    echo = echo
    none = none
    Thread = {u1, echo}
    EchoLoop = echo
    NoThread = none
    NetCap = 2
    PeerFaults = {}
    MaxCall = 1
    MaxTick = 0
    MaxEcho = 0
    MaxNoise = 0
    MaxOdd = 0
    MaxClose = 1
    MaxEvents = 2
    HasTicker = FALSE
PROPERTY CleanAfterClose
CHECK_DEADLOCK FALSE

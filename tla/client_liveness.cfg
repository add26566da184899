SPECIFICATION FairSpec
CONSTANTS
    u1 = u1
    echo = echo
    none = none
    Thread = {u1, echo}
    EchoLoop = echo
    NoThread = none
    NetCap = 1
    PeerFaults = {"eof", "broken"}
    MaxCall = 1
    MaxTick = 1
    MaxEcho = 2
    MaxNoise = 1
    MaxOdd = 1
    MaxClose = 1
    MaxEvents = 3
    HasTicker = TRUE
INVARIANT ClosedMeansCanceled
PROPERTY CloseReturnsIfDecodes
PROPERTY CanceledReturnsIfRead
PROPERTY RpcCompletes
PROPERTY EchoHandedOverUnlessStuck
CHECK_DEADLOCK FALSE

SPECIFICATION Spec
CONSTANTS
    U8 = 8
    U12 = 16
    U16 = 32
    U20 = 64
    U32 = 128
    U64 = 256
    PortBits = 5
    MaxPortID = 120
    Flows <- OneMatchFlows
    MaxInstalled = 2
    MaxChars = 6
    MaxPorts = 5
    MaxLines = 4
    MaxPasses = 2
    b1 = b1
    b2 = b2
    p1 = p1
    Bridges = {b1, b2}
    PortNames = {p1}
    InterfaceCalls <- SomeOptions
    Modes = {1}
    Controllers = {1}
    ProtocolLists = {0, 1}
    ZoneLists <- SomeZoneLists
    LimitMaps <- SomeLimitMaps
INVARIANT
    DumpFaithful

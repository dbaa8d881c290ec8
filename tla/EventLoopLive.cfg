SPECIFICATION Spec
CONSTANTS
    Conns = {k1, k2, k3}
    NoConn = NoConn
    MaxFd = 2
    MaxEvents = 3
    MaxSent = 2
    MaxAllSent = 2
    RecvCap = 1
    SendCap = 1
    Readers = {k1, k2, k3}
    SetupErrors = TRUE
CHECK_DEADLOCK FALSE
PROPERTIES
    EveryPacketHandled
    EveryCloseNoticed
    AlwaysReturns

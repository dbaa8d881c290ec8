SPECIFICATION Spec
CONSTANTS
    Conns = {k1, k2}
    NoConn = NoConn
    MaxFd = 2
    MaxEvents = 3
    MaxSent = 2
    MaxAllSent = 4
    RecvCap = 1
    SendCap = 1
    Readers = {k1}
    SetupErrors = FALSE
CHECK_DEADLOCK FALSE
PROPERTIES
    AlwaysReturns

SPECIFICATION LoopSpec
CONSTANTS
    Conns = {k1, k2, k3}
    NoConn = NoConn
    MaxFd = 2
    MaxEvents = 2
    MaxSent = 2
    MaxAllSent = 6
    RecvCap = 2
    SendCap = 1
    Readers = {}
    SetupErrors = TRUE
    Users = {u1}
    NoUser = NoUser
CHECK_DEADLOCK FALSE
SYMMETRY ConnSymmetry
INVARIANTS
    TypeOK
    EventsCurrent
    SessionsAreSockets
    NothingLost
    OnlyLeaversLose
PROPERTIES
    ChatSpec

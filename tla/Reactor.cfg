SPECIFICATION ServerSpec
CONSTANTS
    Conns = {k1, k2, k3}
    None = None
    MaxFd = 2
    MaxEvents = 3
    MaxSends = 2
    SetupErrors = TRUE
    Users = {u1, u2}
    NoUser = NoUser
    SendCap = 1
CHECK_DEADLOCK FALSE
INVARIANTS
    ReactorInv
PROPERTIES
    ChatSpec
    EveryCloseNoticed
    EveryPacketTaken

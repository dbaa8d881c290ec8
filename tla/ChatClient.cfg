SPECIFICATION Spec
CONSTANTS
    Users = {u1, u2}
    NoUser = NoUser
    f1 = f1
    f2 = f2
    Files = {f1, f2}
    Paths = {p1, p2}
    NoPath = NoPath
    NoFile = NoFile
    MaxClicks = 3
    MaxConns = 2
    DiskErrors = TRUE
    LocalErrors = TRUE
    FileSize <- SizeOf
CHECK_DEADLOCK FALSE
INVARIANTS
    TypeOK
    GatedWhenLoggedIn
    NamesAgree
    NothingPartialStays
    CompletedIsWhole
    EndOnTheWay
PROPERTIES
    DownloadEnds

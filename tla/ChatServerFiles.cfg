SPECIFICATION Spec
CONSTANTS
    Clients = {c1, c2}
    Names = {f1}
    Dirs = {}
    NoName = NoName
    Hole = Hole
    MaxSize = 2
    MaxChunks = 2
    DiskErrors = TRUE
    Users = {u1, u2}
    NoUser = NoUser
    ChatCounts = {}
SYMMETRY PeopleSymmetry
INVARIANTS
    UploadOwnerLoggedIn
    FileListsCover
    DownloadIsWhole
PROPERTIES
    FTSpec

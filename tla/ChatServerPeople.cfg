SPECIFICATION Spec
CONSTANTS
    Clients = {c1, c2, c3, c4}
    Names = {}
    Dirs = {}
    NoName = NoName
    Hole = Hole
    MaxSize = 0
    MaxChunks = 0
    DiskErrors = FALSE
    Users = {u1, u2, u3}
    NoUser = NoUser
    ChatCounts = {1, 2, 3}
SYMMETRY PeopleSymmetry
INVARIANTS
    ServerTypeOK
    UniqueNames
    UserListCurrent
    ChatsAgree

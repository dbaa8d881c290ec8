SPECIFICATION FTSpec
CONSTANTS
    Clients = {c1, c2}
    Names = {f1, f2}
    Dirs = {}
    NoName = NoName
    Hole = Hole
    MaxSize = 2
    MaxChunks = 2
    DiskErrors = FALSE
INVARIANTS
    FinishedIsPresent

SPECIFICATION FTSpec
CONSTANTS
    Clients = {c1, c2}
    Names = {f1, f2}
    Dirs = {dot}
    NoName = NoName
    Hole = Hole
    MaxSize = 1
    MaxChunks = 2
    DiskErrors = TRUE
SYMMETRY StoreSymmetry
INVARIANTS
    StoreInv
    SoundUploadsStored
    StrayFilesExplained

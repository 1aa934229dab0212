CONSTANTS
    a = a
    b = b
    Inodes = {1, 2, 3}
    Blocks = {1, 2, 3, 4, 5}
    Paths <- MCFile
    Vals = {1, 2}
    Units = 1
    NDirect = 1
    Ptrs = 2
    Slots = 2
    MaxDepth = 3
    MaxUnits = 3
    Volatile = FALSE
    Ops = {"create", "write", "truncate", "unlink"}
    Clusters = 4
    PerSector = 4
    Straddle = {4}
    FatFiles = {1, 2}
    Copies = 2
    MaxLen = 2
    Versions = {1}
    MaxBreaks = 1
    Images <- SlotImages
    Good = {1}
    MaxFaults = 1
    Packages = {1, 2}
    PkgFiles <- TwoPackages
    Pieces = 2
    MaxVersion = 4
    MaxCuts = 2
    Parts = {"nexofs"}
SPECIFICATION Spec
INVARIANTS
    NoReuse
CHECK_DEADLOCK FALSE

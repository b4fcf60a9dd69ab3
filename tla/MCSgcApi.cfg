CONSTANTS
    FatType = 3
    Clusters = 4
    ClusterSectors = 1
    SectorBytes = 2
    DirEntriesPerSector = 2
    FatEntriesPerSector = 4
    FatCopies = 2
    RootEntries = 0
    MAX_DIR = 4
    MaxFileSize = 5
    MAX_FILES = 2
    MaxCalls = 6
    MaxCuts = 1
    Depth = 2
    Offsets = {0, 1, 2, 3}
    Lengths = {3}
    Names <- MCNames
    Dirs <- MCDirs
    Modes <- MCModes
    Moves <- MCMoves
    Paths <- MCPaths
SPECIFICATION Spec
VIEW view
INVARIANTS TypeOK NoCrossLink NoLostCluster FreeCountRight FatCopiesAgree
PROPERTY StoreImplemented
CHECK_DEADLOCK FALSE

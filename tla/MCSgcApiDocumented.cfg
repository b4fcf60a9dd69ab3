CONSTANTS
    FatType = 3
    Clusters = 4
    ClusterSectors = 1
    SectorBytes = 2
    DirEntriesPerSector = 2
    FatEntriesPerSector = 4
    FatCopies = 2
    RootEntries = 0
    MAX_DIR = 4
    MaxFileSize = 5
    MAX_FILES = 2
    MaxCalls = 4
    MaxCuts = 0
    Depth = 2
    Offsets = {0, 1, 2, 3}
    Lengths = {3}
    Names <- MCNames
    Dirs = {}
    Modes <- MCUpdate
    Moves <- MCMoves
    Paths <- MCPaths
SPECIFICATION Spec
VIEW view
PROPERTY AsDocumented
CHECK_DEADLOCK FALSE

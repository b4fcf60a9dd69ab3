CONSTANTS
    FatType = 2
    Clusters = 4
    ClusterSectors = 2
    SectorBytes = 2
    DirEntriesPerSector = 2
    FatEntriesPerSector = 4
    FatCopies = 2
    RootEntries = 4
    MAX_DIR = 8
    MaxFileSize = 31
    kFileBufferSize = 4
    kMaxDirEntries = 1
    MaxRequests = 4
    MaxFaults = 1
    MaxCuts = 1
    Files <- MCFiles
    Folders <- MCFolders
    Moves <- MCMoves
    Uploads <- MCUploads
SPECIFICATION Spec
VIEW view
CHECK_DEADLOCK FALSE
INVARIANTS TypeOK Sound
PROPERTIES OthersIntact AckedIsDone ReadsTrue RefusedIsNothing

CONSTANTS
    m1 = m1
    m2 = m2
    m3 = m3
    NoMicroblock = NoMicroblock
    Microblocks <- MCMicroblocks
    Size <- MCSize
    Previous <- MCPrevious
    MaxFileSize = 3
    MaxFileId = 3
    FileCapacity = 4
    MaxHeight = 3
    Chains <- TwoChains
    FaultPoints = {"block", "file", "row", "synced", "closed", "counted"}
    FsyncPersistsEntry = TRUE
    DirSyncMayFail = TRUE
    ProcessMayDie = TRUE
    MaySkip = TRUE
    MayReset = TRUE
    MaxFaults = 3
SPECIFICATION Spec
INVARIANTS
    TypeOK
    CommittedReadable
    VisibleReadable
    NeverShorterThanExpected
    FileHeightsCover
    FullFilesClosed
PROPERTIES
    ImplementsArchive

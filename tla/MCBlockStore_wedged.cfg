CONSTANTS
    m1 = m1
    m2 = m2
    m3 = m3
    NoMicroblock = NoMicroblock
    Microblocks <- MCMicroblocks
    Size <- MCSize
    Previous <- MCPrevious
    MaxFileSize = 2
    MaxFileId = 3
    FileCapacity = 4
    MaxHeight = 3
    Chains <- OneChain
    FaultPoints = {"file"}
    FsyncPersistsEntry = TRUE
    DirSyncMayFail = FALSE
    ProcessMayDie = FALSE
    MaySkip = FALSE
    MayReset = FALSE
    MaxFaults = 1
SPECIFICATION FairSpec
PROPERTIES
    EventuallyIndexed

CONSTANTS
    m1 = m1
    m2 = m2
    m3 = m3
    NoMicroblock = NoMicroblock
    Microblocks <- MCMicroblocks
    Size <- MCSize
    Previous <- MCPrevious
    MaxFileSize = 2
    MaxFileId = 3
    FileCapacity = 4
    MaxHeight = 3
    Chains <- TwoChains
    FaultPoints = {"block", "closed", "counted"}
    FsyncPersistsEntry = FALSE
    DirSyncMayFail = TRUE
    ProcessMayDie = TRUE
    MaySkip = FALSE
    MayReset = TRUE
    MaxFaults = 3
SPECIFICATION FairSpec
INVARIANTS
    NeverWrongBytes
PROPERTIES
    IndexedUnlessLost

CONSTANTS
    MaxNodes = 4
    Configured <- MCConfigured
    ChainOf <- TwoChainNodes
    EarliestHash <- TwoChainNodes
    Base <- WholeNodes
    CommitBase <- PartlyPruned
    NoHash = NoHash
    MaxHeight = 2
    MaxDifference = 1
    StatusAhead = TRUE
    MayThrowInWindow = TRUE
    ProcessMayDie = TRUE
    MaxFaults = 3
SPECIFICATION FairSpec
INVARIANTS
    TypeOK
    GateSound
PROPERTIES
    ImplementsChainIndex
    CatchesUp
    HeadRefreshed
    CadenceSettles

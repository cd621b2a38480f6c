CONSTANTS
    MaxNodes = 4
    Configured <- TwoConfigured
    ChainOf <- OneChainNodes
    EarliestHash <- OneChainNodes
    Base <- WholeNodes
    CommitBase <- WholeNodes
    NoHash = NoHash
    MaxHeight = 2
    MaxDifference = 1
    StatusAhead = FALSE
    MayThrowInWindow = FALSE
    ProcessMayDie = TRUE
    MaxFaults = 1
SPECIFICATION Spec
PROPERTIES
    CaughtUpServes

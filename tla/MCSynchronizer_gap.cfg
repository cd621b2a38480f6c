CONSTANTS
    MaxNodes = 4
    Configured <- TwoConfigured
    ChainOf <- OneChainNodes
    EarliestHash <- OneChainNodes
    Base <- PrunedNodes
    CommitBase <- WholeNodes
    NoHash = NoHash
    MaxHeight = 3
    MaxDifference = 1
    StatusAhead = FALSE
    MayThrowInWindow = FALSE
    ProcessMayDie = FALSE
    MaxFaults = 0
SPECIFICATION Spec
INVARIANTS
    NoGaps

SPECIFICATION FairSpec
CONSTANTS
    a1 = a1
    a2 = a2
    escrow = escrow
    staking = staking
    Accounts = {a1, a2}
    Nodes = {n1, n2}
    LockKinds = {escrow, staking}
    MaxHeight = 3
    MaxEntry = 5
    State <- MCState
    BalanceAfter <- MCBalanceAfter
    PageSize = 2
    NoBalance = NoBalance
    NoUpdate = NoUpdate
    MaxFaults = 2
INVARIANTS
    TypeOK
    HistoryComplete
    AccountsCurrent
    EntriesRight
PROPERTIES
    ImplementsLedger
    AllIndexed
CHECK_DEADLOCK FALSE

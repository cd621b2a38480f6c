SPECIFICATION SpecReads
CONSTANTS
    Hashes <- MCHashes
    Addresses = {"k1", "k2", "k3"}
    Micro <- MCMicro
    Block <- MCBlock
    MaxHeight = 8
    Null = "null"
    MaxFaults = 1
    MAX_LIMIT = 3
    MAX_OFFSET = 6
    HourTicks = 2
    Limits = {2}
    Floors = {6}
    RewardTimes = {0, 1, 3, 5}
INVARIANT
    DroppedLeftSet
CHECK_DEADLOCK FALSE

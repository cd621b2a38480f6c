SPECIFICATION FairSpec
CONSTANTS
    Nodes = {"n"}
    Urls = {"u1", "u2"}
    Handlers = {"h1"}
    Sync = "sync"
    None = "none"
    MIN_REFRESH_DELAY = 1
    MAX_FETCH_DELAY = 2
    MaxFaults = 1
INVARIANTS
    TypeOK
    PendingIsRunning
    WaitsBounded
    StampHonest
    EndpointFollowed
PROPERTIES
    FetchesSpaced
    AllAnswered

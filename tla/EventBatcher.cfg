CONSTANTS
    Hashes = {h1, h2}
    Capacity = 3
    MaxBatchSize = 3
    MaxEvents = 5
    NoType = NoType
SPECIFICATION FairSpec
CHECK_DEADLOCK FALSE
INVARIANTS
    HubFollowsEvents
PROPERTY BatchIsFlushed

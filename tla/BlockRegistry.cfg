CONSTANTS
    Hashes = {h1, h2}
    Handles = {a1, a2, a3}
    Owners = {o1, o2, o3}
    Emitted = {h1}
    NoHandle = NoHandle
    NoHash = NoHash
    MaxEvents = 4
SPECIFICATION FairSpec
CHECK_DEADLOCK FALSE
INVARIANTS
    LiveIsIndexed
    EventBalance
PROPERTY EmptiesWhenReleased

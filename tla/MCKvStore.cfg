CONSTANTS
    r1 = r1
    k1 = k1
    p1 = p1
    p2 = p2
    gpu0 = gpu0
    gpu1 = gpu1
    Resolves = {r1}
    Requests = {k1}
    Pages = {p1, p2}
    Devices <- MCDevices
    MaxPages = 2
SPECIFICATION FairSpec
CHECK_DEADLOCK FALSE
INVARIANTS
    CopiesOwnTheirPages
    PinnedCoversReads
    HandoffOutlivesSaves
    FreedIsQuiet
PROPERTIES
    ResolveEnds
    LeaseReturned
    ParkedIsReleased

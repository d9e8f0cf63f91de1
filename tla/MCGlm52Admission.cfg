CONSTANTS
    p1 = p1
    p2 = p2
    n1 = n1
    A = A
    B = B
    C = C
    P = P
    Requests = {p1, p2, n1}
    Natives = {n1}
    Chain <- MCChain
    Probed <- MCProbed
    Lifetime <- MCLifetime
    Cacheable <- MCCacheable
    MatchCap <- MCMatchCap
    Total = 4
    MaxDraw = 2
    Slots = 2
SPECIFICATION Spec
INVARIANTS QueueTypeOK LedgerExact FloorButForPins StallNeedsKeptPages

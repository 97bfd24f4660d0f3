\* Two tokens, two clients, two cleanup loops, three clock ticks, fair cleanup loops.
CONSTANTS
    Tokens = {k1, k2}
    Clients = {c1, c2}
    Cleaners = {g1, g2}
    TTL = 1
    MaxTime = 3
    None = None
SPECIFICATION FairSpec
INVARIANTS
    IndexConsistent
PROPERTIES
    NoLiveSessionCleaned
    LifecycleSpec
    ExpiredRemoved
CHECK_DEADLOCK FALSE

\* Either server; more events than the cache holds, faults anywhere in a frame.
CONSTANTS
    MaxEvents = 4
    MaxFaults = 2
    Window = 2
    CacheSize = 3
    MaxBackoff = 3
SPECIFICATION FairSpec
INVARIANTS
    HandledOnce
PROPERTIES
    ReaderSpec
    Recovers
    GoroutineEnds
CHECK_DEADLOCK FALSE

\* Two handshakes and a revocation against the background refresh, whose
\* callbacks stand for other callers of Refresh.
CONSTANTS
    Handshakes = {h1, h2}
    Refreshes = {}
    Revokes = {v1}
    Timers = {k1, k2, k3}
    MaxDelay = 2
    MaxFailures = 1
SPECIFICATION FairSpec
INVARIANTS
    OneTimer
    RefreshAlive
    RevokedOnlyIfRaced
PROPERTIES
    StopQuiesces
CHECK_DEADLOCK FALSE

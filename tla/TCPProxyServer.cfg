\* Two connections for one place, one tunnel.
CONSTANTS
    Conns = {a, b}
    MaxConnections = 1
    Tunnels = {t1}
    None = None
SPECIFICATION FairSpec
PROPERTIES
    BackOnlyIfRaced
    HangUpReleasesAll
    StopReturns
CHECK_DEADLOCK FALSE

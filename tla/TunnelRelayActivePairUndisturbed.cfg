\* A claim the code does not keep: see ActivePairUndisturbed.
CONSTANTS
    IHConns = {i1}
    AHConns = {a1}
    OtherConns = {}
    Tunnels = {t1}
    Stoppers = {}
    MaxConnections = 2
    HasReadTimeout = TRUE
    None = None
SPECIFICATION Spec
INVARIANT ActivePairUndisturbed
CHECK_DEADLOCK FALSE

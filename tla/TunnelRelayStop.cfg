\* An IH and an AH connection, one tunnel ID, one caller of Stop, fairness.
CONSTANTS
    IHConns = {i1}
    AHConns = {a1}
    OtherConns = {}
    Tunnels = {t1}
    Stoppers = {s1}
    MaxConnections = 1
    HasReadTimeout = TRUE
    None = None
SPECIFICATION FairSpec
PROPERTIES
    WaitEnds
    DisconnectPropagates
    StopReturns
CHECK_DEADLOCK FALSE

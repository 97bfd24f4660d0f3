\* Two IH connections, one AH connection, two tunnel IDs, nobody stops the server.
CONSTANTS
    IHConns = {i1, i2}
    AHConns = {a1}
    OtherConns = {}
    Tunnels = {t1, t2}
    Stoppers = {}
    MaxConnections = 2
    HasReadTimeout = TRUE
    None = None
SPECIFICATION Spec
SYMMETRY Symmetry
INVARIANTS
    PairingSound
PROPERTIES
    RendezvousSpec
CHECK_DEADLOCK FALSE

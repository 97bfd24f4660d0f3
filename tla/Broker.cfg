\* Two session IDs, two objects, a second AH stream to register again.
CONSTANTS
    SessionIDs = {x, y}
    Sessions = {o1, o2}
    IHStreams = {i1}
    AHStreams = {a1, a2}
    Senders = {i1}
    Breakable = {a1, a2}
    Pairs = {p1, p2}
    MaxPackets = 1
    None = None
SPECIFICATION Spec
SYMMETRY Symmetry
INVARIANTS
    Isolation
PROPERTIES
    SwitchSpec
CHECK_DEADLOCK FALSE

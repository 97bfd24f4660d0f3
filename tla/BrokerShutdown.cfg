\* One pair of forwarders, two packets, every failure, fairness.
CONSTANTS
    SessionIDs = {x}
    Sessions = {o1, o2}
    IHStreams = {i1}
    AHStreams = {a1}
    Senders = {i1}
    Breakable = {i1, a1}
    Pairs = {p1}
    MaxPackets = 2
    None = None
SPECIFICATION FairSpec
INVARIANTS
    InOrder
PROPERTIES
    BrokenStreamEndsSession
    CloseReturns
CHECK_DEADLOCK FALSE

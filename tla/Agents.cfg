\* One IH client with one tunnel, two user connections, one AH agent.
CONSTANTS
    Users = {u1, u2}
SPECIFICATION AgentsFairSpec
INVARIANTS
    StopLeavesNothing
PROPERTIES
    StopReturns
    HangUpReachesAll
    UserPairedOrClosed
    StopReleasesTarget
CHECK_DEADLOCK FALSE

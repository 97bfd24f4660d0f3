\* Two subscriptions of one agent ID, one client that may stop reading, two calls, one
\* of them with an event that cannot be encoded, one Unsubscribe, fairness.
SPECIFICATION FairSpec
CONSTANTS
    Subs = {s1, s2}
    Agents = {a}
    Calls = {c1, c2}
    Unsubs = {u}
    Stallers = {s1}
    Cap = 1
    Unencodable = {c2}
    None = None
CHECK_DEADLOCK FALSE
INVARIANTS
    DoneClosedOnce
    MissedOnlyIfIDReused
PROPERTIES
    NotifyReturns
    AcceptedEventWritten
    UnsubscribeEndsLoop

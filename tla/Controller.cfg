\* Two concurrent requests, two certificates, one of which names nobody, one
\* token, one service with two targets, five policies, of which two or four are
\* in the table at first, two instants, two administrative calls.
CONSTANTS
    Requests = {r1, r2}
    Certs = {"main", "anonymous"}
    NotBefore <- MCNotBefore
    NotAfter <- MCNotAfter
    ClientOf <- MCClientOf
    Lower <- MCLower
    Policies <- MCPolicies
    InitialPolicies <- MCInitialPolicies
    Probes <- MCProbes
    Tokens = {k1}
    Services = {"db"}
    DemoService = "db"
    Targets = {g1, g2}
    MaxTime = 1
    MaxAdmin = 2
    MaxTunnels = 1
    None = None
SYMMETRY Symmetry
SPECIFICATION Spec
INVARIANTS
    RevokedCertGetsNoSession
    DecisionMatchesReference
PROPERTIES
    StaleOnlyIfRaced
    RefusedOnlyIfRaced
CHECK_DEADLOCK FALSE

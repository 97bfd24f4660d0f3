----------------------------- MODULE Controller -----------------------------
(***************************************************************************)
(* The controller's HTTP API: controller/handlers.go over the in-memory    *)
(* tunnel manager (controller/tunnel_manager.go), the certificate registry *)
(* and the policy engine, which share the clock, and over the session      *)
(* manager, of which only the life cycle of a token is seen here           *)
(* (SessionLifecycle, which SessionManager implements).                    *)
(*                                                                         *)
(* The HTTP server runs every request in a goroutine of its own and no     *)
(* lock spans a handler: each look at a store is a step.  Requests that    *)
(* only read (policies, services, stats, a tunnel list) change nothing and *)
(* are no steps; a refusal is a step only when the request had got further *)
(* than its first look.                                                    *)
(*                                                                         *)
(* A tunnel's ID is the time of its creation in nanoseconds, here the      *)
(* clock's instant: two tunnels of one instant have one ID.                *)
(***************************************************************************)
EXTENDS CertRegistry, Policy

CONSTANTS
    Requests,   \* handler goroutines
    ClientOf,   \* the common name in a certificate
    Tokens,     \* session tokens
    Services,
    DemoService,    \* the service handleHandshake asks the policy engine about
    Targets,    \* target addresses of a service
    InitialPolicies,    \* what the table may hold at the first start
    Probes,     \* access requests the decision is compared on
    MaxAdmin,   \* bound: administrative calls and restarts
    MaxTunnels  \* bound: no request for another tunnel once there are so many

ASSUME ControllerAssumption ==
    /\ MaxAdmin \in Nat /\ MaxTunnels \in Nat
    /\ None # NoClient
    /\ None \notin Tokens \cup Services \cup Targets \cup Certs
    /\ \A rows \in InitialPolicies : rows \in Seq(DOMAIN Policies) /\ Distinct(rows)

VARIABLES
    session,    \* the life cycle of each token
    holder,     \* Session.ClientID of each token
    services,   \* InMemoryTunnelManager.services: a target, or None
    updating,   \* an UpdateServiceConfig between its Load and its Store
    tunnels,    \* InMemoryTunnelManager.tunnels, by instant of creation
    pc,         \* where a request's handler is
    arg,        \* and what it has gathered
    admin,      \* administrative calls so far
    during,     \* history: what has happened while a request ran
    revoked     \* history: the certificates that Revoke was called for

vars == <<now, record, policies, session, holder, services, updating, tunnels, pc,
          arg, admin, during, revoked>>
storeVars == <<record, policies, session, holder, services, updating, tunnels, revoked>>

Sessions == INSTANCE SessionLifecycle WITH status <- session

(* What a handler has at its beginning.                                    *)
Given(c, t, s) == [cert |-> c, token |-> t, service |-> s, stamp |-> 0, target |-> None]

Idle == Given(None, None, None)

Tunnel(a) == [token |-> a.token, client |-> holder[a.token],
              service |-> a.service, target |-> a.target]

(* The access request of handleTunnelCreate has no device and no address.  *)
AccessRequest(a) == [client |-> holder[a.token], service |-> a.service,
                     device |-> None, ip |-> FALSE]

Init ==
    /\ ClockInit /\ RegistryInit
    /\ policies \in InitialPolicies
    /\ Sessions!Init
    /\ holder = [t \in Tokens |-> None]
    /\ services \in [Services -> Targets \cup {None}]
    /\ updating = None
    /\ tunnels = [i \in 0 .. MaxTime |-> None]
    /\ pc = [r \in Requests |-> "idle"]
    /\ arg = [r \in Requests |-> Idle]
    /\ admin = 0
    /\ during = [r \in Requests |-> {}]
    /\ revoked = {}

(* Request r goes on at l, or is over.                                     *)
Goto(r, l) == pc' = [pc EXCEPT ![r] = l]

Finish(r) ==
    /\ Goto(r, "idle")
    /\ arg' = [arg EXCEPT ![r] = Idle]
    /\ during' = [during EXCEPT ![r] = {}]

(* History: x happens while the requests of R run.                         *)
Note(R, x) ==
    during' = [r \in Requests |-> IF r \in R THEN during[r] \cup {x} ELSE during[r]]

(* The requests in handleTunnelCreate.                                     *)
Creating == {r \in Requests : arg[r].token # None}

-----------------------------------------------------------------------------
(* handleHandshake.  TLS has verified the certificate when the connection  *)
(* was opened, so it may be past its end here but not before its start.    *)
Handshake(r, c) ==
    /\ pc[r] = "idle" /\ NotBefore[c] <= now
    /\ Goto(r, IF Validate(c) THEN "session" ELSE "register")
    /\ arg' = [arg EXCEPT ![r] = Given(c, None, None)]
    /\ during' = [during EXCEPT ![r] = IF c \in revoked THEN {"begun revoked"} ELSE {}]
    /\ UNCHANGED <<now, storeVars, admin>>

(* Whatever the reason Validate gave, the certificate is registered.       *)
HandshakeRegister(r) ==
    /\ pc[r] = "register" /\ Register(arg[r].cert)
    /\ Goto(r, "session")
    /\ Note({q \in Requests \ {r} : arg[q].cert = arg[r].cert}, "registered")
    /\ UNCHANGED <<now, policies, session, holder, services, updating, tunnels, arg, admin, revoked>>

HandshakeRefused(r) ==
    /\ pc[r] = "register" /\ RegisterFails(arg[r].cert)
    /\ Finish(r)
    /\ UNCHANGED <<now, policies, session, holder, services, updating, tunnels, admin, revoked>>

(* The policy engine is asked about the demo service, and its answer is    *)
(* not used; but it may panic.  CreateSession refuses an empty client ID.  *)
DemoRequest(r) == [client |-> ClientOf[arg[r].cert], service |-> DemoService,
                   device |-> None, ip |-> FALSE]

Sessionless(r) ==
    \/ EvaluateAccess(DemoRequest(r), now) = "panic"
    \/ ClientOf[arg[r].cert] = NoClient

HandshakeSessionFails(r) ==
    /\ pc[r] = "session" /\ Sessionless(r)
    /\ Finish(r)
    /\ UNCHANGED <<now, storeVars, admin>>

HandshakeSession(r, t) ==
    /\ pc[r] = "session" /\ ~Sessionless(r)
    /\ Sessions!Issue(t) /\ session'[t] = "valid"
    /\ holder' = [holder EXCEPT ![t] = ClientOf[arg[r].cert]]
    /\ Finish(r)
    /\ UNCHANGED <<now, record, policies, services, updating, tunnels, admin, revoked>>

(* handleSessionRevoke, a token's expiry and the session cleanup.          *)
SessionEnds(t) ==
    /\ session[t] = "valid" /\ Sessions!Die({t})
    /\ Note({r \in Requests : arg[r].token = t}, "session")
    /\ UNCHANGED <<now, record, policies, holder, services, updating, tunnels, pc, arg, admin, revoked>>

-----------------------------------------------------------------------------
(* handleTunnelCreate: validate the session ...                            *)
TunnelCreate(r, t, s) ==
    /\ pc[r] = "idle" /\ session[t] = "valid"
    /\ Cardinality({i \in 0 .. MaxTime : tunnels[i] # None}) < MaxTunnels
    /\ Goto(r, "service")
    /\ arg' = [arg EXCEPT ![r] = Given(None, t, s)]
    /\ UNCHANGED <<now, storeVars, admin, during>>

(* ... see that the service exists, and take the time for the decision ... *)
CreateService(r) ==
    /\ pc[r] = "service"
    /\ IF services[arg[r].service] = None
       THEN Finish(r)
       ELSE /\ Goto(r, "evaluate")
            /\ arg' = [arg EXCEPT ![r] = [arg[r] EXCEPT !.stamp = now]]
            /\ UNCHANGED during
    /\ UNCHANGED <<now, storeVars, admin>>

(* Variant: a handler that looks at the error only.                        *)
AnyDecision(r) == TRUE

Allowed(r) == EvaluateAccess(AccessRequest(arg[r]), arg[r].stamp) = "yes"

(* ... ask the policy engine, a panic of which ends the request, too ...   *)
CreateEvaluate(r) ==
    /\ pc[r] = "evaluate"
    /\ IF Allowed(r) THEN Goto(r, "create") /\ UNCHANGED <<arg, during>> ELSE Finish(r)
    /\ UNCHANGED <<now, storeVars, admin>>

(* ... CreateTunnel reads the service again ...                            *)
CreateTarget(r) ==
    /\ pc[r] = "create"
    /\ IF services[arg[r].service] = None
       THEN Finish(r)
       ELSE /\ Goto(r, "store")
            /\ arg' = [arg EXCEPT ![r] =
                          [arg[r] EXCEPT !.target = services[arg[r].service]]]
            /\ UNCHANGED during
    /\ UNCHANGED <<now, storeVars, admin>>

(* ... and stores the tunnel.  Notify follows (module Notifier).           *)
CreateStore(r) ==
    /\ pc[r] = "store"
    /\ tunnels' = [tunnels EXCEPT ![now] = Tunnel(arg[r])]
    /\ Finish(r)
    /\ UNCHANGED <<now, record, policies, session, holder, services, updating, admin, revoked>>

(* handleTunnelDelete: any valid session will do.                          *)
TunnelDelete(r, t) ==
    /\ pc[r] = "idle" /\ session[t] = "valid"
    /\ Goto(r, "delete")
    /\ UNCHANGED <<now, storeVars, arg, admin, during>>

DeleteTunnel(r, i) ==
    /\ pc[r] = "delete"
    /\ tunnels' = [tunnels EXCEPT ![i] = None]
    /\ Finish(r)
    /\ UNCHANGED <<now, record, policies, session, holder, services, updating, admin, revoked>>

-----------------------------------------------------------------------------
(* Administrative calls.                                                   *)
Administer == admin < MaxAdmin /\ admin' = admin + 1

(* Registry.Revoke and Registry.CleanExpired.                              *)
RevokeCert(c) ==
    /\ Administer /\ Revoke(c)
    /\ revoked' = revoked \cup {c}
    /\ UNCHANGED <<now, policies, session, holder, services, updating, tunnels, pc, arg, during>>

CleanCerts ==
    /\ Administer /\ CleanExpired /\ record' # record
    /\ UNCHANGED <<now, policies, session, holder, services, updating, tunnels, pc, arg, during, revoked>>

(* AddPolicy and Engine.DeletePolicy.                                      *)
ChangePolicy(p) ==
    /\ Administer
    /\ SavePolicy(p) \/ DeletePolicy(p)
    /\ Note(Creating, "policy")
    /\ UNCHANGED <<now, record, session, holder, services, updating, tunnels, pc, arg, revoked>>

(* AddService and DeleteServiceConfig.                                     *)
SetService(s, g) ==
    /\ Administer
    /\ services' = [services EXCEPT ![s] = g]
    /\ Note({r \in Requests : arg[r].service = s}, "service")
    /\ UNCHANGED <<now, record, policies, session, holder, updating, tunnels, pc, arg, revoked>>

(* UpdateServiceConfig: the service exists, then it is stored.             *)
UpdateLoad(s, g) ==
    /\ Administer /\ updating = None /\ services[s] # None
    /\ updating' = [service |-> s, target |-> g]
    /\ UNCHANGED <<now, record, policies, session, holder, services, tunnels, pc, arg, during, revoked>>

UpdateStore ==
    /\ updating # None
    /\ services' = [services EXCEPT ![updating.service] = updating.target]
    /\ updating' = None
    /\ Note({r \in Requests : arg[r].service = updating.service}, "service")
    /\ UNCHANGED <<now, record, policies, session, holder, tunnels, pc, arg, admin, revoked>>

(* Stop and a new start: the database stays, the memory is lost.           *)
Restart ==
    /\ Administer
    /\ Sessions!Die({t \in Tokens : session[t] = "valid"})
    /\ services' = [s \in Services |-> None]
    /\ updating' = None
    /\ tunnels' = [i \in 0 .. MaxTime |-> None]
    /\ pc' = [r \in Requests |-> "idle"]
    /\ arg' = [r \in Requests |-> Idle]
    /\ during' = [r \in Requests |-> {}]
    /\ UNCHANGED <<now, record, policies, holder, revoked>>

Tick ==
    /\ Advance /\ Note(Creating, "time")
    /\ UNCHANGED <<storeVars, pc, arg, admin>>

Next ==
    \/ \E r \in Requests, c \in Certs : Handshake(r, c)
    \/ \E r \in Requests : HandshakeRegister(r)
    \/ \E r \in Requests : HandshakeRefused(r)
    \/ \E r \in Requests : HandshakeSessionFails(r)
    \/ \E r \in Requests, t \in Tokens : HandshakeSession(r, t)
    \/ \E t \in Tokens : SessionEnds(t)
    \/ \E r \in Requests, t \in Tokens, s \in Services : TunnelCreate(r, t, s)
    \/ \E r \in Requests : CreateService(r)
    \/ \E r \in Requests : CreateEvaluate(r)
    \/ \E r \in Requests : CreateTarget(r)
    \/ \E r \in Requests : CreateStore(r)
    \/ \E r \in Requests, t \in Tokens : TunnelDelete(r, t)
    \/ \E r \in Requests, i \in 0 .. MaxTime : DeleteTunnel(r, i)
    \/ \E c \in Certs : RevokeCert(c)
    \/ CleanCerts
    \/ \E p \in DOMAIN Policies : ChangePolicy(p)
    \/ \E s \in Services, g \in Targets \cup {None} : SetService(s, g)
    \/ \E s \in Services, g \in Targets : UpdateLoad(s, g)
    \/ UpdateStore
    \/ Restart
    \/ Tick

Spec == Init /\ [][Next]_vars

-----------------------------------------------------------------------------
Clients == {ClientOf[c] : c \in Certs} \ {NoClient}

TypeOK ==
    /\ now \in 0 .. MaxTime /\ RegistryTypeOK /\ PolicyTypeOK
    /\ session \in [Tokens -> {"unborn", "valid", "dead"}]
    /\ holder \in [Tokens -> Clients \cup {None}]
    /\ services \in [Services -> Targets \cup {None}]
    /\ updating \in [service : Services, target : Targets] \cup {None}
    /\ tunnels \in [0 .. MaxTime -> {None} \cup
                       [token : Tokens, client : Clients \cup {None},
                        service : Services, target : Targets]]
    /\ pc \in [Requests -> {"idle", "register", "session", "service", "evaluate",
                            "create", "store", "delete"}]
    /\ arg \in [Requests ->
                   [cert : Certs \cup {None}, token : Tokens \cup {None},
                    service : Services \cup {None}, stamp : 0 .. MaxTime,
                    target : Targets \cup {None}]]
    /\ admin \in 0 .. MaxAdmin
    /\ during \in [Requests -> SUBSET {"begun revoked", "registered", "session",
                                       "policy", "service", "time"}]
    /\ revoked \subseteq Certs

(* The checks of handleTunnelCreate are not one step, so a tunnel may be    *)
(* stored that the state no longer justifies; but only when what it rests  *)
(* on changed while its own request ran.  The session was valid, a policy  *)
(* granted the access, and the target is that of the service.              *)
StaleOnlyIfRaced ==
    [][\A r \in Requests : CreateStore(r) =>
          /\ session[arg[r].token] = "valid" \/ "session" \in during[r]
          /\ \/ Granted(holder[arg[r].token], AccessRequest(arg[r]), now)
             \/ during[r] \cap {"policy", "time"} # {}
          /\ services[arg[r].service] = arg[r].target \/ "service" \in during[r]]_vars

(* A handshake that begins after Revoke was called for its certificate     *)
(* gets to no session, whatever cleanups, registrations and restarts came  *)
(* in between: the handler answers a revoked certificate by registering it *)
(* anew, and only the row that the table keeps and its unique index stop   *)
(* it.                                                                     *)
RevokedCertGetsNoSession ==
    \A r \in Requests : pc[r] = "session" => "begun revoked" \notin during[r]

(* A handshake with a certificate in its dates that nobody revoked is      *)
(* refused only if another handshake registered it between this one's Validate and *)
(* Register.                                                               *)
RefusedOnlyIfRaced ==
    [][\A r \in Requests : HandshakeRefused(r) =>
          LET c == arg[r].cert
          IN  \/ c \in revoked \/ now < NotBefore[c] \/ now > NotAfter[c]
              \/ "registered" \in during[r]]_vars

(* EvaluateAccess, which walks the rows in order, skips those it cannot    *)
(* evaluate and stops at the first that grants, allows exactly what the    *)
(* set of policies grants, to the client named or, when none is, to any.   *)
(* Only a policy with a null among its bounds, which is a panic, may keep  *)
(* another from granting.                                                  *)
DecisionMatchesReference ==
    \A i \in DOMAIN Probes :
        LET decision == EvaluateAccess(Probes[i], now)
            granted == \E c \in Meant(Probes[i]) : Granted(c, Probes[i], now)
        IN  /\ decision = "yes" => granted
            /\ granted => \/ decision = "yes"
                          \/ \E c \in Meant(Probes[i]) : Unreadable(c, Probes[i])
=============================================================================

------------------------------- MODULE Agents -------------------------------
(***************************************************************************)
(* A tunnel from end to end: examples/ih-client/main.go, the controller    *)
(* and its relay as the agents see them, and examples/ah-agent/main.go.    *)
(*                                                                         *)
(*    user --L-- IH client --P-- relay --Q-- AH agent --T-- target         *)
(*                                                                         *)
(* The IH client creates one tunnel when it starts and uses it for every   *)
(* user connection.  The AH agent opens one connection to the target and   *)
(* one to the relay for each "created" event it receives.  The relay pairs *)
(* a connection of each side, and closes one that waits too long.          *)
(*                                                                         *)
(* A socket is up while both its ends are open; the process at the other   *)
(* end of a closed one finds out when it copies.  The relay and the event  *)
(* stream are abstract here: their detail is in TunnelRelay, Notifier and  *)
(* Subscriber.  Which of several waiting users is paired is left open.     *)
(***************************************************************************)
EXTENDS Naturals, FiniteSets

CONSTANT Users      \* user connections to the IH client

VARIABLES
    start,      \* where the IH client's main is
    service,    \* queryPolicies has found a service
    shutdown,   \* p.shutdown is closed
    listening,  \* p.listener is open
    loop,       \* where acceptLoop is
    active,     \* p.active
    wg,         \* p.wg
    ih,         \* where each user connection's handler is
    stopPC,     \* where IHProxy.Stop is
    up,         \* the sockets that are up
    relay,      \* where the relay's handler of each IH connection is
    ahRelay,    \* and that of the AH connection
    subscribed, \* the AH agent's event stream is open
    ah          \* what the AH agent does with the tunnel

ihVars == <<start, service, shutdown, listening, loop, active, wg, ih, stopPC>>
ahVars == <<subscribed, ah>>
agentsVars == <<ihVars, up, relay, ahRelay, ahVars>>

L(u) == <<"L", u>>
P(u) == <<"P", u>>
Q == <<"Q">>
T == <<"T">>

AgentsInit ==
    /\ start = "handshake" /\ service = FALSE /\ shutdown = FALSE /\ listening = FALSE
    /\ loop = "off" /\ active = {} /\ wg = 0
    /\ ih = [u \in Users |-> "none"]
    /\ stopPC = "off" /\ up = {}
    /\ relay = [u \in Users |-> "none"]
    /\ ahRelay = "none" /\ subscribed = FALSE /\ ah = "none"

-----------------------------------------------------------------------------
(* The IH client's main: a failed handshake ends it, failed policies are   *)
(* ignored, and without a tunnel of its own it uses the ID it was given.   *)
Handshake(ok) ==
    /\ start = "handshake" /\ start' = IF ok THEN "policies" ELSE "failed"
    /\ UNCHANGED <<service, shutdown, listening, loop, active, wg, ih, stopPC, up, relay,
                   ahRelay, ahVars>>

QueryPolicies(found) ==
    /\ start = "policies" /\ start' = "tunnel" /\ service' = found
    /\ UNCHANGED <<shutdown, listening, loop, active, wg, ih, stopPC, up, relay, ahRelay, ahVars>>

(* The controller announces the tunnel to the agents that are subscribed.  *)
CreateTunnel(ok) ==
    /\ start = "tunnel" /\ start' = "listen" /\ (ok => service)
    /\ ah' = IF ok /\ subscribed /\ ah = "none" THEN "created" ELSE ah
    /\ UNCHANGED <<service, shutdown, listening, loop, active, wg, ih, stopPC, up, relay,
                   ahRelay, subscribed>>

Start ==
    /\ start = "listen" /\ start' = "running"
    /\ listening' = TRUE /\ loop' = "check" /\ wg' = wg + 1
    /\ UNCHANGED <<service, shutdown, active, ih, stopPC, up, relay, ahRelay, ahVars>>

-----------------------------------------------------------------------------
(* acceptLoop: looks at shutdown before each Accept, which times out.      *)
LoopCheck ==
    /\ loop = "check" /\ loop' = IF shutdown THEN "over" ELSE "accept"
    /\ wg' = IF shutdown THEN wg - 1 ELSE wg
    /\ UNCHANGED <<start, service, shutdown, listening, active, ih, stopPC, up, relay, ahRelay, ahVars>>

AcceptTimeout ==
    /\ loop = "accept" /\ loop' = "check"
    /\ UNCHANGED <<start, service, shutdown, listening, active, wg, ih, stopPC, up, relay, ahRelay, ahVars>>

(* Variant: the handler is not entered into the wait group.                *)
SpawnUnentered == wg' = wg

Enter == wg' = wg + 1

Accept(u) ==
    /\ loop = "accept" /\ listening /\ ih[u] = "none"
    /\ loop' = "check" /\ Enter
    /\ ih' = [ih EXCEPT ![u] = "accepted"] /\ up' = up \cup {L(u)}
    /\ UNCHANGED <<start, service, shutdown, listening, active, stopPC, relay, ahRelay, ahVars>>

(* handleConnection: register ...                                          *)
Register(u) ==
    /\ ih[u] = "accepted" /\ ih' = [ih EXCEPT ![u] = "dial"]
    /\ active' = active \cup {u}
    /\ UNCHANGED <<start, service, shutdown, listening, loop, wg, stopPC, up, relay, ahRelay, ahVars>>

(* ... DataPlaneClient.Connect: dial and send the tunnel ID ...            *)
Connect(u) ==
    /\ ih[u] = "dial" /\ ih' = [ih EXCEPT ![u] = "copy"]
    /\ up' = up \cup {P(u)} /\ relay' = [relay EXCEPT ![u] = "waiting"]
    /\ UNCHANGED <<start, service, shutdown, listening, loop, active, wg, stopPC, ahRelay, ahVars>>

ConnectFails(u) ==
    /\ ih[u] = "dial" /\ ih' = [ih EXCEPT ![u] = "closed"]
    /\ up' = up \ {L(u)}
    /\ UNCHANGED <<start, service, shutdown, listening, loop, active, wg, stopPC, relay, ahRelay, ahVars>>

(* Variant: shutdown is not watched.                                       *)
CopyEndsItself(u) ==
    /\ ih[u] = "copy" /\ ~({L(u), P(u)} \subseteq up)
    /\ ih' = [ih EXCEPT ![u] = "closed"] /\ up' = up \ {L(u), P(u)}
    /\ UNCHANGED <<start, service, shutdown, listening, loop, active, wg, stopPC, relay, ahRelay, ahVars>>

(* ... copy until one direction ends, or shutdown ...                      *)
CopyEnds(u) ==
    /\ ih[u] = "copy"
    /\ shutdown \/ ~({L(u), P(u)} \subseteq up)
    /\ ih' = [ih EXCEPT ![u] = "closed"] /\ up' = up \ {L(u), P(u)}
    /\ UNCHANGED <<start, service, shutdown, listening, loop, active, wg, stopPC, relay, ahRelay, ahVars>>

(* ... and leave.                                                          *)
Leave(u) ==
    /\ ih[u] = "closed" /\ ih' = [ih EXCEPT ![u] = "over"]
    /\ active' = active \ {u} /\ wg' = wg - 1
    /\ UNCHANGED <<start, service, shutdown, listening, loop, stopPC, up, relay, ahRelay, ahVars>>

(* IHProxy.Stop.                                                           *)
StopShutdown ==
    /\ start = "running" /\ stopPC = "off" /\ stopPC' = "listener" /\ shutdown' = TRUE
    /\ UNCHANGED <<start, service, listening, loop, active, wg, ih, up, relay, ahRelay, ahVars>>

StopListener ==
    /\ stopPC = "listener" /\ stopPC' = "conns" /\ listening' = FALSE
    /\ UNCHANGED <<start, service, shutdown, loop, active, wg, ih, up, relay, ahRelay, ahVars>>

StopConns ==
    /\ stopPC = "conns" /\ stopPC' = "wait" /\ up' = up \ {L(u) : u \in active}
    /\ UNCHANGED <<start, service, shutdown, listening, loop, active, wg, ih, relay, ahRelay, ahVars>>

StopWait ==
    /\ stopPC = "wait" /\ wg = 0 /\ stopPC' = "done"
    /\ UNCHANGED <<start, service, shutdown, listening, loop, active, wg, ih, up, relay, ahRelay, ahVars>>

-----------------------------------------------------------------------------
(* The relay, as the agents see it (module TunnelRelay has its detail).  A *)
(* waiting connection is not read, so one that went down is paired too.    *)
(* The handler of a connection that was taken is not told: it polls on     *)
(* until its timeout, and an entry stays a moment after its handler took a *)
(* partner.  So the agent's connection may be in two relays at once, of    *)
(* two users or, when each took the other, of one.                         *)

(* The user's handler takes the agent's connection ...                     *)
TakeAgent(u) ==
    /\ relay[u] \in {"waiting", "taken"} /\ ahRelay \in {"waiting", "took"}
    /\ relay' = [relay EXCEPT ![u] = IF @ = "waiting" THEN "took" ELSE "both"]
    /\ ahRelay' = IF ahRelay = "waiting" THEN "taken" ELSE "both"
    /\ UNCHANGED <<ihVars, up, ahVars>>

(* ... or the agent's handler the user's.                                  *)
TakeUser(u) ==
    /\ relay[u] \in {"waiting", "took"} /\ ahRelay \in {"waiting", "taken"}
    /\ relay' = [relay EXCEPT ![u] = IF @ = "waiting" THEN "taken" ELSE "both"]
    /\ ahRelay' = IF ahRelay = "waiting" THEN "took" ELSE "both"
    /\ UNCHANGED <<ihVars, up, ahVars>>

(* Variant: the connection is forgotten, not closed.                       *)
ForgetWaiting(u) ==
    /\ relay[u] = "waiting" /\ relay' = [relay EXCEPT ![u] = "over"]
    /\ UNCHANGED <<ihVars, up, ahRelay, ahVars>>

PairingTimeout(u) ==
    /\ relay[u] = "waiting" /\ relay' = [relay EXCEPT ![u] = "over"]
    /\ up' = up \ {P(u)}
    /\ UNCHANGED <<ihVars, ahRelay, ahVars>>

(* The timeout of a handler whose connection was taken closes it under the *)
(* relay, which goes on for now.                                           *)
TakenTimeout(u) ==
    /\ relay[u] = "taken" /\ P(u) \in up /\ up' = up \ {P(u)}
    /\ UNCHANGED <<ihVars, relay, ahRelay, ahVars>>

(* Both timeouts, for the agent's connection.                              *)
PairingTimeoutAH ==
    /\ ahRelay \in {"waiting", "taken"} /\ ahRelay' = "over" /\ up' = up \ {Q}
    /\ UNCHANGED <<ihVars, relay, ahVars>>

(* Variant: only the agent's connection is closed.                         *)
CloseAgents(u) == up' = up \ {Q}

CloseBoth(u) == up' = up \ {P(u), Q}

Carried(u) == relay[u] \in {"took", "taken", "both"}

(* relayData returns, and with it the handler that took the other one.     *)
RelayEnds(u) ==
    /\ Carried(u) /\ ~({P(u), Q} \subseteq up)
    /\ relay' = [relay EXCEPT ![u] = "over"]
    /\ ahRelay' = IF relay[u] = "took" THEN ahRelay ELSE "over"
    /\ CloseBoth(u)
    /\ UNCHANGED <<ihVars, ahVars>>

-----------------------------------------------------------------------------
(* The AH agent: the services are fetched, then the events are subscribed  *)
(* to; an event in between is missed.                                      *)
Subscribe ==
    /\ ~subscribed /\ ah # "exited" /\ subscribed' = TRUE
    /\ UNCHANGED <<ihVars, up, relay, ahRelay, ah>>

(* handleTunnelCreated: an unknown service or a dead target ends it ...    *)
DialTarget(ok) ==
    /\ ah = "created" /\ ah' = IF ok THEN "dialled" ELSE "over"
    /\ up' = IF ok THEN up \cup {T} ELSE up
    /\ UNCHANGED <<ihVars, relay, ahRelay, subscribed>>

(* Variant: the target is left open when the relay cannot be reached.      *)
KeepTarget == up' = up

DropTarget == up' = up \ {T}

(* ... then the relay; the tunnel is recorded and forwarded.               *)
ConnectRelay ==
    /\ ah = "dialled" /\ ah' = "forwarding"
    /\ up' = up \cup {Q} /\ ahRelay' = "waiting"
    /\ UNCHANGED <<ihVars, relay, subscribed>>

ConnectRelayFails ==
    /\ ah = "dialled" /\ ah' = "over" /\ DropTarget
    /\ UNCHANGED <<ihVars, relay, ahRelay, subscribed>>

(* handleTunnelDeleted, for a "deleted" event of this tunnel, and cleanup  *)
(* cancel the forwarding.                                                  *)
TunnelDeleted ==
    /\ ah = "forwarding" /\ ah' = "cancelled"
    /\ UNCHANGED <<ihVars, up, relay, ahRelay, subscribed>>

(* forwardData.                                                            *)
ForwardEnds ==
    /\ ah = "cancelled" \/ (ah = "forwarding" /\ ~({Q, T} \subseteq up))
    /\ ah' = "over" /\ up' = up \ {Q, T}
    /\ UNCHANGED <<ihVars, relay, ahRelay, subscribed>>

(* A signal: cancel, cleanup, and the process is gone.                     *)
ExitAH ==
    /\ ah # "exited" /\ ah' = "exited" /\ subscribed' = FALSE
    /\ up' = up \ {Q, T}
    /\ UNCHANGED <<ihVars, relay, ahRelay>>

-----------------------------------------------------------------------------
(* The user or the target hangs up.                                        *)
HangUp(s) ==
    /\ s \in up \cap ({L(u) : u \in Users} \cup {T}) /\ up' = up \ {s}
    /\ UNCHANGED <<ihVars, relay, ahRelay, ahVars>>

Main ==
    \/ \E b \in BOOLEAN : Handshake(b) \/ QueryPolicies(b) \/ CreateTunnel(b)
    \/ Start

AcceptLoop == LoopCheck \/ AcceptTimeout

HandleConnection(u) ==
    Register(u) \/ Connect(u) \/ ConnectFails(u) \/ CopyEnds(u) \/ Leave(u)

Stop == StopListener \/ StopConns \/ StopWait

Relay(u) ==
    TakeAgent(u) \/ TakeUser(u) \/ PairingTimeout(u) \/ TakenTimeout(u) \/ RelayEnds(u)

HandleCreated == \/ \E b \in BOOLEAN : DialTarget(b)
                 \/ ConnectRelay \/ ConnectRelayFails

AgentsNext ==
    \/ Main
    \/ AcceptLoop
    \/ \E u \in Users : Accept(u)
    \/ \E u \in Users : HandleConnection(u)
    \/ StopShutdown
    \/ Stop
    \/ \E u \in Users : Relay(u)
    \/ PairingTimeoutAH
    \/ Subscribe
    \/ HandleCreated
    \/ TunnelDeleted
    \/ ForwardEnds
    \/ ExitAH
    \/ \E s \in up : HangUp(s)

AgentsSpec == AgentsInit /\ [][AgentsNext]_agentsVars

(* Every goroutine goes on and timeouts pass; nobody has to connect, hang  *)
(* up, stop, exit, subscribe or start.                                     *)
AgentsFairSpec ==
    /\ AgentsSpec
    /\ WF_agentsVars(AcceptLoop) /\ WF_agentsVars(Stop)
    /\ \A u \in Users : WF_agentsVars(HandleConnection(u)) /\ WF_agentsVars(Relay(u))
    /\ WF_agentsVars(PairingTimeoutAH) /\ WF_agentsVars(HandleCreated) /\ WF_agentsVars(ForwardEnds)

-----------------------------------------------------------------------------
Sockets == {L(u) : u \in Users} \cup {P(u) : u \in Users} \cup {Q, T}

AgentsTypeOK ==
    /\ start \in {"handshake", "failed", "policies", "tunnel", "listen", "running"}
    /\ {service, shutdown, listening, subscribed} \subseteq BOOLEAN
    /\ loop \in {"off", "check", "accept", "over"} /\ active \subseteq Users
    /\ wg \in Nat
    /\ ih \in [Users -> {"none", "accepted", "dial", "copy", "closed", "over"}]
    /\ stopPC \in {"off", "listener", "conns", "wait", "done"}
    /\ up \subseteq Sockets
    /\ relay \in [Users -> {"none", "waiting", "took", "taken", "both", "over"}]
    /\ ahRelay \in {"none", "waiting", "took", "taken", "both", "over"}
    /\ ah \in {"none", "created", "dialled", "forwarding", "cancelled", "over", "exited"}

(* When Stop of the IH client has returned, no user connection and no      *)
(* connection to the relay is open, not even of a user who was accepted    *)
(* between close(p.shutdown) and the close of the listener, or registered  *)
(* after Stop went through p.active.                                       *)
StopLeavesNothing ==
    stopPC = "done" => \A u \in Users : u \notin active /\ L(u) \notin up /\ P(u) \notin up

(* Stop of the IH client returns.                                          *)
StopReturns == shutdown ~> (stopPC = "done")

(* A hang-up, an exit or a cancellation anywhere on a tunnel that is       *)
(* carried reaches all of it, through three processes.                     *)
HangUpReachesAll ==
    \A u \in Users :
        (Carried(u) /\ ~({L(u), P(u), Q, T} \subseteq up)) ~> (up \cap {L(u), P(u), Q, T} = {})

(* A user is not left hanging: a connection is paired with the agent's, or *)
(* closed, even when the agent missed the event or has no such service.    *)
UserPairedOrClosed ==
    \A u \in Users : (ih[u] = "accepted") ~> (Carried(u) \/ L(u) \notin up)

(* Once the IH client has stopped, the agent's connections to the relay    *)
(* and to the target are closed for good.                                  *)
StopReleasesTarget == (stopPC = "done") ~> [](up \cap {Q, T} = {})
=============================================================================

------------------------------ MODULE Notifier ------------------------------
(***************************************************************************)
(* The controller's event push: tunnel/notifier.go, and the handler of     *)
(* /api/v1/tunnels/events in controller/handlers.go that runs it.          *)
(*                                                                         *)
(* A subscription is one call of Subscribe: it stores a client record with *)
(* two buffered channels under the agent's ID, replacing whatever is there,*)
(* and then runs an event loop.  A call is one call of Notify,             *)
(* NotifyService, NotifyOne or NotifyServiceOne; its event has the call's  *)
(* name.  The map is a sync.Map: a call loads an entry in one step and     *)
(* sends to the record it got in another.                                  *)
(*                                                                         *)
(* Writing a frame takes a step of its own: a client may stop reading, and *)
(* when the buffers on the way to it are full, a write blocks for ever     *)
(* (the response has no deadline).  A write to a client that has closed    *)
(* its connection is an error the code ignores, so the loop runs on as if  *)
(* the client were there.                                                  *)
(*                                                                         *)
(* Abstracted: an event is its call, frames have no contents, LastPing is  *)
(* never read.  A panic ends its goroutine and is recorded.                *)
(***************************************************************************)
EXTENDS Integers, Sequences

CONSTANTS
    Subs,             \* calls of Subscribe, by handleTunnelEventsSSE
    Agents,           \* agent_id values ("unknown" when the request has none)
    Calls,            \* calls of the four notify methods
    Unsubs,           \* calls of Unsubscribe by other code
    Stallers,         \* subscriptions whose HTTP client may stop reading
    Cap,              \* capacity of a client's channel (10)
    Unencodable,      \* calls whose event json.Marshal refuses (its metadata)
    None

Kinds == {"tunnel", "service"}

ASSUME CapAssumption == Cap \in Nat \ {0}
ASSUME MarshalAssumption == Unencodable \subseteq Calls
ASSUME NotifierNoneAssumption ==
    None \notin Subs \cup Agents \cup Calls \cup Unsubs \cup Kinds
ASSUME ActorsAssumption == Subs \cap Unsubs = {} /\ Stallers \subseteq Subs

VARIABLES
    clients,    \* n.clients: agent -> subscription
    agent,      \* the agentID each subscription was made with
    channel,    \* TunnelChannel and ServiceChannel of each client
    doneClosed, \* clients whose Done is closed
    pc,         \* where each Subscribe, and the handler around it, stands
    failed,     \* subscriptions that left the loop with an error
    stalled,    \* subscriptions to whose client nothing can be written any more
    callKind,   \* the channel a call sends to; None before the call
    todo,       \* agents the call's Range or Load has still to look at
    target,     \* record a call has loaded and not yet sent to
    latest,     \* history: the last subscription made with an agent ID
    owed,       \* history: Subscribed when a broadcast began
    missed,     \* history: subscriptions a broadcast passed over
    holding,    \* record an Unsubscribe has taken and not yet closed
    over,       \* calls of Unsubscribe that are over
    closedTwice \* subscriptions whose Done was closed twice: a panic

vars == <<clients, agent, channel, doneClosed, pc, failed, stalled, callKind,
          todo, target, latest, owed, missed, holding, over, closedTwice>>
subVars  == <<agent, pc, failed, stalled, latest>>
callVars == <<callKind, todo, target, owed, missed>>

Unsubscribers == Subs \cup Unsubs

Init ==
    /\ clients = [a \in Agents |-> None]
    /\ agent = [s \in Subs |-> None]
    /\ channel = [s \in Subs |-> [k \in Kinds |-> <<>>]]
    /\ doneClosed = {}
    /\ pc = [s \in Subs |-> "new"]
    /\ failed = {}
    /\ stalled = {}
    /\ callKind = [c \in Calls |-> None]
    /\ todo = [c \in Calls |-> {}]
    /\ target = [c \in Calls |-> None]
    /\ latest = [a \in Agents |-> None]
    /\ owed = [c \in Calls |-> {}]
    /\ missed = {}
    /\ holding = [u \in Unsubscribers |-> None]
    /\ over = {}
    /\ closedTwice = {}

(* Subscribe has stored its client and has not returned.                   *)
InLoop(s) == pc[s] \in {"loop", "write"}

-----------------------------------------------------------------------------
(* Subscribe.                                                              *)

(* The client is stored under its ID; the "connected" frame is on its way. *)
Subscribe(s, a) ==
    /\ pc[s] = "new"
    /\ agent' = [agent EXCEPT ![s] = a]
    /\ clients' = [clients EXCEPT ![a] = s]
    /\ latest' = [latest EXCEPT ![a] = s]
    /\ pc' = [pc EXCEPT ![s] = "write"]
    /\ UNCHANGED <<channel, doneClosed, failed, stalled, callVars,
                   holding, over, closedTwice>>

(* A frame is out, and the loop goes on.                                   *)
Written(s) ==
    /\ pc[s] = "write"
    /\ s \notin stalled
    /\ pc' = [pc EXCEPT ![s] = "loop"]
    /\ UNCHANGED <<clients, agent, channel, doneClosed, failed, stalled, latest, callVars,
                   holding, over, closedTwice>>

(* The heartbeat's ticker: a comment is written.  To a client that reads   *)
(* this changes nothing and is no step; to one that does not, it blocks.   *)
Ping(s) ==
    /\ pc[s] = "loop"
    /\ s \in stalled
    /\ pc' = [pc EXCEPT ![s] = "write"]
    /\ UNCHANGED <<clients, agent, channel, doneClosed, failed, stalled, latest, callVars,
                   holding, over, closedTwice>>

(* The loop can receive from channel k; variant: it has no case for        *)
(* service events.                                                         *)
ReadyTunnelOnly(s, k) == pc[s] = "loop" /\ k = "tunnel" /\ channel[s][k] # <<>>

Ready(s, k) == pc[s] = "loop" /\ channel[s][k] # <<>>

(* One turn of the loop: an event of either channel is taken and written   *)
(* out ...                                                                 *)
Deliver(s, k) ==
    /\ Ready(s, k)
    /\ Head(channel[s][k]) \notin Unencodable
    /\ channel' = [channel EXCEPT ![s] = [channel[s] EXCEPT ![k] = Tail(@)]]
    /\ pc' = [pc EXCEPT ![s] = "write"]
    /\ UNCHANGED <<clients, agent, doneClosed, failed, stalled, latest, callVars,
                   holding, over, closedTwice>>

(* ... or cannot be encoded, which ends the subscription with an error ... *)
MarshalFail(s, k) ==
    /\ Ready(s, k)
    /\ Head(channel[s][k]) \in Unencodable
    /\ channel' = [channel EXCEPT ![s] = [channel[s] EXCEPT ![k] = Tail(@)]]
    /\ failed' = failed \cup {s}
    /\ pc' = [pc EXCEPT ![s] = "delete"]
    /\ UNCHANGED <<clients, agent, doneClosed, stalled, latest,
                   callVars, holding, over, closedTwice>>

(* ... or Done is closed.  Nothing else ends the loop.                     *)
SeeDone(s) ==
    /\ pc[s] = "loop"
    /\ s \in doneClosed
    /\ pc' = [pc EXCEPT ![s] = "delete"]
    /\ UNCHANGED <<clients, agent, channel, doneClosed, failed, stalled, latest,
                   callVars, holding, over, closedTwice>>

(* The deferred function deletes by ID, whoever is stored under it now.    *)
DeferredDelete(s) ==
    /\ pc[s] = "delete"
    /\ clients' = [clients EXCEPT ![agent[s]] = None]
    /\ pc' = [pc EXCEPT ![s] = "check"]
    /\ UNCHANGED <<agent, channel, doneClosed, failed, stalled, latest,
                   callVars, holding, over, closedTwice>>

(* It looks whether Done is closed, and if not, closes it; variant: it     *)
(* does not look.                                                          *)
CloseUnchecked(s) == "close"

CloseIfOpen(s) == IF s \in doneClosed THEN "return" ELSE "close"

DeferredCheck(s) ==
    /\ pc[s] = "check"
    /\ pc' = [pc EXCEPT ![s] = CloseIfOpen(s)]
    /\ UNCHANGED <<clients, agent, channel, doneClosed, failed, stalled, latest,
                   callVars, holding, over, closedTwice>>

DeferredClose(s) ==
    /\ pc[s] = "close"
    /\ closedTwice' = closedTwice \cup ({s} \cap doneClosed)
    /\ doneClosed' = doneClosed \cup {s}
    /\ pc' = [pc EXCEPT ![s] = IF s \in doneClosed THEN "end" ELSE "return"]
    /\ UNCHANGED <<clients, agent, channel, failed, stalled, latest, callVars,
                   holding, over>>

(* The HTTP handler: after an error it only writes a reply, else its       *)
(* deferred Unsubscribe(agentID) runs.                                     *)
HandlerReturn(s) ==
    /\ pc[s] = "return"
    /\ pc' = [pc EXCEPT ![s] = IF s \in failed THEN "end" ELSE "unsubscribe"]
    /\ UNCHANGED <<clients, agent, channel, doneClosed, failed, stalled, latest,
                   callVars, holding, over, closedTwice>>

(* The HTTP client has stopped reading and the buffers are full.           *)
Stall(s) ==
    /\ s \in Stallers
    /\ InLoop(s)
    /\ stalled' = stalled \cup {s}
    /\ UNCHANGED <<clients, agent, channel, doneClosed, pc, failed, latest,
                   callVars, holding, over, closedTwice>>

-----------------------------------------------------------------------------
(* Unsubscribe: LoadAndDelete, then close(client.Done) of what it got.     *)

MayUnsubscribe(u, a) ==
    IF u \in Subs THEN pc[u] = "unsubscribe" /\ a = agent[u] ELSE TRUE

TakeEntry(a) == clients' = [clients EXCEPT ![a] = None]

LoadAndDelete(u, a) ==
    /\ u \notin over
    /\ holding[u] = None
    /\ MayUnsubscribe(u, a)
    /\ holding' = [holding EXCEPT ![u] = clients[a]]
    /\ TakeEntry(a)
    /\ over' = IF clients[a] = None THEN over \cup {u} ELSE over
    /\ UNCHANGED <<channel, doneClosed, subVars, callVars, closedTwice>>

(* close(client.Done); variant: it is forgotten.                           *)
CloseNothing(s) == doneClosed' = doneClosed

CloseChan(s) == doneClosed' = doneClosed \cup {s}

CloseDone(u) ==
    /\ holding[u] # None
    /\ closedTwice' = closedTwice \cup ({holding[u]} \cap doneClosed)
    /\ CloseChan(holding[u])
    /\ holding' = [holding EXCEPT ![u] = None]
    /\ over' = over \cup {u}
    /\ UNCHANGED <<clients, channel, subVars, callVars>>

-----------------------------------------------------------------------------
(* Notify, NotifyService (everyone), NotifyOne, NotifyServiceOne (one).    *)

(* The subscriptions a client believes to have: in the loop, not being     *)
(* ended, and not followed by another one with the same ID.                *)
Subscribed == {s \in Subs : /\ InLoop(s)
                            /\ s \notin doneClosed
                            /\ \A u \in Unsubscribers : holding[u] # s
                            /\ latest[agent[s]] = s}

(* Range visits every key present all the time, others perhaps.            *)
NotifyAll(c, k, A) ==
    /\ callKind[c] = None
    /\ {a \in Agents : clients[a] # None} \subseteq A
    /\ callKind' = [callKind EXCEPT ![c] = k]
    /\ todo' = [todo EXCEPT ![c] = A]
    /\ owed' = [owed EXCEPT ![c] = Subscribed]
    /\ missed' = IF A = {} THEN missed \cup Subscribed ELSE missed
    /\ UNCHANGED <<clients, channel, doneClosed, subVars, target, holding, over,
                   closedTwice>>

NotifyOne(c, k, a) ==
    /\ callKind[c] = None
    /\ callKind' = [callKind EXCEPT ![c] = k]
    /\ todo' = [todo EXCEPT ![c] = {a}]
    /\ UNCHANGED <<clients, channel, doneClosed, subVars, target, owed, missed,
                   holding, over, closedTwice>>

(* What the broadcast passed over, when it ends with this step.            *)
PassedOver(c, left) == IF left = {} THEN owed[c] \cap Subscribed ELSE {}

LoadClient(c, a) ==
    /\ target[c] = None
    /\ a \in todo[c]
    /\ target' = [target EXCEPT ![c] = clients[a]]
    /\ todo' = [todo EXCEPT ![c] = @ \ {a}]
    /\ missed' = IF clients[a] = None THEN missed \cup PassedOver(c, todo'[c])
                                      ELSE missed
    /\ UNCHANGED <<clients, channel, doneClosed, subVars, callKind, owed,
                   holding, over, closedTwice>>

(* Whether a buffered channel takes another event.                         *)
Room(ch) == Len(ch) < Cap

(* select: the event fits in the channel, or Done is closed, or (default)  *)
(* neither, and the event is dropped.  Variant: there is no default case,  *)
(* and the caller waits.                                                   *)
SendOrWait(c) ==
    LET s == target[c]
        k == callKind[c]
    IN  /\ s # None
        /\ \/ /\ Room(channel[s][k])
              /\ channel' = [channel EXCEPT ![s] =
                                [channel[s] EXCEPT ![k] = Append(@, c)]]
           \/ /\ s \in doneClosed
              /\ UNCHANGED channel
        /\ target' = [target EXCEPT ![c] = None]
        /\ owed' = [owed EXCEPT ![c] = @ \ {s}]
        /\ missed' = missed \cup (PassedOver(c, todo[c]) \ {s})
        /\ UNCHANGED <<clients, doneClosed, subVars, callKind, todo,
                       holding, over, closedTwice>>

Send(c) ==
    LET s == target[c]
        k == callKind[c]
    IN  /\ s # None
        /\ \/ /\ Room(channel[s][k])
              /\ channel' = [channel EXCEPT ![s] =
                                [channel[s] EXCEPT ![k] = Append(@, c)]]
           \/ /\ s \in doneClosed \/ ~Room(channel[s][k])
              /\ UNCHANGED channel
        /\ target' = [target EXCEPT ![c] = None]
        /\ owed' = [owed EXCEPT ![c] = @ \ {s}]
        /\ missed' = missed \cup (PassedOver(c, todo[c]) \ {s})
        /\ UNCHANGED <<clients, doneClosed, subVars, callKind, todo,
                       holding, over, closedTwice>>

-----------------------------------------------------------------------------
Next ==
    \/ \E s \in Subs, a \in Agents : Subscribe(s, a)
    \/ \E s \in Subs : Written(s)
    \/ \E s \in Subs : Ping(s)
    \/ \E s \in Subs, k \in Kinds : Deliver(s, k)
    \/ \E s \in Subs, k \in Kinds : MarshalFail(s, k)
    \/ \E s \in Subs : SeeDone(s)
    \/ \E s \in Subs : DeferredDelete(s)
    \/ \E s \in Subs : DeferredCheck(s)
    \/ \E s \in Subs : DeferredClose(s)
    \/ \E s \in Subs : HandlerReturn(s)
    \/ \E s \in Subs : Stall(s)
    \/ \E u \in Unsubscribers, a \in Agents : LoadAndDelete(u, a)
    \/ \E u \in Unsubscribers : CloseDone(u)
    \/ \E c \in Calls, k \in Kinds, A \in SUBSET Agents : NotifyAll(c, k, A)
    \/ \E c \in Calls, k \in Kinds, a \in Agents : NotifyOne(c, k, a)
    \/ \E c \in Calls, a \in Agents : LoadClient(c, a)
    \/ \E c \in Calls : Send(c)

Spec == Init /\ [][Next]_vars

(* Goroutines that can run do run; a select picks a ready case in the end. *)
(* Nothing is assumed of a client that stops reading.                      *)
FairSpec ==
    /\ Spec
    /\ \A s \in Subs : WF_vars(Written(s))
    /\ \A s \in Subs, k \in Kinds : WF_vars(Deliver(s, k) \/ MarshalFail(s, k))
    /\ \A s \in Subs : WF_vars(SeeDone(s))
    /\ \A s \in Subs : WF_vars(DeferredDelete(s) \/ DeferredCheck(s) \/ DeferredClose(s))
    /\ \A s \in Subs : WF_vars(HandlerReturn(s) \/ LoadAndDelete(s, agent[s]))
    /\ \A u \in Unsubscribers : WF_vars(CloseDone(u))
    /\ \A c \in Calls : WF_vars(Send(c) \/ \E a \in Agents : LoadClient(c, a))

-----------------------------------------------------------------------------
(* Types, and the bound of the channels.                                   *)
TypeOK ==
    /\ clients \in [Agents -> Subs \cup {None}]
    /\ agent \in [Subs -> Agents \cup {None}]
    /\ channel \in [Subs -> [Kinds -> Seq(Calls)]]
    /\ \A s \in Subs, k \in Kinds : Len(channel[s][k]) <= Cap
    /\ doneClosed \subseteq Subs
    /\ pc \in [Subs -> {"new", "loop", "write", "delete", "check", "close", "return",
                        "unsubscribe", "end"}]
    /\ failed \subseteq Subs /\ stalled \subseteq Subs
    /\ callKind \in [Calls -> Kinds \cup {None}]
    /\ todo \in [Calls -> SUBSET Agents]
    /\ target \in [Calls -> Subs \cup {None}]
    /\ owed \in [Calls -> SUBSET Subs]
    /\ latest \in [Agents -> Subs \cup {None}]
    /\ missed \subseteq Subs
    /\ holding \in [Unsubscribers -> Subs \cup {None}]
    /\ over \subseteq Unsubscribers
    /\ closedTwice \subseteq Subs

(* Whoever finds a client in the map finds one that is in its event loop,  *)
(* or has just left it, and whose Done is still open: so Unsubscribe may   *)
(* close Done without looking, and a send is not wasted on a dead client.  *)
EntryOpen ==
    \A a \in Agents : clients[a] # None =>
        /\ agent[clients[a]] = a
        /\ InLoop(clients[a]) \/ pc[clients[a]] = "delete"
        /\ clients[a] \notin doneClosed
        /\ \A u \in Unsubscribers : holding[u] # clients[a]

(* Done is closed twice, by Subscribe's deferred function and Unsubscribe, *)
(* at most for a subscription that failed to encode an event: only then    *)
(* does a loop end on its own while an Unsubscribe may hold the record.    *)
DoneClosedOnce == closedTwice \subseteq failed

(* A broadcast passes over a client that counts as subscribed only if its  *)
(* agent ID was used by another subscription too.                          *)
MissedOnlyIfIDReused ==
    \A s \in missed : \E t \in Subs \ {s} : agent[t] = agent[s]

(* The loop is held up for ever by a client that reads no more.            *)
Stuck(s) == pc[s] = "write" /\ s \in stalled

(* A call of any of the four methods returns, whatever its clients do: one *)
(* that reads no more, with its loop blocked in a write and its channel    *)
(* full, does not hold up the caller.                                      *)
NotifyReturns ==
    \A c \in Calls : callKind[c] # None ~> (todo[c] = {} /\ target[c] = None)

(* An accepted event is written out, unless the subscription ends first or *)
(* hangs for ever in a write to a client that reads no more.               *)
AcceptedEventWritten ==
    \A s \in Subs, k \in Kinds :
        (InLoop(s) /\ channel[s][k] # <<>>)
            ~> (channel[s][k] = <<>> \/ ~InLoop(s) \/ []Stuck(s))

(* Whatever Unsubscribe has taken out of the map ends: the loop, the       *)
(* deferred function and the handler all return, unless the loop hangs for *)
(* ever in a write to a client that reads no more.                         *)
UnsubscribeEndsLoop ==
    \A s \in Subs :
        (\E u \in Unsubscribers : holding[u] = s)
            ~> (pc[s] = "end" \/ s \in over \/ []Stuck(s))
=============================================================================

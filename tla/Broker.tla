------------------------------- MODULE Broker -------------------------------
(***************************************************************************)
(* The stream broker: tunnel/broker.go.                                    *)
(*                                                                         *)
(* A session joins an IH and an AH stream registered under one session ID. *)
(* Whenever a registration finds both streams set, a pair of forwarders is *)
(* started, one for each direction, and each starts a receiver goroutine   *)
(* of its own that hands packets over through a channel of size one.  A    *)
(* forwarder that ends closes "the session of this ID".                    *)
(*                                                                         *)
(* Abstracted: a packet is its stream and its number there; lastHeartbeat  *)
(* is only whether it is older than the timeout; stats count packets.  The *)
(* fields ihStream and ahStream are read without a lock each time they are *)
(* used, so the model reads them anew as well.  A session object, a pair   *)
(* and a stream are used once; their sets bound the model.                 *)
(***************************************************************************)
EXTENDS Integers, Sequences, FiniteSets

CONSTANTS
    SessionIDs,
    Sessions,     \* session objects
    IHStreams, AHStreams,   \* one per gRPC call of a client
    Senders,      \* the streams whose client sends packets
    Breakable,    \* the streams that may fail
    Pairs,        \* pairs of forwarders
    MaxPackets,   \* bound: packets a client sends
    None

Sides == {"IH", "AH"}
Streams == IHStreams \cup AHStreams
Side(s) == IF s \in IHStreams THEN "IH" ELSE "AH"     \* isIH

(* A packet is its stream and its number there.                            *)
Packets == Streams \X (1 .. MaxPackets)

ASSUME BrokerAssumption ==
    /\ MaxPackets \in Nat
    /\ IHStreams \cap AHStreams = {}
    /\ Senders \subseteq Streams /\ Breakable \subseteq Streams
    /\ None \notin SessionIDs \cup Sessions \cup Streams /\ None \notin Packets

VARIABLES
    sessions,    \* b.sessions: ID -> object
    id,          \* the sessionID of each object
    stream,      \* ihStream, ahStream of each object
    stopped,     \* objects whose stopChan is closed
    stale,       \* objects in the map without a heartbeat for too long
    owner,       \* the object a pair of forwarders works for
    pc,          \* where each forwarder stands
    reading,     \* the stream a receiver is blocked on in Recv
    received,    \* packet a receiver holds
    recvChan,    \* packet in the channel between receiver and forwarder
    errChan,     \* forwarders whose receiver has ended with an error
    target,      \* the stream a forwarder is sending to
    hand,        \* packet a forwarder took and has not counted as sent
    registered,  \* the ID each stream was registered with
    taken,       \* number of packets read from each stream
    broken,      \* streams that fail
    delivered,   \* packets sent into each stream
    toClose,     \* sessionsToClose of checkHeartbeats
    monitor,     \* the heartbeat monitor still runs
    closePC      \* where Close stands

sessVars == <<sessions, id, stream, stopped>>
fwdVars  == <<owner, pc, target, hand>>
recvVars == <<reading, received, recvChan, errChan>>
netVars  == <<registered, taken, broken, delivered>>
ctlVars  == <<toClose, monitor, closePC>>
vars == <<sessVars, stale, fwdVars, recvVars, netVars, ctlVars>>

Other(d) == IF d = "IH" THEN "AH" ELSE "IH"

(* A forwarder is named by its pair and the side it receives from.         *)
Forwarders == Pairs \X Sides
Obj(f) == owner[f[1]]
BrokerClosed == closePC # "open"

Init ==
    /\ sessions = [x \in SessionIDs |-> None]
    /\ id = [o \in Sessions |-> None]
    /\ stream = [o \in Sessions |-> [d \in Sides |-> None]]
    /\ stopped = {} /\ stale = {}
    /\ owner = [p \in Pairs |-> None]
    /\ pc = [f \in Forwarders |-> "off"]
    /\ reading = [f \in Forwarders |-> None]
    /\ received = [f \in Forwarders |-> None]
    /\ recvChan = [f \in Forwarders |-> None]
    /\ errChan = {}
    /\ target = [f \in Forwarders |-> None]
    /\ hand = [f \in Forwarders |-> None]
    /\ registered = [s \in Streams |-> None]
    /\ taken = [s \in Streams |-> 0]
    /\ broken = {}
    /\ delivered = [s \in Streams |-> <<>>]
    /\ toClose = {} /\ monitor = TRUE /\ closePC = "open"

-----------------------------------------------------------------------------
(* RegisterStream, one critical section.  o is the session's object, a new *)
(* one if the ID has none.                                                 *)
RegisterStream(x, o, s) ==
    LET d == Side(s) IN
    /\ registered[s] = None
    /\ IF sessions[x] = None THEN id[o] = None ELSE sessions[x] = o
    /\ registered' = [registered EXCEPT ![s] = x]
    /\ sessions' = [sessions EXCEPT ![x] = o]
    /\ id' = [id EXCEPT ![o] = x]
    /\ stream' = [stream EXCEPT ![o] = [stream[o] EXCEPT ![d] = s]]
    /\ stale' = stale \ {o}
    /\ IF stream[o][Other(d)] = None
       THEN UNCHANGED <<owner, pc>>
       ELSE \E p \in Pairs :
               /\ owner[p] = None
               /\ owner' = [owner EXCEPT ![p] = o]
               /\ pc' = [f \in Forwarders |-> IF f[1] = p THEN "select" ELSE pc[f]]
    /\ UNCHANGED <<stopped, target, hand, recvVars, taken, broken,
                   delivered, ctlVars>>

(* The body of CloseSession.                                               *)
CloseByID(x) ==
    /\ stopped' = stopped \cup ({sessions[x]} \ {None})
    /\ stale' = stale \ {sessions[x]}
    /\ sessions' = [sessions EXCEPT ![x] = None]
    /\ UNCHANGED <<id, stream>>

-----------------------------------------------------------------------------
(* The receiver goroutine of a forwarder: Recv on the session's current    *)
(* stream, then into the channel as soon as it has room.                   *)

CallRecv(f) ==
    /\ pc[f] \notin {"off", "done"}
    /\ reading[f] = None /\ received[f] = None /\ f \notin errChan
    /\ reading' = [reading EXCEPT ![f] = stream[Obj(f)][f[2]]]
    /\ UNCHANGED <<sessVars, stale, fwdVars, received, recvChan, errChan,
                   netVars, ctlVars>>

RecvPacket(f) ==
    LET s == reading[f]
    IN  /\ s \in Senders \ broken
        /\ taken[s] < MaxPackets
        /\ taken' = [taken EXCEPT ![s] = @ + 1]
        /\ received' = [received EXCEPT ![f] = <<s, taken[s] + 1>>]
        /\ reading' = [reading EXCEPT ![f] = None]
        /\ UNCHANGED <<sessVars, stale, fwdVars, recvChan, errChan, registered,
                       broken, delivered, ctlVars>>

RecvError(f) ==
    /\ reading[f] \in broken
    /\ errChan' = errChan \cup {f}
    /\ reading' = [reading EXCEPT ![f] = None]
    /\ UNCHANGED <<sessVars, stale, fwdVars, received, recvChan, netVars, ctlVars>>

(* The channel takes a packet; variant: it overwrites what it holds.       *)
AlwaysRoom(f) == TRUE

HasRoom(f) == recvChan[f] = None

(* The receiver hands its packet over; it reads the stream field again     *)
(* when it gets to its next Recv.  Variant:                                *)
(* it keeps the packet and hands it over again.                            *)
PutAgain(f) ==
    /\ received[f] # None
    /\ HasRoom(f)
    /\ recvChan' = [recvChan EXCEPT ![f] = received[f]]
    /\ UNCHANGED <<sessVars, stale, fwdVars, reading, received, errChan, netVars, ctlVars>>

PutPacket(f) ==
    /\ received[f] # None
    /\ HasRoom(f)
    /\ recvChan' = [recvChan EXCEPT ![f] = received[f]]
    /\ received' = [received EXCEPT ![f] = None]
    /\ UNCHANGED <<sessVars, stale, fwdVars, reading, errChan, netVars, ctlVars>>

(* A stream breaks: its client leaves or the transport fails.              *)
Break(s) ==
    /\ s \in Breakable
    /\ registered[s] # None
    /\ broken' = broken \cup {s}
    /\ UNCHANGED <<sessVars, stale, fwdVars, recvVars, registered, taken,
                   delivered, ctlVars>>

-----------------------------------------------------------------------------
(* The forwarder's loop.                                                   *)

(* One of the two stop channels is closed; variant: only one is watched.   *)
SessionStops(f) == Obj(f) \in stopped

Stops(f) == Obj(f) \in stopped \/ BrokerClosed

SeeStop(f) ==
    /\ pc[f] = "select"
    /\ Stops(f)
    /\ pc' = [pc EXCEPT ![f] = "closing"]
    /\ UNCHANGED <<sessVars, stale, owner, target, hand, recvVars, netVars, ctlVars>>

SeeError(f) ==
    /\ pc[f] = "select"
    /\ f \in errChan
    /\ pc' = [pc EXCEPT ![f] = "closing"]
    /\ UNCHANGED <<sessVars, stale, owner, target, hand, recvVars, netVars, ctlVars>>

TakePacket(f) ==
    /\ pc[f] = "select"
    /\ recvChan[f] # None
    /\ hand' = [hand EXCEPT ![f] = recvChan[f]]
    /\ recvChan' = [recvChan EXCEPT ![f] = None]
    /\ stale' = stale \ {Obj(f)}
    /\ pc' = [pc EXCEPT ![f] = "send"]
    /\ UNCHANGED <<sessVars, owner, target, reading, received, errChan,
                   netVars, ctlVars>>

(* The stream a forwarder sends to; variant: the one it receives from.     *)
SameSide(f) == stream[Obj(f)][f[2]]

Target(f) == stream[Obj(f)][Other(f[2])]

(* The stream field is read, without a lock, and Send is called on what it *)
(* holds; a registration may come between the two.                         *)
CallSend(f) ==
    /\ pc[f] = "send"
    /\ target' = [target EXCEPT ![f] = Target(f)]
    /\ pc' = [pc EXCEPT ![f] = "sending"]
    /\ UNCHANGED <<sessVars, stale, owner, hand, recvVars, netVars, ctlVars>>

(* The packet goes out.                                                    *)
Send(f) ==
    /\ pc[f] = "sending"
    /\ target[f] \notin broken
    /\ delivered' = [delivered EXCEPT ![target[f]] = Append(@, hand[f])]
    /\ target' = [target EXCEPT ![f] = None]
    /\ hand' = [hand EXCEPT ![f] = None]
    /\ pc' = [pc EXCEPT ![f] = "select"]
    /\ UNCHANGED <<sessVars, stale, owner, recvVars, registered, taken,
                   broken, ctlVars>>

SendError(f) ==
    /\ pc[f] = "sending"
    /\ target[f] \in broken
    /\ target' = [target EXCEPT ![f] = None]
    /\ pc' = [pc EXCEPT ![f] = "closing"]
    /\ UNCHANGED <<sessVars, stale, owner, hand, recvVars,
                   netVars, ctlVars>>

(* handleForwardError; variant: it only logs.                              *)
OnlyLog(f) == UNCHANGED <<sessVars, stale>>

HandleForwardError(f) == CloseByID(id[Obj(f)])

(* A forwarder returns through its deferred calls: handleForwardError, and *)
(* the wait group is told.  The receiver goes on until its channel is full *)
(* but nothing it reads is forwarded any more: the model drops it here.    *)
ForwardEnd(f) ==
    /\ pc[f] = "closing"
    /\ HandleForwardError(f)
    /\ pc' = [pc EXCEPT ![f] = "done"]
    /\ reading' = [reading EXCEPT ![f] = None]
    /\ received' = [received EXCEPT ![f] = None]
    /\ recvChan' = [recvChan EXCEPT ![f] = None]
    /\ errChan' = errChan \ {f}
    /\ UNCHANGED <<owner, target, hand, netVars, ctlVars>>

-----------------------------------------------------------------------------
(* CloseSession called by the program.                                     *)
CloseSession(x) ==
    /\ sessions[x] # None
    /\ CloseByID(x)
    /\ UNCHANGED <<fwdVars, recvVars, netVars, ctlVars>>

(* Time passes without a packet.                                           *)
HeartbeatMissed(o) ==
    /\ \E x \in SessionIDs : sessions[x] = o
    /\ stale' = stale \cup {o}
    /\ UNCHANGED <<sessVars, fwdVars, recvVars,
                   netVars, ctlVars>>

(* The ticker's case, which select may also pick once the broker is        *)
(* closed: checkHeartbeats collects under the read lock ...                *)
TimedOut == {x \in SessionIDs : sessions[x] \in stale}

CheckHeartbeats ==
    /\ monitor
    /\ toClose = {}
    /\ toClose' = TimedOut
    /\ UNCHANGED <<sessVars, stale, fwdVars, recvVars, netVars, monitor, closePC>>

(* ... and closes by ID afterwards.                                        *)
CloseTimedOut(x) ==
    /\ x \in toClose
    /\ CloseByID(x)
    /\ toClose' = toClose \ {x}
    /\ UNCHANGED <<fwdVars, recvVars, netVars,
                   monitor, closePC>>

MonitorEnd ==
    /\ monitor /\ BrokerClosed
    /\ toClose = {}
    /\ monitor' = FALSE
    /\ UNCHANGED <<sessVars, stale, fwdVars, recvVars, netVars, toClose, closePC>>

(* Close: the broker's stop channel, every session's, then the wait.       *)
Close ==
    /\ closePC = "open"
    /\ closePC' = "closing"
    /\ UNCHANGED <<sessVars, stale, fwdVars, recvVars, netVars, toClose, monitor>>

CloseAll ==
    /\ closePC = "closing"
    /\ stopped' = stopped \cup ({sessions[x] : x \in SessionIDs} \ {None})
    /\ closePC' = "waiting"
    /\ UNCHANGED <<sessions, id, stream, stale, fwdVars, recvVars, netVars,
                   toClose, monitor>>

CloseReturn ==
    /\ closePC = "waiting"
    /\ ~monitor
    /\ \A f \in Forwarders : pc[f] \in {"off", "done"}
    /\ closePC' = "returned"
    /\ UNCHANGED <<sessVars, stale, fwdVars, recvVars, netVars, toClose, monitor>>

-----------------------------------------------------------------------------
Next ==
    \/ \E x \in SessionIDs, o \in Sessions, s \in Streams : RegisterStream(x, o, s)
    \/ \E f \in Forwarders : CallRecv(f)
    \/ \E f \in Forwarders : RecvPacket(f)
    \/ \E f \in Forwarders : RecvError(f)
    \/ \E f \in Forwarders : PutPacket(f)
    \/ \E s \in Streams : Break(s)
    \/ \E f \in Forwarders : SeeStop(f)
    \/ \E f \in Forwarders : SeeError(f)
    \/ \E f \in Forwarders : TakePacket(f)
    \/ \E f \in Forwarders : CallSend(f)
    \/ \E f \in Forwarders : Send(f)
    \/ \E f \in Forwarders : SendError(f)
    \/ \E f \in Forwarders : ForwardEnd(f)
    \/ \E x \in SessionIDs : CloseSession(x)
    \/ \E o \in Sessions : HeartbeatMissed(o)
    \/ CheckHeartbeats
    \/ \E x \in SessionIDs : CloseTimedOut(x)
    \/ MonitorEnd
    \/ Close
    \/ CloseAll
    \/ CloseReturn

Spec == Init /\ [][Next]_vars

(* Goroutines run, Recv on a broken stream returns, the ticker fires.  A   *)
(* Send may block for ever, and clients need not do anything.              *)
FairSpec ==
    /\ Spec
    /\ \A f \in Forwarders : WF_vars(CallRecv(f) \/ RecvError(f) \/ PutPacket(f))
    /\ \A f \in Forwarders : WF_vars(TakePacket(f) \/ CallSend(f) \/ ForwardEnd(f))
    /\ \A f \in Forwarders : WF_vars(SeeStop(f))
    /\ \A f \in Forwarders : WF_vars(SeeError(f))
    /\ WF_vars(CheckHeartbeats) /\ WF_vars(MonitorEnd)
    /\ WF_vars(\E x \in SessionIDs : CloseTimedOut(x))
    /\ WF_vars(CloseAll) /\ WF_vars(CloseReturn)

-----------------------------------------------------------------------------
(* Types.                                                                  *)
TypeOK ==
    /\ sessions \in [SessionIDs -> Sessions \cup {None}]
    /\ id \in [Sessions -> SessionIDs \cup {None}]
    /\ stream \in [Sessions -> [Sides -> Streams \cup {None}]]
    /\ stopped \subseteq Sessions /\ stale \subseteq Sessions
    /\ owner \in [Pairs -> Sessions \cup {None}]
    /\ pc \in [Forwarders -> {"off", "select", "send", "sending", "closing", "done"}]
    /\ target \in [Forwarders -> Streams \cup {None}]
    /\ hand \in [Forwarders -> Packets \cup {None}]
    /\ reading \in [Forwarders -> Streams \cup {None}]
    /\ received \in [Forwarders -> Packets \cup {None}]
    /\ recvChan \in [Forwarders -> Packets \cup {None}]
    /\ errChan \subseteq Forwarders
    /\ registered \in [Streams -> SessionIDs \cup {None}]
    /\ taken \in [Streams -> 0 .. MaxPackets]
    /\ broken \subseteq Streams
    /\ delivered \in [Streams -> Seq(Packets)]
    /\ toClose \subseteq SessionIDs
    /\ monitor \in BOOLEAN
    /\ closePC \in {"open", "closing", "waiting", "returned"}

(* A closed session is out of the map, so a later registration gets a new  *)
(* one (until the broker itself closes, which empties no map); and the     *)
(* session under an ID is the one that carries this ID.                    *)
OpenInMap ==
    \A x \in SessionIDs : sessions[x] # None =>
        /\ id[sessions[x]] = x
        /\ sessions[x] \in stopped => BrokerClosed

(* Data never crosses sessions: whatever is sent into a stream was read    *)
(* from a stream that was registered with the same ID for the other side,  *)
(* whatever was re-registered, closed and opened again meanwhile.          *)
Isolation ==
    \A s \in Streams : \A i \in DOMAIN delivered[s] :
        LET r == delivered[s][i][1]
        IN  registered[r] = registered[s] /\ Side(r) = Other(Side(s))

(* Refinement: the broker implements PacketSwitch.  However many pairs of  *)
(* forwarders read one stream at a time, and whatever they still hold when *)
(* their session is closed, no packet is sent twice.                       *)
Switch == INSTANCE PacketSwitch

SwitchSpec == Switch!Spec

(* No side of a session with the ID of s was registered once both sides    *)
(* were there: such a session has but one pair of forwarders.              *)
SinglePair(s) ==
    \A o \in Sessions : id[o] = registered[s] =>
        \A p, q \in Pairs : owner[p] = o /\ owner[q] = o => p = q

(* As long as no side of a session is registered anew, a stream receives   *)
(* the packets of one peer in order, each once and without gaps.           *)
InOrder ==
    \A s \in Streams : SinglePair(s) =>
        \E r \in Streams : \A i \in DOMAIN delivered[s] : delivered[s][i] = <<r, i>>

(* A broken stream ends its session, unless the forwarder that reads from  *)
(* it hangs in a Send.                                                     *)
BrokenStreamEndsSession ==
    \A f \in Forwarders :
        reading[f] \in broken ~> (Obj(f) \in stopped \/ [](pc[f] = "sending"))

(* Close returns, unless a Send blocks.                                    *)
CloseReturns ==
    closePC = "closing"
        ~> (closePC = "returned" \/ \E f \in Forwarders : [](pc[f] = "sending"))
=============================================================================

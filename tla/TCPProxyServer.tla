--------------------------- MODULE TCPProxyServer ---------------------------
(***************************************************************************)
(* transport/tcp_proxy_server.go: the accept loop of DataPlaneServer with  *)
(* HandleConnection as its handler, over the tunnel store that             *)
(* controller/tunnel_manager.go adapts.                                    *)
(*                                                                         *)
(* A handler reads a tunnel ID, looks the tunnel up, dials its target,     *)
(* touches the tunnel's last-active time and copies in both directions     *)
(* until one direction ends.  Touching loads and stores without a lock,    *)
(* while the controller may delete the tunnel.                             *)
(*                                                                         *)
(* Timeouts are assumed to be set (they are by default): each read of the  *)
(* ID, each dial and each copy ends, because the deadlines are set once,   *)
(* when it begins.                                                         *)
(***************************************************************************)
EXTENDS DataPlaneServer

CONSTANTS Tunnels, None

VARIABLES
    store,      \* the tunnels in the tunnel manager
    phase,      \* where each handler is
    id,         \* the tunnel ID it has read
    open,       \* which of its two connections are open at this side
    gone,       \* which of its two peers was the first to hang up
    pipe,       \* the two copies: off, copying, sending, over
    errs,       \* values in errChan
    raced       \* history: the tunnel was deleted before Update stored it

handlerVars == <<phase, id, open, gone, pipe, errs, raced>>
vars == <<serverVars, store, handlerVars>>

Sides == {"client", "target"}

Init ==
    /\ ServerInit
    /\ store \in SUBSET Tunnels
    /\ phase = [c \in Conns |-> "read"]
    /\ id = [c \in Conns |-> None]
    /\ open = [c \in Conns |-> {"client"}]
    /\ gone = [c \in Conns |-> None]
    /\ pipe = [c \in Conns |-> [d \in Sides |-> "off"]]
    /\ errs = [c \in Conns |-> 0]
    /\ raced = [c \in Conns |-> FALSE]

AcceptConnections == AcceptLoop /\ UNCHANGED <<store, handlerVars>>

StopProxy == Stop /\ UNCHANGED <<store, handlerVars>>

UnwindHandler(c) == Unwind(c) /\ UNCHANGED <<store, handlerVars>>

-----------------------------------------------------------------------------
(* HandleConnection.                                                       *)
At(c, l) == conn[c] = "running" /\ phase[c] = l

Goto(c, l) == phase' = [phase EXCEPT ![c] = l]

(* The deferred calls: targetConn.Close and clientConn.Close.              *)
CloseAll(c) == open' = [open EXCEPT ![c] = {}]

Return(c) ==
    /\ CloseAll(c) /\ Goto(c, "over") /\ HandlerReturns(c)
    /\ id' = [id EXCEPT ![c] = None] /\ raced' = [raced EXCEPT ![c] = FALSE]
    /\ UNCHANGED <<store, gone, pipe>>

ReadID(c, t) ==
    /\ At(c, "read") /\ gone[c] # "client"
    /\ id' = [id EXCEPT ![c] = t] /\ Goto(c, "get")
    /\ UNCHANGED <<serverVars, store, open, gone, pipe, errs, raced>>

(* The deadline, or the client hung up.                                    *)
ReadFails(c) == At(c, "read") /\ Return(c) /\ UNCHANGED errs

Get(c) ==
    /\ At(c, "get") /\ id[c] \in store
    /\ Goto(c, "dial")
    /\ UNCHANGED <<serverVars, store, id, open, gone, pipe, errs, raced>>

GetFails(c) == At(c, "get") /\ id[c] \notin store /\ Return(c) /\ UNCHANGED errs

Dial(c) ==
    /\ At(c, "dial")
    /\ open' = [open EXCEPT ![c] = @ \cup {"target"}] /\ Goto(c, "touch")
    /\ UNCHANGED <<serverVars, store, id, gone, pipe, errs, raced>>

DialFails(c) == At(c, "dial") /\ Return(c) /\ UNCHANGED errs

(* Variant: UpdateTunnel stores what it is given.                          *)
Upsert(c) == TRUE

Loaded(c) == id[c] \in store

(* TunnelStoreAdapter.Update: GetTunnel, then UpdateTunnel's Load.  A       *)
(* failure of either is logged only ...                                    *)
TouchLoad(c) ==
    /\ At(c, "touch")
    /\ Goto(c, IF Loaded(c) THEN "store" ELSE "pipe")
    /\ UNCHANGED <<serverVars, store, id, open, gone, pipe, errs, raced>>

(* ... and Store.                                                          *)
TouchStore(c) ==
    /\ At(c, "store")
    /\ store' = store \cup {id[c]} /\ Goto(c, "pipe")
    /\ raced' = [raced EXCEPT ![c] = FALSE]
    /\ UNCHANGED <<serverVars, id, open, gone, pipe, errs>>

StartPipes(c) ==
    /\ At(c, "pipe")
    /\ pipe' = [pipe EXCEPT ![c] = [d \in Sides |-> "copying"]] /\ Goto(c, "wait")
    /\ UNCHANGED <<serverVars, store, id, open, gone, errs, raced>>

(* Copying from side d ends: a peer hung up, this side closed a            *)
(* connection, or a deadline passed.                                       *)
CopyEnds(c, d) ==
    /\ pipe[c][d] = "copying"
    /\ pipe' = [pipe EXCEPT ![c][d] = "sending"]
    /\ UNCHANGED <<serverVars, store, phase, id, open, gone, errs, raced>>

(* Variant: errChan without a buffer.                                      *)
Rendezvous(c) == At(c, "wait") /\ errs[c] = 0

(* errChan has room for both.                                              *)
Room(c) == errs[c] < 2

SendErr(c, d) ==
    /\ pipe[c][d] = "sending" /\ Room(c)
    /\ pipe' = [pipe EXCEPT ![c][d] = "over"]
    /\ errs' = [errs EXCEPT ![c] = @ + 1]
    /\ UNCHANGED <<serverVars, store, phase, id, open, gone, raced>>

(* The first end of a direction ends the connection.                       *)
ReceiveErr(c) ==
    /\ At(c, "wait") /\ errs[c] > 0
    /\ errs' = [errs EXCEPT ![c] = @ - 1]
    /\ Return(c)

Handle(c) ==
    \/ \E t \in Tunnels : ReadID(c, t)
    \/ ReadFails(c) \/ Get(c) \/ GetFails(c) \/ Dial(c) \/ DialFails(c)
    \/ TouchLoad(c) \/ TouchStore(c)
    \/ StartPipes(c) \/ ReceiveErr(c)

Pipe(c, d) == CopyEnds(c, d) \/ SendErr(c, d)

-----------------------------------------------------------------------------
(* The peers, and the controller's DeleteTunnel.                           *)
HangUp(c, d) ==
    /\ conn[c] = "running" /\ d \in open[c] /\ gone[c] = None
    /\ gone' = [gone EXCEPT ![c] = d]
    /\ UNCHANGED <<serverVars, store, phase, id, open, pipe, errs, raced>>

DeleteTunnel(t) ==
    /\ t \in store /\ store' = store \ {t}
    /\ raced' = [c \in Conns |-> raced[c] \/ (At(c, "store") /\ id[c] = t)]
    /\ UNCHANGED <<serverVars, phase, id, open, gone, pipe, errs>>

Next ==
    \/ AcceptConnections
    \/ StopProxy
    \/ \E c \in Conns : UnwindHandler(c)
    \/ \E c \in Conns : Handle(c)
    \/ \E c \in Conns, d \in Sides : Pipe(c, d)
    \/ \E c \in Conns, d \in Sides : HangUp(c, d)
    \/ \E t \in Tunnels : DeleteTunnel(t)

Spec == Init /\ [][Next]_vars

(* Every goroutine goes on, and deadlines pass; nobody has to call Stop,   *)
(* connect, hang up or delete.                                             *)
FairSpec ==
    /\ Spec
    /\ WF_vars(AcceptConnections /\ \E c \in Conns : conn[c] \in {"accepted", "counted"})
    /\ WF_vars(StopProxy /\ stopPC # "off")
    /\ \A c \in Conns : WF_vars(UnwindHandler(c)) /\ WF_vars(Handle(c))
    /\ \A c \in Conns, d \in Sides : WF_vars(Pipe(c, d))

-----------------------------------------------------------------------------
TypeOK ==
    /\ ServerTypeOK /\ store \subseteq Tunnels
    /\ phase \in [Conns -> {"read", "get", "dial", "touch", "store", "pipe",
                            "wait", "over"}]
    /\ errs \in [Conns -> 0 .. 2]

(* A tunnel that was deleted comes back only if it was deleted between the *)
(* Load and the Store of a handler's Update.                               *)
BackOnlyIfRaced ==
    [][\A t \in store' \ store : \E c \in Conns : At(c, "store") /\ id[c] = t /\ raced[c]]_vars

(* When one peer hangs up, both connections are closed and both copying    *)
(* goroutines end: none is left waiting to report.                         *)
HangUpReleasesAll ==
    \A c \in Conns :
        (gone[c] # None) ~> (open[c] = {} /\ \A d \in Sides : pipe[c][d] \in {"off", "over"})

(* Stop returns, whatever the peers do.                                    *)
StopReturns == (stopPC # "off") ~> (stopPC = "done")
=============================================================================

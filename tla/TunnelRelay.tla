---------------------------- MODULE TunnelRelay ----------------------------
(***************************************************************************)
(* The controller's data plane: transport/tunnel_relay_server.go.          *)
(*                                                                         *)
(* An initiating host (IH) and an accepting host (AH) each dial the relay  *)
(* and send the 36-byte ID of the tunnel they belong to.  One goroutine    *)
(* per connection looks for its partner in a map of waiting connections,   *)
(* or parks itself there and polls until the partner comes or the pairing  *)
(* timeout fires.  Whoever finds the other one relays for both.            *)
(*                                                                         *)
(* The threads are the accept loop, one handler per connection, the        *)
(* cleanup goroutine, the callers of Stop and the remote clients.  Every   *)
(* sync.Map operation and every section under s.mu is one step.            *)
(*                                                                         *)
(* Abstracted: a connection's type (the prefix of its certificate's CN) is *)
(* the set it belongs to; a tunnel ID is a model value; the 100 ms poll    *)
(* that finds nothing is a stutter; time is the order in which deadlines   *)
(* (Expire) fire.  The bytes that a relay carries are left out.            *)
(***************************************************************************)
EXTENDS Integers, FiniteSets

CONSTANTS
    IHConns,         \* connections whose certificate CN starts with "ih"
    AHConns,         \* connections whose certificate CN starts with "ah"
    OtherConns,      \* connections with any other CN
    Tunnels,         \* tunnel IDs
    Stoppers,        \* goroutines that call Stop
    MaxConnections,  \* TunnelRelayConfig.MaxConnections
    HasReadTimeout,  \* TunnelRelayConfig.ReadTimeout > 0
    None             \* no connection, no tunnel, no entry

Conns == IHConns \cup AHConns \cup OtherConns

ASSUME ConnsAssumption ==
    /\ IsFiniteSet(Conns)
    /\ IHConns \cap AHConns = {}
    /\ IHConns \cap OtherConns = {}
    /\ AHConns \cap OtherConns = {}
    /\ None \notin Conns \cup Tunnels

ASSUME LimitAssumption == MaxConnections \in Nat /\ HasReadTimeout \in BOOLEAN

VARIABLES
    pc,             \* where each connection's handler goroutine is
    tunnelID,       \* the tunnel a handler has read from its connection
    peer,           \* the partner a handler has taken from the other map
    expired,        \* the pairing deadline of a waiting handler has passed
    pending,        \* pending.ih and pending.ah: tunnel -> waiting connection
    closed,         \* the server has closed its end of the connection
    gone,           \* the client has closed its end of the connection
    activeTunnels, errorCount,
    acceptPC,       \* the goroutine in StartTLS and acceptLoop
    acceptConn,     \* the connection Accept has returned to it
    listener,       \* s.listener: nil, open or closed
    cleaner,        \* what the cleanup goroutine removes: side, tunnel, connection to close
    cleanerDone,
    stopPC,         \* where each caller of Stop is
    stopped,        \* stopChan is closed
    panicked        \* close of a closed channel: the process is dead

handlerVars == <<pc, tunnelID, peer, expired>>
connVars    == <<closed, gone>>
statVars    == <<activeTunnels, errorCount>>
acceptVars  == <<acceptPC, acceptConn>>
cleanVars   == <<cleaner, cleanerDone>>
stopVars    == <<stopPC, stopped, panicked>>
serverVars  == <<acceptVars, listener, cleanVars, stopVars>>
tunnelVars  == <<handlerVars, pending, connVars, statVars>>
vars == <<tunnelVars, serverVars>>

Kinds == {"ih", "ah"}

(* determineClientType: the CN's prefix decides.                           *)
ClientType(c) == CASE c \in IHConns -> "ih"
                   [] c \in AHConns -> "ah"
                   [] OTHER -> "unknown"

Opposite(k) == IF k = "ih" THEN "ah" ELSE "ih"

(* Variant of Partner: the handler looks on its own side.                  *)
OwnEntry(c) == pending[ClientType(c)][tunnelID[c]]

(* The entry a handler looks for: its tunnel, in the other side's map.     *)
Partner(c) == pending[Opposite(ClientType(c))][tunnelID[c]]

(***************************************************************************)
(* Handler locations.                                                      *)
(*   none, accepted   not yet dialled; returned by Accept                  *)
(*   rejected         closed by the accept loop at the limit               *)
(*   read             waiting for the tunnel ID                            *)
(*   lookup, store    first LoadAndDelete; about to enter its own map      *)
(*   wait             in the select loop                                   *)
(*   unregister       a tick found the partner; own entry still to delete  *)
(*   count            paired; the handler's own activeTunnels++            *)
(*   relay            at the top of relayData                              *)
(*   relaying         both io.Copy goroutines run                          *)
(*   unwindOK, unwindErr   one direction is over; deferred calls to run    *)
(*   retOK, retErr    handleConnection is returning nil or an error        *)
(*   done             the goroutine has ended (wg.Done)                    *)
(***************************************************************************)
Locations == {"none", "accepted", "rejected", "read", "lookup", "store", "wait",
              "unregister", "count", "relay", "relaying", "unwindOK", "unwindErr",
              "retOK", "retErr", "done"}

(* Handlers counted by s.wg: between wg.Add in the accept loop and wg.Done. *)
Running == {c \in Conns : pc[c] \notin {"none", "accepted", "rejected", "done"}}

(* Handlers inside relayData, past its activeTunnels++ and before the --.  *)
Relaying == {c \in Conns : pc[c] \in {"relaying", "unwindOK", "unwindErr"}}

(* The two connections a handler relays between.                           *)
Ends(c) == {c, peer[c]} \ {None}

(* Handlers that have taken a partner and have not returned.               *)
Paired == {c \in Conns : pc[c] \in {"unregister", "count", "relay", "relaying",
                                    "unwindOK", "unwindErr"}}

NoPending == [k \in Kinds |-> [t \in Tunnels |-> None]]

Init ==
    /\ pc = [c \in Conns |-> "none"]
    /\ tunnelID = [c \in Conns |-> None]
    /\ peer = [c \in Conns |-> None]
    /\ expired = [c \in Conns |-> FALSE]
    /\ pending = NoPending
    /\ closed = [c \in Conns |-> FALSE]
    /\ gone = [c \in Conns |-> FALSE]
    /\ activeTunnels = 0
    /\ errorCount = 0
    /\ acceptPC = "off"
    /\ acceptConn = None
    /\ listener = "nil"
    /\ cleaner = None
    /\ cleanerDone = FALSE
    /\ stopPC = [s \in Stoppers |-> "idle"]
    /\ stopped = FALSE
    /\ panicked = FALSE

Goto(c, l) == pc' = [pc EXCEPT ![c] = l]

(* sync.Map Store (or, with None, Delete) under t in the map of kind k.    *)
Put(k, t, c) == pending' = [pending EXCEPT ![k][t] = c]

(* LoadAndDelete on the other side's map.                                  *)
TakePartner(c) == /\ peer' = [peer EXCEPT ![c] = Partner(c)]
                  /\ Put(Opposite(ClientType(c)), tunnelID[c], None)

(* A waiter's Delete under its own key.  Variant: it leaves the entry.     *)
KeepOwn(c) == UNCHANGED pending

DeleteOwn(c) == Put(ClientType(c), tunnelID[c], None)

(* The waiter's context is done; variant: only while it is still listed.   *)
DoneIfListed(c) == expired[c] /\ OwnEntry(c) = c

CtxDone(c) == expired[c]

(* One io.Copy of a relay has returned: a client that left gives EOF (nil) *)
(* or an error, an end the server closed itself gives an error.  Variant:  *)
(* the relay waits for both directions.                                    *)
BothCopiesOver(c, failed) == \A x \in Ends(c) : gone[x] \/ (closed[x] /\ failed)

OneCopyOver(c, failed) == \E x \in Ends(c) : gone[x] \/ (closed[x] /\ failed)

(* relayData's deferred activeTunnels--.                                   *)
Uncount == activeTunnels' = activeTunnels - 1

(* The goroutine ends with wg.Done; variant: only if the handler succeeds. *)
WgDoneOnSuccess(c) == pc[c] = "retOK" /\ Goto(c, "done")

WgDone(c) == Goto(c, "done")

-----------------------------------------------------------------------------
(* StartTLS and acceptLoop.                                                *)

(* tls.Listen has succeeded and s.listener is set under s.mu.              *)
StartTLS ==
    /\ ~panicked
    /\ acceptPC = "off"
    /\ acceptPC' = "accept"
    /\ listener' = "open"
    /\ UNCHANGED <<tunnelVars, acceptConn, cleanVars, stopVars>>

(* Accept returns a connection: a client has dialled.                      *)
Accept(c) ==
    /\ ~panicked
    /\ acceptPC = "accept"
    /\ listener = "open"
    /\ pc[c] = "none"
    /\ acceptPC' = "dispatch"
    /\ acceptConn' = c
    /\ Goto(c, "accepted")
    /\ UNCHANGED <<tunnelID, peer, expired, pending, connVars, statVars, listener,
                   cleanVars, stopVars>>

(* Accept fails.  While stopChan is open the loop continues; Stop closes   *)
(* stopChan before the listener, so a closed listener ends the loop.       *)
AcceptError ==
    /\ ~panicked
    /\ acceptPC = "accept"
    /\ listener = "closed"
    /\ stopped
    /\ acceptPC' = "done"
    /\ UNCHANGED <<tunnelVars, acceptConn, listener, cleanVars, stopVars>>

(* The limit is checked on a copy of activeTunnels; a connection that      *)
(* passes is counted in s.wg and gets its goroutine.                       *)
Dispatch ==
    /\ ~panicked
    /\ acceptPC = "dispatch"
    /\ acceptPC' = "accept"
    /\ acceptConn' = None
    /\ IF activeTunnels >= MaxConnections
       THEN /\ Goto(acceptConn, "rejected")
            /\ closed' = [closed EXCEPT ![acceptConn] = TRUE]
       ELSE /\ Goto(acceptConn, "read")
            /\ UNCHANGED closed
    /\ UNCHANGED <<tunnelID, peer, expired, pending, gone, statVars, listener,
                   cleanVars, stopVars>>

-----------------------------------------------------------------------------
(* handleConnection.                                                       *)

(* The 36 bytes are read and the client type decides the handler.          *)
ReadTunnelID(c, t) ==
    /\ ~panicked
    /\ pc[c] = "read"
    /\ tunnelID' = [tunnelID EXCEPT ![c] = t]
    /\ Goto(c, IF ClientType(c) = "unknown" THEN "retErr" ELSE "lookup")
    /\ UNCHANGED <<peer, expired, pending, connVars, statVars, serverVars>>

(* io.ReadFull fails: the client left, or the read deadline passed.        *)
ReadFail(c) ==
    /\ ~panicked
    /\ pc[c] = "read"
    /\ gone[c] \/ HasReadTimeout
    /\ Goto(c, "retErr")
    /\ UNCHANGED <<tunnelID, peer, expired, pending, connVars, statVars, serverVars>>

(* handleIHConnection and handleAHConnection: the first LoadAndDelete on   *)
(* the other side's map.                                                   *)
Lookup(c) ==
    /\ ~panicked
    /\ pc[c] = "lookup"
    /\ IF Partner(c) # None
       THEN /\ TakePartner(c)
            /\ Goto(c, "count")
       ELSE /\ Goto(c, "store")
            /\ UNCHANGED <<peer, pending>>
    /\ UNCHANGED <<tunnelID, expired, connVars, statVars, serverVars>>

(* The partner is not there: park, overwriting whoever waits for the same  *)
(* tunnel on this side.                                                    *)
Store(c) ==
    /\ ~panicked
    /\ pc[c] = "store"
    /\ Put(ClientType(c), tunnelID[c], c)
    /\ Goto(c, "wait")
    /\ UNCHANGED <<tunnelID, peer, expired, connVars, statVars, serverVars>>

(* pairingTimeout has elapsed since ReceivedAt (and the context is done).  *)
Expire(c) ==
    /\ ~panicked
    /\ pc[c] \in {"wait", "unregister"}
    /\ ~expired[c]
    /\ expired' = [expired EXCEPT ![c] = TRUE]
    /\ UNCHANGED <<pc, tunnelID, peer, pending, connVars, statVars, serverVars>>

(* <-ticker.C with a hit: the partner is taken from the other map.         *)
Tick(c) ==
    /\ ~panicked
    /\ pc[c] = "wait"
    /\ Partner(c) # None
    /\ TakePartner(c)
    /\ Goto(c, "unregister")
    /\ UNCHANGED <<tunnelID, expired, connVars, statVars, serverVars>>

(* After a hit the waiter deletes the entry under its own key.  Only the   *)
(* IH handler then counts the tunnel; the AH handler goes to relayData.    *)
Unregister(c) ==
    /\ ~panicked
    /\ pc[c] = "unregister"
    /\ DeleteOwn(c)
    /\ Goto(c, IF ClientType(c) = "ih" THEN "count" ELSE "relay")
    /\ UNCHANGED <<tunnelID, peer, expired, connVars, statVars, serverVars>>

(* <-ctx.Done(): the waiter deletes the entry under its key, whoever owns  *)
(* it by now, and gives up.                                                *)
Timeout(c) ==
    /\ ~panicked
    /\ pc[c] = "wait"
    /\ CtxDone(c)
    /\ DeleteOwn(c)
    /\ Goto(c, "retErr")
    /\ UNCHANGED <<tunnelID, peer, expired, connVars, statVars, serverVars>>

(* The pairing handler's own activeTunnels++.                              *)
Count(c) ==
    /\ ~panicked
    /\ pc[c] = "count"
    /\ activeTunnels' = activeTunnels + 1
    /\ Goto(c, "relay")
    /\ UNCHANGED <<tunnelID, peer, expired, pending, connVars, errorCount, serverVars>>

(* relayData: activeTunnels++ and both copying goroutines start.           *)
RelayStart(c) ==
    /\ ~panicked
    /\ pc[c] = "relay"
    /\ activeTunnels' = activeTunnels + 1
    /\ Goto(c, "relaying")
    /\ UNCHANGED <<tunnelID, peer, expired, pending, connVars, errorCount, serverVars>>

(* One direction is over: relayData counts an error and returns.           *)
RelayEnd(c, failed) ==
    /\ ~panicked
    /\ pc[c] = "relaying"
    /\ OneCopyOver(c, failed)
    /\ errorCount' = IF failed THEN errorCount + 1 ELSE errorCount
    /\ Goto(c, IF failed THEN "unwindErr" ELSE "unwindOK")
    /\ UNCHANGED <<tunnelID, peer, expired, pending, connVars, activeTunnels,
                   serverVars>>

(* relayData's deferred calls: activeTunnels--, both connections closed.   *)
Unwind(c) ==
    /\ ~panicked
    /\ pc[c] \in {"unwindOK", "unwindErr"}
    /\ Uncount
    /\ closed' = [closed EXCEPT ![c] = TRUE, ![peer[c]] = TRUE]
    /\ Goto(c, IF pc[c] = "unwindOK" THEN "retOK" ELSE "retErr")
    /\ UNCHANGED <<tunnelID, peer, expired, pending, gone, errorCount, serverVars>>

(* handleConnection's deferred conn.Close, the error count of the          *)
(* goroutine in acceptLoop, wg.Done.                                       *)
Return(c) ==
    /\ ~panicked
    /\ pc[c] \in {"retOK", "retErr"}
    /\ closed' = [closed EXCEPT ![c] = TRUE]
    /\ errorCount' = IF pc[c] = "retErr" THEN errorCount + 1 ELSE errorCount
    /\ WgDone(c)
    /\ UNCHANGED <<tunnelID, peer, expired, pending, gone, activeTunnels, serverVars>>

-----------------------------------------------------------------------------
(* cleanupExpiredConnections: Range finds an entry older than              *)
(* pairingTimeout; its connection is closed, then the key is deleted.      *)

CleanLoad(k, t) ==
    /\ ~panicked
    /\ ~cleanerDone
    /\ cleaner = None
    /\ pending[k][t] # None
    /\ expired[pending[k][t]]
    /\ cleaner' = <<k, t, pending[k][t]>>
    /\ UNCHANGED <<tunnelVars, acceptVars, listener, cleanerDone, stopVars>>

(* The connection found earlier, although a partner may have it by now.    *)
CleanClose ==
    /\ ~panicked
    /\ cleaner # None
    /\ cleaner[3] # None
    /\ closed' = [closed EXCEPT ![cleaner[3]] = TRUE]
    /\ cleaner' = <<cleaner[1], cleaner[2], None>>
    /\ UNCHANGED <<handlerVars, pending, gone, statVars, acceptVars, listener,
                   cleanerDone, stopVars>>

(* The key found earlier, whoever waits under it by now.                   *)
CleanDelete ==
    /\ ~panicked
    /\ cleaner # None
    /\ cleaner[3] = None
    /\ Put(cleaner[1], cleaner[2], None)
    /\ cleaner' = None
    /\ UNCHANGED <<handlerVars, connVars, statVars, acceptVars, listener, cleanerDone,
                   stopVars>>

CleanStop ==
    /\ ~panicked
    /\ ~cleanerDone
    /\ cleaner = None
    /\ stopped
    /\ cleanerDone' = TRUE
    /\ UNCHANGED <<tunnelVars, acceptVars, listener, cleaner, stopVars>>

-----------------------------------------------------------------------------
(* Stop.                                                                   *)

(* select on stopChan: closed means another call got here first.           *)
StopCheck(s) ==
    /\ ~panicked
    /\ stopPC[s] = "idle"
    /\ stopPC' = [stopPC EXCEPT ![s] = IF stopped THEN "already" ELSE "close"]
    /\ UNCHANGED <<tunnelVars, acceptVars, listener, cleanVars, stopped, panicked>>

(* The default branch: close(stopChan), which panics on a closed channel.  *)
StopClose(s) ==
    /\ ~panicked
    /\ stopPC[s] = "close"
    /\ stopPC' = [stopPC EXCEPT ![s] = "listener"]
    /\ stopped' = TRUE
    /\ panicked' = stopped      \* a panic ends the process: nothing moves after it
    /\ UNCHANGED <<tunnelVars, acceptVars, listener, cleanVars>>

(* Under s.mu: close the listener if StartTLS has set it.                  *)
StopListener(s) ==
    /\ ~panicked
    /\ stopPC[s] = "listener"
    /\ stopPC' = [stopPC EXCEPT ![s] = "ih"]
    /\ listener' = IF listener = "nil" THEN "nil" ELSE "closed"
    /\ UNCHANGED <<tunnelVars, acceptVars, cleanVars, stopped, panicked>>

(* Range over pendingIH, then over pendingAH: connections are closed, the  *)
(* entries stay.                                                           *)
StopPending(s, k) ==
    /\ ~panicked
    /\ stopPC[s] = k
    /\ stopPC' = [stopPC EXCEPT ![s] = IF k = "ih" THEN "ah" ELSE "wait"]
    /\ closed' = [c \in Conns |-> closed[c] \/ \E t \in Tunnels : pending[k][t] = c]
    /\ UNCHANGED <<handlerVars, pending, gone, statVars, acceptVars, listener,
                   cleanVars, stopped, panicked>>

(* s.wg.Wait() returns when no handler is counted.                         *)
StopReturn(s) ==
    /\ ~panicked
    /\ stopPC[s] = "wait"
    /\ Running = {}
    /\ stopPC' = [stopPC EXCEPT ![s] = "returned"]
    /\ UNCHANGED <<tunnelVars, acceptVars, listener, cleanVars, stopped, panicked>>

-----------------------------------------------------------------------------
(* The remote client closes its end.  Only a read in progress notices, so  *)
(* a close is modelled from the moment something reads the connection: a   *)
(* client that leaves while its handler waits is found gone by the relay.  *)
ClientClose(c) ==
    /\ ~panicked
    /\ pc[c] = "read" \/ \E d \in Conns : pc[d] = "relaying" /\ c \in Ends(d)
    /\ ~gone[c]
    /\ gone' = [gone EXCEPT ![c] = TRUE]
    /\ UNCHANGED <<handlerVars, pending, closed, statVars, serverVars>>

(* The steps a handler takes by itself, the runtime's timers included.     *)
HandlerStep(c) ==
    \/ \E t \in Tunnels : ReadTunnelID(c, t)
    \/ ReadFail(c)
    \/ Lookup(c)
    \/ Store(c)
    \/ Tick(c)
    \/ Unregister(c)
    \/ Timeout(c)
    \/ Count(c)
    \/ RelayStart(c)
    \/ \E failed \in BOOLEAN : RelayEnd(c, failed)
    \/ Unwind(c)
    \/ Return(c)

StopStep(s) ==
    \/ StopClose(s)
    \/ StopListener(s)
    \/ \E k \in Kinds : StopPending(s, k)
    \/ StopReturn(s)

Next ==
    \/ StartTLS
    \/ \E c \in Conns : Accept(c)
    \/ AcceptError
    \/ Dispatch
    \/ \E c \in Conns : HandlerStep(c)
    \/ \E c \in Conns : Expire(c)
    \/ \E k \in Kinds, t \in Tunnels : CleanLoad(k, t)
    \/ CleanClose
    \/ CleanDelete
    \/ CleanStop
    \/ \E s \in Stoppers : StopCheck(s)
    \/ \E s \in Stoppers : StopStep(s)
    \/ \E c \in Conns : ClientClose(c)

Spec == Init /\ [][Next]_vars

(***************************************************************************)
(* Fairness.  The Go scheduler runs every runnable goroutine and every     *)
(* timer fires; a select with two ready cases picks either one.  Nothing   *)
(* is assumed of the clients: they may stay for ever, and may never dial.  *)
(***************************************************************************)
FairSpec ==
    /\ Spec
    /\ WF_vars(Dispatch) /\ WF_vars(AcceptError)
    /\ \A c \in Conns : WF_vars(HandlerStep(c)) /\ WF_vars(Expire(c))
    /\ WF_vars(CleanClose) /\ WF_vars(CleanDelete) /\ WF_vars(CleanStop)
    /\ \A s \in Stoppers : WF_vars(StopStep(s))

-----------------------------------------------------------------------------
(* Properties.                                                             *)

(* Type invariant.  That activeTunnels is a natural number is the limit    *)
(* check's premise: the deferred -- of relayData never outruns the ++.     *)
TypeOK ==
    /\ pc \in [Conns -> Locations]
    /\ tunnelID \in [Conns -> Tunnels \cup {None}]
    /\ peer \in [Conns -> Conns \cup {None}]
    /\ expired \in [Conns -> BOOLEAN]
    /\ pending \in [Kinds -> [Tunnels -> Conns \cup {None}]]
    /\ closed \in [Conns -> BOOLEAN]
    /\ gone \in [Conns -> BOOLEAN]
    /\ activeTunnels \in Nat
    /\ errorCount \in Nat
    /\ acceptPC \in {"off", "accept", "dispatch", "done"}
    /\ acceptConn \in Conns \cup {None}
    /\ listener \in {"nil", "open", "closed"}
    /\ cleaner \in (Kinds \X Tunnels \X (Conns \cup {None})) \cup {None}
    /\ cleanerDone \in BOOLEAN
    /\ stopPC \in [Stoppers -> {"idle", "already", "close", "listener", "ih", "ah",
                                "wait", "returned"}]
    /\ stopped \in BOOLEAN
    /\ panicked \in BOOLEAN

(* Pairing is by tunnel and across sides: whatever the interleaving of     *)
(* arrivals, polls, timeouts and cleanup, a handler that has taken a       *)
(* partner has one of the other type that sent the same tunnel ID.         *)
PairingSound ==
    \A c \in Paired :
        /\ peer[c] \in Conns
        /\ tunnelID[peer[c]] = tunnelID[c]
        /\ {ClientType(c), ClientType(peer[c])} = Kinds

(* No entry outlives its handler: a connection found in a pending map      *)
(* belongs to a goroutine still in its wait loop (or about to delete the   *)
(* entry itself), under its own tunnel and side.  Deletes go by key, so    *)
(* this is what keeps a finished connection from being paired.             *)
PendingOwnerWaiting ==
    \A k \in Kinds, t \in Tunnels :
        LET c == pending[k][t]
        IN  c # None => /\ pc[c] \in {"wait", "unregister"}
                        /\ ClientType(c) = k
                        /\ tunnelID[c] = t

(* LoadAndDelete hands a waiting connection to one partner only: over the  *)
(* whole life of the server no two handlers take the same connection.      *)
TakenAtMostOnce ==
    \A c, d \in Conns : peer[c] # None /\ peer[c] = peer[d] => c = d

(* Refinement: the server implements Rendezvous, although an entry may be  *)
(* overwritten, deleted by another handler or cleaned up, and a handler    *)
(* that was taken by its partner still polls, times out and ends.          *)
Meeting == INSTANCE Rendezvous WITH announced <- tunnelID, partner <- peer,
                                    ended <- {c \in Conns : pc[c] = "done"}

RendezvousSpec == Meeting!Spec

(* The counter behind the connection limit never says less than the number *)
(* of relays that run, so the limit is never passed because of the count.  *)
ActiveNeverUnderReports == Cardinality(Relaying) <= activeTunnels

(* A handler does not wait for ever: it ends, or its relay starts, within  *)
(* the read and pairing timeouts, also when its entry was overwritten,     *)
(* deleted by another waiter or taken by a partner.                        *)
WaitEnds ==
    \A c \in Conns : pc[c] \in {"read", "lookup", "store", "wait"}
                        ~> pc[c] \in {"relaying", "done"}

(* When one client of a relay leaves, the relay closes both connections    *)
(* (TestDisconnectionDetection).                                           *)
DisconnectPropagates ==
    \A c \in Conns : pc[c] = "relaying" /\ (\E x \in Ends(c) : gone[x])
                        ~> pc[c] = "done" /\ (\A x \in Ends(c) : closed[x])

(* A relay that nothing has ended: both clients there, both ends open.     *)
IdleRelay(c) == /\ pc[c] = "relaying"
                /\ \A x \in Ends(c) : ~gone[x] /\ ~closed[x]

(* Stop returns once it has closed stopChan, unless it waits for ever for  *)
(* one relay whose two clients both stay: Stop itself does not end relays. *)
(* When the clients of every relay leave in the end, Stop returns.         *)
StopReturns ==
    \A s \in Stoppers : stopPC[s] = "close"
        ~> (stopPC[s] = "returned" \/ \E c \in Conns : []IdleRelay(c))

-----------------------------------------------------------------------------
(* A claim of the repository that the code does not keep.                  *)

(* cleanup_test.go: expiry does not disturb an active pair.  While a relay *)
(* runs whose two clients are there, and nobody calls Stop, no handler of  *)
(* its two connections has ended: one that ends closes its connection.     *)
ActivePairUndisturbed ==
    \A c \in Conns :
        pc[c] = "relaying" /\ ~stopped /\ (\A x \in Ends(c) : ~gone[x])
            => \A x \in Ends(c) : pc[x] # "done"
=============================================================================

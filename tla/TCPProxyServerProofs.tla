------------------------ MODULE TCPProxyServerProofs ------------------------
(***************************************************************************)
(* Proofs about TCPProxyServer and DataPlaneServer, for any connections,   *)
(* finite or not, any limit and any tunnels.                               *)
(*                                                                         *)
(* The wait group counts exactly the goroutines between Add and Done.  The *)
(* accept loop is not entered there and may hold one connection that it    *)
(* has not spawned yet: at most one outlives Stop.                         *)
(***************************************************************************)
EXTENDS TCPProxyServer, FiniteSetTheorems, TLAPS

Stages == {"new", "accepted", "refused", "counted", "running", "returned", "uncounted", "done"}

(* The connections the wait group counts, the ones activeConns counts, and *)
(* the ones in the hands of the accept loop.                               *)
Entered == {c \in Conns : conn[c] \in {"running", "returned", "uncounted"}}
Counted == {c \in Conns : conn[c] \in {"counted", "running", "returned"}}
Held == {c \in Conns : conn[c] \in {"accepted", "counted"}}

WgCounts == IsFiniteSet(Entered) /\ wg = Cardinality(Entered)

ActiveCounts ==
    IsFiniteSet(Counted) /\ activeConns = Cardinality(Counted) /\ activeConns <= MaxConnections

LoopHoldsOne ==
    /\ \A c \in Conns : conn[c] = "accepted" => loop = "check"
    /\ \A c \in Conns : conn[c] = "counted" => loop = "spawn"
    /\ \A c, d \in Held : c = d

OneLeft ==
    stopPC = "done" /\ listener = "closed" => \A c, d \in Entered \cup Held : c = d

StageOK ==
    /\ listener \in {"none", "open", "closed"} /\ stopChan \in BOOLEAN
    /\ loop \in {"off", "accept", "check", "spawn", "over"}
    /\ conn \in [Conns -> Stages]
    /\ stopPC \in {"off", "closed", "waiting", "done"}

ServerInv == StageOK /\ WgCounts /\ ActiveCounts /\ LoopHoldsOne /\ OneLeft

(* The steps of the server, and those that leave it alone.                 *)
ServerStep ==
    \/ AcceptLoop \/ Stop
    \/ \E c \in Conns : Unwind(c) \/ HandlerReturns(c)
    \/ UNCHANGED serverVars

(* A set that one step of a connection changes, and its size.              *)
LEMMA Counting ==
    ASSUME NEW S, IsFiniteSet(S), NEW c
    PROVE  /\ Cardinality(S) \in Nat
           /\ IsFiniteSet(S \cup {c}) /\ IsFiniteSet(S \ {c})
           /\ c \notin S => Cardinality(S \cup {c}) = Cardinality(S) + 1
           /\ c \in S => Cardinality(S \ {c}) = Cardinality(S) - 1 /\ Cardinality(S) >= 1
<1>1. Cardinality(S) \in Nat
  BY FS_CardinalityType
<1>2. c \in S => Cardinality(S) # 0
  BY FS_EmptySet
<1>3. QED BY <1>1, <1>2, FS_AddElement, FS_RemoveElement

LEMMA InitServerInv == ServerInit => ServerInv
<1> SUFFICES ASSUME ServerInit PROVE ServerInv
  OBVIOUS
<1>1. StageOK
  BY DEF ServerInit, StageOK, Stages
<1>2. Entered = {} /\ Counted = {} /\ Held = {}
  BY DEF ServerInit, Entered, Counted, Held
<1>3. QED
  BY <1>1, <1>2, FS_EmptySet, MaxConnectionsAssumption
     DEF ServerInit, ServerInv, WgCounts, ActiveCounts, LoopHoldsOne, OneLeft

(* What becomes of the three sets when connection c goes from stage a to   *)
(* stage b.                                                                *)
LEMMA BecomesFacts ==
    ASSUME conn \in [Conns -> Stages], NEW c \in Conns, NEW b \in Stages, Becomes(c, b)
    PROVE  /\ conn' \in [Conns -> Stages] /\ conn'[c] = b
           /\ \A d \in Conns \ {c} : conn'[d] = conn[d]
           /\ Entered' = IF b \in {"running", "returned", "uncounted"}
                         THEN Entered \cup {c} ELSE Entered \ {c}
           /\ Counted' = IF b \in {"counted", "running", "returned"}
                         THEN Counted \cup {c} ELSE Counted \ {c}
           /\ Held' = IF b \in {"accepted", "counted"} THEN Held \cup {c} ELSE Held \ {c}
<1>1. conn' \in [Conns -> Stages] /\ conn'[c] = b
  BY DEF Becomes
<1>2. \A d \in Conns \ {c} : conn'[d] = conn[d]
  BY DEF Becomes
<1>3. QED BY <1>1, <1>2 DEF Entered, Counted, Held

(* The sets are where they were.                                           *)
LEMMA ConnKept ==
    ASSUME conn' = conn
    PROVE  Entered' = Entered /\ Counted' = Counted /\ Held' = Held
BY DEF Entered, Counted, Held

LEMMA AcceptStep ==
    ASSUME ServerInv, NEW c \in Conns, Accept(c)
    PROVE  ServerInv'
<1>1. /\ loop = "accept" /\ loop' = "check" /\ listener = "open" /\ listener' = "open"
      /\ conn[c] = "new" /\ UNCHANGED <<stopChan, activeConns, wg, stopPC>>
  BY DEF Accept
<1>2. Becomes(c, "accepted") /\ conn \in [Conns -> Stages] /\ "accepted" \in Stages
  BY DEF Accept, ServerInv, StageOK, Stages
<1>3. /\ conn' \in [Conns -> Stages] /\ conn'[c] = "accepted"
      /\ \A d \in Conns \ {c} : conn'[d] = conn[d]
      /\ Entered' = Entered \ {c} /\ Counted' = Counted \ {c} /\ Held' = Held \cup {c}
  BY <1>2, BecomesFacts
<1>4. c \notin Entered /\ c \notin Counted
  BY <1>1 DEF Entered, Counted
<1>5. Entered' = Entered /\ Counted' = Counted
  BY <1>3, <1>4
<1>6. Held = {}
  BY <1>1 DEF ServerInv, LoopHoldsOne, Held
<1>7. StageOK'
  BY <1>1, <1>3 DEF ServerInv, StageOK
<1>8. WgCounts' /\ ActiveCounts'
  BY <1>1, <1>5 DEF ServerInv, WgCounts, ActiveCounts
<1>9. LoopHoldsOne'
  <2>1. \A d \in Conns \ {c} : conn'[d] \notin {"accepted", "counted"}
    BY <1>3, <1>6 DEF Held
  <2>2. QED BY <1>1, <1>3, <1>6, <2>1 DEF LoopHoldsOne
<1>10. OneLeft'
  BY <1>1 DEF OneLeft
<1>11. QED BY <1>7, <1>8, <1>9, <1>10 DEF ServerInv

LEMMA AdmitStep ==
    ASSUME ServerInv, NEW c \in Conns, Admit(c)
    PROVE  ServerInv'
<1>1. /\ conn[c] = "accepted" /\ ~AtLimit /\ activeConns' = activeConns + 1 /\ loop' = "spawn"
      /\ UNCHANGED <<listener, stopChan, wg, stopPC>>
  BY DEF Admit
<1>2. Becomes(c, "counted") /\ conn \in [Conns -> Stages] /\ "counted" \in Stages
  BY DEF Admit, ServerInv, StageOK, Stages
<1>3. /\ conn' \in [Conns -> Stages] /\ conn'[c] = "counted"
      /\ \A d \in Conns \ {c} : conn'[d] = conn[d]
      /\ Entered' = Entered \ {c} /\ Counted' = Counted \cup {c} /\ Held' = Held \cup {c}
  BY <1>2, BecomesFacts
<1>4. c \notin Entered /\ c \notin Counted /\ c \in Held
  BY <1>1 DEF Entered, Counted, Held
<1>5. Entered' = Entered /\ Held' = Held
  BY <1>3, <1>4
<1>6. Held = {c}
  BY <1>4 DEF ServerInv, LoopHoldsOne
<1>7. StageOK'
  BY <1>1, <1>3 DEF ServerInv, StageOK
<1>8. WgCounts'
  BY <1>1, <1>5 DEF ServerInv, WgCounts
<1>9. ActiveCounts'
  BY <1>1, <1>3, <1>4, Counting, MaxConnectionsAssumption DEF ServerInv, ActiveCounts, AtLimit
<1>10. LoopHoldsOne'
  <2>1. \A d \in Conns \ {c} : conn'[d] \notin {"accepted", "counted"}
    BY <1>3, <1>6 DEF Held
  <2>2. QED BY <1>1, <1>3, <1>5, <1>6, <2>1 DEF LoopHoldsOne
<1>11. OneLeft'
  BY <1>1, <1>5 DEF ServerInv, OneLeft
<1>12. QED BY <1>7, <1>8, <1>9, <1>10, <1>11 DEF ServerInv

LEMMA RefuseStep ==
    ASSUME ServerInv, NEW c \in Conns, Refuse(c)
    PROVE  ServerInv'
<1>1. /\ conn[c] = "accepted" /\ loop' = "accept"
      /\ UNCHANGED <<listener, stopChan, activeConns, wg, stopPC>>
  BY DEF Refuse
<1>2. Becomes(c, "refused") /\ conn \in [Conns -> Stages] /\ "refused" \in Stages
  BY DEF Refuse, ServerInv, StageOK, Stages
<1>3. /\ conn' \in [Conns -> Stages] /\ conn'[c] = "refused"
      /\ \A d \in Conns \ {c} : conn'[d] = conn[d]
      /\ Entered' = Entered \ {c} /\ Counted' = Counted \ {c} /\ Held' = Held \ {c}
  BY <1>2, BecomesFacts
<1>4. c \notin Entered /\ c \notin Counted /\ c \in Held
  BY <1>1 DEF Entered, Counted, Held
<1>5. Entered' = Entered /\ Counted' = Counted
  BY <1>3, <1>4
<1>6. Held' = {}
  BY <1>3, <1>4 DEF ServerInv, LoopHoldsOne
<1>7. StageOK'
  BY <1>1, <1>3 DEF ServerInv, StageOK
<1>8. WgCounts' /\ ActiveCounts'
  BY <1>1, <1>5 DEF ServerInv, WgCounts, ActiveCounts
<1>9. LoopHoldsOne'
  BY <1>6 DEF LoopHoldsOne, Held
<1>10. OneLeft'
  BY <1>1, <1>5, <1>6 DEF ServerInv, OneLeft
<1>11. QED BY <1>7, <1>8, <1>9, <1>10 DEF ServerInv

LEMMA SpawnStep ==
    ASSUME ServerInv, NEW c \in Conns, Spawn(c)
    PROVE  ServerInv'
<1>1. /\ conn[c] = "counted" /\ loop' = "accept" /\ wg' = wg + 1
      /\ UNCHANGED <<listener, stopChan, activeConns, stopPC>>
  BY DEF Spawn
<1>2. Becomes(c, "running") /\ conn \in [Conns -> Stages] /\ "running" \in Stages
  BY DEF Spawn, ServerInv, StageOK, Stages
<1>3. /\ conn' \in [Conns -> Stages] /\ conn'[c] = "running"
      /\ \A d \in Conns \ {c} : conn'[d] = conn[d]
      /\ Entered' = Entered \cup {c} /\ Counted' = Counted \cup {c} /\ Held' = Held \ {c}
  BY <1>2, BecomesFacts
<1>4. c \notin Entered /\ c \in Counted /\ c \in Held
  BY <1>1 DEF Entered, Counted, Held
<1>5. Counted' = Counted /\ Entered' \cup Held' = Entered \cup Held
  BY <1>3, <1>4
<1>6. Held' = {}
  BY <1>3, <1>4 DEF ServerInv, LoopHoldsOne
<1>7. StageOK'
  BY <1>1, <1>3 DEF ServerInv, StageOK
<1>8. WgCounts'
  BY <1>1, <1>3, <1>4, Counting DEF ServerInv, WgCounts
<1>9. ActiveCounts'
  BY <1>1, <1>5 DEF ServerInv, ActiveCounts
<1>10. LoopHoldsOne'
  BY <1>6 DEF LoopHoldsOne, Held
<1>11. OneLeft'
  BY <1>1, <1>5 DEF ServerInv, OneLeft
<1>12. QED BY <1>7, <1>8, <1>9, <1>10, <1>11 DEF ServerInv

(* The end of a handler: it returns, is uncounted and leaves the group.    *)
LEMMA EndStep ==
    ASSUME ServerInv, NEW c \in Conns, HandlerReturns(c) \/ Uncount(c) \/ WgDone(c)
    PROVE  ServerInv'
<1>1. UNCHANGED <<listener, stopChan, loop, stopPC>>
  BY DEF HandlerReturns, Uncount, WgDone
<1>2. PICK b \in {"returned", "uncounted", "done"} : Becomes(c, b)
  BY DEF HandlerReturns, Uncount, WgDone
<1>3. conn \in [Conns -> Stages] /\ b \in Stages
  BY <1>2 DEF ServerInv, StageOK, Stages
<1>4. /\ conn' \in [Conns -> Stages] /\ conn'[c] = b
      /\ \A d \in Conns \ {c} : conn'[d] = conn[d]
      /\ Entered' = IF b # "done" THEN Entered \cup {c} ELSE Entered \ {c}
      /\ Counted' = IF b = "returned" THEN Counted \cup {c} ELSE Counted \ {c}
      /\ Held' = Held \ {c}
  BY <1>2, <1>3, BecomesFacts
<1>5. c \in Entered /\ c \notin Held
  BY DEF HandlerReturns, Uncount, WgDone, Entered, Held
<1>6. Held' = Held /\ Entered' \subseteq Entered
  BY <1>4, <1>5
<1>7. StageOK'
  BY <1>1, <1>4 DEF ServerInv, StageOK
<1>8. LoopHoldsOne'
  <2>1. \A d \in Conns : conn'[d] \in {"accepted", "counted"} => conn'[d] = conn[d]
    BY <1>2, <1>4
  <2>2. QED BY <1>1, <1>6, <2>1 DEF ServerInv, LoopHoldsOne
<1>9. OneLeft'
  BY <1>1, <1>6 DEF ServerInv, OneLeft
<1>10. WgCounts'
  <2>1. CASE WgDone(c)
    <3>1. conn'[c] = "done" /\ wg' = wg - 1
      BY <1>3, <2>1 DEF WgDone, Becomes
    <3>2. Entered' = Entered \ {c}
      BY <1>4, <3>1
    <3>3. QED BY <1>5, <3>1, <3>2, Counting DEF ServerInv, WgCounts
  <2>2. CASE HandlerReturns(c) \/ Uncount(c)
    <3>1. conn'[c] # "done" /\ wg' = wg
      BY <1>3, <2>2 DEF HandlerReturns, Uncount, Becomes
    <3>2. Entered' = Entered
      BY <1>4, <1>5, <3>1
    <3>3. QED BY <3>1, <3>2 DEF ServerInv, WgCounts
  <2>3. QED BY <2>1, <2>2
<1>11. ActiveCounts'
  <2>1. CASE Uncount(c)
    <3>1. conn[c] = "returned" /\ conn'[c] = "uncounted" /\ activeConns' = activeConns - 1
      BY <1>3, <2>1 DEF Uncount, Becomes
    <3>2. c \in Counted /\ Counted' = Counted \ {c}
      BY <1>4, <3>1 DEF Counted
    <3>3. QED
      BY <3>1, <3>2, Counting, MaxConnectionsAssumption, SMTT(20) DEF ServerInv, ActiveCounts
  <2>2. CASE HandlerReturns(c)
    <3>1. conn[c] = "running" /\ conn'[c] = "returned" /\ activeConns' = activeConns
      BY <1>3, <2>2 DEF HandlerReturns, Becomes
    <3>2. c \in Counted /\ Counted' = Counted \cup {c}
      BY <1>4, <3>1 DEF Counted
    <3>3. Counted' = Counted
      BY <3>2
    <3>4. QED BY <3>1, <3>3 DEF ServerInv, ActiveCounts
  <2>3. CASE WgDone(c)
    <3>1. conn[c] = "uncounted" /\ conn'[c] = "done" /\ activeConns' = activeConns
      BY <1>3, <2>3 DEF WgDone, Becomes
    <3>2. c \notin Counted /\ Counted' = Counted \ {c}
      BY <1>4, <3>1 DEF Counted
    <3>3. Counted' = Counted
      BY <3>2
    <3>4. QED BY <3>1, <3>3 DEF ServerInv, ActiveCounts
  <2>4. QED BY <2>1, <2>2, <2>3
<1>12. QED BY <1>7, <1>8, <1>9, <1>10, <1>11 DEF ServerInv

LEMMA StartStep ==
    ASSUME ServerInv, Start \/ AcceptError
    PROVE  ServerInv'
<1>1. /\ UNCHANGED <<stopChan, conn, activeConns, wg, stopPC>>
      /\ loop \in {"off", "accept"} /\ loop' \in {"accept", "over"}
      /\ listener' \in {listener, "open"}
  BY DEF Start, AcceptError
<1>2. Entered' = Entered /\ Counted' = Counted /\ Held' = Held
  BY <1>1, ConnKept
<1>3. StageOK'
  BY <1>1 DEF ServerInv, StageOK
<1>4. WgCounts' /\ ActiveCounts'
  BY <1>1, <1>2 DEF ServerInv, WgCounts, ActiveCounts
<1>5. Held = {}
  BY <1>1 DEF ServerInv, LoopHoldsOne, Held
<1>6. LoopHoldsOne'
  BY <1>1, <1>2, <1>5 DEF LoopHoldsOne, Held
<1>7. OneLeft'
  BY <1>1, <1>2 DEF ServerInv, OneLeft
<1>8. QED BY <1>3, <1>4, <1>6, <1>7 DEF ServerInv

(* Wait returns: nobody has entered the group, so only the connection the  *)
(* accept loop holds is left.                                              *)
LEMMA StopStep ==
    ASSUME ServerInv, Stop
    PROVE  ServerInv'
<1>1. UNCHANGED <<loop, conn, activeConns, wg>>
  BY DEF Stop, StopClose, StopListener, StopWait
<1>2. Entered' = Entered /\ Counted' = Counted /\ Held' = Held
  BY <1>1, ConnKept
<1>3. StageOK'
  BY <1>1 DEF ServerInv, StageOK, Stop, StopClose, StopListener, StopWait
<1>4. WgCounts' /\ ActiveCounts' /\ LoopHoldsOne'
  BY <1>1, <1>2 DEF ServerInv, WgCounts, ActiveCounts, LoopHoldsOne
<1>5. OneLeft'
  <2>1. CASE StopWait
    <3>1. Entered = {}
      BY <2>1, FS_EmptySet DEF StopWait, ServerInv, WgCounts
    <3>2. QED BY <1>2, <3>1 DEF ServerInv, LoopHoldsOne, OneLeft
  <2>2. CASE StopClose \/ StopListener
    <3>1. stopPC' # "done"
      BY <2>2 DEF StopClose, StopListener
    <3>2. QED BY <3>1 DEF OneLeft
  <2>3. QED BY <2>1, <2>2 DEF Stop
<1>6. QED BY <1>3, <1>4, <1>5 DEF ServerInv

LEMMA ServerSteps == ServerInv /\ ServerStep => ServerInv'
<1> SUFFICES ASSUME ServerInv, ServerStep PROVE ServerInv'
  OBVIOUS
<1>1. CASE AcceptLoop
  BY <1>1, StartStep, AcceptStep, AdmitStep, RefuseStep, SpawnStep DEF AcceptLoop
<1>2. CASE Stop
  BY <1>2, StopStep
<1>3. ASSUME NEW c \in Conns, Unwind(c) \/ HandlerReturns(c) PROVE ServerInv'
  BY <1>3, EndStep DEF Unwind
<1>4. CASE UNCHANGED serverVars
  <2>1. Entered' = Entered /\ Counted' = Counted /\ Held' = Held
    BY <1>4, ConnKept DEF serverVars
  <2>2. QED
    BY <1>4, <2>1
       DEF serverVars, ServerInv, StageOK, WgCounts, ActiveCounts, LoopHoldsOne, OneLeft
<1>5. QED BY <1>1, <1>2, <1>3, <1>4 DEF ServerStep

-----------------------------------------------------------------------------
(* The handlers.                                                           *)

(* A handler between the Load and the Store of Update: its tunnel is still *)
(* there, or was deleted behind its back.                                  *)
UpdateOK(c) ==
    phase[c] = "store" => conn[c] = "running" /\ (id[c] \in store \/ raced[c])

HandlerType ==
    /\ store \subseteq Tunnels
    /\ phase \in [Conns -> {"read", "get", "dial", "touch", "store", "pipe", "wait", "over"}]
    /\ id \in [Conns -> Tunnels \cup {None}]
    /\ raced \in [Conns -> BOOLEAN]
    /\ errs \in [Conns -> 0 .. 2]
    /\ \A c \in Conns : phase[c] \in {"get", "dial", "touch", "store"} => id[c] \in Tunnels

IInv == ServerInv /\ HandlerType /\ \A c \in Conns : UpdateOK(c)

(* A step of the server leaves the handlers where they are.                *)
LEMMA ServerAside ==
    ASSUME IInv, ServerStep, UNCHANGED <<store, phase, id, raced, errs>>,
           \A c \in Conns : conn[c] = "running" => conn'[c] = "running"
    PROVE  IInv'
<1>1. ServerInv'
  BY ServerSteps DEF IInv
<1>2. HandlerType'
  BY DEF IInv, HandlerType
<1>3. \A c \in Conns : UpdateOK(c)'
  BY DEF IInv, UpdateOK
<1>4. QED BY <1>1, <1>2, <1>3 DEF IInv

(* A handler returns: it is over, and the others are where they were.      *)
LEMMA ReturnStep ==
    ASSUME IInv, NEW c \in Conns, Return(c), errs' \in [Conns -> 0 .. 2]
    PROVE  IInv'
<1>1. HandlerReturns(c) /\ store' = store
  BY DEF Return
<1>2. ServerInv'
  BY <1>1, ServerSteps DEF IInv, ServerStep
<1>3. /\ phase' = [phase EXCEPT ![c] = "over"] /\ id' = [id EXCEPT ![c] = None]
      /\ raced' = [raced EXCEPT ![c] = FALSE]
  BY DEF Return, Goto
<1>4. HandlerType'
  BY <1>1, <1>3 DEF IInv, HandlerType
<1>5. ASSUME NEW d \in Conns PROVE UpdateOK(d)'
  <2>1. CASE d = c
    BY <1>3, <2>1 DEF IInv, HandlerType, UpdateOK
  <2>2. CASE d # c
    <3>1. conn'[d] = conn[d]
      BY <1>1, <2>2 DEF HandlerReturns, Becomes, IInv, ServerInv, StageOK
    <3>2. phase'[d] = phase[d] /\ id'[d] = id[d] /\ raced'[d] = raced[d]
      BY <1>3, <2>2 DEF IInv, HandlerType
    <3>3. QED BY <1>1, <3>1, <3>2 DEF IInv, UpdateOK
  <2>3. QED BY <2>1, <2>2
<1>6. QED BY <1>2, <1>4, <1>5 DEF IInv

(* A handler goes on: what it knows of its tunnel is so.                   *)
LEMMA GoStep ==
    ASSUME IInv, NEW c \in Conns, UNCHANGED <<serverVars, errs>>,
           NEW l \in {"get", "dial", "touch", "store", "pipe", "wait"}, Goto(c, l),
           NEW t \in Tunnels \cup {None}, id' = [id EXCEPT ![c] = t],
           NEW b \in BOOLEAN, raced' = [raced EXCEPT ![c] = b],
           store \subseteq store', store' \subseteq Tunnels,
           l \in {"get", "dial", "touch", "store"} => t \in Tunnels,
           l = "store" => conn[c] = "running" /\ t \in store
    PROVE  IInv'
<1>1. ServerInv' /\ conn' = conn
  BY ServerSteps DEF IInv, ServerStep, serverVars
<1>2. HandlerType'
  BY DEF IInv, HandlerType, Goto
<1>3. ASSUME NEW d \in Conns PROVE UpdateOK(d)'
  <2>1. CASE d = c
    BY <1>1, <2>1 DEF IInv, HandlerType, UpdateOK, Goto
  <2>2. CASE d # c
    <3>1. phase'[d] = phase[d] /\ id'[d] = id[d] /\ raced'[d] = raced[d]
      BY <2>2 DEF IInv, HandlerType, Goto
    <3>2. QED BY <1>1, <3>1 DEF IInv, UpdateOK
  <2>3. QED BY <2>1, <2>2
<1>4. QED BY <1>1, <1>2, <1>3 DEF IInv

LEMMA InitIInv == Init => IInv
<1> SUFFICES ASSUME Init PROVE IInv
  OBVIOUS
<1>1. ServerInv
  BY InitServerInv DEF Init
<1>2. HandlerType
  BY DEF Init, HandlerType
<1>3. \A c \in Conns : UpdateOK(c)
  BY DEF Init, UpdateOK
<1>4. QED BY <1>1, <1>2, <1>3 DEF IInv

LEMMA HandleStep ==
    ASSUME IInv, NEW c \in Conns, Handle(c)
    PROVE  IInv'
<1>a. HandlerType /\ UpdateOK(c)
  BY DEF IInv
<1>b. id = [id EXCEPT ![c] = id[c]] /\ raced = [raced EXCEPT ![c] = raced[c]]
  BY <1>a DEF HandlerType
<1>c. id[c] \in Tunnels \cup {None} /\ raced[c] \in BOOLEAN /\ store \subseteq Tunnels
  BY <1>a DEF HandlerType
<1>d. At(c, "get") \/ At(c, "dial") \/ At(c, "touch") \/ At(c, "store") => id[c] \in Tunnels
  BY <1>a DEF HandlerType, At
<1>1. ASSUME NEW t \in Tunnels, ReadID(c, t) PROVE IInv'
  <2>1. /\ Goto(c, "get") /\ id' = [id EXCEPT ![c] = t]
        /\ UNCHANGED <<serverVars, errs>> /\ UNCHANGED <<store, raced>>
    BY <1>1 DEF ReadID
  <2>2. QED BY <1>b, <1>c, <2>1, GoStep
<1>2. ASSUME ReadFails(c) \/ GetFails(c) \/ DialFails(c) PROVE IInv'
  <2>1. Return(c) /\ errs' = errs
    BY <1>2 DEF ReadFails, GetFails, DialFails
  <2>2. QED BY <1>a, <2>1, ReturnStep DEF HandlerType
<1>3. ASSUME Get(c) PROVE IInv'
  <2>1. At(c, "get") /\ Goto(c, "dial") /\ UNCHANGED <<serverVars, errs>> /\ UNCHANGED <<store, id, raced>>
    BY <1>3 DEF Get
  <2>2. QED BY <1>b, <1>c, <1>d, <2>1, GoStep
<1>4. ASSUME Dial(c) PROVE IInv'
  <2>1. At(c, "dial") /\ Goto(c, "touch") /\ UNCHANGED <<serverVars, errs>> /\ UNCHANGED <<store, id, raced>>
    BY <1>4 DEF Dial
  <2>2. QED BY <1>b, <1>c, <1>d, <2>1, GoStep
<1>5. ASSUME TouchLoad(c) PROVE IInv'
  <2>1. At(c, "touch") /\ UNCHANGED <<serverVars, errs>> /\ UNCHANGED <<store, id, raced>>
    BY <1>5 DEF TouchLoad
  <2>2. CASE Loaded(c)
    <3>1. Goto(c, "store") /\ conn[c] = "running" /\ id[c] \in store
      BY <1>5, <2>2 DEF TouchLoad, Loaded, At
    <3>2. QED BY <1>b, <1>c, <1>d, <2>1, <3>1, GoStep
  <2>3. CASE ~Loaded(c)
    <3>1. Goto(c, "pipe")
      BY <1>5, <2>3 DEF TouchLoad
    <3>2. QED BY <1>b, <1>c, <1>d, <2>1, <3>1, GoStep
  <2>4. QED BY <2>2, <2>3
<1>6. ASSUME TouchStore(c) PROVE IInv'
  <2>1. /\ At(c, "store") /\ Goto(c, "pipe") /\ UNCHANGED <<serverVars, errs>> /\ UNCHANGED id
        /\ raced' = [raced EXCEPT ![c] = FALSE] /\ store' = store \cup {id[c]}
    BY <1>6 DEF TouchStore
  <2>2. QED BY <1>b, <1>c, <1>d, <2>1, GoStep
<1>7. ASSUME StartPipes(c) PROVE IInv'
  <2>1. Goto(c, "wait") /\ UNCHANGED <<serverVars, errs>> /\ UNCHANGED <<store, id, raced>>
    BY <1>7 DEF StartPipes
  <2>2. QED BY <1>b, <1>c, <2>1, GoStep
<1>8. ASSUME ReceiveErr(c) PROVE IInv'
  <2>1. errs' \in [Conns -> 0 .. 2]
    BY <1>a, <1>8 DEF ReceiveErr, HandlerType
  <2>2. QED BY <1>8, <2>1, ReturnStep DEF ReceiveErr
<1>9. QED BY <1>1, <1>2, <1>3, <1>4, <1>5, <1>6, <1>7, <1>8 DEF Handle

LEMMA NextIInv == IInv /\ [Next]_vars => IInv'
<1> SUFFICES ASSUME IInv, [Next]_vars PROVE IInv'
  OBVIOUS
<1>a. StageOK /\ HandlerType
  BY DEF IInv, ServerInv
<1>b. ASSUME NEW c \in Conns, NEW d \in Conns, NEW s, Becomes(c, s), conn[c] # "running",
             conn[d] = "running"
      PROVE  conn'[d] = "running"
  BY <1>a, <1>b DEF Becomes, StageOK
<1>1. CASE AcceptConnections
  <2>1. AcceptLoop /\ UNCHANGED <<store, phase, id, raced, errs>>
    BY <1>1 DEF AcceptConnections, handlerVars
  <2>2. ASSUME NEW d \in Conns, conn[d] = "running" PROVE conn'[d] = "running"
    <3>1. CASE Start \/ AcceptError
      BY <2>2, <3>1 DEF Start, AcceptError
    <3>2. CASE \E c \in Conns : Accept(c) \/ Admit(c) \/ Refuse(c) \/ Spawn(c)
      <4>1. PICK c \in Conns : Accept(c) \/ Admit(c) \/ Refuse(c) \/ Spawn(c)
        BY <3>2
      <4>2. PICK s : Becomes(c, s) /\ conn[c] # "running"
        BY <4>1 DEF Accept, Admit, Refuse, Spawn
      <4>3. QED BY <1>b, <2>2, <4>2
    <3>3. QED BY <2>1, <3>1, <3>2 DEF AcceptLoop
  <2>3. QED BY <2>1, <2>2, ServerAside DEF ServerStep
<1>2. CASE StopProxy
  <2>1. Stop /\ UNCHANGED <<store, phase, id, raced, errs>> /\ conn' = conn
    BY <1>2 DEF StopProxy, handlerVars, Stop, StopClose, StopListener, StopWait
  <2>2. QED BY <2>1, ServerAside DEF ServerStep
<1>3. ASSUME NEW c \in Conns, UnwindHandler(c) PROVE IInv'
  <2>1. Unwind(c) /\ UNCHANGED <<store, phase, id, raced, errs>>
    BY <1>3 DEF UnwindHandler, handlerVars
  <2>2. PICK s : Becomes(c, s) /\ conn[c] # "running"
    BY <2>1 DEF Unwind, Uncount, WgDone
  <2>3. \A d \in Conns : conn[d] = "running" => conn'[d] = "running"
    BY <1>b, <2>2
  <2>4. QED BY <2>1, <2>3, ServerAside DEF ServerStep
<1>4. ASSUME NEW c \in Conns, Handle(c) PROVE IInv'
  BY <1>4, HandleStep
<1>5. ASSUME NEW c \in Conns, NEW d \in Sides, Pipe(c, d) PROVE IInv'
  <2>1. UNCHANGED serverVars /\ UNCHANGED <<store, phase, id, raced>>
    BY <1>5 DEF Pipe, CopyEnds, SendErr
  <2>2. errs' \in [Conns -> 0 .. 2]
    BY <1>a, <1>5 DEF Pipe, CopyEnds, SendErr, Room, HandlerType
  <2>3. ServerInv' /\ conn' = conn
    BY <2>1, ServerSteps DEF IInv, ServerStep, serverVars
  <2>4. HandlerType'
    BY <1>a, <2>1, <2>2 DEF HandlerType
  <2>5. QED BY <2>1, <2>3, <2>4 DEF IInv, UpdateOK
<1>6. ASSUME NEW c \in Conns, NEW d \in Sides, HangUp(c, d) PROVE IInv'
  <2>1. UNCHANGED serverVars /\ UNCHANGED <<store, phase, id, raced, errs>> /\ conn' = conn
    BY <1>6 DEF HangUp, serverVars
  <2>2. QED BY <2>1, ServerAside DEF ServerStep
<1>7. ASSUME NEW t \in Tunnels, DeleteTunnel(t) PROVE IInv'
  <2>1. /\ UNCHANGED serverVars /\ UNCHANGED <<phase, id, errs>> /\ store' = store \ {t}
        /\ raced' = [c \in Conns |-> raced[c] \/ (At(c, "store") /\ id[c] = t)]
    BY <1>7 DEF DeleteTunnel
  <2>2. ServerInv' /\ conn' = conn
    BY <2>1, ServerSteps DEF IInv, ServerStep, serverVars
  <2>3. HandlerType'
    BY <1>a, <2>1 DEF HandlerType
  <2>4. ASSUME NEW c \in Conns PROVE UpdateOK(c)'
    <3>1. raced'[c] <=> (raced[c] \/ (At(c, "store") /\ id[c] = t))
      BY <2>1
    <3>2. QED BY <2>1, <2>2, <3>1 DEF IInv, UpdateOK, At
  <2>5. QED BY <2>2, <2>3, <2>4 DEF IInv
<1>8. CASE UNCHANGED vars
  <2>1. UNCHANGED serverVars /\ UNCHANGED <<store, phase, id, raced, errs>> /\ conn' = conn
    BY <1>8 DEF vars, handlerVars, serverVars
  <2>2. QED BY <2>1, ServerAside DEF ServerStep
<1>9. QED BY <1>1, <1>2, <1>3, <1>4, <1>5, <1>6, <1>7, <1>8 DEF Next

(* TCPProxyServer's variables keep their types; in particular activeConns  *)
(* stays within MaxConnections and the wait group's counter, which Go      *)
(* panics on, never goes below zero.                                       *)
THEOREM ProxyTypeCorrect == Spec => []TypeOK
<1>1. IInv => TypeOK
  <2> SUFFICES ASSUME IInv PROVE TypeOK
    OBVIOUS
  <2>1. activeConns \in Nat /\ activeConns <= MaxConnections /\ wg \in Nat
    BY Counting DEF IInv, ServerInv, WgCounts, ActiveCounts
  <2>2. activeConns \in 0 .. MaxConnections
    BY <2>1, MaxConnectionsAssumption
  <2>3. QED
    BY <2>1, <2>2 DEF IInv, ServerInv, StageOK, Stages, HandlerType, TypeOK, ServerTypeOK
<1>2. QED BY <1>1, InitIInv, NextIInv, PTL DEF Spec

(* How far Stop may be from waiting for all connections, when it found the *)
(* listener: only the connection that the accept loop held when Wait       *)
(* returned is left.                                                       *)
AtMostOneOutlivesStop ==
    stopPC = "done" /\ listener = "closed" =>
        Cardinality({c \in Conns : conn[c] \in {"accepted", "counted", "running", "returned",
                                                "uncounted"}}) <= 1

(* When Stop has returned and it found the listener, at most one           *)
(* connection is left: the one the accept loop held when Wait returned.    *)
THEOREM OneOutlivesStop == Spec => []AtMostOneOutlivesStop
<1>1. IInv => AtMostOneOutlivesStop
  <2> DEFINE Left == {c \in Conns : conn[c] \in {"accepted", "counted", "running", "returned",
                                                  "uncounted"}}
  <2> SUFFICES ASSUME IInv, stopPC = "done", listener = "closed" PROVE Cardinality(Left) <= 1
    BY DEF AtMostOneOutlivesStop
  <2>1. Left = Entered \cup Held
    BY DEF Entered, Held
  <2>2. \A c, d \in Left : c = d
    BY <2>1 DEF IInv, ServerInv, OneLeft
  <2> HIDE DEF Left
  <2>3. CASE Left = {}
    BY <2>3, FS_EmptySet
  <2>4. CASE Left # {}
    <3>1. PICK c \in Left : TRUE
      BY <2>4
    <3>2. Left = {c}
      BY <2>2, <3>1
    <3>3. Cardinality({c}) = 1
      BY FS_Singleton
    <3>4. QED BY <3>2, <3>3
  <2>5. QED BY <2>3, <2>4
<1>2. QED BY <1>1, InitIInv, NextIInv, PTL DEF Spec

(* Update brings a deleted tunnel back only if the tunnel was deleted      *)
(* between this Update's Load and its Store.                               *)
THEOREM ReturnNeedsRace == Spec => BackOnlyIfRaced
<1>1. IInv /\ [Next]_vars =>
        [\A t \in store' \ store :
            \E c \in Conns : At(c, "store") /\ id[c] = t /\ raced[c]]_vars
  <2> SUFFICES ASSUME IInv, Next, NEW t \in store' \ store
               PROVE  \E c \in Conns : At(c, "store") /\ id[c] = t /\ raced[c]
    OBVIOUS
  <2>1. store' # store /\ ~(store' \subseteq store)
    OBVIOUS
  <2>2. PICK c \in Conns : TouchStore(c)
    <3>1. AcceptConnections \/ StopProxy \/ (\E c \in Conns : UnwindHandler(c)) => FALSE
      BY <2>1 DEF AcceptConnections, StopProxy, UnwindHandler
    <3>2. (\E c \in Conns, d \in Sides : Pipe(c, d) \/ HangUp(c, d)) => FALSE
      BY <2>1 DEF Pipe, CopyEnds, SendErr, HangUp
    <3>3. (\E u \in Tunnels : DeleteTunnel(u)) => FALSE
      BY <2>1 DEF DeleteTunnel
    <3>4. ASSUME NEW c \in Conns, Handle(c) PROVE TouchStore(c)
      BY <2>1, <3>4
         DEF Handle, ReadID, ReadFails, Get, GetFails, Dial, DialFails, TouchLoad, StartPipes,
             ReceiveErr, Return
    <3>5. QED BY <3>1, <3>2, <3>3, <3>4 DEF Next
  <2>3. At(c, "store") /\ t = id[c] /\ id[c] \notin store
    BY <2>2 DEF TouchStore
  <2>4. raced[c]
    BY <2>3 DEF IInv, UpdateOK, At
  <2>5. QED BY <2>3, <2>4
<1>2. QED BY <1>1, InitIInv, NextIInv, PTL DEF Spec, BackOnlyIfRaced
=============================================================================

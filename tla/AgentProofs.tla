---------------------------- MODULE AgentProofs -----------------------------
(***************************************************************************)
(* Proofs about the two sides of an agent: its authentication client, for  *)
(* any number of calls and timers, and then the IH client's proxy of       *)
(* module Agents, for any users, finite or not.                            *)
(*                                                                         *)
(* OneTimer and RefreshAlive are inductive with the types.  That a revoked *)
(* token is presented only after a race needs to know where a token can    *)
(* come from: a Handshake's answer carries a token nobody else has seen    *)
(* (FreshAnswer), a Refresh's answer one that was known when it was given  *)
(* (AnswerRaced), and a Revoke request on its way after its call gave up   *)
(* belongs to a call that failed (LateFailed).                             *)
(***************************************************************************)
EXTENDS AuthClient, Agents, FiniteSetTheorems, TLAPS

(* A Revoke that waits for its answer carries a token.                     *)
RevokeHolds == \A v \in Revokes : pc[v] = "sent" => held[v] # 0

(* A Handshake that may send has an attempt left.                          *)
AttemptsLeft ==
    \A h \in Handshakes : pc[h] \in {"idle", "wait"} => attempt[h] < MaxAttempts

FreshAnswer ==
    \A h \in Handshakes : pc[h] = "replied" =>
        /\ held[h] # 0 /\ held[h] # token
        /\ held[h] \notin revoked /\ held[h] \notin late
        /\ \A a \in Actors : held[a] = held[h] => a = h

AnswerRaced ==
    \A a \in Refreshers : pc[a] = "replied" /\ held[a] \in revoked => held[a] \in raced

LateFailed ==
    \A t \in late : \E v \in Revokes : held[v] = t /\ pc[v] \in {"error", "failed"}

(* What concerns timers and attempts.                                      *)
TimersOK == OneTimer /\ RefreshAlive /\ AttemptsLeft

(* The inductive invariant.                                                *)
IInv ==
    /\ TypeOK
    /\ OneTimer
    /\ RefreshAlive
    /\ RevokeHolds
    /\ AttemptsLeft
    /\ FreshAnswer
    /\ AnswerRaced
    /\ LateFailed
    /\ RevokedOnlyIfRaced

-----------------------------------------------------------------------------
(* What Arm does: it arms one timer, which becomes refreshTimer, and       *)
(* touches no other actor than its caller and the timer it stops.          *)
LEMMA ArmFacts ==
    ASSUME TypeOK, OneTimer,
           NEW a \in Actors, NEW place \in Places \ {"armed"}, NEW n \in 0 .. MaxDelay,
           Arm(a, place, n)
    PROVE  /\ refreshTimer' \in Timers
           /\ delay' \in [Timers -> 0 .. MaxDelay]
           /\ pc' \in [Actors -> Places]
           /\ pc'[refreshTimer'] = "armed"
           /\ \A k \in Timers : pc'[k] = "armed" => k = refreshTimer'
           /\ a \notin Timers => pc'[a] = place
           /\ \A b \in Calls : b # a => pc'[b] = pc[b]
           /\ \A b \in Actors : b # a => pc'[b] \in {"armed", "free", pc[b]}
           /\ pc'[a] \in {"armed", "free", place}
<1> DEFINE usable == {j \in Timers : \/ pc[j] = "free" \/ j = a
                                     \/ j = refreshTimer /\ pc[j] = "armed"}
           k == CHOOSE j \in usable : TRUE
<1>1. k \in usable
  BY DEF Arm
<1>2. k \in Timers /\ k \in Actors /\ Timers \subseteq Actors
  BY <1>1 DEF Actors
<1>3. /\ refreshTimer' = k
      /\ delay' = [j \in Timers |->
                        IF j = k THEN n
                        ELSE IF j = a \/ pc[j] = "armed" THEN 0 ELSE delay[j]]
      /\ pc' = [b \in Actors |->
                    IF b = k THEN "armed" ELSE IF b = a THEN place
                    ELSE IF b = refreshTimer /\ pc[b] = "armed" THEN "free" ELSE pc[b]]
  BY DEF Arm
<1> HIDE DEF k, usable
<1>4. \A b \in Calls : b \in Actors /\ b \notin Timers
  BY AuthAssumption DEF Actors, Calls
<1>5. delay' \in [Timers -> 0 .. MaxDelay]
  BY <1>3, AuthAssumption DEF TypeOK
<1>6. pc' \in [Actors -> Places]
  BY <1>3 DEF TypeOK, Places
<1>7. pc'[k] = "armed"
  BY <1>2, <1>3
<1>8. \A j \in Timers : pc'[j] = "armed" => j = k
  BY <1>2, <1>3 DEF OneTimer
<1>9. a \notin Timers => pc'[a] = place
  BY <1>2, <1>3
<1>10. \A b \in Calls : b # a => pc'[b] = pc[b]
  BY <1>2, <1>3, <1>4 DEF TypeOK
<1>11. \A b \in Actors : b # a => pc'[b] \in {"armed", "free", pc[b]}
  BY <1>3
<1>12. pc'[a] \in {"armed", "free", place}
  BY <1>3
<1> QED
  BY <1>2, <1>3, <1>5, <1>6, <1>7, <1>8, <1>9, <1>10, <1>11, <1>12

(* The kinds of actors.                                                    *)
LEMMA Kinds ==
    /\ Handshakes \subseteq Actors /\ Refreshers \subseteq Actors
    /\ Revokes \subseteq Actors /\ Timers \subseteq Actors
    /\ Handshakes \cap (Refreshers \cup Revokes) = {}
    /\ Refreshers \cap Revokes = {}
    /\ Handshakes \cap Timers = {} /\ Revokes \cap Timers = {}
    /\ Timers \subseteq Refreshers
    /\ (Refreshers \cup Revokes \cup Handshakes) = Actors
    /\ (Refreshes \cup Revokes) \cap Timers = {}
    /\ (Refreshes \cup Revokes) \cap Handshakes = {}
    /\ (Refreshes \cup Revokes) \subseteq Actors
BY AuthAssumption DEF Actors, Calls, Refreshers

(* The doubled delay stays within its limit.                               *)
LEMMA DelayType == \A d \in 0 .. MaxDelay : NextDelay(d) \in 0 .. MaxDelay
BY AuthAssumption DEF NextDelay, FirstDelay

(* A new client has no token and no timer.                                 *)
LEMMA InitIInv == Init => IInv
<1> SUFFICES ASSUME Init PROVE IInv
  OBVIOUS
<1>0. (CHOOSE k \in Timers : TRUE) \in Timers
  BY AuthAssumption
<1>1. TypeOK
  BY <1>0, AuthAssumption, Kinds DEF Init, TypeOK, Places, MaxAttempts
<1>2. \A a \in Actors : pc[a] \in {"free", "idle"} /\ held[a] = 0
  BY DEF Init
<1>3. OneTimer /\ RefreshAlive /\ RevokeHolds /\ FreshAnswer /\ AnswerRaced
  BY <1>2, Kinds DEF OneTimer, RefreshAlive, RevokeHolds, FreshAnswer, AnswerRaced
<1>4. LateFailed /\ RevokedOnlyIfRaced /\ AttemptsLeft
  BY DEF Init, LateFailed, RevokedOnlyIfRaced, AttemptsLeft, MaxAttempts
<1> QED
  BY <1>1, <1>3, <1>4 DEF IInv

-----------------------------------------------------------------------------
(* Every step keeps the types.                                             *)
LEMMA NextTypeOK == IInv /\ [Next]_vars => TypeOK'
<1> SUFFICES ASSUME IInv, [Next]_vars PROVE TypeOK'
  OBVIOUS
<1> USE Kinds, AuthAssumption DEF IInv
<1>1. ASSUME NEW h \in Handshakes, HandshakeSend(h) PROVE TypeOK'
  BY <1>1
    DEF HandshakeSend, AttemptsLeft, MaxAttempts, TypeOK, Goto, Places, timerVars, serverVars
<1>2. ASSUME NEW h \in Handshakes, HandshakeRetry(h) PROVE TypeOK'
  BY <1>2 DEF HandshakeRetry, TypeOK, Goto, Places, timerVars, serverVars
<1>3. ASSUME NEW h \in Handshakes, HandshakeCancelled(h) PROVE TypeOK'
  BY <1>3 DEF HandshakeCancelled, TypeOK, Goto, Places, timerVars, serverVars
<1>4. ASSUME NEW h \in Handshakes, HandshakeStore(h) PROVE TypeOK'
  BY <1>4 DEF HandshakeStore, TypeOK, Goto, Places, timerVars, serverVars
<1>5. ASSUME NEW h \in Handshakes, StartAutoRefresh(h) PROVE TypeOK'
  <2>1. Arm(h, "ok", 0) /\ "ok" \in Places \ {"armed"} /\ 0 \in 0 .. MaxDelay
    BY <1>5, DelayType DEF StartAutoRefresh, Places, TypeOK
  <2> QED
    BY <1>5, <2>1, ArmFacts
      DEF StartAutoRefresh, TypeOK, Goto, Places, timerVars, serverVars
<1>6. ASSUME NEW h \in Handshakes, ServeHandshake(h) PROVE TypeOK'
  BY <1>6 DEF ServeHandshake, TypeOK, Goto, Places, timerVars, serverVars
<1>7. ASSUME NEW a \in Refreshers \cup Revokes, ReadToken(a) PROVE TypeOK'
  BY <1>7 DEF ReadToken, TypeOK, Goto, Places, timerVars, serverVars
<1>8. ASSUME NEW a \in Refreshers, RefreshStore(a) PROVE TypeOK'
  BY <1>8 DEF RefreshStore, TypeOK, Goto, Places, timerVars, serverVars
<1>9. ASSUME NEW a \in Refreshers, ServeRefresh(a) PROVE TypeOK'
  BY <1>9 DEF ServeRefresh, TypeOK, Goto, Places, timerVars, serverVars
<1>10. ASSUME NEW v \in Revokes, RevokeClear(v) PROVE TypeOK'
  BY <1>10 DEF RevokeClear, TypeOK, Goto, Places, timerVars, serverVars
<1>11. ASSUME NEW v \in Revokes, ServeRevoke(v) PROVE TypeOK'
  <2>1. held[v] \in 1 .. issued
    BY <1>11 DEF ServeRevoke, RevokeHolds, TypeOK
  <2>2. revoked' \subseteq 1 .. issued /\ raced' \subseteq revoked'
    BY <1>11, <2>1 DEF ServeRevoke, ForgetToken, TypeOK
  <2>3. pc' \in [Actors -> Places]
    BY <1>11 DEF ServeRevoke, Goto, Places, TypeOK
  <2> QED
    BY <1>11, <2>2, <2>3 DEF ServeRevoke, TypeOK, timerVars
<1>12. ASSUME NEW a \in Refreshes \cup Revokes, CallFails(a) PROVE TypeOK'
  BY <1>12 DEF CallFails, TypeOK, Goto, Places, timerVars, serverVars
<1>13. ASSUME NEW k \in Timers, TimerFires(k) PROVE TypeOK'
  BY <1>13 DEF TimerFires, TypeOK, Goto, Places, timerVars, serverVars
<1>14. ASSUME NEW k \in Timers, CallbackCheck(k) PROVE TypeOK'
  BY <1>14 DEF CallbackCheck, TypeOK, Goto, Places, timerVars, serverVars
<1>15. ASSUME NEW k \in Timers, CallbackNext(k) PROVE TypeOK'
  <2>1. Arm(k, "free", 0) /\ "free" \in Places \ {"armed"} /\ 0 \in 0 .. MaxDelay
    BY <1>15, DelayType DEF CallbackNext, Places, TypeOK
  <2> QED
    BY <1>15, <2>1, ArmFacts DEF CallbackNext, TypeOK, Goto, Places, timerVars, serverVars
<1>16. ASSUME NEW k \in Timers, CallbackRetry(k) PROVE TypeOK'
  <2>1. /\ Arm(k, "free", NextDelay(delay[k]))
        /\ "free" \in Places \ {"armed"}
        /\ NextDelay(delay[k]) \in 0 .. MaxDelay
    BY <1>16, DelayType DEF CallbackRetry, Places, TypeOK
  <2> QED
    BY <1>16, <2>1, ArmFacts DEF CallbackRetry, TypeOK, Goto, Places, timerVars, serverVars
<1>17. ASSUME StopTimer PROVE TypeOK'
  BY <1>17 DEF StopTimer, TypeOK, Goto, Places, timerVars, serverVars
<1>18. ASSUME StopClose PROVE TypeOK'
  BY <1>18 DEF StopClose, TypeOK, Goto, Places, timerVars, serverVars
<1>19. ASSUME NEW a \in Actors, RequestFails(a) PROVE TypeOK'
  <2>1. late' \subseteq 1 .. issued
    <3>1. CASE UNCHANGED late
      BY <3>1 DEF TypeOK
    <3>2. CASE a \in Revokes /\ pc[a] = "sent" /\ late' = late \cup {held[a]}
      <4>1. held[a] \in 0 .. issued /\ held[a] # 0
        BY <3>2 DEF RevokeHolds, TypeOK
      <4>2. held[a] \in 1 .. issued
        BY <4>1 DEF TypeOK
      <4>3. late \subseteq 1 .. issued /\ late' = late \cup {held[a]}
        BY <3>2 DEF TypeOK
      <4> QED
        BY <4>2, <4>3
    <3> QED
      BY <1>19, <3>1, <3>2 DEF RequestFails
  <2>2. pc' \in [Actors -> Places] /\ held' \in [Actors -> 0 .. issued]
    BY <1>19 DEF RequestFails, Goto, Places, TypeOK
  <2> QED
    BY <1>19, <2>1, <2>2 DEF RequestFails, TypeOK, timerVars
<1>20. ASSUME NEW t \in 1 .. issued, ServeLateRevoke(t) PROVE TypeOK'
  <2>1. revoked' \subseteq 1 .. issued /\ raced' \subseteq revoked'
    BY <1>20 DEF ServeLateRevoke, ForgetToken, TypeOK
  <2> QED
    BY <1>20, <2>1 DEF ServeLateRevoke, TypeOK, timerVars
<1>21. CASE UNCHANGED vars
  BY <1>21 DEF vars, TypeOK, Goto, Places, timerVars, serverVars
<1> QED
  BY <1>1, <1>2, <1>3, <1>4, <1>5, <1>6, <1>7, <1>8, <1>9, <1>10, <1>11, <1>12, <1>13,
     <1>14, <1>15, <1>16, <1>17, <1>18, <1>19, <1>20, <1>21
    DEF Next

(* Only Arm arms a timer, and it leaves no other armed; only Arm, Stop and *)
(* a callback that finds stopChan closed leave one free.                   *)
LEMMA NextTimers == IInv /\ [Next]_vars => TimersOK'
<1> SUFFICES ASSUME IInv, [Next]_vars PROVE TimersOK'
  OBVIOUS
<1> USE Kinds, AuthAssumption DEF IInv, TimersOK
<1>1. ASSUME NEW h \in Handshakes, HandshakeSend(h) PROVE TimersOK'
  BY <1>1 DEF HandshakeSend, Goto, TypeOK, OneTimer, RefreshAlive, AttemptsLeft, timerVars
<1>2. ASSUME NEW h \in Handshakes, HandshakeRetry(h) PROVE TimersOK'
  BY <1>2 DEF HandshakeRetry, Goto, TypeOK, OneTimer, RefreshAlive, AttemptsLeft, timerVars
<1>3. ASSUME NEW h \in Handshakes, HandshakeCancelled(h) PROVE TimersOK'
  BY <1>3
    DEF HandshakeCancelled, Goto, TypeOK, OneTimer, RefreshAlive, AttemptsLeft, timerVars
<1>4. ASSUME NEW h \in Handshakes, HandshakeStore(h) PROVE TimersOK'
  BY <1>4 DEF HandshakeStore, Goto, TypeOK, OneTimer, RefreshAlive, AttemptsLeft, timerVars
<1>5. ASSUME NEW h \in Handshakes, StartAutoRefresh(h) PROVE TimersOK'
  <2>1. Arm(h, "ok", 0) /\ "ok" \in Places \ {"armed"} /\ 0 \in 0 .. MaxDelay
    BY <1>5, DelayType DEF StartAutoRefresh, Places, TypeOK
  <2>2. refreshTimer' \in Timers /\ pc'[refreshTimer'] = "armed"
        /\ (\A k \in Timers : pc'[k] = "armed" => k = refreshTimer')
        /\ (\A b \in Calls : b # h => pc'[b] = pc[b]) /\ pc'[h] \in {"armed", "free", "ok"}
    BY <1>5, <2>1, ArmFacts DEF Calls
  <2>3. OneTimer' /\ RefreshAlive'
    BY <2>2 DEF OneTimer, RefreshAlive
  <2>4. AttemptsLeft'
    BY <1>5, <2>2 DEF StartAutoRefresh, AttemptsLeft, Calls
  <2>5. QED BY <2>3, <2>4
<1>6. ASSUME NEW h \in Handshakes, ServeHandshake(h) PROVE TimersOK'
  BY <1>6 DEF ServeHandshake, Goto, TypeOK, OneTimer, RefreshAlive, AttemptsLeft, timerVars
<1>7. ASSUME NEW a \in Refreshers \cup Revokes, ReadToken(a) PROVE TimersOK'
  BY <1>7 DEF ReadToken, Goto, TypeOK, OneTimer, RefreshAlive, AttemptsLeft, timerVars
<1>8. ASSUME NEW a \in Refreshers, RefreshStore(a) PROVE TimersOK'
  BY <1>8 DEF RefreshStore, Goto, TypeOK, OneTimer, RefreshAlive, AttemptsLeft, timerVars
<1>9. ASSUME NEW a \in Refreshers, ServeRefresh(a) PROVE TimersOK'
  BY <1>9 DEF ServeRefresh, Goto, TypeOK, OneTimer, RefreshAlive, AttemptsLeft, timerVars
<1>10. ASSUME NEW v \in Revokes, RevokeClear(v) PROVE TimersOK'
  BY <1>10 DEF RevokeClear, Goto, TypeOK, OneTimer, RefreshAlive, AttemptsLeft, timerVars
<1>11. ASSUME NEW v \in Revokes, ServeRevoke(v) PROVE TimersOK'
  BY <1>11 DEF ServeRevoke, Goto, TypeOK, OneTimer, RefreshAlive, AttemptsLeft, timerVars
<1>12. ASSUME NEW a \in Refreshes \cup Revokes, CallFails(a) PROVE TimersOK'
  BY <1>12 DEF CallFails, Goto, TypeOK, OneTimer, RefreshAlive, AttemptsLeft, timerVars
<1>13. ASSUME NEW k \in Timers, TimerFires(k) PROVE TimersOK'
  BY <1>13 DEF TimerFires, Goto, TypeOK, OneTimer, RefreshAlive, AttemptsLeft, timerVars
<1>14. ASSUME NEW k \in Timers, CallbackCheck(k) PROVE TimersOK'
  BY <1>14
    DEF CallbackCheck, stopChan, Goto, TypeOK, OneTimer, RefreshAlive, AttemptsLeft, timerVars
<1>15. ASSUME NEW k \in Timers, CallbackNext(k) PROVE TimersOK'
  <2>1. Arm(k, "free", 0) /\ "free" \in Places \ {"armed"} /\ 0 \in 0 .. MaxDelay
    BY <1>15, DelayType DEF CallbackNext, Places, TypeOK
  <2> QED
    BY <1>15, <2>1, ArmFacts
      DEF CallbackNext, OneTimer, RefreshAlive, AttemptsLeft, TypeOK, timerVars, Calls
<1>16. ASSUME NEW k \in Timers, CallbackRetry(k) PROVE TimersOK'
  <2>1. Arm(k, "free", NextDelay(delay[k])) /\ "free" \in Places \ {"armed"} /\ NextDelay(delay[k]) \in 0 .. MaxDelay
    BY <1>16, DelayType DEF CallbackRetry, Places, TypeOK
  <2> QED
    BY <1>16, <2>1, ArmFacts
      DEF CallbackRetry, OneTimer, RefreshAlive, AttemptsLeft, TypeOK, timerVars, Calls
<1>17. ASSUME StopTimer PROVE TimersOK'
  BY <1>17 DEF StopTimer, Goto, TypeOK, OneTimer, RefreshAlive, AttemptsLeft, timerVars
<1>18. ASSUME StopClose PROVE TimersOK'
  BY <1>18 DEF StopClose, Goto, TypeOK, OneTimer, RefreshAlive, AttemptsLeft, timerVars
<1>19. ASSUME NEW a \in Actors, RequestFails(a) PROVE TimersOK'
  BY <1>19 DEF RequestFails, Goto, TypeOK, OneTimer, RefreshAlive, AttemptsLeft, timerVars
<1>20. ASSUME NEW t \in 1 .. issued, ServeLateRevoke(t) PROVE TimersOK'
  BY <1>20
    DEF ServeLateRevoke, Goto, TypeOK, OneTimer, RefreshAlive, AttemptsLeft, timerVars
<1>21. CASE UNCHANGED vars
  BY <1>21 DEF vars, Goto, TypeOK, OneTimer, RefreshAlive, AttemptsLeft, timerVars
<1> QED
  BY <1>1, <1>2, <1>3, <1>4, <1>5, <1>6, <1>7, <1>8, <1>9, <1>10, <1>11, <1>12, <1>13,
     <1>14, <1>15, <1>16, <1>17, <1>18, <1>19, <1>20, <1>21
    DEF Next

-----------------------------------------------------------------------------
(* The steps that move no token, and the others.                           *)
QuietStep ==
    \/ \E h \in Handshakes :
          HandshakeSend(h) \/ HandshakeRetry(h) \/ HandshakeCancelled(h) \/ StartAutoRefresh(h)
    \/ \E a \in Refreshes \cup Revokes : CallFails(a)
    \/ \E k \in Timers :
          TimerFires(k) \/ CallbackCheck(k) \/ CallbackNext(k) \/ CallbackRetry(k)
    \/ StopTimer \/ StopClose \/ UNCHANGED vars

(* A quiet step brings no answer, and of a Revoke it can only turn an      *)
(* error into a failure.                                                   *)
LEMMA QuietFacts ==
    ASSUME IInv, QuietStep
    PROVE  /\ UNCHANGED <<token, held, revoked, late, raced>>
           /\ \A a \in Actors : pc'[a] = "replied" => pc[a] = "replied"
           /\ \A v \in Revokes :
                 \/ pc'[v] = pc[v]
                 \/ pc[v] = "error" /\ pc'[v] = "failed"
<1> DEFINE Goal == /\ UNCHANGED <<token, held, revoked, late, raced>>
                   /\ \A a \in Actors : pc'[a] = "replied" => pc[a] = "replied"
                   /\ \A v \in Revokes :
                         \/ pc'[v] = pc[v]
                         \/ pc[v] = "error" /\ pc'[v] = "failed"
<1> USE Kinds DEF IInv
<1>1. ASSUME NEW h \in Handshakes, HandshakeSend(h) \/ HandshakeRetry(h) \/ HandshakeCancelled(h)
      PROVE  Goal
  BY <1>1 DEF HandshakeSend, HandshakeRetry, HandshakeCancelled, Goto, TypeOK, serverVars
<1>2. ASSUME NEW h \in Handshakes, StartAutoRefresh(h) PROVE Goal
  <2>1. Arm(h, "ok", 0) /\ "ok" \in Places \ {"armed"} /\ 0 \in 0 .. MaxDelay
    BY <1>2, AuthAssumption DEF StartAutoRefresh, Places
  <2> QED
    BY <1>2, <2>1, ArmFacts DEF StartAutoRefresh, Calls, serverVars
<1>3. ASSUME NEW a \in Refreshes \cup Revokes, CallFails(a) PROVE Goal
  BY <1>3 DEF CallFails, Goto, TypeOK, serverVars
<1>4. ASSUME NEW k \in Timers, TimerFires(k) \/ CallbackCheck(k) PROVE Goal
  BY <1>4 DEF TimerFires, CallbackCheck, Goto, TypeOK, serverVars
<1>5. ASSUME NEW k \in Timers, CallbackNext(k) \/ CallbackRetry(k) PROVE Goal
  <2>1. PICK n \in 0 .. MaxDelay : Arm(k, "free", n)
    BY <1>5, DelayType, AuthAssumption DEF CallbackNext, CallbackRetry, TypeOK
  <2>2. "free" \in Places \ {"armed"}
    BY DEF Places
  <2> QED
    BY <1>5, <2>1, <2>2, ArmFacts DEF CallbackNext, CallbackRetry, Calls, serverVars
<1>6. CASE StopTimer
  BY <1>6 DEF StopTimer, TypeOK, serverVars
<1>7. CASE StopClose \/ UNCHANGED vars
  BY <1>7 DEF StopClose, vars, serverVars
<1> QED
  BY <1>1, <1>2, <1>3, <1>4, <1>5, <1>6, <1>7 DEF QuietStep

(* A Revoke sends a request only with a token.                             *)
LEMMA NextHolds == IInv /\ [Next]_vars => RevokeHolds'
<1> SUFFICES ASSUME IInv, [Next]_vars PROVE RevokeHolds'
  OBVIOUS
<1> USE Kinds DEF IInv, RevokeHolds
<1>1. ASSUME NEW h \in Handshakes, HandshakeStore(h) PROVE RevokeHolds'
  BY <1>1 DEF HandshakeStore, Goto, TypeOK, serverVars
<1>2. ASSUME NEW h \in Handshakes, ServeHandshake(h) PROVE RevokeHolds'
  BY <1>2 DEF ServeHandshake, Goto, TypeOK, serverVars
<1>3. ASSUME NEW a \in Refreshers \cup Revokes, ReadToken(a) PROVE RevokeHolds'
  BY <1>3 DEF ReadToken, Goto, TypeOK, serverVars
<1>4. ASSUME NEW a \in Refreshers, RefreshStore(a) PROVE RevokeHolds'
  BY <1>4 DEF RefreshStore, Goto, TypeOK, serverVars
<1>5. ASSUME NEW a \in Refreshers, ServeRefresh(a) PROVE RevokeHolds'
  BY <1>5 DEF ServeRefresh, Goto, TypeOK, serverVars
<1>6. ASSUME NEW v \in Revokes, RevokeClear(v) PROVE RevokeHolds'
  BY <1>6 DEF RevokeClear, Goto, TypeOK, serverVars
<1>7. ASSUME NEW v \in Revokes, ServeRevoke(v) PROVE RevokeHolds'
  BY <1>7 DEF ServeRevoke, Goto, TypeOK, serverVars, ForgetToken
<1>8. ASSUME NEW a \in Actors, RequestFails(a) PROVE RevokeHolds'
  BY <1>8 DEF RequestFails, Goto, TypeOK, serverVars
<1>9. ASSUME NEW t \in 1 .. issued, ServeLateRevoke(t) PROVE RevokeHolds'
  BY <1>9 DEF ServeLateRevoke, Goto, TypeOK, serverVars, ForgetToken
<1>10. CASE QuietStep
  BY <1>10, QuietFacts
<1> QED
  BY <1>1, <1>2, <1>3, <1>4, <1>5, <1>6, <1>7, <1>8, <1>9, <1>10 DEF Next, QuietStep

(* The server's answer to a Handshake is newer than every token in use.    *)
LEMMA NextFresh == IInv /\ [Next]_vars => FreshAnswer'
<1> SUFFICES ASSUME IInv, [Next]_vars PROVE FreshAnswer'
  OBVIOUS
<1> USE Kinds DEF IInv, FreshAnswer
<1>1. ASSUME NEW h \in Handshakes, HandshakeStore(h) PROVE FreshAnswer'
  BY <1>1 DEF HandshakeStore, Goto, TypeOK, serverVars
<1>2. ASSUME NEW h \in Handshakes, ServeHandshake(h) PROVE FreshAnswer'
  BY <1>2 DEF ServeHandshake, Goto, TypeOK, serverVars
<1>3. ASSUME NEW a \in Refreshers \cup Revokes, ReadToken(a) PROVE FreshAnswer'
  BY <1>3 DEF ReadToken, Goto, TypeOK, serverVars
<1>4. ASSUME NEW a \in Refreshers, RefreshStore(a) PROVE FreshAnswer'
  BY <1>4 DEF RefreshStore, Goto, TypeOK, serverVars
<1>5. ASSUME NEW a \in Refreshers, ServeRefresh(a) PROVE FreshAnswer'
  BY <1>5 DEF ServeRefresh, Goto, TypeOK, serverVars
<1>6. ASSUME NEW v \in Revokes, RevokeClear(v) PROVE FreshAnswer'
  BY <1>6 DEF RevokeClear, Goto, TypeOK, serverVars
<1>7. ASSUME NEW v \in Revokes, ServeRevoke(v) PROVE FreshAnswer'
  BY <1>7 DEF ServeRevoke, Goto, TypeOK, serverVars, ForgetToken
<1>8. ASSUME NEW a \in Actors, RequestFails(a) PROVE FreshAnswer'
  BY <1>8 DEF RequestFails, Goto, TypeOK, serverVars
<1>9. ASSUME NEW t \in 1 .. issued, ServeLateRevoke(t) PROVE FreshAnswer'
  BY <1>9 DEF ServeLateRevoke, Goto, TypeOK, serverVars, ForgetToken
<1>10. CASE QuietStep
  BY <1>10, QuietFacts
<1> QED
  BY <1>1, <1>2, <1>3, <1>4, <1>5, <1>6, <1>7, <1>8, <1>9, <1>10 DEF Next, QuietStep

(* The server confirms a Refresh only of a token it knows.                 *)
LEMMA NextRaced == IInv /\ [Next]_vars => AnswerRaced'
<1> SUFFICES ASSUME IInv, [Next]_vars PROVE AnswerRaced'
  OBVIOUS
<1> USE Kinds DEF IInv, AnswerRaced
<1>1. ASSUME NEW h \in Handshakes, HandshakeStore(h) PROVE AnswerRaced'
  BY <1>1 DEF HandshakeStore, Goto, TypeOK, serverVars
<1>2. ASSUME NEW h \in Handshakes, ServeHandshake(h) PROVE AnswerRaced'
  BY <1>2 DEF ServeHandshake, Goto, TypeOK, serverVars
<1>3. ASSUME NEW a \in Refreshers \cup Revokes, ReadToken(a) PROVE AnswerRaced'
  BY <1>3 DEF ReadToken, Goto, TypeOK, serverVars
<1>4. ASSUME NEW a \in Refreshers, RefreshStore(a) PROVE AnswerRaced'
  BY <1>4 DEF RefreshStore, Goto, TypeOK, serverVars
<1>5. ASSUME NEW a \in Refreshers, ServeRefresh(a) PROVE AnswerRaced'
  BY <1>5 DEF ServeRefresh, Goto, TypeOK, serverVars
<1>6. ASSUME NEW v \in Revokes, RevokeClear(v) PROVE AnswerRaced'
  BY <1>6 DEF RevokeClear, Goto, TypeOK, serverVars
<1>7. ASSUME NEW v \in Revokes, ServeRevoke(v) PROVE AnswerRaced'
  BY <1>7 DEF ServeRevoke, Goto, TypeOK, serverVars, ForgetToken
<1>8. ASSUME NEW a \in Actors, RequestFails(a) PROVE AnswerRaced'
  BY <1>8 DEF RequestFails, Goto, TypeOK, serverVars
<1>9. ASSUME NEW t \in 1 .. issued, ServeLateRevoke(t) PROVE AnswerRaced'
  BY <1>9 DEF ServeLateRevoke, Goto, TypeOK, serverVars, ForgetToken
<1>10. CASE QuietStep
  BY <1>10, QuietFacts
<1> QED
  BY <1>1, <1>2, <1>3, <1>4, <1>5, <1>6, <1>7, <1>8, <1>9, <1>10 DEF Next, QuietStep

(* The call of a late Revoke stays failed.                                 *)
LEMMA NextLate == IInv /\ [Next]_vars => LateFailed'
<1> SUFFICES ASSUME IInv, [Next]_vars PROVE LateFailed'
  OBVIOUS
<1> USE Kinds DEF IInv, LateFailed
<1>1. ASSUME NEW h \in Handshakes, HandshakeStore(h) PROVE LateFailed'
  BY <1>1 DEF HandshakeStore, Goto, TypeOK, serverVars
<1>2. ASSUME NEW h \in Handshakes, ServeHandshake(h) PROVE LateFailed'
  BY <1>2 DEF ServeHandshake, Goto, TypeOK, serverVars
<1>3. ASSUME NEW a \in Refreshers \cup Revokes, ReadToken(a) PROVE LateFailed'
  BY <1>3 DEF ReadToken, Goto, TypeOK, serverVars
<1>4. ASSUME NEW a \in Refreshers, RefreshStore(a) PROVE LateFailed'
  BY <1>4 DEF RefreshStore, Goto, TypeOK, serverVars
<1>5. ASSUME NEW a \in Refreshers, ServeRefresh(a) PROVE LateFailed'
  BY <1>5 DEF ServeRefresh, Goto, TypeOK, serverVars
<1>6. ASSUME NEW v \in Revokes, RevokeClear(v) PROVE LateFailed'
  BY <1>6 DEF RevokeClear, Goto, TypeOK, serverVars
<1>7. ASSUME NEW v \in Revokes, ServeRevoke(v) PROVE LateFailed'
  BY <1>7 DEF ServeRevoke, Goto, TypeOK, serverVars, ForgetToken
<1>8. ASSUME NEW a \in Actors, RequestFails(a) PROVE LateFailed'
  <2> SUFFICES ASSUME NEW t \in late'
               PROVE  \E v \in Revokes : held'[v] = t /\ pc'[v] \in {"error", "failed"}
    OBVIOUS
  <2>1. /\ pc' = [pc EXCEPT ![a] = "error"]
        /\ held' = [held EXCEPT ![a] = IF a \in Revokes THEN @ ELSE 0]
        /\ pc[a] \in {"sent", "replied"}
    BY <1>8 DEF RequestFails, Goto
  <2>2. CASE t \in late
    <3>1. PICK v \in Revokes : held[v] = t /\ pc[v] \in {"error", "failed"}
      BY <2>2
    <3> QED
      BY <2>1, <3>1 DEF TypeOK
  <2>3. CASE t \notin late
    <3>1. a \in Revokes /\ t = held[a]
      BY <1>8, <2>3 DEF RequestFails
    <3> QED
      BY <2>1, <3>1 DEF TypeOK
  <2> QED
    BY <2>2, <2>3
<1>9. ASSUME NEW t \in 1 .. issued, ServeLateRevoke(t) PROVE LateFailed'
  BY <1>9 DEF ServeLateRevoke, Goto, TypeOK, serverVars, ForgetToken
<1>10. CASE QuietStep
  BY <1>10, QuietFacts
<1> QED
  BY <1>1, <1>2, <1>3, <1>4, <1>5, <1>6, <1>7, <1>8, <1>9, <1>10 DEF Next, QuietStep

(* Where the client's token comes from, and where tokens are revoked.      *)
LEMMA NextRevoked == IInv /\ [Next]_vars => RevokedOnlyIfRaced'
<1> SUFFICES ASSUME IInv, [Next]_vars PROVE RevokedOnlyIfRaced'
  OBVIOUS
<1> USE Kinds DEF IInv, RevokedOnlyIfRaced
<1>1. ASSUME NEW h \in Handshakes, HandshakeStore(h) PROVE RevokedOnlyIfRaced'
  BY <1>1 DEF FreshAnswer, HandshakeStore, Goto, TypeOK, serverVars
<1>2. ASSUME NEW h \in Handshakes, ServeHandshake(h) PROVE RevokedOnlyIfRaced'
  BY <1>2 DEF ServeHandshake, Goto, TypeOK, serverVars
<1>3. ASSUME NEW a \in Refreshers \cup Revokes, ReadToken(a) PROVE RevokedOnlyIfRaced'
  BY <1>3 DEF ReadToken, Goto, TypeOK, serverVars
<1>4. ASSUME NEW a \in Refreshers, RefreshStore(a) PROVE RevokedOnlyIfRaced'
  BY <1>4 DEF AnswerRaced, RefreshStore, Goto, TypeOK, serverVars
<1>5. ASSUME NEW a \in Refreshers, ServeRefresh(a) PROVE RevokedOnlyIfRaced'
  BY <1>5 DEF ServeRefresh, Goto, TypeOK, serverVars
<1>6. ASSUME NEW v \in Revokes, RevokeClear(v) PROVE RevokedOnlyIfRaced'
  BY <1>6 DEF RevokeClear, Goto, TypeOK, serverVars
<1>7. ASSUME NEW v \in Revokes, ServeRevoke(v) PROVE RevokedOnlyIfRaced'
  BY <1>7 DEF ServeRevoke, Goto, TypeOK, serverVars, ForgetToken
<1>8. ASSUME NEW a \in Actors, RequestFails(a) PROVE RevokedOnlyIfRaced'
  BY <1>8 DEF RequestFails, Goto, TypeOK, serverVars
<1>9. ASSUME NEW t \in 1 .. issued, ServeLateRevoke(t) PROVE RevokedOnlyIfRaced'
  BY <1>9 DEF LateFailed, ServeLateRevoke, Goto, TypeOK, serverVars, ForgetToken
<1>10. CASE QuietStep
  BY <1>10, QuietFacts
<1> QED
  BY <1>1, <1>2, <1>3, <1>4, <1>5, <1>6, <1>7, <1>8, <1>9, <1>10 DEF Next, QuietStep

-----------------------------------------------------------------------------
(* The inductive invariant holds: calls, timer callbacks and Stop preserve *)
(* it in any interleaving.                                                 *)
THEOREM Invariance == Spec => []IInv
<1>1. IInv /\ [Next]_vars => IInv'
  BY NextTypeOK, NextTimers, NextHolds, NextFresh, NextRaced, NextLate, NextRevoked
    DEF IInv, TimersOK
<1> QED
  BY InitIInv, <1>1, PTL DEF Spec

(* Type correctness: Handshake makes at most three attempts and no retry   *)
(* of scheduleRetryRefresh waits longer than MaxDelay.                     *)
THEOREM TypeCorrect == Spec => []TypeOK
<1>1. IInv => TypeOK
  BY DEF IInv
<1> QED
  BY Invariance, <1>1, PTL

(* startAutoRefresh and scheduleRetryRefresh never leave two timers armed. *)
THEOREM OneTimerArmed == Spec => []OneTimer
<1>1. IInv => OneTimer
  BY DEF IInv
<1> QED
  BY Invariance, <1>1, PTL

(* The chain of refresh timers does not break before Stop.                 *)
THEOREM RefreshStaysAlive == Spec => []RefreshAlive
<1>1. IInv => RefreshAlive
  BY DEF IInv
<1> QED
  BY Invariance, <1>1, PTL

(* A revoked token is presented only after a race or an unconfirmed Revoke. *)
THEOREM RevokedAfterRace == Spec => []RevokedOnlyIfRaced
<1>1. IInv => RevokedOnlyIfRaced
  BY DEF IInv
<1> QED
  BY Invariance, <1>1, PTL

-----------------------------------------------------------------------------
(* The IH client's proxy, in module Agents.  Its wait group counts exactly *)
(* the handlers between Add and Done and the accept loop, which is entered *)
(* too: nothing outlives Stop.                                             *)
UserPlaces == {"none", "accepted", "dial", "copy", "closed", "over"}

(* The users whose handler has entered the wait group, and the loop.       *)
Serving == {u \in Users : ih[u] \in {"accepted", "dial", "copy", "closed"}}
LoopRuns == loop \in {"check", "accept"}

IHTypeOK == ih \in [Users -> UserPlaces] /\ loop \in {"off", "check", "accept", "over"}

IHWgCounts ==
    IsFiniteSet(Serving) /\ wg = Cardinality(Serving) + (IF LoopRuns THEN 1 ELSE 0)

(* What is open or registered is in the hands of a handler.                *)
Owned ==
    \A u \in Users :
        /\ u \in active => ih[u] \in {"dial", "copy", "closed"}
        /\ L(u) \in up => ih[u] \in {"accepted", "dial", "copy"}
        /\ P(u) \in up => ih[u] = "copy"

(* The loop is started once, and Stop comes after that.                    *)
Started == (start = "running" <=> loop # "off") /\ (stopPC # "off" => start = "running")

NothingLeft == stopPC = "done" => ~LoopRuns /\ Serving = {}

(* The inductive invariant of the IH client.                               *)
AgentsInv == IHTypeOK /\ IHWgCounts /\ Owned /\ Started /\ NothingLeft

(* A finite set that gains or loses an element, and its size.              *)
LEMMA Counting ==
    ASSUME NEW S, IsFiniteSet(S), NEW c
    PROVE  /\ Cardinality(S) \in Nat
           /\ IsFiniteSet(S \cup {c}) /\ IsFiniteSet(S \ {c})
           /\ c \notin S => Cardinality(S \cup {c}) = Cardinality(S) + 1
           /\ c \in S => Cardinality(S \ {c}) = Cardinality(S) - 1 /\ Cardinality(S) >= 1
<1>1. Cardinality(S) \in Nat
  BY FS_CardinalityType
<1>2. c \in S => Cardinality(S) # 0
  BY FS_EmptySet
<1>3. QED BY <1>1, <1>2, FS_AddElement, FS_RemoveElement

(* The sockets are different.                                              *)
LEMMA SocketsDiffer ==
    /\ \A u, v : L(u) # P(v) /\ L(u) # Q /\ L(u) # T
    /\ \A u, v : P(u) # Q /\ P(u) # T
    /\ \A u, v : (L(u) = L(v) => u = v) /\ (P(u) = P(v) => u = v)
BY DEF L, P, Q, T

LEMMA InitAgentsInv == AgentsInit => AgentsInv
<1> SUFFICES ASSUME AgentsInit PROVE AgentsInv
  OBVIOUS
<1>1. Serving = {} /\ ~LoopRuns
  BY DEF AgentsInit, Serving, LoopRuns
<1>2. IHTypeOK /\ Owned /\ Started
  BY DEF AgentsInit, IHTypeOK, UserPlaces, Owned, Started
<1>3. IHWgCounts /\ NothingLeft
  BY <1>1, FS_EmptySet DEF AgentsInit, IHWgCounts, NothingLeft
<1>4. QED BY <1>2, <1>3 DEF AgentsInv

(* A step that leaves the wait group alone and opens nothing of the IH     *)
(* client's.                                                               *)
LEMMA OtherStep ==
    ASSUME AgentsInv, ih' = ih, wg' = wg, active' = active,
           loop' \in {"off", "check", "accept", "over"}, LoopRuns' <=> LoopRuns, Started',
           stopPC' = "done" => stopPC = "done",
           \A u \in Users : (L(u) \in up' => L(u) \in up) /\ (P(u) \in up' => P(u) \in up)
    PROVE  AgentsInv'
<1>1. Serving' = Serving
  BY DEF Serving
<1>2. IHTypeOK' /\ IHWgCounts' /\ NothingLeft'
  BY <1>1 DEF AgentsInv, IHTypeOK, IHWgCounts, NothingLeft
<1>3. Owned'
  BY DEF AgentsInv, Owned, L, P
<1>4. QED BY <1>2, <1>3 DEF AgentsInv

(* A handler goes from its place to place b.                               *)
LEMMA PlaceFacts ==
    ASSUME IHTypeOK, NEW u \in Users, NEW b \in UserPlaces, ih' = [ih EXCEPT ![u] = b]
    PROVE  /\ ih' \in [Users -> UserPlaces] /\ ih'[u] = b /\ \A v \in Users \ {u} : ih'[v] = ih[v]
           /\ Serving' = IF b \in {"accepted", "dial", "copy", "closed"}
                         THEN Serving \cup {u} ELSE Serving \ {u}
<1>1. ih' \in [Users -> UserPlaces] /\ ih'[u] = b /\ \A v \in Users \ {u} : ih'[v] = ih[v]
  BY DEF IHTypeOK
<1>2. QED BY <1>1 DEF Serving

(* A handler that goes on inside the wait group.                           *)
LEMMA HandlerStep ==
    ASSUME AgentsInv, NEW u \in Users,
           Register(u) \/ Connect(u) \/ ConnectFails(u) \/ CopyEnds(u)
    PROVE  AgentsInv'
<1>1. UNCHANGED <<start, loop, wg, stopPC>> /\ u \in Serving
  BY DEF Register, Connect, ConnectFails, CopyEnds, Serving
<1>2. PICK b \in {"dial", "copy", "closed"} : ih' = [ih EXCEPT ![u] = b]
  BY DEF Register, Connect, ConnectFails, CopyEnds
<1>3. b \in UserPlaces /\ IHTypeOK
  BY <1>2 DEF UserPlaces, AgentsInv
<1>4. /\ ih' \in [Users -> UserPlaces] /\ ih'[u] = b /\ \A v \in Users \ {u} : ih'[v] = ih[v]
      /\ Serving' = Serving \cup {u}
  BY <1>2, <1>3, PlaceFacts
<1>5. Serving' = Serving
  BY <1>1, <1>4
<1>6. IHTypeOK' /\ IHWgCounts' /\ Started' /\ NothingLeft'
  BY <1>1, <1>4, <1>5 DEF AgentsInv, IHTypeOK, IHWgCounts, Started, NothingLeft, LoopRuns
<1>7. Owned'
  <2>1. ASSUME NEW v \in Users, v # u
        PROVE  /\ v \in active' => v \in active
               /\ L(v) \in up' => L(v) \in up
               /\ P(v) \in up' => P(v) \in up
    BY <2>1, SocketsDiffer DEF Register, Connect, ConnectFails, CopyEnds
  <2>2. ASSUME NEW v \in Users, v # u
        PROVE  /\ v \in active' => ih'[v] \in {"dial", "copy", "closed"}
               /\ L(v) \in up' => ih'[v] \in {"accepted", "dial", "copy"}
               /\ P(v) \in up' => ih'[v] = "copy"
    BY <1>4, <2>1, <2>2 DEF AgentsInv, Owned
  <2>3. u \in active' => ih'[u] \in {"dial", "copy", "closed"}
    BY <1>4
  <2>4. CASE Register(u)
    <3>1. ih[u] = "accepted" /\ ih'[u] = "dial" /\ up' = up
      BY <1>3, <2>4 DEF Register, IHTypeOK
    <3>2. P(u) \notin up'
      BY <3>1 DEF AgentsInv, Owned
    <3>3. QED BY <2>2, <2>3, <3>1, <3>2 DEF Owned, L, P
  <2>5. CASE Connect(u)
    <3>1. ih'[u] = "copy"
      BY <1>3, <2>5 DEF Connect, IHTypeOK
    <3>2. QED BY <2>2, <2>3, <3>1 DEF Owned, L, P
  <2>6. CASE ConnectFails(u)
    <3>1. ih[u] = "dial" /\ up' = up \ {L(u)}
      BY <2>6 DEF ConnectFails
    <3>2. L(u) \notin up' /\ P(u) \notin up'
      BY <3>1 DEF AgentsInv, Owned
    <3>3. QED BY <2>2, <2>3, <3>2 DEF Owned, L, P
  <2>7. CASE CopyEnds(u)
    <3>1. L(u) \notin up' /\ P(u) \notin up'
      BY <2>7 DEF CopyEnds
    <3>2. QED BY <2>2, <2>3, <3>1 DEF Owned, L, P
  <2>8. QED BY <2>4, <2>5, <2>6, <2>7
<1>8. QED BY <1>6, <1>7 DEF AgentsInv

(* A handler enters the wait group while the loop is in it.                *)
LEMMA AcceptUserStep ==
    ASSUME AgentsInv, NEW u \in Users, Accept(u)
    PROVE  AgentsInv'
<1>1. /\ loop = "accept" /\ loop' = "check" /\ wg' = wg + 1 /\ ih[u] = "none"
      /\ ih' = [ih EXCEPT ![u] = "accepted"] /\ up' = up \cup {L(u)}
      /\ UNCHANGED <<start, active, stopPC>>
  BY DEF Accept, Enter
<1>2. "accepted" \in UserPlaces /\ IHTypeOK
  BY DEF UserPlaces, AgentsInv
<1>3. /\ ih' \in [Users -> UserPlaces] /\ ih'[u] = "accepted"
      /\ \A v \in Users \ {u} : ih'[v] = ih[v]
      /\ Serving' = Serving \cup {u} /\ u \notin Serving
  <2>1. u \notin Serving
    BY <1>1 DEF Serving
  <2>2. QED BY <1>1, <1>2, <2>1, PlaceFacts
<1>4. LoopRuns /\ LoopRuns' /\ stopPC # "done"
  BY <1>1 DEF LoopRuns, AgentsInv, NothingLeft
<1>5. IHTypeOK' /\ Started' /\ NothingLeft'
  BY <1>1, <1>3, <1>4 DEF AgentsInv, IHTypeOK, Started, NothingLeft
<1>6. IHWgCounts'
  BY <1>1, <1>3, <1>4, Counting DEF AgentsInv, IHWgCounts
<1>7. Owned'
  <2>1. ASSUME NEW v \in Users, v # u
        PROVE  /\ v \in active' => ih'[v] \in {"dial", "copy", "closed"}
               /\ L(v) \in up' => ih'[v] \in {"accepted", "dial", "copy"}
               /\ P(v) \in up' => ih'[v] = "copy"
    <3>1. (L(v) \in up' => L(v) \in up) /\ (P(v) \in up' => P(v) \in up)
      BY <1>1, <2>1, SocketsDiffer
    <3>2. QED BY <1>1, <1>3, <2>1, <3>1 DEF AgentsInv, Owned
  <2>2. u \notin active' /\ P(u) \notin up'
    <3>1. u \notin active /\ P(u) \notin up
      BY <1>1 DEF AgentsInv, Owned
    <3>2. QED BY <1>1, <3>1, SocketsDiffer
  <2>3. QED BY <1>3, <2>1, <2>2 DEF Owned, L, P
<1>8. QED BY <1>5, <1>6, <1>7 DEF AgentsInv

(* A handler leaves the wait group; both its sockets are closed by then.   *)
LEMMA LeaveUserStep ==
    ASSUME AgentsInv, NEW u \in Users, Leave(u)
    PROVE  AgentsInv'
<1>1. /\ wg' = wg - 1 /\ ih[u] = "closed" /\ ih' = [ih EXCEPT ![u] = "over"]
      /\ active' = active \ {u} /\ UNCHANGED <<start, up, loop, stopPC>>
  BY DEF Leave
<1>2. "over" \in UserPlaces /\ IHTypeOK
  BY DEF UserPlaces, AgentsInv
<1>3. /\ ih' \in [Users -> UserPlaces] /\ \A v \in Users \ {u} : ih'[v] = ih[v]
      /\ Serving' = Serving \ {u} /\ u \in Serving
  <2>1. u \in Serving
    BY <1>1 DEF Serving
  <2>2. QED BY <1>1, <1>2, <2>1, PlaceFacts
<1>4. IHTypeOK' /\ Started' /\ NothingLeft'
  BY <1>1, <1>3 DEF AgentsInv, IHTypeOK, Started, NothingLeft, LoopRuns
<1>5. IHWgCounts'
  <2>1. LoopRuns' <=> LoopRuns
    BY <1>1 DEF LoopRuns
  <2>2. /\ IsFiniteSet(Serving') /\ Cardinality(Serving) \in Nat
        /\ Cardinality(Serving') = Cardinality(Serving) - 1
    BY <1>3, Counting DEF AgentsInv, IHWgCounts
  <2>3. QED BY <1>1, <2>1, <2>2 DEF AgentsInv, IHWgCounts
<1>6. Owned'
  <2>1. L(u) \notin up /\ P(u) \notin up
    BY <1>1 DEF AgentsInv, Owned
  <2>2. ASSUME NEW v \in Users, v # u
        PROVE  /\ v \in active' => ih'[v] \in {"dial", "copy", "closed"}
               /\ L(v) \in up' => ih'[v] \in {"accepted", "dial", "copy"}
               /\ P(v) \in up' => ih'[v] = "copy"
    BY <1>1, <1>3, <2>2 DEF AgentsInv, Owned
  <2>3. QED BY <1>1, <2>1, <2>2 DEF Owned, L, P
<1>7. QED BY <1>4, <1>5, <1>6 DEF AgentsInv

(* The loop starts, enters the wait group and leaves it.                   *)
LEMMA LoopStep ==
    ASSUME AgentsInv, Start \/ LoopCheck \/ AcceptTimeout
    PROVE  AgentsInv'
<1>1. UNCHANGED <<active, ih, up, stopPC>>
  BY DEF Start, LoopCheck, AcceptTimeout
<1>2. Serving' = Serving
  BY <1>1 DEF Serving
<1>3. Owned'
  BY <1>1 DEF AgentsInv, Owned, L, P
<1>4. Cardinality(Serving) \in Nat
  BY FS_CardinalityType DEF AgentsInv, IHWgCounts
<1>5. IHTypeOK' /\ Started'
  BY <1>1 DEF AgentsInv, IHTypeOK, Started, Start, LoopCheck, AcceptTimeout
<1>6. CASE Start
  <2>1. wg' = wg + 1 /\ ~LoopRuns /\ LoopRuns' /\ stopPC = "off" /\ stopPC' = "off"
    BY <1>1, <1>6 DEF Start, LoopRuns, AgentsInv, Started
  <2>2. IHWgCounts' /\ NothingLeft'
    BY <1>2, <1>4, <2>1 DEF AgentsInv, IHWgCounts, NothingLeft
  <2>3. QED BY <1>3, <1>5, <2>2 DEF AgentsInv
<1>7. CASE (LoopCheck /\ ~shutdown) \/ AcceptTimeout
  <2>1. wg' = wg /\ LoopRuns /\ LoopRuns'
    BY <1>7 DEF LoopCheck, AcceptTimeout, LoopRuns
  <2>2. IHWgCounts' /\ NothingLeft'
    BY <1>1, <1>2, <2>1 DEF AgentsInv, IHWgCounts, NothingLeft
  <2>3. QED BY <1>3, <1>5, <2>2 DEF AgentsInv
<1>8. CASE LoopCheck /\ shutdown
  <2>1. wg' = wg - 1 /\ LoopRuns /\ ~LoopRuns'
    BY <1>8 DEF LoopCheck, LoopRuns
  <2>2. IHWgCounts' /\ NothingLeft'
    BY <1>1, <1>2, <1>4, <2>1 DEF AgentsInv, IHWgCounts, NothingLeft
  <2>3. QED BY <1>3, <1>5, <2>2 DEF AgentsInv
<1>9. QED BY <1>6, <1>7, <1>8

(* Wait returns when neither the loop nor a handler is in the group.       *)
LEMMA StopWaitStep ==
    ASSUME AgentsInv, StopWait
    PROVE  AgentsInv'
<1>1. /\ wg = 0 /\ stopPC = "wait"
      /\ UNCHANGED <<start, active, ih, up, loop, wg>>
  BY DEF StopWait
<1>2. Serving' = Serving /\ (LoopRuns' <=> LoopRuns)
  BY <1>1 DEF Serving, LoopRuns
<1>3. IsFiniteSet(Serving) /\ Cardinality(Serving) \in Nat
  BY FS_CardinalityType DEF AgentsInv, IHWgCounts
<1>4. ~LoopRuns /\ Cardinality(Serving) = 0
  BY <1>1, <1>3 DEF AgentsInv, IHWgCounts
<1>5. Serving = {}
  BY <1>3, <1>4, FS_EmptySet
<1>6. IHTypeOK' /\ IHWgCounts' /\ NothingLeft' /\ Started'
  BY <1>1, <1>2, <1>4, <1>5 DEF AgentsInv, IHTypeOK, IHWgCounts, NothingLeft, Started
<1>7. Owned'
  BY <1>1 DEF AgentsInv, Owned, L, P
<1>8. QED BY <1>6, <1>7 DEF AgentsInv

(* The steps of main before the loop is started, and of Stop before its    *)
(* wait.                                                                   *)
LEMMA MainStep ==
    ASSUME AgentsInv,
           \/ \E b \in BOOLEAN : Handshake(b) \/ QueryPolicies(b) \/ CreateTunnel(b)
           \/ StopShutdown \/ StopListener \/ StopConns
    PROVE  AgentsInv'
<1>1. UNCHANGED <<active, ih, wg, loop>> /\ up' \subseteq up /\ stopPC' \in {stopPC, "listener", "conns", "wait"}
  BY DEF Handshake, QueryPolicies, CreateTunnel, StopShutdown, StopListener,
         StopConns
<1>2. Started'
  BY DEF AgentsInv, Started, Handshake, QueryPolicies, CreateTunnel,
         StopShutdown, StopListener, StopConns
<1>3. (LoopRuns' <=> LoopRuns) /\ loop' \in {"off", "check", "accept", "over"}
  BY <1>1 DEF LoopRuns, AgentsInv, IHTypeOK
<1>4. QED BY <1>1, <1>2, <1>3, OtherStep

(* The relay, the AH agent, the peers: they open Q and T at most.          *)
LEMMA BeyondStep ==
    ASSUME AgentsInv, UNCHANGED <<start, active, ih, wg, loop, stopPC>>,
           up' \subseteq up \cup {Q, T}
    PROVE  AgentsInv'
<1>1. Started' /\ (LoopRuns' <=> LoopRuns) /\ loop' \in {"off", "check", "accept", "over"}
  BY DEF AgentsInv, Started, LoopRuns, IHTypeOK
<1>2. \A u \in Users : (L(u) \in up' => L(u) \in up) /\ (P(u) \in up' => P(u) \in up)
  BY SocketsDiffer
<1>3. QED BY <1>1, <1>2, OtherStep

LEMMA NextAgentsInv == AgentsInv /\ [AgentsNext]_agentsVars => AgentsInv'
<1> SUFFICES ASSUME AgentsInv, [AgentsNext]_agentsVars PROVE AgentsInv'
  OBVIOUS
<1>1. CASE Main \/ AcceptLoop
  BY <1>1, MainStep, LoopStep DEF Main, AcceptLoop
<1>2. CASE \E u \in Users : Accept(u) \/ HandleConnection(u)
  BY <1>2, AcceptUserStep, HandlerStep, LeaveUserStep DEF HandleConnection
<1>3. CASE StopShutdown \/ Stop
  BY <1>3, MainStep, StopWaitStep DEF Stop
<1>4. CASE \/ \E u \in Users : Relay(u)
           \/ PairingTimeoutAH \/ Subscribe \/ HandleCreated \/ TunnelDeleted
           \/ ForwardEnds \/ ExitAH \/ \E s \in up : HangUp(s)
           \/ UNCHANGED agentsVars
  <2>1. UNCHANGED <<start, active, ih, wg, loop, stopPC>>
    BY <1>4 DEF Relay, TakeAgent, TakeUser, PairingTimeout, TakenTimeout,
                RelayEnds, PairingTimeoutAH,
                Subscribe, HandleCreated, DialTarget, ConnectRelay,
                ConnectRelayFails, TunnelDeleted, ForwardEnds, ExitAH, HangUp,
                agentsVars, ihVars
  <2>2. up' \subseteq up \cup {Q, T}
    BY <1>4 DEF Relay, TakeAgent, TakeUser, PairingTimeout, TakenTimeout,
                RelayEnds, CloseBoth,
                PairingTimeoutAH, Subscribe, HandleCreated, DialTarget,
                ConnectRelay, ConnectRelayFails, DropTarget, TunnelDeleted,
                ForwardEnds, ExitAH, HangUp, agentsVars
  <2>3. QED BY <2>1, <2>2, BeyondStep
<1>5. QED BY <1>1, <1>2, <1>3, <1>4 DEF AgentsNext

(* When IHProxy.Stop has returned nothing is registered in p.active and no *)
(* socket to a user or to the relay is open, whenever users were accepted  *)
(* or registered during Stop.                                              *)
THEOREM IHStopLeavesNothing == AgentsSpec => []StopLeavesNothing
<1>1. AgentsInv => StopLeavesNothing
  <2> SUFFICES ASSUME AgentsInv, stopPC = "done", NEW u \in Users
               PROVE  u \notin active /\ L(u) \notin up /\ P(u) \notin up
    BY DEF StopLeavesNothing
  <2>1. ih[u] \notin {"accepted", "dial", "copy", "closed"}
    BY DEF AgentsInv, NothingLeft, Serving
  <2>2. QED BY <2>1 DEF AgentsInv, Owned
<1>2. QED BY <1>1, InitAgentsInv, NextAgentsInv, PTL DEF AgentsSpec

(* Every variable of the agents keeps its type; the wait group's counter   *)
(* does not go below zero, which would be a panic.                         *)
THEOREM AgentsTypeCorrect == AgentsSpec => []AgentsTypeOK
<1>1. ASSUME AgentsInit PROVE AgentsTypeOK
  <2>1. {service, shutdown, listening, subscribed} \subseteq BOOLEAN
    BY <1>1 DEF AgentsInit
  <2>2. /\ ih \in [Users -> {"none", "accepted", "dial", "copy", "closed", "over"}]
        /\ relay \in [Users -> {"none", "waiting", "took", "taken", "both", "over"}]
        /\ active \subseteq Users /\ up \subseteq Sockets /\ wg \in Nat
    BY <1>1 DEF AgentsInit
  <2>3. QED BY <1>1, <2>1, <2>2 DEF AgentsInit, AgentsTypeOK
<1>2. ASSUME AgentsInv', AgentsTypeOK, [AgentsNext]_agentsVars
      PROVE  AgentsTypeOK'
  <2>1. wg' \in Nat
    <3>1. Cardinality(Serving)' \in Nat
      BY <1>2, FS_CardinalityType DEF AgentsInv, IHWgCounts
    <3>2. QED BY <1>2, <3>1 DEF AgentsInv, IHWgCounts
  <2>2. ASSUME NEW u \in Users
        PROVE  L(u) \in Sockets /\ P(u) \in Sockets /\ Q \in Sockets /\ T \in Sockets
    BY DEF Sockets
  <2>3. Q \in Sockets /\ T \in Sockets
    BY DEF Sockets
  <2> USE DEF ihVars, ahVars
  <2>4. CASE Main
    BY <1>2, <2>1, <2>4 DEF Main, Handshake, QueryPolicies, CreateTunnel, Start, AgentsTypeOK
  <2>5. CASE AcceptLoop \/ StopShutdown \/ Stop
    BY <1>2, <2>1, <2>5 DEF AcceptLoop, Stop, LoopCheck, AcceptTimeout, StopShutdown, StopListener,
          StopConns, StopWait, AgentsTypeOK
  <2>6. ASSUME NEW u \in Users, Accept(u) \/ HandleConnection(u) PROVE AgentsTypeOK'
    BY <1>2, <2>1, <2>2, <2>6 DEF Accept, HandleConnection, Register, Connect, ConnectFails,
          CopyEnds, Leave, AgentsTypeOK
  <2>7. ASSUME NEW u \in Users, Relay(u) PROVE AgentsTypeOK'
    BY <1>2, <2>7 DEF Relay, TakeAgent, TakeUser, PairingTimeout, TakenTimeout, RelayEnds, CloseBoth,
          AgentsTypeOK
  <2>8. CASE PairingTimeoutAH \/ Subscribe \/ HandleCreated \/ TunnelDeleted
    BY <1>2, <2>3, <2>8, ZenonT(40) DEF PairingTimeoutAH, Subscribe, HandleCreated, DialTarget, ConnectRelay,
          ConnectRelayFails, DropTarget, TunnelDeleted, AgentsTypeOK
  <2>9. CASE ForwardEnds \/ ExitAH \/ (\E s \in up : HangUp(s)) \/ UNCHANGED agentsVars
    BY <1>2, <2>9 DEF ForwardEnds, ExitAH, HangUp, agentsVars, AgentsTypeOK
  <2>10. QED BY <1>2, <2>4, <2>5, <2>6, <2>7, <2>8, <2>9 DEF AgentsNext
<1>3. QED BY <1>1, <1>2, InitAgentsInv, NextAgentsInv, PTL DEF AgentsSpec
=============================================================================

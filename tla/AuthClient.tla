----------------------------- MODULE AuthClient -----------------------------
(***************************************************************************)
(* The authentication client of IH and AH: auth/client.go.                 *)
(*                                                                         *)
(* Handshake, Refresh and Revoke are called from any goroutine; a timer    *)
(* started by Handshake refreshes the token in the background and arms its *)
(* successor.  Each method holds the lock only to read or to write the     *)
(* token, never while a request is on its way.                             *)
(*                                                                         *)
(* The server is external: it issues a new token for each handshake,       *)
(* confirms a refresh of a token it knows under the same token, as         *)
(* session/manager.go does, and forgets a revoked one.                     *)
(*                                                                         *)
(* Abstracted: tokens are numbers in the order of issue, 0 is "".  There   *)
(* is no clock, so a timer may fire whenever it is armed.  Timer objects   *)
(* are taken again once their callback has returned, and a refreshTimer    *)
(* that was never armed stands for nil.                                    *)
(***************************************************************************)
EXTENDS Integers, FiniteSets

CONSTANTS
    Handshakes, Refreshes, Revokes,   \* calls of the program's goroutines
    Timers,         \* timer objects; each runs one callback at a time
    MaxDelay,       \* longest delay of scheduleRetryRefresh, in minutes (5)
    MaxFailures     \* bound: requests that fail on the way or time out

Calls == Handshakes \cup Refreshes \cup Revokes
Actors == Calls \cup Timers
MaxAttempts == 3     \* of Handshake
FirstDelay == 1      \* of scheduleRetryRefresh, in minutes

(* The sets of actors are disjoint.  Each Handshake can leave one chain of *)
(* timers running, so one timer more than there are handshakes is enough.  *)
ASSUME AuthAssumption ==
    /\ MaxFailures \in Nat /\ MaxDelay \in Nat \ {0}
    /\ Timers # {}
    /\ Handshakes \cap (Refreshes \cup Revokes \cup Timers) = {}
    /\ Refreshes \cap (Revokes \cup Timers) = {}
    /\ Revokes \cap Timers = {}

VARIABLES
    token,         \* c.token
    refreshTimer,  \* c.refreshTimer: the timer armed last
    stop,          \* where Stop stands; at "closed" stopChan is closed
    pc,            \* where each call and each timer stands
    held,          \* the token a request carries, then the answer's
    attempt,       \* attempts of each Handshake
    delay,         \* minutes a retry timer waits, 0 for a normal one
    issued,        \* tokens 1 .. issued exist at the server
    revoked,       \* tokens the server has forgotten
    late,          \* tokens of Revoke requests given up but still on their way
    raced,         \* tokens revoked while a refresh of them was on its way
    failures       \* failures so far

timerVars == <<refreshTimer, delay>>
serverVars == <<issued, revoked, late, raced>>
vars == <<token, timerVars, stop, pc, held, attempt, serverVars, failures>>

Refreshers == Refreshes \cup Timers
stopChan == stop = "closed"

Init ==
    /\ token = 0 /\ stop = "idle"
    /\ refreshTimer = (CHOOSE k \in Timers : TRUE)
    /\ pc = [a \in Actors |-> IF a \in Timers THEN "free" ELSE "idle"]
    /\ held = [a \in Actors |-> 0]
    /\ attempt = [h \in Handshakes |-> 0]
    /\ delay = [k \in Timers |-> 0]
    /\ issued = 0 /\ revoked = {} /\ late = {} /\ raced = {} /\ failures = 0

Goto(a, place) == pc' = [pc EXCEPT ![a] = place]

-----------------------------------------------------------------------------
(* Handshake sends its first or its next request (doHandshake).            *)
HandshakeSend(h) ==
    /\ pc[h] \in {"idle", "wait"}
    /\ Goto(h, "sent")
    /\ attempt' = [attempt EXCEPT ![h] = @ + 1]
    /\ UNCHANGED <<token, timerVars, stop, held, serverVars, failures>>

(* An attempt failed: wait for the next or give up.                        *)
HandshakeRetry(h) ==
    /\ pc[h] = "error"
    /\ Goto(h, IF attempt[h] < MaxAttempts THEN "wait" ELSE "failed")
    /\ UNCHANGED <<token, timerVars, stop, held, attempt, serverVars, failures>>

(* The caller's context ends the wait.                                     *)
HandshakeCancelled(h) ==
    /\ pc[h] = "wait"
    /\ Goto(h, "failed")
    /\ UNCHANGED <<token, timerVars, stop, held, attempt, serverVars, failures>>

(* Handshake's critical section; the timer is started in another one.      *)
HandshakeStore(h) ==
    /\ pc[h] = "replied"
    /\ token' = held[h]
    /\ held' = [held EXCEPT ![h] = 0]
    /\ Goto(h, "arm")
    /\ UNCHANGED <<timerVars, stop, attempt, serverVars, failures>>

(* A Refresh or Revoke reads the token and sends its request.  Without a   *)
(* token Refresh fails and Revoke has nothing to do.                       *)
ReadToken(a) ==
    /\ pc[a] = (IF a \in Timers THEN "refresh" ELSE "idle")
    /\ held' = [held EXCEPT ![a] = token]
    /\ Goto(a, IF token # 0 THEN "sent" ELSE IF a \in Revokes THEN "ok" ELSE "error")
    /\ UNCHANGED <<token, timerVars, stop, attempt, serverVars, failures>>

(* Refresh writes the token of the answer, whatever the client holds now.  *)
RefreshStore(a) ==
    /\ pc[a] = "replied"
    /\ token' = held[a]
    /\ held' = [held EXCEPT ![a] = 0]
    /\ Goto(a, "ok")
    /\ UNCHANGED <<timerVars, stop, attempt, serverVars, failures>>

(* Revoke clears the token once the server has confirmed.  Variant: it     *)
(* does not.                                                               *)
RevokeForget(v) ==
    /\ pc[v] = "replied"
    /\ Goto(v, "ok")
    /\ UNCHANGED <<token, timerVars, stop, held, attempt, serverVars, failures>>

RevokeClear(v) ==
    /\ pc[v] = "replied"
    /\ token' = 0
    /\ Goto(v, "ok")
    /\ UNCHANGED <<timerVars, stop, held, attempt, serverVars, failures>>

(* A Refresh or Revoke of the program returns the error.                   *)
CallFails(a) ==
    /\ pc[a] = "error"
    /\ Goto(a, "failed")
    /\ UNCHANGED <<token, timerVars, stop, held, attempt, serverVars, failures>>

-----------------------------------------------------------------------------
(* Stopping refreshTimer and arming another timer, in one critical section *)
(* of startAutoRefresh or scheduleRetryRefresh; the caller goes on to      *)
(* place.  Variant: the old timer is not stopped.                          *)
ArmAnother(a, place, minutes) ==
    \E k \in Timers :
        /\ pc[k] = "free" \/ k = a
        /\ refreshTimer' = k
        /\ delay' = [delay EXCEPT ![k] = minutes]
        /\ pc' = [b \in Actors |-> IF b = k THEN "armed" ELSE IF b = a THEN place ELSE pc[b]]

Arm(a, place, minutes) ==
    LET usable == {j \in Timers : \/ pc[j] = "free" \/ j = a
                                  \/ j = refreshTimer /\ pc[j] = "armed"}
        k == CHOOSE j \in usable : TRUE
    IN  /\ usable # {}
        /\ refreshTimer' = k
        /\ delay' = [j \in Timers |->
                        IF j = k THEN minutes
                        ELSE IF j = a \/ pc[j] = "armed" THEN 0 ELSE delay[j]]
        /\ pc' = [b \in Actors |->
                    IF b = k THEN "armed" ELSE IF b = a THEN place
                    ELSE IF b = refreshTimer /\ pc[b] = "armed" THEN "free" ELSE pc[b]]

StartAutoRefresh(h) ==
    /\ pc[h] = "arm"
    /\ Arm(h, "ok", 0)
    /\ UNCHANGED <<token, stop, held, attempt, serverVars, failures>>

TimerFires(k) ==
    /\ pc[k] = "armed"
    /\ Goto(k, "check")
    /\ UNCHANGED <<token, timerVars, stop, held, attempt, serverVars, failures>>

(* The callback looks at stopChan.  Variant: it does not.                  *)
CallbackUnchecked(k) ==
    /\ pc[k] = "check"
    /\ Goto(k, "refresh")
    /\ UNCHANGED <<token, timerVars, stop, held, attempt, serverVars, failures>>

CallbackCheck(k) ==
    /\ pc[k] = "check"
    /\ Goto(k, IF stopChan THEN "free" ELSE "refresh")
    /\ UNCHANGED <<token, timerVars, stop, held, attempt, serverVars, failures>>

(* The callback's Refresh succeeded: startAutoRefresh.                     *)
CallbackNext(k) ==
    /\ pc[k] = "ok"
    /\ Arm(k, "free", 0)
    /\ UNCHANGED <<token, stop, held, attempt, serverVars, failures>>

(* It failed: scheduleRetryRefresh, after one minute, then twice as long   *)
(* each time.  Variant: no retry.                                          *)
NextDelay(d) ==
    IF d = 0 THEN FirstDelay ELSE IF 2 * d > MaxDelay THEN MaxDelay ELSE 2 * d

CallbackGivesUp(k) ==
    /\ pc[k] = "error"
    /\ Goto(k, "free")
    /\ UNCHANGED <<token, timerVars, stop, held, attempt, serverVars, failures>>

CallbackRetry(k) ==
    /\ pc[k] = "error"
    /\ Arm(k, "free", NextDelay(delay[k]))
    /\ UNCHANGED <<token, stop, held, attempt, serverVars, failures>>

(* Stop stops the timer under the lock and then closes stopChan.  The      *)
(* owner calls it once: a second close would panic.                        *)
StopTimer ==
    /\ stop = "idle"
    /\ stop' = "close"
    /\ pc' = [pc EXCEPT ![refreshTimer] = IF @ = "armed" THEN "free" ELSE @]
    /\ UNCHANGED <<token, timerVars, held, attempt, serverVars, failures>>

StopClose ==
    /\ stop = "close"
    /\ stop' = "closed"
    /\ UNCHANGED <<token, timerVars, pc, held, attempt, serverVars, failures>>

-----------------------------------------------------------------------------
(* The server and the network.                                             *)
ServeHandshake(h) ==
    /\ pc[h] = "sent"
    /\ issued' = issued + 1
    /\ held' = [held EXCEPT ![h] = issued + 1]
    /\ Goto(h, "replied")
    /\ UNCHANGED <<token, timerVars, stop, attempt, revoked, late, raced, failures>>

ServeRefresh(a) ==
    /\ pc[a] = "sent"
    /\ Goto(a, IF held[a] \in revoked THEN "error" ELSE "replied")
    /\ held' = [held EXCEPT ![a] = IF @ \in revoked THEN 0 ELSE @]
    /\ UNCHANGED <<token, timerVars, stop, attempt, serverVars, failures>>

(* The server forgets t.                                                   *)
ForgetToken(t) ==
    /\ revoked' = revoked \cup {t}
    /\ raced' = IF \E a \in Refreshers : held[a] = t /\ pc[a] \in {"sent", "replied"}
                THEN raced \cup {t} ELSE raced

ServeRevoke(v) ==
    /\ pc[v] = "sent"
    /\ Goto(v, IF held[v] \in revoked THEN "error" ELSE "replied")
    /\ ForgetToken(held[v])
    /\ UNCHANGED <<token, timerVars, stop, held, attempt, issued, late, failures>>

(* A request or its answer is lost, times out or its context ends.  A      *)
(* Revoke request may still reach the server.                              *)
RequestFails(a) ==
    /\ pc[a] \in {"sent", "replied"}
    /\ failures < MaxFailures
    /\ failures' = failures + 1
    /\ Goto(a, "error")
    /\ held' = [held EXCEPT ![a] = IF a \in Revokes THEN @ ELSE 0]
    /\ \/ UNCHANGED late
       \/ a \in Revokes /\ pc[a] = "sent" /\ late' = late \cup {held[a]}
    /\ UNCHANGED <<token, timerVars, stop, attempt, issued, revoked, raced>>

ServeLateRevoke(t) ==
    /\ t \in late
    /\ late' = late \ {t}
    /\ ForgetToken(t)
    /\ UNCHANGED <<token, timerVars, stop, pc, held, attempt, issued, failures>>

Next ==
    \/ \E h \in Handshakes :
        \/ HandshakeSend(h)
        \/ HandshakeRetry(h)
        \/ HandshakeCancelled(h)
        \/ HandshakeStore(h)
        \/ StartAutoRefresh(h)
        \/ ServeHandshake(h)
    \/ \E a \in Refreshers \cup Revokes : ReadToken(a)
    \/ \E a \in Refreshers : RefreshStore(a) \/ ServeRefresh(a)
    \/ \E v \in Revokes : RevokeClear(v) \/ ServeRevoke(v)
    \/ \E a \in Refreshes \cup Revokes : CallFails(a)
    \/ \E k \in Timers :
        \/ TimerFires(k)
        \/ CallbackCheck(k)
        \/ CallbackNext(k)
        \/ CallbackRetry(k)
    \/ StopTimer
    \/ StopClose
    \/ \E a \in Actors : RequestFails(a)
    \/ \E t \in 1 .. issued : ServeLateRevoke(t)

Spec == Init /\ [][Next]_vars

(* What moves by itself: goroutines run, timers fire, a request is         *)
(* answered or times out.  Nobody need call anything.                      *)
Steps(h) ==
    \/ (attempt[h] > 0 /\ HandshakeSend(h)) \/ HandshakeRetry(h) \/ HandshakeStore(h)
    \/ StartAutoRefresh(h) \/ ServeHandshake(h)
CallbackSteps(k) ==
    \/ TimerFires(k) \/ CallbackCheck(k) \/ ReadToken(k) \/ ServeRefresh(k)
    \/ RefreshStore(k) \/ CallbackNext(k) \/ CallbackRetry(k)

FairSpec ==
    /\ Spec
    /\ \A h \in Handshakes : WF_vars(Steps(h))
    /\ \A k \in Timers : WF_vars(CallbackSteps(k))
    /\ WF_vars(StopClose)

-----------------------------------------------------------------------------
(* Properties.                                                             *)

Places == {"idle", "sent", "replied", "error", "wait", "failed", "ok", "arm",
           "free", "armed", "check", "refresh"}

(* Type invariant; Handshake tries three times at most and a retry never   *)
(* waits longer than MaxDelay.                                             *)
TypeOK ==
    /\ token \in 0 .. issued
    /\ refreshTimer \in Timers
    /\ stop \in {"idle", "close", "closed"}
    /\ pc \in [Actors -> Places]
    /\ held \in [Actors -> 0 .. issued]
    /\ attempt \in [Handshakes -> 0 .. MaxAttempts]
    /\ delay \in [Timers -> 0 .. MaxDelay]
    /\ issued \in Nat
    /\ revoked \subseteq 1 .. issued /\ late \subseteq 1 .. issued /\ raced \subseteq revoked
    /\ failures \in 0 .. MaxFailures

(* startAutoRefresh and scheduleRetryRefresh: whatever Handshake calls and *)
(* callbacks arm, in any order, only the timer that Stop would stop is     *)
(* armed.                                                                  *)
OneTimer == \A k \in Timers : pc[k] = "armed" => k = refreshTimer

(* The background refresh does not die: from a successful Handshake until  *)
(* Stop a timer is armed or a callback runs that will arm the next.        *)
RefreshAlive ==
    (\E h \in Handshakes : pc[h] = "ok") /\ stop = "idle" => \E k \in Timers : pc[k] # "free"

(* The client presents a token that was revoked only while a Revoke of it  *)
(* has not been confirmed, or because a refresh of it crossed its          *)
(* revocation.                                                             *)
RevokedOnlyIfRaced ==
    token \in revoked =>
        \/ token \in raced
        \/ \E v \in Revokes : held[v] = token /\ pc[v] # "ok"

(* After Stop the background refresh comes to rest for good, also when a   *)
(* callback was on its way and armed another timer.                        *)
StopQuiesces == stopChan ~> [](\A k \in Timers : pc[k] = "free")
=============================================================================

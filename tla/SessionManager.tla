--------------------------- MODULE SessionManager ---------------------------
(***************************************************************************)
(* The controller's session store: session/manager.go and session/token.go. *)
(*                                                                         *)
(* Two maps under one lock: token -> session, and client -> tokens.        *)
(* CreateSession takes the time before it takes the lock.  ValidateSession *)
(* and RefreshSession read the clock again for every field they write, so  *)
(* they are one step for each time.Now(), with the lock held in between.   *)
(* cleanExpired takes the time, then collects tokens under the read lock,  *)
(* then deletes them under the write lock without looking at their expiry  *)
(* again.                                                                  *)
(*                                                                         *)
(* Abstracted: a session is its client, its expiry and its last access;    *)
(* device info and metadata are carried only.  A client's token list is a  *)
(* set (its order is never used), and the empty set stands for the key     *)
(* that the code deletes with the last token.  Tokens are random: a value  *)
(* is generated once.  Calls that fail change nothing and are no steps.    *)
(***************************************************************************)
EXTENDS Integers

CONSTANTS
    Tokens,     \* values generateToken can return
    Clients,    \* non-empty client IDs
    Cleaners,   \* goroutines in StartCleanup
    TTL,        \* Config.TokenTTL, in clock ticks
    MaxTime,    \* bound: the clock stops here
    None        \* no session

ASSUME TimeAssumption == TTL \in Nat \ {0} /\ MaxTime \in Nat
ASSUME NoneAssumption == None \notin Clients

VARIABLES
    now,             \* time.Now()
    creating,        \* sessions built by CreateSession, not yet in the maps
    sessions,        \* token -> session
    clientSessions,  \* client -> tokens
    issued,          \* tokens generateToken has returned
    cleanPC, cleanNow, expiredTokens,   \* locals of cleanExpired
    lockPC,          \* who holds m.mu between steps: "free" when nobody does
    lockToken,       \* the token whose session the holder has in its hands
    stopChan         \* StopCleanup has closed it

vars == <<now, creating, sessions, clientSessions, issued, cleanPC, cleanNow,
          expiredTokens, lockPC, lockToken, stopChan>>
lockVars == <<lockPC, lockToken>>
cleanVars == <<cleanPC, cleanNow, expiredTokens>>

Session(cl, exp, last) == [client |-> cl, expiresAt |-> exp, lastAccessAt |-> last]

NoSession == Session(None, 0, 0)

Present(t) == sessions[t].client # None

(* m.mu can be taken.                                                      *)
Free == lockPC = "free"

(* time.Now().After(session.ExpiresAt)                                     *)
After(time, t) == time > sessions[t].expiresAt

Init ==
    /\ now = 0
    /\ creating = [t \in Tokens |-> NoSession]
    /\ sessions = [t \in Tokens |-> NoSession]
    /\ clientSessions = [cl \in Clients |-> {}]
    /\ issued = {}
    /\ cleanPC = [g \in Cleaners |-> "select"]
    /\ cleanNow = [g \in Cleaners |-> 0]
    /\ expiredTokens = [g \in Cleaners |-> {}]
    /\ lockPC = "free"
    /\ lockToken = None
    /\ stopChan = FALSE

Tick ==
    /\ now < MaxTime
    /\ now' = now + 1
    /\ UNCHANGED <<creating, sessions, clientSessions, issued, cleanVars, lockVars, stopChan>>

(* Removing a set of tokens from both maps, as RevokeSession and           *)
(* cleanExpired do; variant: the second map is left alone.                 *)
DeleteSessionsOnly(T) ==
    /\ sessions' = [t \in Tokens |-> IF t \in T THEN NoSession ELSE sessions[t]]
    /\ UNCHANGED clientSessions

DeleteSessions(T) ==
    /\ sessions' = [t \in Tokens |-> IF t \in T THEN NoSession ELSE sessions[t]]
    /\ clientSessions' = [cl \in Clients |-> clientSessions[cl] \ T]

-----------------------------------------------------------------------------
(* CreateSession: the session is built, with its times, outside the lock.  *)
CreateSession(t, cl) ==
    /\ t \notin issued
    /\ issued' = issued \cup {t}
    /\ creating' = [creating EXCEPT ![t] = Session(cl, now + TTL, now)]
    /\ UNCHANGED <<now, sessions, clientSessions, cleanVars, lockVars, stopChan>>

(* CreateSession's critical section.                                       *)
InsertSession(t) ==
    /\ Free
    /\ creating[t].client # None
    /\ sessions' = [sessions EXCEPT ![t] = creating[t]]
    /\ clientSessions' = [clientSessions EXCEPT ![creating[t].client] = @ \cup {t}]
    /\ creating' = [creating EXCEPT ![t] = NoSession]
    /\ UNCHANGED <<now, issued, cleanVars, lockVars, stopChan>>

(* The lock is taken for t and kept; the holder's next step is pc.         *)
Take(t, pc) == lockPC' = pc /\ lockToken' = t

(* ValidateSession finds the session alive and goes on to record the       *)
(* access.                                                                 *)
ValidateSession(t) ==
    /\ Free
    /\ Present(t)
    /\ ~After(now, t)
    /\ Take(t, "access")
    /\ UNCHANGED <<now, creating, sessions, clientSessions, issued, cleanVars, stopChan>>

(* RefreshSession refuses an expired session.  Variant: it does not look   *)
(* at the expiry.                                                          *)
RefreshAny(t) ==
    /\ Free
    /\ Present(t)
    /\ Take(t, "extend")
    /\ UNCHANGED <<now, creating, sessions, clientSessions, issued, cleanVars, stopChan>>

RefreshSession(t) ==
    /\ Free
    /\ Present(t)
    /\ ~After(now, t)
    /\ Take(t, "extend")
    /\ UNCHANGED <<now, creating, sessions, clientSessions, issued, cleanVars, stopChan>>

(* RefreshSession, with the lock held: ExpiresAt from a second time.Now(). *)
ExtendExpiry ==
    /\ lockPC = "extend"
    /\ sessions' = [sessions EXCEPT ![lockToken] =
                       Session(@.client, now + TTL, @.lastAccessAt)]
    /\ Take(lockToken, "access")
    /\ UNCHANGED <<now, creating, clientSessions, issued, cleanVars, stopChan>>

(* The last assignment of both methods: LastAccessAt from one more         *)
(* time.Now(), and the deferred Unlock.                                    *)
RecordAccess ==
    /\ lockPC = "access"
    /\ sessions' = [sessions EXCEPT ![lockToken] =
                       Session(@.client, @.expiresAt, now)]
    /\ Take(None, "free")
    /\ UNCHANGED <<now, creating, clientSessions, issued, cleanVars, stopChan>>

RevokeSession(t) ==
    /\ Free
    /\ Present(t)
    /\ DeleteSessions({t})
    /\ UNCHANGED <<now, creating, issued, cleanVars, lockVars, stopChan>>

-----------------------------------------------------------------------------
(* StartCleanup's select: a tick enters cleanExpired, which takes the time. *)
CleanTick(g) ==
    /\ cleanPC[g] = "select"
    /\ cleanPC' = [cleanPC EXCEPT ![g] = "scan"]
    /\ cleanNow' = [cleanNow EXCEPT ![g] = now]
    /\ UNCHANGED <<now, creating, sessions, clientSessions, issued, expiredTokens,
                   lockVars, stopChan>>

(* The stop channel or the context ends the loop.                          *)
CleanExit(g) ==
    /\ cleanPC[g] = "select"
    /\ stopChan
    /\ cleanPC' = [cleanPC EXCEPT ![g] = "done"]
    /\ UNCHANGED <<now, creating, sessions, clientSessions, issued, cleanNow,
                   expiredTokens, lockVars, stopChan>>

(* Variant: with nothing found the loop ends, not the round.               *)
CleanScanOrExit(g) ==
    /\ Free
    /\ cleanPC[g] = "scan"
    /\ LET found == {t \in Tokens : Present(t) /\ After(cleanNow[g], t)}
       IN  /\ expiredTokens' = [expiredTokens EXCEPT ![g] = found]
           /\ cleanPC' = [cleanPC EXCEPT ![g] = IF found = {} THEN "done" ELSE "delete"]
    /\ UNCHANGED <<now, creating, sessions, clientSessions, issued, cleanNow, lockVars,
                   stopChan>>

(* cleanExpired under the read lock; with nothing found it returns.        *)
CleanScan(g) ==
    /\ Free
    /\ cleanPC[g] = "scan"
    /\ LET found == {t \in Tokens : Present(t) /\ After(cleanNow[g], t)}
       IN  /\ expiredTokens' = [expiredTokens EXCEPT ![g] = found]
           /\ cleanPC' = [cleanPC EXCEPT ![g] = IF found = {} THEN "select" ELSE "delete"]
    /\ UNCHANGED <<now, creating, sessions, clientSessions, issued, cleanNow, lockVars,
                   stopChan>>

(* cleanExpired under the write lock: whatever is still there goes.        *)
CleanDelete(g) ==
    /\ Free
    /\ cleanPC[g] = "delete"
    /\ DeleteSessions({t \in expiredTokens[g] : Present(t)})
    /\ cleanPC' = [cleanPC EXCEPT ![g] = "select"]
    /\ expiredTokens' = [expiredTokens EXCEPT ![g] = {}]
    /\ UNCHANGED <<now, creating, issued, cleanNow, lockVars, stopChan>>

(* StopCleanup (or the context's cancellation).  Its owner calls it once.  *)
StopCleanup ==
    /\ ~stopChan
    /\ stopChan' = TRUE
    /\ UNCHANGED <<now, creating, sessions, clientSessions, issued, cleanVars, lockVars>>

Cleanup(g) == CleanTick(g) \/ CleanScan(g) \/ CleanDelete(g)

Next ==
    \/ Tick
    \/ \E t \in Tokens, cl \in Clients : CreateSession(t, cl)
    \/ \E t \in Tokens : InsertSession(t)
    \/ \E t \in Tokens : ValidateSession(t)
    \/ \E t \in Tokens : RefreshSession(t)
    \/ ExtendExpiry
    \/ RecordAccess
    \/ \E t \in Tokens : RevokeSession(t)
    \/ \E g \in Cleaners : CleanTick(g)
    \/ \E g \in Cleaners : CleanExit(g)
    \/ \E g \in Cleaners : CleanScan(g)
    \/ \E g \in Cleaners : CleanDelete(g)
    \/ StopCleanup

Spec == Init /\ [][Next]_vars

(* The ticker of StartCleanup fires again and again, and whoever holds the *)
(* lock goes on to release it.  A goroutine that waits for a sync.RWMutex  *)
(* gets it in the end although others take it again and again: hence the   *)
(* strong fairness of a round.                                             *)
FairSpec ==
    /\ Spec
    /\ WF_vars(ExtendExpiry) /\ WF_vars(RecordAccess)
    /\ \A g \in Cleaners : SF_vars(Cleanup(g)) /\ WF_vars(CleanExit(g))

-----------------------------------------------------------------------------
(* Properties.                                                             *)

(* The sessions there can be at a time.                                    *)
SessionsAt(time) == [client       : Clients \cup {None},
                     expiresAt    : 0 .. time + TTL,
                     lastAccessAt : 0 .. time]

(* Type invariant.  No session lives longer than TTL from now, however     *)
(* often it is refreshed, and none was accessed in the future.             *)
TypeOK ==
    /\ now \in 0 .. MaxTime
    /\ creating \in [Tokens -> SessionsAt(now)]
    /\ sessions \in [Tokens -> SessionsAt(now)]
    /\ clientSessions \in [Clients -> SUBSET Tokens]
    /\ issued \in SUBSET Tokens
    /\ cleanPC \in [Cleaners -> {"select", "scan", "delete", "done"}]
    /\ cleanNow \in [Cleaners -> 0 .. now]
    /\ expiredTokens \in [Cleaners -> SUBSET Tokens]
    /\ lockPC \in {"free", "extend", "access"}
    /\ lockToken \in Tokens \cup {None}
    /\ stopChan \in BOOLEAN

(* The two maps agree: a client's list holds exactly the tokens of its     *)
(* sessions, through creation, revocation and cleanup in any order.        *)
IndexConsistent ==
    \A cl \in Clients, t \in Tokens : t \in clientSessions[cl] <=> sessions[t].client = cl

(* Between its two critical sections cleanExpired holds a list that may be *)
(* stale; every session on it that still exists is expired all the same.   *)
ListedAreExpired ==
    \A g \in Cleaners : \A t \in expiredTokens[g] : Present(t) => After(now, t)

(* Hence cleanup never deletes a session that ValidateSession would accept. *)
NoLiveSessionCleaned ==
    [][\A g \in Cleaners : CleanDelete(g) =>
          \A t \in Tokens : Present(t) /\ ~After(now, t) => Present(t)']_vars

(* Refinement: for each token the manager implements SessionLifecycle.  An *)
(* expired, revoked or cleaned token never becomes valid again.  A session *)
(* that a validation or refresh has found alive counts as valid until the  *)
(* lock is released: the clock may pass ExpiresAt before the refresh       *)
(* extends it, and nobody can see that.                                    *)
InHand(t) == ~Free /\ lockToken = t

Status(t) == IF t \notin issued \/ creating[t].client # None THEN "unborn"
             ELSE IF Present(t) /\ (~After(now, t) \/ InHand(t)) THEN "valid" ELSE "dead"

Lifecycle == INSTANCE SessionLifecycle WITH status <- [t \in Tokens |-> Status(t)]

LifecycleSpec == Lifecycle!Spec

(* While cleanup runs, an expired session that no refresh has in its hands *)
(* is removed in the end: no session stays in the maps for ever.           *)
ExpiredRemoved ==
    \A t \in Tokens :
        Present(t) /\ After(now, t) /\ ~InHand(t) ~> ~Present(t) \/ stopChan
=============================================================================

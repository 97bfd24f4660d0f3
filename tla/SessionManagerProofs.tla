------------------------ MODULE SessionManagerProofs ------------------------
(***************************************************************************)
(* Proofs about SessionManager, for any tokens, clients, number of cleanup *)
(* loops and TTL.                                                          *)
(*                                                                         *)
(* The heart is ListedAreExpired: cleanExpired deletes from a list made in *)
(* an earlier critical section.  It stays right because time only grows    *)
(* and RefreshSession refuses a session that has expired, so "expired" is  *)
(* stable for a session that exists, and a deleted token never comes back. *)
(* The last fact needs FreshInv: a token on its way into the maps is on no *)
(* list, because a listed token has been in the maps before.               *)
(* RefreshSession itself looks at the clock twice: the session it extends  *)
(* may have expired since it was found alive.  LockInv says why this harms *)
(* nobody: it is on no list, and no list is made while the lock is held.   *)
(***************************************************************************)
EXTENDS SessionManager, TLAPS

(* A token is generated once, built once and inserted once.                *)
FreshInv ==
    \A t \in Tokens :
        /\ t \notin issued => creating[t].client = None /\ sessions[t].client = None
        /\ creating[t].client # None => sessions[t].client = None
        /\ t \notin issued \/ creating[t].client # None =>
              \A g \in Cleaners : t \notin expiredTokens[g]

(* The session in a holder's hands exists, and no list has the one that a  *)
(* refresh is about to extend.                                             *)
LockInv ==
    /\ ~Free => lockToken \in Tokens /\ Present(lockToken)
    /\ lockPC = "extend" => \A g \in Cleaners : lockToken \notin expiredTokens[g]

(* The inductive invariant.                                                *)
IInv == /\ TypeOK
        /\ FreshInv
        /\ IndexConsistent
        /\ ListedAreExpired
        /\ LockInv

LEMMA InitIInv == Init => IInv
<1> SUFFICES ASSUME Init PROVE IInv
  OBVIOUS
<1>1. TypeOK
  <2>1. now \in 0 .. MaxTime /\ 0 \in 0 .. now /\ NoSession \in SessionsAt(now)
    BY TimeAssumption DEF Init, NoSession, Session, SessionsAt
  <2>2. QED BY <2>1 DEF Init, TypeOK
<1>2. FreshInv /\ IndexConsistent
  BY NoneAssumption DEF Init, FreshInv, IndexConsistent, NoSession, Session
<1>3. ListedAreExpired /\ LockInv
  BY DEF Init, ListedAreExpired, LockInv, Free
<1>4. QED BY <1>1, <1>2, <1>3 DEF IInv

(* The types allow more as time goes on.                                   *)
LEMMA TypeGrows ==
    ASSUME NEW n \in Nat, NEW m \in Nat, n <= m
    PROVE  /\ 0 .. n \subseteq 0 .. m
           /\ 0 .. n + TTL \subseteq 0 .. m + TTL
BY TimeAssumption

(* What removing a set of tokens from both maps does to each session.      *)
LEMMA DeleteFacts ==
    ASSUME TypeOK, NEW T \in SUBSET Tokens, DeleteSessions(T)
    PROVE  /\ \A t \in Tokens : sessions'[t] = IF t \in T THEN NoSession ELSE sessions[t]
           /\ \A cl \in Clients : clientSessions'[cl] = clientSessions[cl] \ T
BY DEF DeleteSessions

(* Removing sessions keeps everything that is said of the others.          *)
LEMMA DeleteStep ==
    ASSUME IInv, NEW T \in SUBSET Tokens, DeleteSessions(T),
           UNCHANGED <<now, creating, issued, lockPC, lockToken>>, Free,
           \A g \in Cleaners : expiredTokens'[g] \subseteq expiredTokens[g]
    PROVE  /\ FreshInv' /\ IndexConsistent' /\ ListedAreExpired' /\ LockInv'
           /\ sessions' \in [Tokens -> SessionsAt(now)]
           /\ clientSessions' \in [Clients -> SUBSET Tokens]
<1> USE DEF IInv
<1>1. NoSession \in SessionsAt(now)
  BY TimeAssumption DEF NoSession, Session, SessionsAt, TypeOK
<1>2. NoSession.client = None
  BY DEF NoSession, Session
<1>3. sessions' \in [Tokens -> SessionsAt(now)]
  BY <1>1 DEF DeleteSessions, TypeOK
<1>4. clientSessions' \in [Clients -> SUBSET Tokens]
  BY DEF DeleteSessions, TypeOK
<1>5. FreshInv'
  BY <1>2, DeleteFacts DEF FreshInv
<1>6. IndexConsistent'
  BY <1>2, DeleteFacts, NoneAssumption DEF IndexConsistent
<1>7. ListedAreExpired'
  BY <1>2, DeleteFacts DEF ListedAreExpired, Present, After, TypeOK
<1>8. LockInv'
  BY DEF LockInv, Free
<1>9. QED BY <1>3, <1>4, <1>5, <1>6, <1>7, <1>8

(* A step that changes neither the maps nor any list, time apart.          *)
LEMMA QuietStep ==
    ASSUME IInv, UNCHANGED <<creating, sessions, clientSessions, issued, expiredTokens,
                             lockPC, lockToken>>,
           now' \in Nat, now' >= now
    PROVE  FreshInv' /\ IndexConsistent' /\ ListedAreExpired' /\ LockInv'
<1> USE DEF IInv
<1>1. \A t \in Tokens : sessions[t].expiresAt \in Int
  BY TimeAssumption DEF TypeOK, SessionsAt
<1>2. ListedAreExpired'
  BY <1>1 DEF ListedAreExpired, Present, After, TypeOK
<1>3. QED BY <1>2 DEF FreshInv, IndexConsistent, LockInv, Free, Present

(* A validation or a refresh finds t alive and takes the lock: a session   *)
(* that has not expired is on no list.                                     *)
LEMMA TakeStep ==
    ASSUME IInv, NEW t \in Tokens, NEW pc \in {"extend", "access"}, Present(t),
           ~After(now, t), Take(t, pc),
           UNCHANGED <<now, creating, sessions, clientSessions, issued, cleanVars, stopChan>>
    PROVE  IInv'
<1> USE DEF IInv
<1>1. TypeOK'
  BY DEF TypeOK, Take, cleanVars
<1>2. FreshInv' /\ IndexConsistent' /\ ListedAreExpired'
  BY DEF FreshInv, IndexConsistent, ListedAreExpired, Present, After, cleanVars
<1>3. \A g \in Cleaners : t \notin expiredTokens[g]
  BY DEF ListedAreExpired
<1>4. LockInv'
  BY <1>3 DEF LockInv, Take, Present, cleanVars
<1>5. QED BY <1>1, <1>2, <1>4

(* A step of the lock's holder that changes times of the session in its    *)
(* hands; the expiry only if no list has the session.                      *)
LEMMA HolderStep ==
    ASSUME IInv, NEW t \in Tokens, NEW e \in 0 .. now + TTL, NEW l \in 0 .. now,
           ~Free, t = lockToken,
           \/ e = sessions[t].expiresAt
           \/ \A g \in Cleaners : t \notin expiredTokens[g],
           sessions' = [sessions EXCEPT ![t] = Session(sessions[t].client, e, l)],
           \/ lockPC' = "access" /\ lockToken' = t
           \/ lockPC' = "free" /\ lockToken' = None,
           UNCHANGED <<now, creating, clientSessions, issued, cleanVars, stopChan>>
    PROVE  IInv'
<1> USE DEF IInv
<1>1. /\ sessions' \in [Tokens -> SessionsAt(now)]
      /\ \A u \in Tokens : sessions'[u].client = sessions[u].client
      /\ \A u \in Tokens : u # t => sessions'[u] = sessions[u]
      /\ sessions'[t].expiresAt = e
  BY TimeAssumption DEF TypeOK, Session, SessionsAt
<1>2. TypeOK'
  BY <1>1 DEF TypeOK, cleanVars
<1>3. FreshInv'
  BY <1>1 DEF FreshInv, cleanVars
<1>4. IndexConsistent'
  BY <1>1 DEF IndexConsistent
<1>5. ListedAreExpired'
  BY <1>1 DEF ListedAreExpired, Present, After, cleanVars
<1>6. LockInv'
  BY <1>1 DEF LockInv, Free, Present
<1>7. QED BY <1>2, <1>3, <1>4, <1>5, <1>6

-----------------------------------------------------------------------------
LEMMA NextIInv == IInv /\ [Next]_vars => IInv'
<1> SUFFICES ASSUME IInv, [Next]_vars PROVE IInv'
  OBVIOUS
<1>a. /\ TypeOK /\ FreshInv /\ IndexConsistent /\ ListedAreExpired /\ LockInv
      /\ now \in Nat /\ TTL \in Nat
  BY TimeAssumption DEF IInv, TypeOK
<1>1. CASE Tick
  <2>1. now' \in 0 .. MaxTime /\ now' \in Nat /\ now' >= now
    BY <1>a, <1>1, TimeAssumption DEF Tick, TypeOK
  <2>2. SessionsAt(now) \subseteq SessionsAt(now') /\ 0 .. now \subseteq 0 .. now'
    BY <1>a, <2>1 DEF SessionsAt
  <2>3. TypeOK'
    BY <1>a, <1>1, <2>1, <2>2 DEF Tick, TypeOK, cleanVars, lockVars
  <2>4. QED BY <1>1, <2>1, <2>3, QuietStep DEF Tick, IInv, cleanVars, lockVars
<1>2. ASSUME NEW t \in Tokens, NEW cl \in Clients, CreateSession(t, cl)
      PROVE  IInv'
  <2> DEFINE s == Session(cl, now + TTL, now)
  <2>1. s \in SessionsAt(now) /\ s.client = cl /\ cl # None
    BY <1>a, NoneAssumption DEF Session, SessionsAt
  <2> HIDE DEF s
  <2>2. creating' = [creating EXCEPT ![t] = s] /\ issued' = issued \cup {t}
    BY <1>2 DEF CreateSession, s
  <2>3. TypeOK'
    BY <1>a, <1>2, <2>1, <2>2 DEF TypeOK, CreateSession, cleanVars, lockVars
  <2>4. FreshInv'
    BY <1>a, <1>2, <2>1, <2>2 DEF FreshInv, TypeOK, CreateSession, cleanVars
  <2>5. IndexConsistent' /\ ListedAreExpired' /\ LockInv'
    BY <1>a, <1>2 DEF IndexConsistent, ListedAreExpired, LockInv, Free, Present,
       After, CreateSession, cleanVars, lockVars
  <2>6. QED BY <2>3, <2>4, <2>5 DEF IInv
<1>3. ASSUME NEW t \in Tokens, InsertSession(t)
      PROVE  IInv'
  <2> DEFINE s == creating[t]
  <2>1. /\ s \in SessionsAt(now) /\ s.client \in Clients
        /\ t \in issued /\ sessions[t].client = None
        /\ \A g \in Cleaners : t \notin expiredTokens[g]
    BY <1>a, <1>3 DEF InsertSession, TypeOK, FreshInv, SessionsAt
  <2>2. NoSession \in SessionsAt(now) /\ NoSession.client = None
    BY <1>a DEF NoSession, Session, SessionsAt
  <2>3. /\ sessions' = [sessions EXCEPT ![t] = s]
        /\ clientSessions' = [clientSessions EXCEPT ![s.client] = @ \cup {t}]
        /\ creating' = [creating EXCEPT ![t] = NoSession]
        /\ UNCHANGED <<now, issued, cleanPC, cleanNow, expiredTokens, lockPC, lockToken,
                       stopChan>>
        /\ Free
    BY <1>3 DEF InsertSession, cleanVars, lockVars
  <2> HIDE DEF s
  <2>4. TypeOK'
    BY <1>a, <2>1, <2>2, <2>3 DEF TypeOK
  <2>5. FreshInv'
    BY <1>a, <2>1, <2>2, <2>3 DEF TypeOK, FreshInv
  <2>6. IndexConsistent'
    BY <1>a, <2>1, <2>3, NoneAssumption DEF TypeOK, IndexConsistent
  <2>7. ListedAreExpired'
    BY <1>a, <2>1, <2>3 DEF TypeOK, ListedAreExpired, Present, After
  <2>8. LockInv'
    BY <2>3 DEF LockInv, Free
  <2>9. QED BY <2>4, <2>5, <2>6, <2>7, <2>8 DEF IInv
<1>4. ASSUME NEW t \in Tokens, ValidateSession(t) \/ RefreshSession(t)
      PROVE  IInv'
  BY <1>4, TakeStep DEF ValidateSession, RefreshSession
<1>5. ASSUME ExtendExpiry
      PROVE  IInv'
  <2>1. /\ lockToken \in Tokens /\ ~Free
        /\ \A g \in Cleaners : lockToken \notin expiredTokens[g]
    BY <1>a, <1>5 DEF ExtendExpiry, LockInv, Free
  <2>2. now + TTL \in 0 .. now + TTL /\ sessions[lockToken].lastAccessAt \in 0 .. now
    BY <1>a, <2>1 DEF TypeOK, SessionsAt
  <2>3. QED BY <1>5, <2>1, <2>2, HolderStep DEF ExtendExpiry, Take
<1>5a. ASSUME RecordAccess
       PROVE  IInv'
  <2>1. lockToken \in Tokens /\ ~Free
    BY <1>a, <1>5a DEF RecordAccess, LockInv, Free
  <2>2. now \in 0 .. now /\ sessions[lockToken].expiresAt \in 0 .. now + TTL
    BY <1>a, <2>1 DEF TypeOK, SessionsAt
  <2>3. QED BY <1>5a, <2>1, <2>2, HolderStep DEF RecordAccess, Take
<1>6. ASSUME NEW t \in Tokens, RevokeSession(t)
      PROVE  IInv'
  <2>1. /\ DeleteSessions({t}) /\ {t} \in SUBSET Tokens /\ Free
        /\ UNCHANGED <<now, creating, issued, cleanPC, cleanNow, expiredTokens, lockPC,
                       lockToken, stopChan>>
    BY <1>6 DEF RevokeSession, cleanVars, lockVars
  <2>2. QED BY <1>a, <2>1, DeleteStep DEF IInv, TypeOK
<1>7. ASSUME NEW g \in Cleaners, CleanTick(g)
      PROVE  IInv'
  <2>1. now \in 0 .. now
    BY <1>a
  <2>2. TypeOK'
    BY <1>a, <1>7, <2>1 DEF TypeOK, CleanTick, lockVars
  <2>3. QED BY <1>a, <1>7, <2>2, QuietStep DEF CleanTick, IInv, lockVars
<1>8. ASSUME NEW g \in Cleaners, CleanExit(g)
      PROVE  IInv'
  <2>1. TypeOK'
    BY <1>a, <1>8 DEF TypeOK, CleanExit, lockVars
  <2>2. QED BY <1>a, <1>8, <2>1, QuietStep DEF CleanExit, IInv, lockVars
<1>9. ASSUME NEW g \in Cleaners, CleanScan(g)
      PROVE  IInv'
  <2> DEFINE found == {t \in Tokens : Present(t) /\ After(cleanNow[g], t)}
  <2>1. /\ expiredTokens' = [expiredTokens EXCEPT ![g] = found]
        /\ UNCHANGED <<now, creating, sessions, clientSessions, issued, cleanNow, lockPC,
                       lockToken, stopChan>>
        /\ Free
    BY <1>9 DEF CleanScan, lockVars
  <2>2. \A t \in found : t \in Tokens /\ Present(t) /\ After(now, t)
    <3>1. cleanNow[g] \in Nat /\ cleanNow[g] <= now
      BY <1>a DEF TypeOK
    <3>2. \A t \in Tokens : sessions[t].expiresAt \in Int
      BY <1>a DEF TypeOK, SessionsAt
    <3>3. QED BY <1>a, <3>1, <3>2 DEF After
  <2>3. TypeOK'
    BY <1>a, <1>9 DEF TypeOK, CleanScan, lockVars
  <2> HIDE DEF found
  <2>4. FreshInv'
    BY <1>a, <2>1, <2>2 DEF FreshInv, TypeOK, Present
  <2>5. ListedAreExpired'
    BY <1>a, <2>1, <2>2 DEF ListedAreExpired, TypeOK, Present, After
  <2>6. IndexConsistent' /\ LockInv'
    BY <1>a, <2>1 DEF IndexConsistent, LockInv, Free
  <2>7. QED BY <2>3, <2>4, <2>5, <2>6 DEF IInv
<1>10. ASSUME NEW g \in Cleaners, CleanDelete(g)
       PROVE  IInv'
  <2> DEFINE T == {t \in expiredTokens[g] : Present(t)}
  <2>1. T \in SUBSET Tokens /\ DeleteSessions(T)
    BY <1>a, <1>10 DEF CleanDelete, TypeOK
  <2>2. /\ UNCHANGED <<now, creating, issued, cleanNow, lockPC, lockToken, stopChan>>
        /\ Free
        /\ cleanPC' = [cleanPC EXCEPT ![g] = "select"]
        /\ expiredTokens' = [expiredTokens EXCEPT ![g] = {}]
    BY <1>10 DEF CleanDelete, lockVars
  <2> HIDE DEF T
  <2>3. \A h \in Cleaners : expiredTokens'[h] \subseteq expiredTokens[h]
    BY <1>a, <2>2 DEF TypeOK
  <2>4. QED BY <1>a, <2>1, <2>2, <2>3, DeleteStep DEF IInv, TypeOK
<1>11. CASE StopCleanup
  <2>1. TypeOK'
    BY <1>a, <1>11 DEF TypeOK, StopCleanup, cleanVars, lockVars
  <2>2. QED BY <1>a, <1>11, <2>1, QuietStep DEF StopCleanup, IInv, cleanVars, lockVars
<1>12. CASE UNCHANGED vars
  <2>1. TypeOK'
    BY <1>a, <1>12 DEF TypeOK, vars
  <2>2. QED BY <1>a, <1>12, <2>1, QuietStep DEF IInv, vars
<1>13. QED
  BY <1>1, <1>2, <1>3, <1>4, <1>5, <1>5a, <1>6, <1>7, <1>8, <1>9, <1>10, <1>11, <1>12
  DEF Next

(* The invariant holds in every reachable state.                           *)
THEOREM Invariance == Spec => []IInv
<1>1. QED BY InitIInv, NextIInv, PTL DEF Spec

(* Type correctness: no refresh makes a session live past now + TTL.       *)
THEOREM TypeCorrect == Spec => []TypeOK
<1>1. IInv => TypeOK
  BY DEF IInv
<1>2. QED BY <1>1, Invariance, PTL

(* The index by client and the map of sessions always agree.               *)
THEOREM IndexIsConsistent == Spec => []IndexConsistent
<1>1. IInv => IndexConsistent
  BY DEF IInv
<1>2. QED BY <1>1, Invariance, PTL

(* The list cleanExpired works from is never wrong about a session.        *)
THEOREM ListsHoldExpired == Spec => []ListedAreExpired
<1>1. IInv => ListedAreExpired
  BY DEF IInv
<1>2. QED BY <1>1, Invariance, PTL

(* cleanExpired deletes no session that ValidateSession would accept.      *)
THEOREM CleanupIsSafe == Spec => NoLiveSessionCleaned
<1> DEFINE A == \A g \in Cleaners : CleanDelete(g) =>
                   \A t \in Tokens : Present(t) /\ ~After(now, t) => Present(t)'
<1>1. IInv /\ [Next]_vars => [A]_vars
  <2> SUFFICES ASSUME IInv, NEW g \in Cleaners, CleanDelete(g),
                      NEW t \in Tokens, Present(t), ~After(now, t)
               PROVE  Present(t)'
    OBVIOUS
  <2>1. t \notin expiredTokens[g]
    BY DEF IInv, ListedAreExpired
  <2>2. sessions'[t] = sessions[t]
    BY <2>1 DEF CleanDelete, DeleteSessions
  <2>3. QED BY <2>2 DEF Present
<1>2. QED BY <1>1, Invariance, PTL DEF Spec, NoLiveSessionCleaned

-----------------------------------------------------------------------------
(* Steps of the abstract specification, token by token.                    *)
LEMMA DieOrStutter ==
    ASSUME \A t \in Tokens : \/ Status(t)' = Status(t)
                             \/ Status(t) = "valid" /\ Status(t)' = "dead"
    PROVE  Lifecycle!Next
<1> DEFINE D == {t \in Tokens : Status(t) = "valid" /\ Status(t)' = "dead"}
<1>1. D \in SUBSET Tokens /\ D \subseteq {t \in Tokens : Status(t) = "valid"}
  OBVIOUS
<1>2. [t \in Tokens |-> Status(t)]' = [t \in Tokens |-> IF t \in D THEN "dead" ELSE Status(t)]
  OBVIOUS
<1>3. Lifecycle!Die(D)
  BY <1>1, <1>2 DEF Lifecycle!Die
<1>4. QED BY <1>1, <1>3 DEF Lifecycle!Next

LEMMA IssueStep ==
    ASSUME NEW t \in Tokens, Status(t) = "unborn", Status(t)' \in {"valid", "dead"},
           \A u \in Tokens \ {t} : Status(u)' = Status(u)
    PROVE  Lifecycle!Next
<1>1. [u \in Tokens |-> Status(u)]' =
         [[u \in Tokens |-> Status(u)] EXCEPT ![t] = Status(t)']
  OBVIOUS
<1>2. Lifecycle!Issue(t)
  BY <1>1 DEF Lifecycle!Issue
<1>3. QED BY <1>2 DEF Lifecycle!Next

(* For each token the manager implements the abstract life cycle: issued   *)
(* once, and never valid again after expiry, revocation or cleanup.        *)
THEOREM Refinement == Spec => LifecycleSpec
<1>1. Init => Lifecycle!Init
  BY DEF Init, Lifecycle!Init, Status
<1>2. IInv /\ [Next]_vars => Lifecycle!Next \/ UNCHANGED [t \in Tokens |-> Status(t)]
  <2> SUFFICES ASSUME IInv, [Next]_vars
               PROVE  Lifecycle!Next \/ UNCHANGED [t \in Tokens |-> Status(t)]
    OBVIOUS
  <2>a. /\ TypeOK /\ FreshInv /\ LockInv /\ now \in Nat /\ TTL \in Nat
        /\ \A t \in Tokens : sessions[t].expiresAt \in Int
    BY TimeAssumption DEF IInv, TypeOK, SessionsAt
  <2>b. NoSession.client = None
    BY DEF NoSession, Session
  <2>1. CASE Tick
    <3>1. \A u \in Tokens : \/ Status(u)' = Status(u)
                            \/ Status(u) = "valid" /\ Status(u)' = "dead"
      BY <2>a, <2>1 DEF Tick, Status, Present, After, InHand, Free, lockVars
    <3>2. QED BY <3>1, DieOrStutter
  <2>2. ASSUME NEW t \in Tokens, NEW cl \in Clients, CreateSession(t, cl)
        PROVE  Lifecycle!Next
    <3>1. creating' = [creating EXCEPT ![t] = Session(cl, now + TTL, now)]
             /\ Session(cl, now + TTL, now).client # None
      BY <2>2, NoneAssumption DEF CreateSession, Session
    <3>2. \A u \in Tokens : Status(u)' = Status(u)
      BY <2>a, <2>2, <3>1 DEF CreateSession, Status, Present, After, TypeOK, InHand, Free, lockVars
    <3>3. QED BY <3>2, DieOrStutter
  <2>3. ASSUME NEW t \in Tokens, InsertSession(t)
        PROVE  Lifecycle!Next
    <3>1. t \in issued
      BY <2>a, <2>3 DEF InsertSession, FreshInv
    <3>2. Status(t) = "unborn" /\ Status(t)' \in {"valid", "dead"}
      BY <2>a, <2>b, <2>3, <3>1 DEF InsertSession, Status, TypeOK
    <3>3. \A u \in Tokens \ {t} : Status(u)' = Status(u)
      BY <2>a, <2>3 DEF InsertSession, Status, Present, After, TypeOK, InHand, Free, lockVars
    <3>4. QED BY <3>2, <3>3, IssueStep
  <2>4. ASSUME NEW t \in Tokens, ValidateSession(t) \/ RefreshSession(t)
        PROVE  Lifecycle!Next
    <3>1. /\ UNCHANGED <<now, creating, sessions, issued>>
          /\ Free /\ ~After(now, t) /\ lockPC' # "free" /\ lockToken' = t
      BY <2>4 DEF ValidateSession, RefreshSession, Take
    <3>2. \A u \in Tokens : Status(u)' = Status(u)
      BY <3>1 DEF Status, Present, After, InHand, Free
    <3>3. QED BY <3>2, DieOrStutter
  <2>5. ASSUME NEW T \in SUBSET Tokens, DeleteSessions(T), Free,
               UNCHANGED <<now, creating, issued, lockPC, lockToken>>
        PROVE  Lifecycle!Next
    <3>1. \A u \in Tokens : \/ Status(u)' = Status(u)
                            \/ Status(u) = "valid" /\ Status(u)' = "dead"
      BY <2>a, <2>b, <2>5, DeleteFacts DEF Status, Present, After, InHand, Free
    <3>2. QED BY <3>1, DieOrStutter
  <2>6. ASSUME NEW t \in Tokens, RevokeSession(t)
        PROVE  Lifecycle!Next
    BY <2>5, <2>6 DEF RevokeSession, lockVars
  <2>7. ASSUME NEW g \in Cleaners, CleanDelete(g)
        PROVE  Lifecycle!Next
    <3>1. {t \in expiredTokens[g] : Present(t)} \in SUBSET Tokens
      BY <2>a DEF TypeOK
    <3>2. QED BY <2>5, <2>7, <3>1 DEF CleanDelete, lockVars
  <2>7a. ASSUME ExtendExpiry \/ RecordAccess
         PROVE  Lifecycle!Next
    <3>1. lockToken \in Tokens /\ Present(lockToken) /\ ~Free
      BY <2>a, <2>7a DEF ExtendExpiry, RecordAccess, LockInv, Free
    <3>2. PICK k \in Tokens : k = lockToken
      BY <3>1
    <3>3. /\ UNCHANGED <<now, creating, issued>>
          /\ \A u \in Tokens \ {k} : sessions'[u] = sessions[u]
          /\ sessions'[k].client = sessions[k].client
      BY <2>a, <2>7a, <3>1, <3>2 DEF ExtendExpiry, RecordAccess, TypeOK, Session
    <3>4. \/ lockPC' # "free" /\ lockToken' = k
          \/ lockPC' = "free"
      BY <2>7a, <3>2 DEF ExtendExpiry, RecordAccess, Take
    <3>5. \A u \in Tokens \ {k} : Status(u)' = Status(u)
      BY <3>2, <3>3, <3>4 DEF Status, Present, After, InHand, Free
    <3>6. \/ Status(k)' = Status(k)
          \/ Status(k) = "valid" /\ Status(k)' = "dead"
      BY <3>1, <3>2, <3>3 DEF Status, Present, InHand, Free
    <3>7. QED BY <3>5, <3>6, DieOrStutter
  <2>8. CASE UNCHANGED <<now, creating, sessions, issued, lockPC, lockToken>>
    BY <2>8 DEF Status, Present, After, InHand, Free
  <2>9. ASSUME NEW g \in Cleaners, CleanTick(g) \/ CleanExit(g) \/ CleanScan(g)
        PROVE  UNCHANGED <<now, creating, sessions, issued, lockPC, lockToken>>
    BY <2>9 DEF CleanTick, CleanExit, CleanScan, lockVars
  <2>10. StopCleanup \/ UNCHANGED vars =>
            UNCHANGED <<now, creating, sessions, issued, lockPC, lockToken>>
    BY DEF StopCleanup, vars, lockVars
  <2>11. QED
    BY <2>1, <2>2, <2>3, <2>4, <2>6, <2>7, <2>7a, <2>8, <2>9, <2>10 DEF Next
<1>3. QED BY <1>1, <1>2, Invariance, PTL DEF Spec, LifecycleSpec, Lifecycle!Spec
=============================================================================

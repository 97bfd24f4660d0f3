-------------------------- MODULE ControllerProofs --------------------------
(***************************************************************************)
(* Proofs about Controller, for any requests, certificates, policies,      *)
(* services and bounds.                                                    *)
(*                                                                         *)
(* That a handshake with a revoked certificate reaches no session needs to *)
(* know where such a handshake is instead: waiting to register a row that  *)
(* is still revoked, because the rows are revoked that Revoke was called   *)
(* for (RevokedRows): no method of the registry takes a row out of that    *)
(* status and a restart keeps the table.                                   *)
(*                                                                         *)
(* The properties about races need an invariant of their own, HandlerInv:  *)
(* what a handler has seen of a store is still so, or its history says     *)
(* that somebody changed it.  A step of one request is beside all others   *)
(* (RequestBeside), an administrator's beside all (AdminBeside), and what  *)
(* is beside a request leaves it founded (BesideKeeps).                    *)
(***************************************************************************)
EXTENDS Controller, WellFoundedInduction, TLAPS

(* A handshake begun with a revoked certificate waits to register it, and  *)
(* the row is revoked still.                                               *)
Waiting(r) ==
    "begun revoked" \in during[r] =>
        /\ pc[r] = "register"
        /\ arg[r].cert \in Certs
        /\ record[arg[r].cert] = "revoked"

BegunRevoked == \A r \in Requests : Waiting(r)

(* The revoked rows are those of the certificates that were revoked, at    *)
(* whatever time before.                                                   *)
RevokedRows == \A c \in Certs : record[c] = "revoked" <=> c \in revoked

Registry == RegistryTypeOK /\ RevokedRows

(* Each request has its place, its arguments and its history.              *)
PerRequest ==
    /\ pc = [r \in Requests |-> pc[r]]
    /\ arg = [r \in Requests |-> arg[r]]
    /\ during = [r \in Requests |-> during[r]]

(* The inductive invariant.                                                *)
IInv == Registry /\ PerRequest /\ BegunRevoked

(* No row leaves the status "revoked".                                     *)
RevokedKept == \A c \in Certs : record[c] = "revoked" => record'[c] = "revoked"

(* Request r has been left alone, but for its history.                     *)
LeftAlone(r) ==
    /\ pc'[r] = pc[r]
    /\ arg'[r] = arg[r]
    /\ "begun revoked" \in during'[r] => "begun revoked" \in during[r]

LEMMA InitIInv == Init => IInv
BY DEF Init, IInv, Registry, RevokedRows, RegistryInit, RegistryTypeOK, PerRequest, BegunRevoked, Waiting

(* What the steps that are not about a request do to it.                   *)
LEMMA AloneWaits ==
    ASSUME NEW r \in Requests, Waiting(r), LeftAlone(r), RevokedKept
    PROVE  Waiting(r)'
BY DEF Waiting, LeftAlone, RevokedKept

(* A finished request has no history, and the others are left alone.       *)
LEMMA FinishStep ==
    ASSUME IInv, NEW r \in Requests, Finish(r), RevokedKept, Registry'
    PROVE  IInv'
<1>1. PerRequest'
  BY DEF IInv, PerRequest, Finish, Goto
<1>2. ASSUME NEW q \in Requests PROVE Waiting(q)'
  <2>1. CASE q = r
    BY <2>1 DEF IInv, PerRequest, Finish, Waiting
  <2>2. CASE q # r
    <3>1. LeftAlone(q)
      BY <2>2 DEF IInv, PerRequest, Finish, Goto, LeftAlone
    <3>2. QED BY <3>1, AloneWaits DEF IInv, BegunRevoked
  <2>3. QED BY <2>1, <2>2
<1>3. QED BY <1>1, <1>2 DEF IInv, BegunRevoked

(* A request that was not waiting to register goes on with a history that  *)
(* says nothing new.                                                       *)
LEMMA MoveStep ==
    ASSUME IInv, NEW r \in Requests, NEW l, Goto(r, l), NEW a,
           arg' = [arg EXCEPT ![r] = a], pc[r] # "register",
           UNCHANGED <<record, revoked, during>>
    PROVE  IInv'
<1>1. PerRequest' /\ Registry'
  BY DEF IInv, PerRequest, Goto, Registry, RevokedRows, RegistryTypeOK
<1>2. ASSUME NEW q \in Requests PROVE Waiting(q)'
  <2>1. CASE q = r
    BY <2>1 DEF IInv, BegunRevoked, Waiting
  <2>2. CASE q # r
    <3>1. LeftAlone(q) /\ RevokedKept
      BY <2>2 DEF IInv, PerRequest, Goto, LeftAlone, RevokedKept
    <3>2. QED BY <3>1, AloneWaits DEF IInv, BegunRevoked
  <2>3. QED BY <2>1, <2>2
<1>3. QED BY <1>1, <1>2 DEF IInv, BegunRevoked

(* A step of somebody else may note anything but the beginning.            *)
LEMMA AsideStep ==
    ASSUME IInv, UNCHANGED <<pc, arg>>, RevokedKept, Registry',
           \/ UNCHANGED during
           \/ \E R, x : x # "begun revoked" /\ Note(R, x)
    PROVE  IInv'
<1>1. PerRequest'
  BY DEF IInv, PerRequest, Note
<1>2. ASSUME NEW q \in Requests PROVE Waiting(q)'
  <2>1. LeftAlone(q)
    BY DEF LeftAlone, Note
  <2>2. QED BY <2>1, AloneWaits DEF IInv, BegunRevoked
<1>3. QED BY <1>1, <1>2 DEF IInv, BegunRevoked

(* handleHandshake: what Validate refuses is about to be registered.       *)
LEMMA HandshakeStep ==
    ASSUME IInv, NEW r \in Requests, NEW c \in Certs, Handshake(r, c)
    PROVE  IInv'
<1>0. UNCHANGED <<record, revoked>>
  BY DEF Handshake, storeVars
<1>1. PerRequest' /\ Registry' /\ RevokedKept
  BY <1>0 DEF IInv, PerRequest, Handshake, Goto, Registry, RevokedRows, RegistryTypeOK, RevokedKept
<1>2. ASSUME NEW q \in Requests PROVE Waiting(q)'
  <2>1. CASE q = r
    <3>1. arg'[r].cert = c
      BY DEF Handshake, IInv, PerRequest, Given
    <3>2. during'[r] = IF c \in revoked THEN {"begun revoked"} ELSE {}
      BY DEF Handshake, IInv, PerRequest
    <3>3. record[c] = "revoked" => pc'[r] = "register"
      BY DEF Handshake, IInv, PerRequest, Goto, Validate
    <3>4. record[c] = "revoked" <=> c \in revoked
      BY DEF IInv, Registry, RevokedRows
    <3>5. QED BY <1>0, <2>1, <3>1, <3>2, <3>3, <3>4 DEF Waiting
  <2>2. CASE q # r
    <3>1. LeftAlone(q)
      BY <2>2 DEF IInv, PerRequest, Handshake, Goto, LeftAlone
    <3>2. QED BY <1>1, <3>1, AloneWaits DEF IInv, BegunRevoked
  <2>3. QED BY <2>1, <2>2
<1>3. QED BY <1>1, <1>2 DEF IInv, BegunRevoked

(* The unique index: a request that gets through found no row, so it was   *)
(* not begun with a revoked one.                                           *)
LEMMA RegisterStep ==
    ASSUME IInv, NEW r \in Requests, HandshakeRegister(r)
    PROVE  IInv'
<1> DEFINE R == {q \in Requests \ {r} : arg[q].cert = arg[r].cert}
<1>0. /\ Insertable(arg[r].cert) /\ record' = [record EXCEPT ![arg[r].cert] = "active"]
      /\ revoked' = revoked
  BY DEF HandshakeRegister, Register
<1>1. Registry' /\ RevokedKept
  BY <1>0 DEF IInv, Registry, RevokedRows, RegistryTypeOK, RevokedKept, Insertable
<1>2. Note(R, "registered") /\ UNCHANGED arg /\ Goto(r, "session")
  BY DEF HandshakeRegister
<1>3. PerRequest'
  BY <1>2 DEF IInv, PerRequest, Goto, Note
<1>4. ASSUME NEW q \in Requests PROVE Waiting(q)'
  <2>1. CASE q = r
    <3>1. during'[r] = during[r]
      BY <1>2 DEF Note
    <3>2. "begun revoked" \notin during[r]
      BY <1>0 DEF IInv, BegunRevoked, Waiting, Insertable
    <3>3. QED BY <2>1, <3>1, <3>2 DEF Waiting
  <2>2. CASE q # r
    <3>1. LeftAlone(q)
      BY <1>2, <2>2 DEF IInv, PerRequest, Goto, Note, LeftAlone
    <3>2. QED BY <1>1, <3>1, AloneWaits DEF IInv, BegunRevoked
  <2>3. QED BY <2>1, <2>2
<1>5. QED BY <1>1, <1>3, <1>4 DEF IInv, BegunRevoked

(* Every step of the controller keeps the invariant.                       *)
LEMMA NextIInv ==
    ASSUME IInv, [Next]_vars
    PROVE  IInv'
<1> DEFINE Same == record' = record /\ revoked' = revoked
<1>0. Same => Registry' /\ RevokedKept
  BY DEF IInv, Registry, RevokedRows, RegistryTypeOK, RevokedKept
<1>1. ASSUME NEW r \in Requests, NEW c \in Certs, Handshake(r, c) PROVE IInv'
  BY <1>1, HandshakeStep
<1>2. ASSUME NEW r \in Requests, HandshakeRegister(r) PROVE IInv'
  BY <1>2, RegisterStep
<1>3. ASSUME NEW r \in Requests, HandshakeRefused(r) PROVE IInv'
  <2>1. Same /\ Finish(r)
    BY <1>3 DEF HandshakeRefused, RegisterFails
  <2>2. QED BY <1>0, <2>1, FinishStep
<1>4. ASSUME NEW r \in Requests, NEW t \in Tokens, HandshakeSession(r, t) PROVE IInv'
  <2>1. Same /\ Finish(r)
    BY <1>4 DEF HandshakeSession
  <2>2. QED BY <1>0, <2>1, FinishStep
<1>5. ASSUME NEW t \in Tokens, SessionEnds(t) PROVE IInv'
  <2>1. Same /\ UNCHANGED <<pc, arg>> /\ Note({r \in Requests : arg[r].token = t}, "session")
    BY <1>5 DEF SessionEnds
  <2>2. QED BY <1>0, <2>1, AsideStep
<1>6. ASSUME NEW r \in Requests, NEW t \in Tokens, NEW s \in Services, TunnelCreate(r, t, s)
      PROVE  IInv'
  <2>1. pc[r] # "register" /\ UNCHANGED <<record, revoked, during>> /\ Goto(r, "service")
    BY <1>6 DEF TunnelCreate, storeVars
  <2>2. PICK a : arg' = [arg EXCEPT ![r] = a]
    BY <1>6 DEF TunnelCreate
  <2>3. QED BY <2>1, <2>2, MoveStep
<1>7. ASSUME NEW r \in Requests, CreateService(r) PROVE IInv'
  <2>1. Same /\ pc[r] # "register"
    BY <1>7 DEF CreateService, storeVars
  <2>2. CASE Finish(r)
    BY <1>0, <2>1, <2>2, FinishStep
  <2>3. CASE ~Finish(r)
    <3>1. Goto(r, "evaluate") /\ UNCHANGED during
      BY <1>7, <2>3 DEF CreateService
    <3>2. PICK a : arg' = [arg EXCEPT ![r] = a]
      BY <1>7, <2>3 DEF CreateService
    <3>3. QED BY <2>1, <3>1, <3>2, MoveStep
  <2>4. QED BY <2>2, <2>3
<1>8. ASSUME NEW r \in Requests, CreateEvaluate(r) PROVE IInv'
  <2>1. Same /\ pc[r] # "register"
    BY <1>8 DEF CreateEvaluate, storeVars
  <2>2. CASE Finish(r)
    BY <1>0, <2>1, <2>2, FinishStep
  <2>3. CASE ~Finish(r)
    <3>1. Goto(r, "create") /\ UNCHANGED <<arg, during>>
      BY <1>8, <2>3 DEF CreateEvaluate
    <3>2. arg' = [arg EXCEPT ![r] = arg[r]]
      BY <3>1 DEF IInv, PerRequest
    <3>3. QED BY <2>1, <3>1, <3>2, MoveStep
  <2>4. QED BY <2>2, <2>3
<1>9. ASSUME NEW r \in Requests, CreateTarget(r) PROVE IInv'
  <2>1. Same /\ pc[r] # "register"
    BY <1>9 DEF CreateTarget, storeVars
  <2>2. CASE Finish(r)
    BY <1>0, <2>1, <2>2, FinishStep
  <2>3. CASE ~Finish(r)
    <3>1. Goto(r, "store") /\ UNCHANGED during
      BY <1>9, <2>3 DEF CreateTarget
    <3>2. PICK a : arg' = [arg EXCEPT ![r] = a]
      BY <1>9, <2>3 DEF CreateTarget
    <3>3. QED BY <2>1, <3>1, <3>2, MoveStep
  <2>4. QED BY <2>2, <2>3
<1>10. ASSUME NEW r \in Requests, CreateStore(r) PROVE IInv'
  <2>1. Same /\ Finish(r)
    BY <1>10 DEF CreateStore
  <2>2. QED BY <1>0, <2>1, FinishStep
<1>11. ASSUME NEW r \in Requests, NEW t \in Tokens, TunnelDelete(r, t) PROVE IInv'
  <2>1. /\ pc[r] # "register" /\ Goto(r, "delete")
        /\ UNCHANGED <<record, revoked, during>> /\ UNCHANGED arg
    BY <1>11 DEF TunnelDelete, storeVars
  <2>2. arg' = [arg EXCEPT ![r] = arg[r]]
    BY <2>1 DEF IInv, PerRequest
  <2>3. QED BY <2>1, <2>2, MoveStep
<1>12. ASSUME NEW r \in Requests, NEW i \in 0 .. MaxTime, DeleteTunnel(r, i) PROVE IInv'
  <2>1. Same /\ Finish(r)
    BY <1>12 DEF DeleteTunnel
  <2>2. QED BY <1>0, <2>1, FinishStep
<1>13. ASSUME NEW c \in Certs, RevokeCert(c) PROVE IInv'
  <2>1. UNCHANGED <<pc, arg>> /\ UNCHANGED during /\ Revoke(c) /\ revoked' = revoked \cup {c}
    BY <1>13 DEF RevokeCert
  <2>2. Registry' /\ RevokedKept
    BY <2>1 DEF IInv, Registry, RevokedRows, RegistryTypeOK, RevokedKept, Revoke
  <2>3. QED BY <2>1, <2>2, AsideStep
<1>14. ASSUME CleanCerts PROVE IInv'
  <2>1. UNCHANGED <<pc, arg>> /\ UNCHANGED during /\ CleanExpired /\ revoked' = revoked
    BY <1>14 DEF CleanCerts
  <2>2. Registry' /\ RevokedKept
    BY <2>1 DEF IInv, Registry, RevokedRows, RegistryTypeOK, RevokedKept, CleanExpired
  <2>3. QED BY <2>1, <2>2, AsideStep
<1>15. ASSUME NEW p \in DOMAIN Policies, ChangePolicy(p) PROVE IInv'
  <2>1. Same /\ UNCHANGED <<pc, arg>> /\ Note(Creating, "policy")
    BY <1>15 DEF ChangePolicy
  <2>2. QED BY <1>0, <2>1, AsideStep
<1>16. ASSUME NEW s \in Services, NEW g \in Targets \cup {None}, SetService(s, g) PROVE IInv'
  <2>1. Same /\ UNCHANGED <<pc, arg>> /\ Note({r \in Requests : arg[r].service = s}, "service")
    BY <1>16 DEF SetService
  <2>2. QED BY <1>0, <2>1, AsideStep
<1>17. ASSUME NEW s \in Services, NEW g \in Targets, UpdateLoad(s, g) PROVE IInv'
  <2>1. Same /\ UNCHANGED <<pc, arg>> /\ UNCHANGED during
    BY <1>17 DEF UpdateLoad
  <2>2. QED BY <1>0, <2>1, AsideStep
<1>18. ASSUME UpdateStore PROVE IInv'
  <2>1. /\ Same /\ UNCHANGED <<pc, arg>>
        /\ Note({r \in Requests : arg[r].service = updating.service}, "service")
    BY <1>18 DEF UpdateStore
  <2>2. QED BY <1>0, <2>1, AsideStep
<1>19. ASSUME Restart PROVE IInv'
  <2>1. Same /\ PerRequest' /\ during' = [r \in Requests |-> {}]
    BY <1>19 DEF Restart, PerRequest
  <2>2. BegunRevoked'
    BY <2>1 DEF BegunRevoked, Waiting
  <2>3. QED BY <1>0, <2>1, <2>2 DEF IInv
<1>20. ASSUME Tick PROVE IInv'
  <2>1. Same /\ UNCHANGED <<pc, arg>> /\ Note(Creating, "time")
    BY <1>20 DEF Tick, storeVars
  <2>2. QED BY <1>0, <2>1, AsideStep
<1>21. ASSUME UNCHANGED vars PROVE IInv'
  <2>1. Same /\ UNCHANGED <<pc, arg>> /\ UNCHANGED during
    BY <1>21 DEF vars
  <2>2. QED BY <1>0, <2>1, AsideStep
<1>22. ASSUME NEW r \in Requests, HandshakeSessionFails(r) PROVE IInv'
  <2>1. Same /\ Finish(r)
    BY <1>22 DEF HandshakeSessionFails, storeVars
  <2>2. QED BY <1>0, <2>1, FinishStep
<1>23. QED
  BY <1>1, <1>2, <1>3, <1>4, <1>5, <1>6, <1>7, <1>8, <1>9, <1>10, <1>11, <1>12, <1>13,
     <1>14, <1>15, <1>16, <1>17, <1>18, <1>19, <1>20, <1>21, <1>22 DEF Next

(* handleHandshake creates no session for a certificate that Revoke was    *)
(* called for at any time before the handshake began, whatever cleanups,   *)
(* registrations and restarts came in between, though it registers         *)
(* whatever Validate refuses.                                              *)
THEOREM RevokedStaysOut == Spec => []RevokedCertGetsNoSession
<1>1. IInv => RevokedCertGetsNoSession
  BY DEF IInv, BegunRevoked, Waiting, RevokedCertGetsNoSession
<1>2. QED BY <1>1, InitIInv, NextIInv, PTL DEF Spec

-----------------------------------------------------------------------------
(* The policy engine.                                                      *)

(* The first of some rows, conditions or bounds is one of them, and first. *)
LEMMA FirstIn ==
    ASSUME NEW S, S \subseteq Nat, S # {}
    PROVE  First(S) \in S /\ \A j \in S : First(S) <= j
<1> DEFINE R == {ss \in Nat \X Nat : ss[1] < ss[2]}
<1>1. IsWellFoundedOn(R, Nat)
  BY NatLessThanWellFounded DEF OpToRel
<1>2. \E i \in S : \A j \in S : <<j, i>> \notin R
  <2> HIDE DEF R
  <2>1. QED BY <1>1, WFMin
<1>3. PICK i \in S : \A j \in S : <<j, i>> \notin R
  BY <1>2
<1>4. ASSUME NEW j \in S PROVE i <= j
  <2>1. i \in Nat /\ j \in Nat /\ <<j, i>> \notin R
    BY <1>3
  <2>2. ~(j < i)
    BY <2>1
  <2>3. QED BY <2>1, <2>2
<1>5. QED BY <1>4 DEF First

(* Each kind of condition is answered with "yes" iff it holds by the       *)
(* reference, ...                                                          *)
LEMMA DeviceOSFacts ==
    ASSUME NEW c, NEW req, NEW t, c.type = "device_os"
    PROVE  DeviceOS(c, req) # "panic" /\ (DeviceOS(c, req) = "yes" <=> Holds(c, req, t))
<1> DEFINE none == req.device = None
           text == c.value.k = "string"
           list == c.value.k = "list"
           same == Lower[req.device.os] = Lower[c.value.v]
           among == \E i \in DOMAIN c.value.v :
                       c.value.v[i].k = "string" /\ EqualFold(req.device.os, c.value.v[i].v)
<1>1. DeviceOS(c, req) =
         IF none THEN "no"
         ELSE CASE c.op = "eq" /\ text -> Answer(same)
                [] c.op = "ne" /\ text -> Answer(~same)
                [] c.op = "in" /\ list -> Answer(among)
                [] OTHER -> "error"
  BY Zenon DEF DeviceOS, EqualFold
<1>2. among <=> \E i \in DOMAIN c.value.v : SameOS(c.value.v[i], req)
  BY Zenon DEF EqualFold, SameOS
<1>3. SameOS(c.value, req) <=> text /\ same
  BY Zenon DEF SameOS
<1> HIDE DEF among
<1>4. Holds(c, req, t) <=>
         /\ ~none
         /\ \/ c.op = "eq" /\ text /\ same
            \/ c.op = "ne" /\ text /\ ~same
            \/ c.op = "in" /\ list /\ among
  BY Zenon, <1>2, <1>3 DEF Holds
<1>5. /\ Answer(same) = IF same THEN "yes" ELSE "no"
      /\ Answer(~same) = IF same THEN "no" ELSE "yes"
      /\ Answer(among) = IF among THEN "yes" ELSE "no"
  BY DEF Answer
<1> HIDE DEF none, text, list, same
<1>6. QED BY <1>1, <1>4, <1>5

LEMMA GeoLocationFacts ==
    ASSUME NEW c, NEW req, NEW t, c.type = "geo_location"
    PROVE  GeoLocation(c, req) # "panic" /\ (GeoLocation(c, req) = "yes" <=> Holds(c, req, t))
<1> DEFINE some == c.value.v # <<>>
<1>1. GeoLocation(c, req) =
         IF ~req.ip THEN "no"
         ELSE IF c.op = "in" /\ c.value.k = "list" THEN Answer(some) ELSE "error"
  BY Zenon DEF GeoLocation
<1>2. Holds(c, req, t) <=> req.ip /\ c.op = "in" /\ c.value.k = "list" /\ some
  BY Zenon DEF Holds
<1>3. Answer(some) = IF some THEN "yes" ELSE "no"
  BY DEF Answer
<1> HIDE DEF some
<1>4. QED BY <1>1, <1>2, <1>3

LEMMA DeviceComplianceFacts ==
    ASSUME NEW c, NEW req, NEW t, c.type = "device_compliance"
    PROVE  /\ DeviceCompliance(c, req) # "panic"
           /\ DeviceCompliance(c, req) = "yes" <=> Holds(c, req, t)
<1> DEFINE none == req.device = None
           same == req.device.compliance = c.value.v
<1>1. DeviceCompliance(c, req) =
         IF none THEN "no"
         ELSE IF c.op = "eq" /\ c.value.k = "bool" THEN Answer(same) ELSE "error"
  BY Zenon DEF DeviceCompliance
<1>2. Holds(c, req, t) <=> ~none /\ c.op = "eq" /\ c.value.k = "bool" /\ same
  BY Zenon DEF Holds
<1>3. Answer(same) = IF same THEN "yes" ELSE "no"
  BY DEF Answer
<1> HIDE DEF none, same
<1>4. QED BY <1>1, <1>2, <1>3

(* ... and only a null among the bounds of a time range is a panic.        *)
LEMMA TimeRangeFacts ==
    ASSUME NEW c, NEW req, NEW t, c.type = "time_range"
    PROVE  /\ TimeRange(c, t) = "yes" <=> Holds(c, req, t)
           /\ TimeRange(c, t) = "panic" => NullBound(c)
<1> DEFINE bound == c.value.v
           unread == {i \in 1 .. 2 : bound[i].k # "time"}
           within == bound[1].v < t /\ t < bound[2].v
           shaped == c.op = "between" /\ c.value.k = "list" /\ Len(bound) = 2
<1>1. TimeRange(c, t) =
         IF ~shaped THEN "error"
         ELSE IF unread = {} THEN Answer(within)
              ELSE IF bound[First(unread)].k = "null" THEN "panic" ELSE "error"
  BY DEF TimeRange
<1>2. unread # {} => /\ First(unread) = 1 \/ First(unread) = 2
                     /\ First(unread) = 2 => bound[1].k = "time"
  <2>1. unread \subseteq Nat /\ unread \subseteq {1, 2}
    OBVIOUS
  <2>2. unread # {} => First(unread) \in unread /\ \A j \in unread : First(unread) <= j
    BY <2>1, FirstIn
  <2>3. 1 \notin unread => bound[1].k = "time"
    OBVIOUS
  <2> HIDE DEF unread
  <2>4. First(unread) = 2 /\ unread # {} => 1 \notin unread
    BY <2>2
  <2>5. QED BY <2>1, <2>2, <2>3, <2>4
<1>3. Holds(c, req, t) <=> shaped /\ unread = {} /\ within
  BY DEF Holds
<1>4. shaped /\ (bound[1].k = "null" \/ (bound[1].k = "time" /\ bound[2].k = "null")) =>
         NullBound(c)
  BY DEF NullBound
<1>5. /\ Answer(within) = "yes" <=> within
      /\ Answer(within) # "panic"
  BY DEF Answer
<1> HIDE DEF bound, unread, within, shaped
<1>6. QED BY <1>1, <1>2, <1>3, <1>4, <1>5

LEMMA ConditionFacts ==
    ASSUME NEW c, NEW req, NEW t
    PROVE  /\ EvaluateCondition(c, req, t) = "yes" <=> Holds(c, req, t)
           /\ EvaluateCondition(c, req, t) = "panic" => NullBound(c)
<1>1. CASE c.type = "device_os"
  BY <1>1, DeviceOSFacts DEF EvaluateCondition
<1>2. CASE c.type = "geo_location"
  BY <1>2, GeoLocationFacts DEF EvaluateCondition
<1>3. CASE c.type = "time_range"
  BY <1>3, TimeRangeFacts DEF EvaluateCondition
<1>4. CASE c.type = "device_compliance"
  BY <1>4, DeviceComplianceFacts DEF EvaluateCondition
<1>5. CASE c.type \notin {"device_os", "geo_location", "time_range", "device_compliance"}
  BY <1>5 DEF EvaluateCondition, Holds
<1>6. QED BY <1>1, <1>2, <1>3, <1>4, <1>5

(* Evaluate grants iff nothing stands against it: the condition the loop   *)
(* stops at is not a "yes".                                                *)
LEMMA EvaluateFacts ==
    ASSUME NEW p \in DOMAIN Policies, NEW req, NEW t
    PROVE  /\ Evaluate(Policies[p], req, t) = "yes" <=>
                 /\ ~(Policies[p].expiry # 0 /\ t > Policies[p].expiry)
                 /\ \A j \in DOMAIN Policies[p].conditions :
                       Holds(Policies[p].conditions[j], req, t)
           /\ Evaluate(Policies[p], req, t) = "panic" =>
                 \E j \in DOMAIN Policies[p].conditions : NullBound(Policies[p].conditions[j])
<1> DEFINE Result(i) == EvaluateCondition(Policies[p].conditions[i], req, t)
           stops == {i \in DOMAIN Policies[p].conditions : Result(i) # "yes"}
<1>1. Evaluate(Policies[p], req, t) =
         IF Policies[p].expiry # 0 /\ t > Policies[p].expiry THEN "no"
         ELSE IF stops = {} THEN "yes" ELSE Result(First(stops))
  BY DEF Evaluate
<1>2. stops \subseteq Nat
  BY PolicyAssumption
<1>3. stops # {} => Result(First(stops)) # "yes" /\ First(stops) \in DOMAIN Policies[p].conditions
  BY <1>2, FirstIn
<1>4. \A j : /\ Result(j) = "yes" <=> Holds(Policies[p].conditions[j], req, t)
             /\ Result(j) = "panic" => NullBound(Policies[p].conditions[j])
  BY ConditionFacts
<1> HIDE DEF Result
<1>5. stops = {} <=> \A j \in DOMAIN Policies[p].conditions : Result(j) = "yes"
  OBVIOUS
<1> HIDE DEF stops
<1>6. Evaluate(Policies[p], req, t) = "yes" <=>
         /\ ~(Policies[p].expiry # 0 /\ t > Policies[p].expiry)
         /\ \A j \in DOMAIN Policies[p].conditions : Holds(Policies[p].conditions[j], req, t)
  BY <1>1, <1>3, <1>4, <1>5
<1>7. ASSUME Evaluate(Policies[p], req, t) = "panic"
      PROVE  \E j \in DOMAIN Policies[p].conditions : NullBound(Policies[p].conditions[j])
  <2>1. stops # {} /\ Result(First(stops)) = "panic"
    BY <1>1, <1>7
  <2>2. QED BY <1>3, <1>4, <2>1
<1>8. QED BY <1>6, <1>7

(* EvaluateAccess decides as the set of policies does, for the clients     *)
(* that are meant, unless it panics at a null.                             *)
LEMMA Decision ==
    ASSUME policies \in Seq(DOMAIN Policies), now \in Nat, NEW req
    PROVE  /\ EvaluateAccess(req, now) = "yes" =>
                 \E c \in Meant(req) : Granted(c, req, now)
           /\ (\E c \in Meant(req) : Granted(c, req, now)) =>
                 \/ EvaluateAccess(req, now) = "yes"
                 \/ \E c \in Meant(req) : Unreadable(c, req)
<1> DEFINE found == GetPoliciesForClient(req.client)
           deciding == Deciding(found, req, now)
           Row(i) == Policies[policies[i]]
           All(i) == \A j \in DOMAIN Row(i).conditions : Holds(Row(i).conditions[j], req, now)
           Null(i) == \E j \in DOMAIN Row(i).conditions : NullBound(Row(i).conditions[j])
           Result(i) == Evaluate(Row(i), req, now)
<1>1. \A i \in DOMAIN policies : policies[i] \in DOMAIN Policies
  OBVIOUS
<1>2. \A i \in DOMAIN policies : Row(i).client \in Meant(req) <=>
                                   (req.client = NoClient \/ Row(i).client = req.client)
  BY <1>1 DEF Meant
<1>3. ASSUME NEW i \in DOMAIN policies
      PROVE  /\ i \in found <=> Row(i).client \in Meant(req) /\ ~Ended(Row(i))
             /\ i \in found => (Result(i) = "yes" <=> All(i))
             /\ Result(i) = "panic" => Null(i)
  <2>1. Row(i).expiry \in Nat
    BY <1>1, PolicyAssumption
  <2>2. (Row(i).expiry > now \/ Row(i).expiry = 0) <=> ~Ended(Row(i))
    BY <2>1 DEF Ended
  <2>3. i \in found <=> Row(i).client \in Meant(req) /\ ~Ended(Row(i))
    BY <1>2, <2>2 DEF GetPoliciesForClient
  <2>4. ~Ended(Row(i)) => ~(Row(i).expiry # 0 /\ now > Row(i).expiry)
    BY <2>1 DEF Ended
  <2>5. /\ Result(i) = "yes" <=> ~(Row(i).expiry # 0 /\ now > Row(i).expiry) /\ All(i)
        /\ Result(i) = "panic" => Null(i)
    BY <1>1, EvaluateFacts
  <2>6. QED BY <2>3, <2>4, <2>5
<1>4. /\ found \subseteq DOMAIN policies /\ DOMAIN policies \subseteq Nat
      /\ \A i : i \in deciding <=>
            i \in found /\ Row(i).service = req.service /\ Result(i) \in {"yes", "panic"}
  BY DEF Deciding, GetPoliciesForClient
<1>5. EvaluateAccess(req, now) = IF deciding = {} THEN "no" ELSE Result(First(deciding))
  BY DEF EvaluateAccess
<1>6. \A c : Granted(c, req, now) <=>
         \E i \in DOMAIN policies : /\ Row(i).client = c /\ Row(i).service = req.service
                                     /\ ~Ended(Row(i)) /\ All(i)
  BY DEF Granted
<1>7. \A c : Unreadable(c, req) <=>
         \E i \in DOMAIN policies : /\ Row(i).client = c /\ Row(i).service = req.service
                                     /\ Null(i)
  BY DEF Unreadable
<1> HIDE DEF found, deciding, Row, All, Null, Result
<1>8. deciding # {} => First(deciding) \in deciding
  <2>1. deciding \subseteq Nat
    BY <1>4
  <2>2. QED BY <2>1, FirstIn
<1>9. ASSUME EvaluateAccess(req, now) = "yes"
      PROVE  \E c \in Meant(req) : Granted(c, req, now)
  <2>1. First(deciding) \in deciding /\ Result(First(deciding)) = "yes"
    BY <1>5, <1>8, <1>9
  <2>2. PICK i \in deciding : Result(i) = "yes"
    BY <2>1
  <2>3. i \in DOMAIN policies /\ i \in found /\ Row(i).service = req.service
    BY <1>4
  <2>4. Row(i).client \in Meant(req) /\ Granted(Row(i).client, req, now)
    BY <1>3, <1>6, <2>2, <2>3
  <2>5. QED BY <2>4
<1>10. ASSUME NEW c \in Meant(req), Granted(c, req, now), EvaluateAccess(req, now) # "yes"
       PROVE  \E d \in Meant(req) : Unreadable(d, req)
  <2>1. PICK i \in DOMAIN policies : /\ Row(i).client = c /\ Row(i).service = req.service
                                      /\ ~Ended(Row(i)) /\ All(i)
    BY <1>6, <1>10
  <2>2. i \in deciding
    BY <1>3, <1>4, <2>1
  <2>3. First(deciding) \in deciding /\ Result(First(deciding)) = "panic"
    BY <1>4, <1>5, <1>8, <1>10, <2>2
  <2>4. PICK k \in deciding : Result(k) = "panic"
    BY <2>3
  <2>5. k \in DOMAIN policies /\ Row(k).client \in Meant(req) /\ Row(k).service = req.service
    BY <1>3, <1>4
  <2>6. Null(k)
    BY <1>3, <2>4, <2>5
  <2>7. QED BY <1>7, <2>5, <2>6
<1>11. QED BY <1>9, <1>10

-----------------------------------------------------------------------------
(* What the handlers know of the stores.                                   *)

(* A handshake that is about to register has a certificate without a row,  *)
(* a revoked one or one past its end, or was overtaken.                    *)
Refusable(r) ==
    pc[r] = "register" =>
        \/ record[arg[r].cert] \in {"none", "revoked"} \/ NotAfter[arg[r].cert] < now
        \/ "registered" \in during[r]

Justified(r) == Granted(holder[arg[r].token], AccessRequest(arg[r]), now)

(* What handleTunnelCreate has looked at is still so, or changed while it  *)
(* ran.                                                                    *)
Founded(r) ==
    /\ pc[r] \in {"register", "session"} => arg[r].cert \in Certs
    /\ pc[r] \in {"service", "evaluate", "create", "store"} =>
          /\ arg[r].token \in Tokens /\ arg[r].service \in Services
          /\ session[arg[r].token] # "unborn"
          /\ session[arg[r].token] = "valid" \/ "session" \in during[r]
    /\ pc[r] \in {"evaluate", "create", "store"} =>
          arg[r].stamp = now \/ "time" \in during[r]
    /\ pc[r] \in {"create", "store"} =>
          Justified(r) \/ "policy" \in during[r] \/ "time" \in during[r]
    /\ pc[r] = "store" =>
          /\ arg[r].target # None
          /\ services[arg[r].service] = arg[r].target \/ "service" \in during[r]

(* The second inductive invariant.                                         *)
HandlerInv == TypeOK /\ \A r \in Requests : Refusable(r) /\ Founded(r)

Args == [cert : Certs \cup {None}, token : Tokens \cup {None},
         service : Services \cup {None}, stamp : 0 .. MaxTime, target : Targets \cup {None}]

LEMMA GivenArgs ==
    ASSUME NEW c \in Certs \cup {None}, NEW t \in Tokens \cup {None}, NEW s \in Services \cup {None}
    PROVE  Given(c, t, s) \in Args
BY MaxTimeAssumption DEF Given, Args

(* The table of policies after each of its changes.                        *)
LEMMA SaveFacts ==
    ASSUME NEW p \in DOMAIN Policies, PolicyTypeOK, SavePolicy(p)
    PROVE  PolicyTypeOK'
<1>1. /\ policies \in Seq(DOMAIN Policies) /\ Distinct(policies)
      /\ \A i \in DOMAIN policies : policies[i] # p
      /\ policies' = Append(policies, p)
  BY DEF PolicyTypeOK, SavePolicy
<1>2. /\ policies' \in Seq(DOMAIN Policies) /\ DOMAIN policies = 1 .. Len(policies)
      /\ Len(policies) \in Nat /\ DOMAIN policies' = 1 .. Len(policies) + 1
      /\ policies'[Len(policies) + 1] = p
      /\ \A i \in 1 .. Len(policies) : policies'[i] = policies[i]
  BY <1>1
<1>3. Distinct(policies')
  BY <1>1, <1>2 DEF Distinct
<1>4. QED BY <1>2, <1>3 DEF PolicyTypeOK

LEMMA DeleteFacts ==
    ASSUME NEW p \in DOMAIN Policies, PolicyTypeOK, DeletePolicy(p)
    PROVE  PolicyTypeOK'
<1>1. PICK i \in DOMAIN policies : policies' = Without(policies, i)
  BY DEF DeletePolicy
<1>2. policies \in Seq(DOMAIN Policies) /\ Distinct(policies)
  BY DEF PolicyTypeOK
<1> DEFINE n == Len(policies)
<1>3. n \in Nat /\ DOMAIN policies = 1 .. n /\ i \in 1 .. n
  BY <1>1, <1>2
<1> DEFINE before == SubSeq(policies, 1, i - 1)
           after == SubSeq(policies, i + 1, n)
<1>4. /\ before \in Seq(DOMAIN Policies) /\ Len(before) = i - 1
      /\ \A j \in 1 .. i - 1 : before[j] = policies[j]
  BY <1>2, <1>3
<1>5. /\ after \in Seq(DOMAIN Policies) /\ Len(after) = n - i
      /\ \A j \in 1 .. n - i : after[j] = policies[i + j]
  BY <1>2, <1>3
<1>6. /\ policies' \in Seq(DOMAIN Policies)
      /\ DOMAIN policies' = 1 .. n - 1
      /\ \A j \in 1 .. n - 1 : policies'[j] = IF j < i THEN policies[j] ELSE policies[j + 1]
  <2>1. policies' = before \o after
    BY <1>1 DEF Without
  <2> HIDE DEF before, after, n
  <2>2. /\ policies' \in Seq(DOMAIN Policies) /\ Len(policies') = Len(before) + Len(after)
        /\ \A j \in 1 .. Len(policies') :
              policies'[j] = IF j <= Len(before) THEN before[j] ELSE after[j - Len(before)]
    BY <1>4, <1>5, <2>1
  <2>3. Len(policies') = n - 1 /\ DOMAIN policies' = 1 .. n - 1
    BY <1>3, <1>4, <1>5, <2>2
  <2>4. ASSUME NEW j \in 1 .. n - 1
        PROVE  policies'[j] = IF j < i THEN policies[j] ELSE policies[j + 1]
    <3>1. CASE j < i
      <4>1. j \in 1 .. i - 1 /\ j <= Len(before) /\ j \in 1 .. Len(policies')
        BY <1>3, <1>4, <2>3, <3>1
      <4>2. QED BY <1>4, <2>2, <3>1, <4>1
    <3>2. CASE ~(j < i)
      <4>1. /\ ~(j <= Len(before)) /\ j \in 1 .. Len(policies')
            /\ j - Len(before) \in 1 .. n - i /\ i + (j - Len(before)) = j + 1
        BY <1>3, <1>4, <2>3, <3>2
      <4>2. policies'[j] = after[j - Len(before)]
        BY <2>2, <4>1
      <4>3. after[j - Len(before)] = policies[i + (j - Len(before))]
        BY <1>5, <4>1
      <4>4. QED BY <3>2, <4>1, <4>2, <4>3
    <3>3. QED BY <3>1, <3>2
  <2>5. QED BY <2>2, <2>3, <2>4
<1>7. Distinct(policies')
  BY <1>2, <1>3, <1>6 DEF Distinct
<1>8. QED BY <1>6, <1>7 DEF PolicyTypeOK

(* Types.  A request that is finished or moves on ...                      *)
ReqTypeOK ==
    /\ pc \in [Requests -> {"idle", "register", "session", "service", "evaluate",
                            "create", "store", "delete"}]
    /\ arg \in [Requests -> Args]
    /\ during \in [Requests -> SUBSET {"begun revoked", "registered", "session",
                                       "policy", "service", "time"}]

(* ... and the stores.                                                     *)
StoreTypeOK ==
    /\ now \in 0 .. MaxTime /\ RegistryTypeOK /\ PolicyTypeOK
    /\ session \in [Tokens -> {"unborn", "valid", "dead"}]
    /\ holder \in [Tokens -> Clients \cup {None}]
    /\ services \in [Services -> Targets \cup {None}]
    /\ updating \in [service : Services, target : Targets] \cup {None}
    /\ tunnels \in [0 .. MaxTime -> {None} \cup
                       [token : Tokens, client : Clients \cup {None},
                        service : Services, target : Targets]]
    /\ admin \in 0 .. MaxAdmin
    /\ revoked \subseteq Certs

LEMMA TypeParts == TypeOK <=> ReqTypeOK /\ StoreTypeOK
BY DEF TypeOK, ReqTypeOK, StoreTypeOK, Args

LEMMA TypeNext == ReqTypeOK' /\ StoreTypeOK' => TypeOK'
BY DEF TypeOK, ReqTypeOK, StoreTypeOK, Args

LEMMA InitType == Init => TypeOK
<1> SUFFICES ASSUME Init PROVE TypeOK
  OBVIOUS
<1>1. ReqTypeOK
  BY GivenArgs DEF Init, ReqTypeOK, Idle
<1>2. now \in 0 .. MaxTime /\ RegistryTypeOK /\ PolicyTypeOK /\ admin \in 0 .. MaxAdmin
  BY MaxTimeAssumption, ControllerAssumption
     DEF Init, ClockInit, RegistryInit, RegistryTypeOK, PolicyTypeOK
<1>3. StoreTypeOK
  BY <1>2 DEF Init, StoreTypeOK, Sessions!Init
<1>4. QED BY <1>1, <1>3, TypeParts

LEMMA FinishType ==
    ASSUME ReqTypeOK, NEW r \in Requests, Finish(r)
    PROVE  ReqTypeOK'
BY GivenArgs DEF ReqTypeOK, Finish, Goto, Idle

LEMMA NoteType ==
    ASSUME ReqTypeOK, NEW R, NEW x \in {"registered", "session", "policy", "service", "time"},
           Note(R, x), UNCHANGED arg, UNCHANGED pc \/ \E r \in Requests : Goto(r, "session")
    PROVE  ReqTypeOK'
BY DEF ReqTypeOK, Note, Goto

LEMMA MoveType ==
    ASSUME ReqTypeOK, NEW r \in Requests,
           NEW l \in {"register", "session", "service", "evaluate", "create", "store", "delete"},
           Goto(r, l), NEW a \in Args, arg' = [arg EXCEPT ![r] = a],
           during' \in {during, [during EXCEPT ![r] = {"begun revoked"}], [during EXCEPT ![r] = {}]}
    PROVE  ReqTypeOK'
BY ZenonT(40) DEF ReqTypeOK, Goto

(* What a handler takes down.                                              *)
LEMMA ArgFacts ==
    ASSUME NEW a \in Args, NEW i \in 0 .. MaxTime, NEW g \in Targets
    PROVE  /\ [a EXCEPT !.stamp = i] \in Args
           /\ [a EXCEPT !.stamp = i].stamp = i
           /\ [a EXCEPT !.stamp = i].token = a.token
           /\ [a EXCEPT !.stamp = i].service = a.service
           /\ [a EXCEPT !.target = g] \in Args
           /\ [a EXCEPT !.target = g].target = g
           /\ [a EXCEPT !.target = g].stamp = a.stamp
           /\ [a EXCEPT !.target = g].token = a.token
           /\ [a EXCEPT !.target = g].service = a.service
BY DEF Args

(* Steps of the requests.                                                  *)
LEMMA RequestTypes ==
    ASSUME HandlerInv, NEW r \in Requests
    PROVE  /\ \A c \in Certs : Handshake(r, c) => TypeOK'
           /\ HandshakeRegister(r) => TypeOK'
           /\ HandshakeRefused(r) => TypeOK'
           /\ \A t \in Tokens : HandshakeSession(r, t) => TypeOK'
           /\ HandshakeSessionFails(r) => TypeOK'
           /\ \A t \in Tokens, s \in Services : TunnelCreate(r, t, s) => TypeOK'
           /\ CreateService(r) => TypeOK'
           /\ CreateEvaluate(r) => TypeOK'
           /\ CreateTarget(r) => TypeOK'
           /\ CreateStore(r) => TypeOK'
           /\ \A t \in Tokens : TunnelDelete(r, t) => TypeOK'
           /\ \A i \in 0 .. MaxTime : DeleteTunnel(r, i) => TypeOK'
<1>a. ReqTypeOK /\ StoreTypeOK /\ Founded(r)
  BY TypeParts DEF HandlerInv
<1>b. arg[r] \in Args /\ arg = [arg EXCEPT ![r] = arg[r]]
  BY <1>a DEF ReqTypeOK
<1>c. UNCHANGED <<now, storeVars, admin>> => StoreTypeOK'
  BY <1>a DEF StoreTypeOK, storeVars, RegistryTypeOK, PolicyTypeOK
<1>1. ASSUME NEW c \in Certs, Handshake(r, c) PROVE TypeOK'
  <2>1. ReqTypeOK'
    <3>1. Given(c, None, None) \in Args
      BY GivenArgs
    <3>2. QED BY <1>a, <1>1, <3>1, MoveType DEF Handshake
  <2>2. StoreTypeOK'
    BY <1>c, <1>1 DEF Handshake
  <2>3. QED BY <2>1, <2>2, TypeNext
<1>2. ASSUME HandshakeRegister(r) PROVE TypeOK'
  <2>1. ReqTypeOK'
    BY <1>a, <1>2, NoteType DEF HandshakeRegister
  <2>2. RegistryTypeOK'
    BY <1>a, <1>2 DEF HandshakeRegister, Register, StoreTypeOK, RegistryTypeOK
  <2>3. StoreTypeOK'
    BY <1>a, <1>2, <2>2 DEF HandshakeRegister, StoreTypeOK, PolicyTypeOK
  <2>4. QED BY <2>1, <2>3, TypeNext
<1>3. ASSUME HandshakeRefused(r) PROVE TypeOK'
  <2>1. ReqTypeOK' /\ StoreTypeOK'
    BY <1>a, <1>c, <1>3, FinishType DEF HandshakeRefused, RegisterFails, storeVars
  <2>2. QED BY <2>1, TypeNext
<1>4. ASSUME NEW t \in Tokens, HandshakeSession(r, t) PROVE TypeOK'
  <2>1. ReqTypeOK'
    BY <1>a, <1>4, FinishType DEF HandshakeSession
  <2>2. ClientOf[arg[r].cert] \in Clients
    BY <1>a, <1>4 DEF HandshakeSession, Sessionless, Founded, Clients
  <2>3. holder' \in [Tokens -> Clients \cup {None}]
    BY <1>a, <1>4, <2>2 DEF HandshakeSession, StoreTypeOK
  <2>4. session' \in [Tokens -> {"unborn", "valid", "dead"}]
    BY <1>a, <1>4 DEF HandshakeSession, StoreTypeOK, Sessions!Issue
  <2>5. StoreTypeOK'
    BY <1>a, <1>4, <2>3, <2>4 DEF HandshakeSession, StoreTypeOK, RegistryTypeOK, PolicyTypeOK
  <2>6. QED BY <2>1, <2>5, TypeNext
<1>5. ASSUME NEW t \in Tokens, NEW s \in Services, TunnelCreate(r, t, s) PROVE TypeOK'
  <2>1. ReqTypeOK'
    <3>1. Given(None, t, s) \in Args
      BY GivenArgs
    <3>2. QED BY <1>a, <1>5, <3>1, MoveType DEF TunnelCreate
  <2>2. StoreTypeOK'
    BY <1>c, <1>5 DEF TunnelCreate
  <2>3. QED BY <2>1, <2>2, TypeNext
<1>6. ASSUME CreateService(r) PROVE TypeOK'
  <2>1. StoreTypeOK'
    BY <1>c, <1>6 DEF CreateService
  <2>2. ReqTypeOK'
    <3>1. CASE Finish(r)
      BY <1>a, <3>1, FinishType
    <3>2. CASE ~Finish(r)
      <4>1. now \in 0 .. MaxTime
        BY <1>a DEF StoreTypeOK
      <4>2. [arg[r] EXCEPT !.stamp = now] \in Args
        BY <1>b, <4>1 DEF Args
      <4>3. QED BY <1>a, <1>6, <3>2, <4>2, MoveType DEF CreateService
    <3>3. QED BY <3>1, <3>2
  <2>3. QED BY <2>1, <2>2, TypeNext
<1>7. ASSUME CreateEvaluate(r) PROVE TypeOK'
  <2>1. StoreTypeOK'
    BY <1>c, <1>7 DEF CreateEvaluate
  <2>2. ReqTypeOK'
    <3>1. CASE Finish(r)
      BY <1>a, <3>1, FinishType
    <3>2. CASE ~Finish(r)
      <4>1. Goto(r, "create") /\ UNCHANGED <<arg, during>>
        BY <1>7, <3>2 DEF CreateEvaluate
      <4>2. arg' = [arg EXCEPT ![r] = arg[r]]
        BY <1>b, <4>1
      <4>3. QED BY <1>a, <1>b, <4>1, <4>2, MoveType
    <3>3. QED BY <3>1, <3>2
  <2>3. QED BY <2>1, <2>2, TypeNext
<1>8. ASSUME CreateTarget(r) PROVE TypeOK'
  <2>1. StoreTypeOK'
    BY <1>c, <1>8 DEF CreateTarget
  <2>2. ReqTypeOK'
    <3>1. CASE Finish(r)
      BY <1>a, <3>1, FinishType
    <3>2. CASE ~Finish(r)
      <4>1. services[arg[r].service] \in Targets \cup {None}
        BY <1>a, <1>8 DEF CreateTarget, Founded, StoreTypeOK
      <4>2. [arg[r] EXCEPT !.target = services[arg[r].service]] \in Args
        BY <1>b, <4>1 DEF Args
      <4>3. QED BY <1>a, <1>8, <3>2, <4>2, MoveType DEF CreateTarget
    <3>3. QED BY <3>1, <3>2
  <2>3. QED BY <2>1, <2>2, TypeNext
<1>9. ASSUME CreateStore(r) PROVE TypeOK'
  <2>1. ReqTypeOK'
    BY <1>a, <1>9, FinishType DEF CreateStore
  <2>2. /\ arg[r].token \in Tokens /\ arg[r].service \in Services /\ arg[r].target \in Targets
        /\ holder[arg[r].token] \in Clients \cup {None}
    BY <1>a, <1>b, <1>9 DEF CreateStore, Founded, Args, StoreTypeOK
  <2>3. Tunnel(arg[r]) \in [token : Tokens, client : Clients \cup {None},
                            service : Services, target : Targets]
    BY <2>2 DEF Tunnel
  <2>4. tunnels' \in [0 .. MaxTime -> {None} \cup
                         [token : Tokens, client : Clients \cup {None},
                          service : Services, target : Targets]]
    BY <1>a, <1>9, <2>3 DEF CreateStore, StoreTypeOK
  <2>5. StoreTypeOK'
    BY <1>a, <1>9, <2>4 DEF CreateStore, StoreTypeOK, RegistryTypeOK, PolicyTypeOK
  <2>6. QED BY <2>1, <2>5, TypeNext
<1>10. ASSUME NEW t \in Tokens, TunnelDelete(r, t) PROVE TypeOK'
  <2>1. StoreTypeOK'
    BY <1>c, <1>10 DEF TunnelDelete
  <2>2. Goto(r, "delete") /\ arg' = [arg EXCEPT ![r] = arg[r]] /\ during' = during
    BY <1>b, <1>10 DEF TunnelDelete
  <2>3. ReqTypeOK'
    BY <1>a, <1>b, <2>2, MoveType
  <2>4. QED BY <2>1, <2>3, TypeNext
<1>11. ASSUME NEW i \in 0 .. MaxTime, DeleteTunnel(r, i) PROVE TypeOK'
  <2>1. ReqTypeOK'
    BY <1>a, <1>11, FinishType DEF DeleteTunnel
  <2>2. StoreTypeOK'
    BY <1>a, <1>11 DEF DeleteTunnel, StoreTypeOK, RegistryTypeOK, PolicyTypeOK
  <2>3. QED BY <2>1, <2>2, TypeNext
<1>12. ASSUME HandshakeSessionFails(r) PROVE TypeOK'
  <2>1. ReqTypeOK' /\ StoreTypeOK'
    BY <1>a, <1>c, <1>12, FinishType DEF HandshakeSessionFails
  <2>2. QED BY <2>1, TypeNext
<1>13. QED BY <1>1, <1>2, <1>3, <1>4, <1>5, <1>6, <1>7, <1>8, <1>9, <1>10, <1>11, <1>12

(* Steps of everybody else.                                                *)
LEMMA AdminTypes ==
    ASSUME HandlerInv
    PROVE  /\ \A t \in Tokens : SessionEnds(t) => TypeOK'
           /\ \A c \in Certs : RevokeCert(c) => TypeOK'
           /\ CleanCerts => TypeOK'
           /\ \A p \in DOMAIN Policies : ChangePolicy(p) => TypeOK'
           /\ \A s \in Services, g \in Targets \cup {None} : SetService(s, g) => TypeOK'
           /\ \A s \in Services, g \in Targets : UpdateLoad(s, g) => TypeOK'
           /\ UpdateStore => TypeOK'
           /\ Restart => TypeOK'
           /\ Tick => TypeOK'
           /\ UNCHANGED vars => TypeOK'
<1>a. ReqTypeOK /\ StoreTypeOK
  BY TypeParts DEF HandlerInv
<1>b. UNCHANGED <<pc, arg, during>> => ReqTypeOK'
  BY <1>a DEF ReqTypeOK
<1>c. Administer => admin' \in 0 .. MaxAdmin
  BY <1>a, ControllerAssumption DEF Administer, StoreTypeOK
<1>1. ASSUME NEW t \in Tokens, SessionEnds(t) PROVE TypeOK'
  <2>1. ReqTypeOK'
    BY <1>a, <1>1, NoteType DEF SessionEnds
  <2>2. session' \in [Tokens -> {"unborn", "valid", "dead"}]
    BY <1>a, <1>1 DEF SessionEnds, Sessions!Die, StoreTypeOK
  <2>3. StoreTypeOK'
    BY <1>a, <1>1, <2>2 DEF SessionEnds, StoreTypeOK, RegistryTypeOK, PolicyTypeOK
  <2>4. QED BY <2>1, <2>3, TypeNext
<1>2. ASSUME NEW c \in Certs, RevokeCert(c) PROVE TypeOK'
  <2>1. RegistryTypeOK'
    BY <1>a, <1>2 DEF RevokeCert, Revoke, StoreTypeOK, RegistryTypeOK
  <2>2. StoreTypeOK'
    BY <1>a, <1>c, <1>2, <2>1 DEF RevokeCert, StoreTypeOK, PolicyTypeOK
  <2>3. QED BY <1>b, <1>2, <2>2, TypeNext DEF RevokeCert
<1>3. ASSUME CleanCerts PROVE TypeOK'
  <2>1. RegistryTypeOK'
    BY <1>a, <1>3 DEF CleanCerts, CleanExpired, StoreTypeOK, RegistryTypeOK
  <2>2. StoreTypeOK'
    BY <1>a, <1>c, <1>3, <2>1 DEF CleanCerts, StoreTypeOK, PolicyTypeOK
  <2>3. QED BY <1>b, <1>3, <2>2, TypeNext DEF CleanCerts
<1>4. ASSUME NEW p \in DOMAIN Policies, ChangePolicy(p) PROVE TypeOK'
  <2>1. ReqTypeOK'
    BY <1>a, <1>4, NoteType DEF ChangePolicy
  <2>2. PolicyTypeOK'
    BY <1>a, <1>4, SaveFacts, DeleteFacts DEF ChangePolicy, StoreTypeOK
  <2>3. StoreTypeOK'
    BY <1>a, <1>c, <1>4, <2>2 DEF ChangePolicy, StoreTypeOK, RegistryTypeOK
  <2>4. QED BY <2>1, <2>3, TypeNext
<1>5. ASSUME NEW s \in Services, NEW g \in Targets \cup {None}, SetService(s, g) PROVE TypeOK'
  <2>1. ReqTypeOK'
    BY <1>a, <1>5, NoteType DEF SetService
  <2>2. StoreTypeOK'
    BY <1>a, <1>c, <1>5 DEF SetService, StoreTypeOK, RegistryTypeOK, PolicyTypeOK
  <2>3. QED BY <2>1, <2>2, TypeNext
<1>6. ASSUME NEW s \in Services, NEW g \in Targets, UpdateLoad(s, g) PROVE TypeOK'
  <2>1. StoreTypeOK'
    BY <1>a, <1>c, <1>6 DEF UpdateLoad, StoreTypeOK, RegistryTypeOK, PolicyTypeOK
  <2>2. QED BY <1>b, <1>6, <2>1, TypeNext DEF UpdateLoad
<1>7. ASSUME UpdateStore PROVE TypeOK'
  <2>1. ReqTypeOK'
    BY <1>a, <1>7, NoteType DEF UpdateStore
  <2>2. updating.service \in Services /\ updating.target \in Targets
    BY <1>a, <1>7 DEF UpdateStore, StoreTypeOK
  <2>3. StoreTypeOK'
    BY <1>a, <1>7, <2>2 DEF UpdateStore, StoreTypeOK, RegistryTypeOK, PolicyTypeOK
  <2>4. QED BY <2>1, <2>3, TypeNext
<1>8. ASSUME Restart PROVE TypeOK'
  <2>1. ReqTypeOK'
    BY <1>8, GivenArgs DEF Restart, ReqTypeOK, Idle
  <2>2. session' \in [Tokens -> {"unborn", "valid", "dead"}]
    BY <1>a, <1>8 DEF Restart, Sessions!Die, StoreTypeOK
  <2>3. StoreTypeOK'
    BY <1>a, <1>c, <1>8, <2>2 DEF Restart, StoreTypeOK, RegistryTypeOK, PolicyTypeOK
  <2>4. QED BY <2>1, <2>3, TypeNext
<1>9. ASSUME Tick PROVE TypeOK'
  <2>1. ReqTypeOK'
    BY <1>a, <1>9, NoteType DEF Tick
  <2>2. now' \in 0 .. MaxTime
    BY <1>a, <1>9, MaxTimeAssumption DEF Tick, Advance, StoreTypeOK
  <2>3. StoreTypeOK'
    BY <1>a, <1>9, <2>2 DEF Tick, storeVars, StoreTypeOK, RegistryTypeOK, PolicyTypeOK
  <2>4. QED BY <2>1, <2>3, TypeNext
<1>10. ASSUME UNCHANGED vars PROVE TypeOK'
  <2>1. StoreTypeOK'
    BY <1>a, <1>10 DEF vars, StoreTypeOK, RegistryTypeOK, PolicyTypeOK
  <2>2. QED BY <1>b, <1>10, <2>1, TypeNext DEF vars
<1>11. QED BY <1>1, <1>2, <1>3, <1>4, <1>5, <1>6, <1>7, <1>8, <1>9, <1>10

-----------------------------------------------------------------------------
(* What a step of somebody else does to request r: whatever r relies on is *)
(* as before, or r's history says so.                                      *)
Beside(r) ==
    /\ pc'[r] = pc[r] /\ arg'[r] = arg[r] /\ during[r] \subseteq during'[r]
    /\ (arg[r].cert \in Certs /\ record[arg[r].cert] \in {"none", "revoked"}) =>
          (record'[arg[r].cert] \in {"none", "revoked"} \/ "registered" \in during'[r])
    /\ \/ now' = now
       \/ now' = now + 1 /\ (arg[r].token # None => "time" \in during'[r])
    /\ \/ policies' = policies
       \/ arg[r].token # None => "policy" \in during'[r]
    /\ (arg[r].token \in Tokens /\ session[arg[r].token] # "unborn") =>
          /\ holder'[arg[r].token] = holder[arg[r].token]
          /\ \/ session'[arg[r].token] = session[arg[r].token]
             \/ session'[arg[r].token] # "unborn" /\ "session" \in during'[r]
    /\ arg[r].service \in Services =>
          (services'[arg[r].service] = services[arg[r].service] \/ "service" \in during'[r])

LEMMA BesideKeeps ==
    ASSUME HandlerInv, NEW r \in Requests, Beside(r)
    PROVE  Refusable(r)' /\ Founded(r)'
<1>a. Refusable(r) /\ Founded(r) /\ now \in Nat
  BY MaxTimeAssumption, TypeParts DEF HandlerInv, StoreTypeOK
<1>b. /\ pc'[r] = pc[r] /\ arg'[r] = arg[r] /\ during[r] \subseteq during'[r]
  BY DEF Beside
<1>1. Refusable(r)'
  <2> SUFFICES ASSUME pc[r] = "register", "registered" \notin during'[r],
                      ~(NotAfter[arg[r].cert] < now')
               PROVE  record'[arg[r].cert] \in {"none", "revoked"}
    BY <1>b DEF Refusable
  <2>1. arg[r].cert \in Certs /\ NotAfter[arg[r].cert] \in Nat
    BY <1>a, CertAssumption DEF Founded
  <2>2. ~(NotAfter[arg[r].cert] < now) /\ "registered" \notin during[r]
    BY <1>a, <1>b, <2>1 DEF Beside
  <2>3. record[arg[r].cert] \in {"none", "revoked"}
    BY <1>a, <2>2 DEF Refusable
  <2>4. QED BY <2>1, <2>3 DEF Beside
<1>2. ASSUME pc[r] \in {"service", "evaluate", "create", "store"}
      PROVE  /\ arg[r].token \in Tokens /\ arg[r].service \in Services /\ arg[r].token # None
             /\ session'[arg[r].token] # "unborn"
             /\ session'[arg[r].token] = "valid" \/ "session" \in during'[r]
             /\ holder'[arg[r].token] = holder[arg[r].token]
             /\ now' = now \/ "time" \in during'[r]
             /\ policies' = policies \/ "policy" \in during'[r]
             /\ services'[arg[r].service] = services[arg[r].service] \/ "service" \in during'[r]
  <2>1. /\ arg[r].token \in Tokens /\ arg[r].service \in Services
        /\ session[arg[r].token] # "unborn"
        /\ session[arg[r].token] = "valid" \/ "session" \in during[r]
    BY <1>a, <1>2 DEF Founded
  <2>2. arg[r].token # None
    BY <2>1, ControllerAssumption
  <2>3. QED BY <1>b, <2>1, <2>2 DEF Beside
<1>3. ASSUME pc[r] \in {"create", "store"}, Justified(r), policies' = policies, now' = now
      PROVE  Justified(r)'
  <2>1. AccessRequest(arg[r])' = AccessRequest(arg[r])
    BY <1>b, <1>2, <1>3 DEF AccessRequest
  <2>2. holder'[arg'[r].token] = holder[arg[r].token]
    BY <1>b, <1>2, <1>3
  <2>3. QED BY <1>3, <2>1, <2>2 DEF Justified, Granted, Ended
<1>4. Founded(r)'
  <2>1. pc'[r] \in {"register", "session"} => arg'[r].cert \in Certs
    BY <1>a, <1>b DEF Founded
  <2>2. pc'[r] \in {"service", "evaluate", "create", "store"} =>
          /\ arg'[r].token \in Tokens /\ arg'[r].service \in Services
          /\ session'[arg'[r].token] # "unborn"
          /\ session'[arg'[r].token] = "valid" \/ "session" \in during'[r]
    BY <1>b, <1>2
  <2>3. pc'[r] \in {"evaluate", "create", "store"} =>
          arg'[r].stamp = now' \/ "time" \in during'[r]
    BY <1>a, <1>b, <1>2 DEF Founded
  <2>4. pc'[r] \in {"create", "store"} =>
          Justified(r)' \/ "policy" \in during'[r] \/ "time" \in during'[r]
    BY <1>a, <1>b, <1>2, <1>3 DEF Founded
  <2>5. pc'[r] = "store" =>
          /\ arg'[r].target # None
          /\ services'[arg'[r].service] = arg'[r].target \/ "service" \in during'[r]
    BY <1>a, <1>b, <1>2 DEF Founded
  <2>6. QED BY <2>1, <2>2, <2>3, <2>4, <2>5 DEF Founded
<1>5. QED BY <1>1, <1>4

(* A finished request relies on nothing.                                   *)
LEMMA FinishOwn ==
    ASSUME ReqTypeOK, NEW r \in Requests, Finish(r)
    PROVE  Refusable(r)' /\ Founded(r)'
<1>1. pc'[r] = "idle"
  BY DEF ReqTypeOK, Finish, Goto
<1>2. QED BY <1>1 DEF Refusable, Founded

LEMMA FinishOthers ==
    ASSUME ReqTypeOK, NEW r \in Requests, Finish(r), NEW q \in Requests, q # r
    PROVE  pc'[q] = pc[q] /\ arg'[q] = arg[q] /\ during'[q] = during[q]
BY DEF ReqTypeOK, Finish, Goto

LEMMA MoveOthers ==
    ASSUME ReqTypeOK, NEW r \in Requests, NEW l, Goto(r, l), NEW q \in Requests, q # r,
           NEW a, arg' = [arg EXCEPT ![r] = a], NEW d, during' \in {during, [during EXCEPT ![r] = d]}
    PROVE  pc'[q] = pc[q] /\ arg'[q] = arg[q] /\ during'[q] = during[q]
BY DEF ReqTypeOK, Goto

(* A request's step is beside every other request.                         *)
LEMMA RequestBeside ==
    ASSUME HandlerInv, NEW r \in Requests, NEW q \in Requests, q # r
    PROVE  /\ \A c \in Certs : Handshake(r, c) => Beside(q)
           /\ HandshakeRegister(r) => Beside(q)
           /\ HandshakeRefused(r) => Beside(q)
           /\ \A t \in Tokens : HandshakeSession(r, t) => Beside(q)
           /\ HandshakeSessionFails(r) => Beside(q)
           /\ \A t \in Tokens, s \in Services : TunnelCreate(r, t, s) => Beside(q)
           /\ CreateService(r) => Beside(q)
           /\ CreateEvaluate(r) => Beside(q)
           /\ CreateTarget(r) => Beside(q)
           /\ CreateStore(r) => Beside(q)
           /\ \A t \in Tokens : TunnelDelete(r, t) => Beside(q)
           /\ \A i \in 0 .. MaxTime : DeleteTunnel(r, i) => Beside(q)
<1>a. ReqTypeOK /\ StoreTypeOK /\ Founded(r)
  BY TypeParts DEF HandlerInv
<1>b. arg = [arg EXCEPT ![r] = arg[r]]
  BY <1>a DEF ReqTypeOK
<1>c. ASSUME pc'[q] = pc[q], arg'[q] = arg[q], during'[q] = during[q],
             UNCHANGED <<now, record, policies, session, holder, services>>
      PROVE  Beside(q)
  BY <1>c DEF Beside
<1>1. ASSUME NEW c \in Certs, Handshake(r, c) PROVE Beside(q)
  <2>1. UNCHANGED <<now, record, policies, session, holder, services>>
    BY <1>1 DEF Handshake, storeVars
  <2>2. pc'[q] = pc[q] /\ arg'[q] = arg[q] /\ during'[q] = during[q]
    BY <1>a, <1>1 DEF Handshake, Goto, ReqTypeOK
  <2>3. QED BY <1>c, <2>1, <2>2
<1>2. ASSUME HandshakeRegister(r) PROVE Beside(q)
  <2>1. pc'[q] = pc[q] /\ arg' = arg
    BY <1>a, <1>2 DEF HandshakeRegister, Goto, ReqTypeOK
  <2>2. during'[q] = IF arg[q].cert = arg[r].cert THEN during[q] \cup {"registered"} ELSE during[q]
    BY <1>2 DEF HandshakeRegister, Note
  <2>3. arg[q].cert \in Certs /\ arg[q].cert # arg[r].cert => record'[arg[q].cert] = record[arg[q].cert]
    BY <1>a, <1>2 DEF HandshakeRegister, Register, StoreTypeOK, RegistryTypeOK
  <2>4. UNCHANGED <<now, policies, session, holder, services>>
    BY <1>2 DEF HandshakeRegister
  <2>5. QED BY <2>1, <2>2, <2>3, <2>4 DEF Beside
<1>3. ASSUME HandshakeRefused(r) PROVE Beside(q)
  <2>1. UNCHANGED <<now, record, policies, session, holder, services>> /\ Finish(r)
    BY <1>3 DEF HandshakeRefused, RegisterFails
  <2>2. QED BY <1>a, <1>c, <2>1, FinishOthers
<1>4. ASSUME NEW t \in Tokens, HandshakeSession(r, t) PROVE Beside(q)
  <2>1. UNCHANGED <<now, record, policies, services>> /\ Finish(r) /\ session[t] = "unborn"
    BY <1>4 DEF HandshakeSession, Sessions!Issue
  <2>2. \A u \in Tokens \ {t} : session'[u] = session[u] /\ holder'[u] = holder[u]
    BY <1>a, <1>4 DEF HandshakeSession, Sessions!Issue, StoreTypeOK
  <2>3. pc'[q] = pc[q] /\ arg'[q] = arg[q] /\ during'[q] = during[q]
    BY <1>a, <2>1, FinishOthers
  <2>4. QED BY <2>1, <2>2, <2>3 DEF Beside
<1>5. ASSUME NEW t \in Tokens, NEW s \in Services, TunnelCreate(r, t, s) PROVE Beside(q)
  <2>1. UNCHANGED <<now, record, policies, session, holder, services>>
    BY <1>5 DEF TunnelCreate, storeVars
  <2>2. QED BY <1>a, <1>c, <1>5, <2>1, MoveOthers DEF TunnelCreate
<1>6. ASSUME CreateService(r) PROVE Beside(q)
  <2>1. UNCHANGED <<now, record, policies, session, holder, services>>
    BY <1>6 DEF CreateService, storeVars
  <2>2. CASE Finish(r)
    BY <1>a, <1>c, <2>1, <2>2, FinishOthers
  <2>3. CASE ~Finish(r)
    BY <1>a, <1>c, <1>6, <2>1, <2>3, MoveOthers DEF CreateService
  <2>4. QED BY <2>2, <2>3
<1>7. ASSUME CreateEvaluate(r) PROVE Beside(q)
  <2>1. UNCHANGED <<now, record, policies, session, holder, services>>
    BY <1>7 DEF CreateEvaluate, storeVars
  <2>2. CASE Finish(r)
    BY <1>a, <1>c, <2>1, <2>2, FinishOthers
  <2>3. CASE ~Finish(r)
    <3>1. Goto(r, "create") /\ arg' = [arg EXCEPT ![r] = arg[r]] /\ during' = during
      BY <1>b, <1>7, <2>3 DEF CreateEvaluate
    <3>2. QED BY <1>a, <1>c, <2>1, <3>1, MoveOthers
  <2>4. QED BY <2>2, <2>3
<1>8. ASSUME CreateTarget(r) PROVE Beside(q)
  <2>1. UNCHANGED <<now, record, policies, session, holder, services>>
    BY <1>8 DEF CreateTarget, storeVars
  <2>2. CASE Finish(r)
    BY <1>a, <1>c, <2>1, <2>2, FinishOthers
  <2>3. CASE ~Finish(r)
    BY <1>a, <1>c, <1>8, <2>1, <2>3, MoveOthers DEF CreateTarget
  <2>4. QED BY <2>2, <2>3
<1>9. ASSUME CreateStore(r) PROVE Beside(q)
  <2>1. UNCHANGED <<now, record, policies, session, holder, services>> /\ Finish(r)
    BY <1>9 DEF CreateStore
  <2>2. QED BY <1>a, <1>c, <2>1, FinishOthers
<1>10. ASSUME NEW t \in Tokens, TunnelDelete(r, t) PROVE Beside(q)
  <2>1. /\ UNCHANGED <<now, record, policies, session, holder, services>> /\ Goto(r, "delete")
        /\ arg' = [arg EXCEPT ![r] = arg[r]] /\ during' = during
    BY <1>b, <1>10 DEF TunnelDelete, storeVars
  <2>2. QED BY <1>a, <1>c, <2>1, MoveOthers
<1>11. ASSUME NEW i \in 0 .. MaxTime, DeleteTunnel(r, i) PROVE Beside(q)
  <2>1. UNCHANGED <<now, record, policies, session, holder, services>> /\ Finish(r)
    BY <1>11 DEF DeleteTunnel
  <2>2. QED BY <1>a, <1>c, <2>1, FinishOthers
<1>12. ASSUME HandshakeSessionFails(r) PROVE Beside(q)
  <2>1. UNCHANGED <<now, record, policies, session, holder, services>> /\ Finish(r)
    BY <1>12 DEF HandshakeSessionFails, storeVars
  <2>2. QED BY <1>a, <1>c, <2>1, FinishOthers
<1>13. QED BY <1>1, <1>2, <1>3, <1>4, <1>5, <1>6, <1>7, <1>8, <1>9, <1>10, <1>11, <1>12

(* Nor does an administrator, a session's end or the clock go unnoticed.   *)
LEMMA AdminBeside ==
    ASSUME HandlerInv, NEW q \in Requests
    PROVE  /\ \A t \in Tokens : SessionEnds(t) => Beside(q)
           /\ \A c \in Certs : RevokeCert(c) => Beside(q)
           /\ CleanCerts => Beside(q)
           /\ \A p \in DOMAIN Policies : ChangePolicy(p) => Beside(q)
           /\ \A s \in Services, g \in Targets \cup {None} : SetService(s, g) => Beside(q)
           /\ \A s \in Services, g \in Targets : UpdateLoad(s, g) => Beside(q)
           /\ UpdateStore => Beside(q)
           /\ Tick => Beside(q)
           /\ UNCHANGED vars => Beside(q)
<1>a. StoreTypeOK
  BY TypeParts DEF HandlerInv
<1>b. \A R, x : Note(R, x) => during'[q] = IF q \in R THEN during[q] \cup {x} ELSE during[q]
  BY DEF Note
<1>1. ASSUME NEW t \in Tokens, SessionEnds(t) PROVE Beside(q)
  <2>1. UNCHANGED <<now, record, policies, holder, services, pc, arg>>
    BY <1>1 DEF SessionEnds
  <2>2. /\ session[t] = "valid" /\ session'[t] = "dead"
        /\ \A u \in Tokens \ {t} : session'[u] = session[u]
    BY <1>a, <1>1 DEF SessionEnds, Sessions!Die, StoreTypeOK
  <2>3. during'[q] = IF arg[q].token = t THEN during[q] \cup {"session"} ELSE during[q]
    BY <1>b, <1>1 DEF SessionEnds
  <2>4. QED BY <2>1, <2>2, <2>3 DEF Beside
<1>2. ASSUME NEW c \in Certs, RevokeCert(c) PROVE Beside(q)
  <2>1. UNCHANGED <<now, policies, session, holder, services, pc, arg, during>>
    BY <1>2 DEF RevokeCert
  <2>2. \A d \in Certs : record'[d] \in {record[d], "revoked"}
    BY <1>a, <1>2 DEF RevokeCert, Revoke, StoreTypeOK, RegistryTypeOK
  <2>3. QED BY <2>1, <2>2 DEF Beside
<1>3. ASSUME CleanCerts PROVE Beside(q)
  <2>1. UNCHANGED <<now, policies, session, holder, services, pc, arg, during>>
    BY <1>3 DEF CleanCerts
  <2>2. \A d \in Certs : record[d] \in {"none", "revoked"} => record'[d] = record[d]
    BY <1>3 DEF CleanCerts, CleanExpired
  <2>3. QED BY <2>1, <2>2 DEF Beside
<1>4. ASSUME NEW p \in DOMAIN Policies, ChangePolicy(p) PROVE Beside(q)
  <2>1. UNCHANGED <<now, record, session, holder, services, pc, arg>>
    BY <1>4 DEF ChangePolicy
  <2>2. during'[q] = IF arg[q].token # None THEN during[q] \cup {"policy"} ELSE during[q]
    <3>1. Note(Creating, "policy")
      BY <1>4 DEF ChangePolicy
    <3>2. q \in Creating <=> arg[q].token # None
      BY DEF Creating
    <3>3. QED BY <1>b, <3>1, <3>2
  <2>3. QED BY <2>1, <2>2 DEF Beside
<1>5. ASSUME NEW s \in Services, NEW g \in Targets \cup {None}, SetService(s, g) PROVE Beside(q)
  <2>1. UNCHANGED <<now, record, policies, session, holder, pc, arg>>
    BY <1>5 DEF SetService
  <2>2. during'[q] = IF arg[q].service = s THEN during[q] \cup {"service"} ELSE during[q]
    BY <1>b, <1>5 DEF SetService
  <2>3. \A u \in Services \ {s} : services'[u] = services[u]
    BY <1>a, <1>5 DEF SetService, StoreTypeOK
  <2>4. QED BY <2>1, <2>2, <2>3 DEF Beside
<1>6. ASSUME NEW s \in Services, NEW g \in Targets, UpdateLoad(s, g) PROVE Beside(q)
  BY <1>6 DEF UpdateLoad, Beside
<1>7. ASSUME UpdateStore PROVE Beside(q)
  <2>1. UNCHANGED <<now, record, policies, session, holder, pc, arg>>
    BY <1>7 DEF UpdateStore
  <2>2. during'[q] = IF arg[q].service = updating.service
                     THEN during[q] \cup {"service"} ELSE during[q]
    BY <1>b, <1>7 DEF UpdateStore
  <2>3. \A u \in Services \ {updating.service} : services'[u] = services[u]
    BY <1>a, <1>7 DEF UpdateStore, StoreTypeOK
  <2>4. QED BY <2>1, <2>2, <2>3 DEF Beside
<1>8. ASSUME Tick PROVE Beside(q)
  <2>1. UNCHANGED <<record, policies, session, holder, services, pc, arg>> /\ now' = now + 1
    BY <1>8 DEF Tick, Advance, storeVars
  <2>2. during'[q] = IF arg[q].token # None THEN during[q] \cup {"time"} ELSE during[q]
    BY <1>b, <1>8 DEF Tick, Creating
  <2>3. QED BY <2>1, <2>2 DEF Beside
<1>9. ASSUME UNCHANGED vars PROVE Beside(q)
  BY <1>9 DEF vars, Beside
<1>10. QED BY <1>1, <1>2, <1>3, <1>4, <1>5, <1>6, <1>7, <1>8, <1>9

-----------------------------------------------------------------------------
(* What a request knows after a step of its own.                           *)
LEMMA RequestOwn ==
    ASSUME HandlerInv, NEW r \in Requests
    PROVE  /\ \A c \in Certs : Handshake(r, c) => Refusable(r)' /\ Founded(r)'
           /\ HandshakeRegister(r) => Refusable(r)' /\ Founded(r)'
           /\ HandshakeRefused(r) => Refusable(r)' /\ Founded(r)'
           /\ \A t \in Tokens : HandshakeSession(r, t) => Refusable(r)' /\ Founded(r)'
           /\ HandshakeSessionFails(r) => Refusable(r)' /\ Founded(r)'
           /\ \A t \in Tokens, s \in Services :
                 TunnelCreate(r, t, s) => Refusable(r)' /\ Founded(r)'
           /\ CreateService(r) => Refusable(r)' /\ Founded(r)'
           /\ CreateEvaluate(r) => Refusable(r)' /\ Founded(r)'
           /\ CreateTarget(r) => Refusable(r)' /\ Founded(r)'
           /\ CreateStore(r) => Refusable(r)' /\ Founded(r)'
           /\ \A t \in Tokens : TunnelDelete(r, t) => Refusable(r)' /\ Founded(r)'
           /\ \A i \in 0 .. MaxTime : DeleteTunnel(r, i) => Refusable(r)' /\ Founded(r)'
<1>a. ReqTypeOK /\ StoreTypeOK /\ Founded(r)
  BY TypeParts DEF HandlerInv
<1>b. arg[r] \in Args
  BY <1>a DEF ReqTypeOK
<1>c. now \in Nat
  BY <1>a, MaxTimeAssumption DEF StoreTypeOK
<1>1. ASSUME NEW c \in Certs, Handshake(r, c) PROVE Refusable(r)' /\ Founded(r)'
  <2>1. arg'[r] = Given(c, None, None) /\ UNCHANGED <<now, record>>
    BY <1>a, <1>1 DEF Handshake, ReqTypeOK, storeVars
  <2>2. arg'[r].cert = c
    BY <2>1 DEF Given
  <2>3. pc'[r] = IF Validate(c) THEN "session" ELSE "register"
    BY <1>a, <1>1 DEF Handshake, Goto, ReqTypeOK
  <2>4. NotBefore[c] <= now /\ NotBefore[c] \in Nat /\ NotAfter[c] \in Nat
    BY <1>1, CertAssumption DEF Handshake
  <2>5. Refusable(r)'
    BY <1>c, <2>1, <2>2, <2>3, <2>4 DEF Refusable, Validate
  <2>6. QED BY <2>2, <2>3, <2>5 DEF Founded
<1>2. ASSUME HandshakeRegister(r) PROVE Refusable(r)' /\ Founded(r)'
  <2>1. pc'[r] = "session" /\ arg' = arg /\ pc[r] = "register"
    BY <1>a, <1>2 DEF HandshakeRegister, Goto, ReqTypeOK
  <2>2. QED BY <1>a, <2>1 DEF Refusable, Founded
<1>3. ASSUME HandshakeRefused(r) PROVE Refusable(r)' /\ Founded(r)'
  BY <1>a, <1>3, FinishOwn DEF HandshakeRefused
<1>4. ASSUME NEW t \in Tokens, HandshakeSession(r, t) PROVE Refusable(r)' /\ Founded(r)'
  BY <1>a, <1>4, FinishOwn DEF HandshakeSession
<1>5. ASSUME NEW t \in Tokens, NEW s \in Services, TunnelCreate(r, t, s)
      PROVE  Refusable(r)' /\ Founded(r)'
  <2>1. /\ arg'[r] = Given(None, t, s) /\ pc'[r] = "service"
        /\ session[t] = "valid" /\ session' = session
    BY <1>a, <1>5 DEF TunnelCreate, Goto, ReqTypeOK, storeVars
  <2>2. arg'[r].token = t /\ arg'[r].service = s
    BY <2>1 DEF Given
  <2>3. QED BY <2>1, <2>2 DEF Refusable, Founded
<1>6. ASSUME CreateService(r) PROVE Refusable(r)' /\ Founded(r)'
  <2>1. CASE Finish(r)
    BY <1>a, <2>1, FinishOwn
  <2>2. CASE ~Finish(r)
    <3>1. /\ pc[r] = "service" /\ pc'[r] = "evaluate" /\ UNCHANGED <<now, session, during>>
          /\ arg'[r] = [arg[r] EXCEPT !.stamp = now]
      BY <1>a, <1>6, <2>2 DEF CreateService, Goto, ReqTypeOK, storeVars
    <3>2. arg'[r].token = arg[r].token /\ arg'[r].service = arg[r].service /\ arg'[r].stamp = now
      BY <1>b, <3>1 DEF Args
    <3>3. QED BY <1>a, <3>1, <3>2 DEF Refusable, Founded
  <2>3. QED BY <2>1, <2>2
<1>7. ASSUME CreateEvaluate(r) PROVE Refusable(r)' /\ Founded(r)'
  <2>1. CASE Finish(r)
    BY <1>a, <2>1, FinishOwn
  <2>2. CASE ~Finish(r)
    <3>1. /\ pc[r] = "evaluate" /\ pc'[r] = "create" /\ Allowed(r)
          /\ UNCHANGED <<now, session, during, arg, holder, policies>>
      BY <1>a, <1>7, <2>2 DEF CreateEvaluate, Goto, ReqTypeOK, storeVars
    <3>2. arg[r].stamp = now => Justified(r)
      <4>1. policies \in Seq(DOMAIN Policies)
        BY <1>a DEF StoreTypeOK, PolicyTypeOK
      <4>2. AccessRequest(arg[r]).client = holder[arg[r].token]
        BY DEF AccessRequest
      <4>3. holder[arg[r].token] # NoClient
        <5>1. arg[r].token \in Tokens
          BY <1>a, <3>1 DEF Founded
        <5>2. holder[arg[r].token] \in Clients \cup {None}
          BY <1>a, <5>1 DEF StoreTypeOK
        <5>3. QED BY <5>2, ControllerAssumption DEF Clients
      <4>4. Meant(AccessRequest(arg[r])) = {holder[arg[r].token]}
        BY <4>2, <4>3 DEF Meant
      <4>5. EvaluateAccess(AccessRequest(arg[r]), now) = "yes" =>
               \E c \in Meant(AccessRequest(arg[r])) : Granted(c, AccessRequest(arg[r]), now)
        BY <1>c, <4>1, Decision
      <4>6. QED BY <3>1, <4>4, <4>5 DEF Allowed, Justified
    <3>3. Justified(r)' <=> Justified(r)
      BY <3>1 DEF Justified, Granted, Ended, AccessRequest
    <3>4. QED BY <1>a, <3>1, <3>2, <3>3 DEF Refusable, Founded
  <2>3. QED BY <2>1, <2>2
<1>8. ASSUME CreateTarget(r) PROVE Refusable(r)' /\ Founded(r)'
  <2>1. CASE Finish(r)
    BY <1>a, <2>1, FinishOwn
  <2>2. CASE ~Finish(r)
    <3>1. /\ pc[r] = "create" /\ pc'[r] = "store" /\ services[arg[r].service] # None
          /\ UNCHANGED <<now, session, during, holder, policies, services>>
          /\ arg'[r] = [arg[r] EXCEPT !.target = services[arg[r].service]]
      BY <1>a, <1>8, <2>2 DEF CreateTarget, Goto, ReqTypeOK, storeVars
    <3>2. /\ arg'[r].token = arg[r].token /\ arg'[r].service = arg[r].service
          /\ arg'[r].stamp = arg[r].stamp /\ arg'[r].target = services[arg[r].service]
      BY <1>b, <3>1 DEF Args
    <3>3. Justified(r)' <=> Justified(r)
      <4>1. AccessRequest(arg[r])' = AccessRequest(arg[r])
        BY <3>1, <3>2 DEF AccessRequest
      <4>2. holder'[arg'[r].token] = holder[arg[r].token]
        BY <3>1, <3>2
      <4>3. QED BY <3>1, <4>1, <4>2 DEF Justified, Granted, Ended
    <3>4. QED BY <1>a, <3>1, <3>2, <3>3 DEF Refusable, Founded
  <2>3. QED BY <2>1, <2>2
<1>9. ASSUME CreateStore(r) PROVE Refusable(r)' /\ Founded(r)'
  BY <1>a, <1>9, FinishOwn DEF CreateStore
<1>10. ASSUME NEW t \in Tokens, TunnelDelete(r, t) PROVE Refusable(r)' /\ Founded(r)'
  <2>1. pc'[r] = "delete"
    BY <1>a, <1>10 DEF TunnelDelete, Goto, ReqTypeOK
  <2>2. QED BY <2>1 DEF Refusable, Founded
<1>11. ASSUME NEW i \in 0 .. MaxTime, DeleteTunnel(r, i) PROVE Refusable(r)' /\ Founded(r)'
  BY <1>a, <1>11, FinishOwn DEF DeleteTunnel
<1>12. ASSUME HandshakeSessionFails(r) PROVE Refusable(r)' /\ Founded(r)'
  BY <1>a, <1>12, FinishOwn DEF HandshakeSessionFails
<1>13. QED BY <1>1, <1>2, <1>3, <1>4, <1>5, <1>6, <1>7, <1>8, <1>9, <1>10, <1>11, <1>12

LEMMA InitHandlerInv == Init => HandlerInv
<1> SUFFICES ASSUME Init PROVE HandlerInv
  OBVIOUS
<1>1. \A r \in Requests : pc[r] = "idle"
  BY DEF Init
<1>2. QED BY <1>1, InitType DEF HandlerInv, Refusable, Founded

LEMMA RestartHandlerInv ==
    ASSUME HandlerInv, Restart
    PROVE  HandlerInv'
<1>1. \A r \in Requests : pc'[r] = "idle"
  BY DEF Restart
<1>2. QED BY <1>1, AdminTypes DEF HandlerInv, Refusable, Founded

(* The two kinds of step.                                                  *)
LEMMA RequestStep ==
    ASSUME HandlerInv, NEW r \in Requests, TypeOK', Refusable(r)', Founded(r)',
           \A q \in Requests : q # r => Beside(q)
    PROVE  HandlerInv'
<1>1. ASSUME NEW q \in Requests PROVE Refusable(q)' /\ Founded(q)'
  BY BesideKeeps
<1>2. QED BY <1>1 DEF HandlerInv

LEMMA AsideOnly ==
    ASSUME HandlerInv, TypeOK', \A q \in Requests : Beside(q)
    PROVE  HandlerInv'
<1>1. ASSUME NEW q \in Requests PROVE Refusable(q)' /\ Founded(q)'
  BY BesideKeeps
<1>2. QED BY <1>1 DEF HandlerInv

LEMMA NextHandlerInv == HandlerInv /\ [Next]_vars => HandlerInv'
<1> SUFFICES ASSUME HandlerInv, [Next]_vars PROVE HandlerInv'
  OBVIOUS
<1>1. ASSUME NEW r \in Requests, NEW c \in Certs, Handshake(r, c)
      PROVE  HandlerInv'
  BY <1>1, RequestTypes, RequestOwn, RequestBeside, RequestStep
<1>2. ASSUME NEW r \in Requests, HandshakeRegister(r)
      PROVE  HandlerInv'
  BY <1>2, RequestTypes, RequestOwn, RequestBeside, RequestStep
<1>3. ASSUME NEW r \in Requests, HandshakeRefused(r)
      PROVE  HandlerInv'
  BY <1>3, RequestTypes, RequestOwn, RequestBeside, RequestStep
<1>4. ASSUME NEW r \in Requests, NEW t \in Tokens, HandshakeSession(r, t)
      PROVE  HandlerInv'
  BY <1>4, RequestTypes, RequestOwn, RequestBeside, RequestStep
<1>5. ASSUME NEW r \in Requests, NEW t \in Tokens, NEW s \in Services, TunnelCreate(r, t, s)
      PROVE  HandlerInv'
  BY <1>5, RequestTypes, RequestOwn, RequestBeside, RequestStep
<1>6. ASSUME NEW r \in Requests, CreateService(r)
      PROVE  HandlerInv'
  BY <1>6, RequestTypes, RequestOwn, RequestBeside, RequestStep
<1>7. ASSUME NEW r \in Requests, CreateEvaluate(r)
      PROVE  HandlerInv'
  BY <1>7, RequestTypes, RequestOwn, RequestBeside, RequestStep
<1>8. ASSUME NEW r \in Requests, CreateTarget(r)
      PROVE  HandlerInv'
  BY <1>8, RequestTypes, RequestOwn, RequestBeside, RequestStep
<1>9. ASSUME NEW r \in Requests, CreateStore(r)
      PROVE  HandlerInv'
  BY <1>9, RequestTypes, RequestOwn, RequestBeside, RequestStep
<1>10. ASSUME NEW r \in Requests, NEW t \in Tokens, TunnelDelete(r, t)
      PROVE  HandlerInv'
  BY <1>10, RequestTypes, RequestOwn, RequestBeside, RequestStep
<1>11. ASSUME NEW r \in Requests, NEW i \in 0 .. MaxTime, DeleteTunnel(r, i)
      PROVE  HandlerInv'
  BY <1>11, RequestTypes, RequestOwn, RequestBeside, RequestStep
<1>12. ASSUME NEW t \in Tokens, SessionEnds(t) PROVE HandlerInv'
  BY <1>12, AdminTypes, AdminBeside, AsideOnly
<1>13. ASSUME NEW c \in Certs, RevokeCert(c) PROVE HandlerInv'
  BY <1>13, AdminTypes, AdminBeside, AsideOnly
<1>14. ASSUME CleanCerts PROVE HandlerInv'
  BY <1>14, AdminTypes, AdminBeside, AsideOnly
<1>15. ASSUME NEW p \in DOMAIN Policies, ChangePolicy(p) PROVE HandlerInv'
  BY <1>15, AdminTypes, AdminBeside, AsideOnly
<1>16. ASSUME NEW s \in Services, NEW g \in Targets \cup {None}, SetService(s, g) PROVE HandlerInv'
  BY <1>16, AdminTypes, AdminBeside, AsideOnly
<1>17. ASSUME NEW s \in Services, NEW g \in Targets, UpdateLoad(s, g) PROVE HandlerInv'
  BY <1>17, AdminTypes, AdminBeside, AsideOnly
<1>18. ASSUME UpdateStore PROVE HandlerInv'
  BY <1>18, AdminTypes, AdminBeside, AsideOnly
<1>19. ASSUME Tick PROVE HandlerInv'
  BY <1>19, AdminTypes, AdminBeside, AsideOnly
<1>20. ASSUME UNCHANGED vars PROVE HandlerInv'
  BY <1>20, AdminTypes, AdminBeside, AsideOnly
<1>21. ASSUME Restart PROVE HandlerInv'
  BY <1>21, RestartHandlerInv
<1>22. ASSUME NEW r \in Requests, HandshakeSessionFails(r) PROVE HandlerInv'
  BY <1>22, RequestTypes, RequestOwn, RequestBeside, RequestStep
<1>23. QED
  BY <1>1, <1>2, <1>3, <1>4, <1>5, <1>6, <1>7, <1>8, <1>9, <1>10, <1>11, <1>12,
     <1>13, <1>14, <1>15, <1>16, <1>17, <1>18, <1>19, <1>20, <1>21, <1>22
     DEF Next

(* Controller's variables keep their types: among them, the table of       *)
(* policies never holds an ID twice, and what a handler gathered names     *)
(* things that exist.                                                      *)
THEOREM ControllerTypeCorrect == Spec => []TypeOK
<1>1. HandlerInv => TypeOK
  BY DEF HandlerInv
<1>2. QED BY <1>1, InitHandlerInv, NextHandlerInv, PTL DEF Spec

(* EvaluateAccess, which stops at the first row that grants and skips the  *)
(* rows it cannot evaluate, decides as the set of policies does, whatever  *)
(* the policies, their order and the requests, those without a client      *)
(* included; a policy with a null bound aside, it grants whatever they do. *)
THEOREM DecisionIsReference == Spec => []DecisionMatchesReference
<1>1. HandlerInv => DecisionMatchesReference
  <2> SUFFICES ASSUME HandlerInv PROVE DecisionMatchesReference
    OBVIOUS
  <2>1. policies \in Seq(DOMAIN Policies) /\ now \in Nat
    BY TypeParts, MaxTimeAssumption DEF HandlerInv, StoreTypeOK, PolicyTypeOK
  <2>2. QED BY <2>1, Decision DEF DecisionMatchesReference
<1>2. QED BY <1>1, InitHandlerInv, NextHandlerInv, PTL DEF Spec

(* handleTunnelCreate stores a tunnel that the session, the policies and   *)
(* the service of this moment do not justify only if one of them changed   *)
(* while it ran.                                                           *)
THEOREM StaleNeedsRace == Spec => StaleOnlyIfRaced
<1>1. HandlerInv /\ [Next]_vars =>
        [\A r \in Requests : CreateStore(r) =>
            /\ session[arg[r].token] = "valid" \/ "session" \in during[r]
            /\ \/ Granted(holder[arg[r].token], AccessRequest(arg[r]), now)
               \/ during[r] \cap {"policy", "time"} # {}
            /\ services[arg[r].service] = arg[r].target \/ "service" \in during[r]]_vars
  <2> SUFFICES ASSUME HandlerInv, NEW r \in Requests, CreateStore(r)
               PROVE  /\ session[arg[r].token] = "valid" \/ "session" \in during[r]
                      /\ \/ Granted(holder[arg[r].token], AccessRequest(arg[r]), now)
                         \/ during[r] \cap {"policy", "time"} # {}
                      /\ services[arg[r].service] = arg[r].target \/ "service" \in during[r]
    OBVIOUS
  <2>1. Founded(r) /\ pc[r] = "store"
    BY DEF HandlerInv, CreateStore
  <2>2. QED BY <2>1 DEF Founded, Justified
<1>2. QED BY <1>1, InitHandlerInv, NextHandlerInv, PTL DEF Spec, StaleOnlyIfRaced

(* handleHandshake refuses a certificate in its dates that nobody revoked  *)
(* only if another handshake registered it between this one's Validate and *)
(* its Register.                                                           *)
THEOREM RefusalNeedsRace == Spec => RefusedOnlyIfRaced
<1>1. IInv /\ HandlerInv /\ [Next]_vars =>
        [\A r \in Requests : HandshakeRefused(r) =>
            LET c == arg[r].cert
            IN  \/ c \in revoked \/ now < NotBefore[c] \/ now > NotAfter[c]
                \/ "registered" \in during[r]]_vars
  <2> SUFFICES ASSUME IInv, HandlerInv, NEW r \in Requests, HandshakeRefused(r)
               PROVE  \/ arg[r].cert \in revoked \/ now < NotBefore[arg[r].cert]
                      \/ now > NotAfter[arg[r].cert] \/ "registered" \in during[r]
    OBVIOUS
  <2>1. Refusable(r) /\ Founded(r) /\ pc[r] = "register" /\ record[arg[r].cert] # "none"
    BY DEF HandlerInv, HandshakeRefused, RegisterFails, Insertable
  <2>2. NotAfter[arg[r].cert] \in Nat /\ now \in Nat
    BY <2>1, CertAssumption, TypeParts, MaxTimeAssumption DEF HandlerInv, Founded, StoreTypeOK
  <2>3. record[arg[r].cert] = "revoked" => arg[r].cert \in revoked
    BY <2>1 DEF Founded, IInv, Registry, RevokedRows
  <2>4. QED BY <2>1, <2>2, <2>3 DEF Refusable
<1>2. QED
  BY <1>1, InitIInv, NextIInv, InitHandlerInv, NextHandlerInv, PTL DEF Spec, RefusedOnlyIfRaced
=============================================================================

------------------------------- MODULE Policy -------------------------------
(***************************************************************************)
(* The policy package: the table of policies, the evaluator of their       *)
(* conditions and the engine's decision.                                   *)
(*                                                                         *)
(* A policy is [client, service, expiry, conditions]; expiry 0 is Go's     *)
(* zero time, a policy without end.  A condition is [type, op, value].     *)
(* Values come back from the database as JSON, so a value is what          *)
(* json.Unmarshal makes of it: [k |-> kind, v |-> content] with the kinds  *)
(* "string", "bool", "number", "list" and "null".  A time in a list is of  *)
(* kind "time" when parseTime accepts it, be it a number or a string.      *)
(*                                                                         *)
(* An access request is [client, service, device, ip]; device is None or   *)
(* [os, compliance], ip says whether a source address was given.           *)
(***************************************************************************)
EXTENDS Clock, Sequences, FiniteSets

CONSTANTS
    Policies,   \* the policies somebody may save, by their IDs
    Lower,      \* names of operating systems to their lower case
    None

(* Nothing is said of the conditions' contents.                            *)
ASSUME PolicyAssumption ==
    /\ \A p \in DOMAIN Policies :
          /\ Policies[p].expiry \in Nat
          /\ DOMAIN Policies[p].conditions = 1 .. Len(Policies[p].conditions)
          /\ Len(Policies[p].conditions) \in Nat

VARIABLE policies   \* the IDs in the rows of the table, in the order of their keys

(* The client ID of a request that names nobody.                           *)
NoClient == ""

-----------------------------------------------------------------------------
(* The evaluator: a condition holds ("yes"), does not ("no"), cannot be    *)
(* evaluated ("error"), or ends the goroutine that evaluates it ("panic"). *)
Answer(b) == IF b THEN "yes" ELSE "no"

First(S) == CHOOSE i \in S : \A j \in S : i <= j

EqualFold(a, b) == Lower[a] = Lower[b]

DeviceOS(c, req) ==
    IF req.device = None THEN "no"
    ELSE CASE c.op = "eq" /\ c.value.k = "string" -> Answer(EqualFold(req.device.os, c.value.v))
           [] c.op = "ne" /\ c.value.k = "string" -> Answer(~EqualFold(req.device.os, c.value.v))
           [] c.op = "in" /\ c.value.k = "list" ->
                 Answer(\E i \in DOMAIN c.value.v :
                           c.value.v[i].k = "string" /\ EqualFold(req.device.os, c.value.v[i].v))
           [] OTHER -> "error"

(* The country of the address is never looked up: any list will do.        *)
GeoLocation(c, req) ==
    IF ~req.ip THEN "no"
    ELSE IF c.op = "in" /\ c.value.k = "list" THEN Answer(c.value.v # <<>>) ELSE "error"

(* The bounds are parsed in turn.  parseTime fails on what is no time, and *)
(* asking for the type of a null to say so panics.                         *)
TimeRange(c, t) ==
    LET bound == c.value.v
        unread == {i \in 1 .. 2 : bound[i].k # "time"}
    IN  IF ~(c.op = "between" /\ c.value.k = "list" /\ Len(bound) = 2) THEN "error"
        ELSE IF unread = {} THEN Answer(bound[1].v < t /\ t < bound[2].v)
        ELSE IF bound[First(unread)].k = "null" THEN "panic" ELSE "error"

DeviceCompliance(c, req) ==
    IF req.device = None THEN "no"
    ELSE IF c.op = "eq" /\ c.value.k = "bool"
         THEN Answer(req.device.compliance = c.value.v) ELSE "error"

EvaluateCondition(c, req, t) ==
    CASE c.type = "device_os"         -> DeviceOS(c, req)
      [] c.type = "geo_location"      -> GeoLocation(c, req)
      [] c.type = "time_range"        -> TimeRange(c, t)
      [] c.type = "device_compliance" -> DeviceCompliance(c, req)
      [] OTHER                        -> "error"

(* The conditions are tried in order until one is not a "yes".             *)
Evaluate(p, req, t) ==
    LET Result(i) == EvaluateCondition(p.conditions[i], req, t)
        stops == {i \in DOMAIN p.conditions : Result(i) # "yes"}
    IN  IF p.expiry # 0 /\ t > p.expiry THEN "no"
        ELSE IF stops = {} THEN "yes" ELSE Result(First(stops))

-----------------------------------------------------------------------------
(* The storage and the engine.                                             *)

(* The rows of a client whose policies have not expired; those of every    *)
(* client when the ID is empty, for QueryPolicies then has no such filter. *)
GetPoliciesForClient(client) ==
    {i \in DOMAIN policies :
        LET p == Policies[policies[i]]
        IN  /\ client = NoClient \/ p.client = client
            /\ p.expiry > now \/ p.expiry = 0}

(* Variant: a policy that cannot be evaluated ends the walk.               *)
ErrorEnds(found, req, t) ==
    {i \in found : /\ Policies[policies[i]].service = req.service
                   /\ Evaluate(Policies[policies[i]], req, t) # "no"}

(* The rows the loop does not pass over: of this service, and granting, or *)
(* a panic.                                                                *)
Deciding(found, req, t) ==
    {i \in found : /\ Policies[policies[i]].service = req.service
                   /\ Evaluate(Policies[policies[i]], req, t) \in {"yes", "panic"}}

(* EvaluateAccess for a request stamped t.                                 *)
EvaluateAccess(req, t) ==
    LET deciding == Deciding(GetPoliciesForClient(req.client), req, t)
    IN  IF deciding = {} THEN "no"
        ELSE Evaluate(Policies[policies[First(deciding)]], req, t)

(* SavePolicy makes a row without a key of its own, so the database        *)
(* inserts it; the unique index on the policy ID refuses a second one.     *)
SavePolicy(p) ==
    /\ \A i \in DOMAIN policies : policies[i] # p
    /\ policies' = Append(policies, p)

Without(rows, i) == SubSeq(rows, 1, i - 1) \o SubSeq(rows, i + 1, Len(rows))

DeletePolicy(p) ==
    \E i \in DOMAIN policies : policies[i] = p /\ policies' = Without(policies, i)

-----------------------------------------------------------------------------
(* Reference.  What a condition asks of a request: ...                     *)
SameOS(x, req) == x.k = "string" /\ Lower[x.v] = Lower[req.device.os]

Holds(c, req, t) ==
    \/ /\ c.type = "device_os" /\ req.device # None
       /\ \/ c.op = "eq" /\ SameOS(c.value, req)
          \/ c.op = "ne" /\ c.value.k = "string" /\ ~SameOS(c.value, req)
          \/ /\ c.op = "in" /\ c.value.k = "list"
             /\ \E i \in DOMAIN c.value.v : SameOS(c.value.v[i], req)
    \/ /\ c.type = "device_compliance" /\ req.device # None
       /\ c.op = "eq" /\ c.value.k = "bool" /\ c.value.v = req.device.compliance
    \/ /\ c.type = "geo_location" /\ req.ip
       /\ c.op = "in" /\ c.value.k = "list" /\ c.value.v # <<>>
    \/ /\ c.type = "time_range" /\ c.op = "between" /\ c.value.k = "list"
       /\ Len(c.value.v) = 2 /\ \A i \in 1 .. 2 : c.value.v[i].k = "time"
       /\ c.value.v[1].v < t /\ t < c.value.v[2].v

(* ... and access is a matter of the set of policies.  Somebody wrote a    *)
(* policy for this client and service, it has not ended, and each of its   *)
(* conditions holds.                                                       *)
Ended(p) == p.expiry # 0 /\ p.expiry <= now

Granted(client, req, t) ==
    \E i \in DOMAIN policies :
        LET p == Policies[policies[i]]
        IN  /\ p.client = client /\ p.service = req.service /\ ~Ended(p)
            /\ \A j \in DOMAIN p.conditions : Holds(p.conditions[j], req, t)

(* The clients a request asks for: one that names nobody asks for all.     *)
Meant(req) ==
    IF req.client = NoClient THEN {Policies[p].client : p \in DOMAIN Policies} ELSE {req.client}

(* A policy for this client and service has a time range with a null for a *)
(* bound, not hidden by a bound before it that is no time either.          *)
NullBound(c) ==
    /\ c.type = "time_range" /\ c.value.k = "list" /\ Len(c.value.v) = 2
    /\ \/ c.value.v[1].k = "null"
       \/ c.value.v[1].k = "time" /\ c.value.v[2].k = "null"

Unreadable(client, req) ==
    \E i \in DOMAIN policies :
        LET p == Policies[policies[i]]
        IN  /\ p.client = client /\ p.service = req.service
            /\ \E j \in DOMAIN p.conditions : NullBound(p.conditions[j])

(* A table: every ID once.                                                 *)
Distinct(rows) == \A i, j \in DOMAIN rows : rows[i] = rows[j] => i = j

PolicyTypeOK == policies \in Seq(DOMAIN Policies) /\ Distinct(policies)
=============================================================================

-------------------------- MODULE SessionLifecycle --------------------------
(***************************************************************************)
(* What the session manager promises about a token: it becomes valid at    *)
(* most once, and once it is dead (expired, revoked or cleaned up) it      *)
(* stays dead.                                                             *)
(***************************************************************************)
CONSTANT Tokens

VARIABLE status

Init == status = [t \in Tokens |-> "unborn"]

(* A token comes into being; a slow creator may publish it already expired. *)
Issue(t) ==
    /\ status[t] = "unborn"
    /\ \E s \in {"valid", "dead"} : status' = [status EXCEPT ![t] = s]

(* Time, a revocation or the cleanup ends the validity of some tokens.     *)
Die(D) ==
    /\ D \subseteq {t \in Tokens : status[t] = "valid"}
    /\ status' = [t \in Tokens |-> IF t \in D THEN "dead" ELSE status[t]]

Next == \/ \E t \in Tokens : Issue(t)
        \/ \E D \in SUBSET Tokens : Die(D)

Spec == Init /\ [][Next]_status
=============================================================================

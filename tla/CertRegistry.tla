---------------------------- MODULE CertRegistry ----------------------------
(***************************************************************************)
(* cert.Registry: one row of a SQL table for each registered fingerprint.  *)
(* The column has a unique index, so that a second registration fails.     *)
(* Every method is one critical section; the operators are actions that    *)
(* leave the caller's variables to the caller.                             *)
(***************************************************************************)
EXTENDS Clock

CONSTANTS
    Certs,      \* fingerprints
    NotBefore,  \* for each certificate, the first instant of its validity
    NotAfter    \* and the last

ASSUME CertAssumption ==
    NotBefore \in [Certs -> Nat] /\ NotAfter \in [Certs -> Nat]

VARIABLE record     \* the row's status, "none" without a row

RegistryInit == record = [c \in Certs |-> "none"]

(* Variant: a registration that replaces the row it finds.                 *)
Replaceable(c) == TRUE

(* The unique index admits a new row.                                      *)
Insertable(c) == record[c] = "none"

Register(c) ==
    /\ Insertable(c)
    /\ record' = [record EXCEPT ![c] = "active"]

RegisterFails(c) == ~Insertable(c) /\ UNCHANGED record

(* Variant: the last instant of the validity is outside it.                *)
ValidateBeforeEnd(c) ==
    /\ record[c] \notin {"none", "revoked"}
    /\ NotBefore[c] <= now /\ now < NotAfter[c]

(* Validate looks at the row's status for revocation only: an expired row  *)
(* is caught by the dates.                                                 *)
Validate(c) ==
    /\ record[c] \notin {"none", "revoked"}
    /\ NotBefore[c] <= now /\ now <= NotAfter[c]

Revoke(c) ==
    /\ record[c] # "none"
    /\ record' = [record EXCEPT ![c] = "revoked"]

CleanExpired ==
    record' = [c \in Certs |-> IF record[c] = "active" /\ NotAfter[c] < now
                               THEN "expired" ELSE record[c]]

RegistryTypeOK == record \in [Certs -> {"none", "active", "revoked", "expired"}]
=============================================================================

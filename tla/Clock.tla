-------------------------------- MODULE Clock --------------------------------
(* The clock the certificate registry, the policies and the tunnel IDs     *)
(* read.                                                                   *)
EXTENDS Naturals

CONSTANT MaxTime

ASSUME MaxTimeAssumption == MaxTime \in Nat

VARIABLE now

ClockInit == now = 0

Advance == now < MaxTime /\ now' = now + 1
=============================================================================

------------------------------ MODULE MCBroker ------------------------------
(* Broker for TLC: what may be permuted.                                   *)
EXTENDS Broker, TLC

Symmetry == Permutations(Sessions) \cup Permutations(Pairs)
            \cup Permutations(SessionIDs) \cup Permutations(AHStreams)
=============================================================================

--------------------------- MODULE MCTunnelRelay ---------------------------
(* TunnelRelay for model checking.                                         *)
EXTENDS TunnelRelay, TLC

(* Connections of one kind are interchangeable, and so are tunnels.           **)
Symmetry == Permutations(IHConns) \cup Permutations(AHConns) \cup Permutations(Tunnels)
=============================================================================

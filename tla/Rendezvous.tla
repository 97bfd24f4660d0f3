---------------------------- MODULE Rendezvous ----------------------------
(***************************************************************************)
(* What the controller's data plane promises the agents that meet there.   *)
(* A connection announces one tunnel.  A handler joins its connection to   *)
(* one of the other side that announced the same tunnel and whose own      *)
(* handler has not ended; a connection is taken by one handler at most,    *)
(* and neither an announcement nor a partner ever changes.                 *)
(***************************************************************************)
CONSTANTS IHConns, AHConns, OtherConns, Tunnels, None

VARIABLES
    announced,   \* the tunnel a connection has announced
    partner,     \* the connection its handler has taken
    ended        \* connections whose handler has ended

vars == <<announced, partner, ended>>

Conns == IHConns \cup AHConns \cup OtherConns

Opposed(c, d) == \/ c \in IHConns /\ d \in AHConns
                 \/ c \in AHConns /\ d \in IHConns

Init ==
    /\ announced = [c \in Conns |-> None]
    /\ partner = [c \in Conns |-> None]
    /\ ended = {}

Announce(c, t) ==
    /\ c \notin ended
    /\ announced[c] = None
    /\ announced' = [announced EXCEPT ![c] = t]
    /\ UNCHANGED <<partner, ended>>

Join(c, d) ==
    /\ c \notin ended /\ d \notin ended
    /\ Opposed(c, d)
    /\ announced[c] # None /\ announced[d] = announced[c]
    /\ partner[c] = None
    /\ \A x \in Conns : partner[x] # d
    /\ partner' = [partner EXCEPT ![c] = d]
    /\ UNCHANGED <<announced, ended>>

End(c) ==
    /\ ended' = ended \cup {c}
    /\ UNCHANGED <<announced, partner>>

Next == \/ \E c \in Conns, t \in Tunnels : Announce(c, t)
        \/ \E c, d \in Conns : Join(c, d)
        \/ \E c \in Conns : End(c)

Spec == Init /\ [][Next]_vars
=============================================================================

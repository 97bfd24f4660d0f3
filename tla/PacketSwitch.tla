---------------------------- MODULE PacketSwitch ----------------------------
(***************************************************************************)
(* What the stream broker promises about packets: a stream belongs to one  *)
(* session, packets are taken from a stream one after the other, and a     *)
(* packet that was taken is sent into at most one stream, at most once, a  *)
(* stream of the same session and of the other side.  Nothing is said of   *)
(* order and loss here.                                                    *)
(***************************************************************************)
EXTENDS Naturals, Sequences

CONSTANTS SessionIDs, IHStreams, AHStreams, None

VARIABLES
    registered,   \* the session of each stream
    taken,        \* number of packets taken from each stream
    delivered     \* packets sent into each stream

vars == <<registered, taken, delivered>>

Streams == IHStreams \cup AHStreams

Opposed(s, r) == \/ s \in IHStreams /\ r \in AHStreams
                 \/ s \in AHStreams /\ r \in IHStreams

Init ==
    /\ registered = [s \in Streams |-> None]
    /\ taken = [s \in Streams |-> 0]
    /\ delivered = [s \in Streams |-> <<>>]

Register(s, x) ==
    /\ registered[s] = None
    /\ registered' = [registered EXCEPT ![s] = x]
    /\ UNCHANGED <<taken, delivered>>

Take(s) ==
    /\ registered[s] # None
    /\ taken' = [taken EXCEPT ![s] = @ + 1]
    /\ UNCHANGED <<registered, delivered>>

Deliver(s, r, n) ==
    /\ registered[s] # None /\ registered[r] = registered[s] /\ Opposed(s, r)
    /\ \A t \in Streams : \A i \in DOMAIN delivered[t] : delivered[t][i] # <<r, n>>
    /\ delivered' = [delivered EXCEPT ![s] = Append(@, <<r, n>>)]
    /\ UNCHANGED <<registered, taken>>

Next == \/ \E s \in Streams, x \in SessionIDs : Register(s, x)
        \/ \E s \in Streams : Take(s)
        \/ \E s, r \in Streams : \E n \in 1 .. taken[r] : Deliver(s, r, n)

Spec == Init /\ [][Next]_vars
=============================================================================

------------------------- MODULE TunnelRelayProofs -------------------------
(***************************************************************************)
(* Proofs about TunnelRelay, for any number of connections, tunnels and    *)
(* callers of Stop.                                                        *)
(*                                                                         *)
(* PairingSound, PendingOwnerWaiting and TakenAtMostOnce are not inductive *)
(* each by itself.  The invariant below adds what ties them together: what *)
(* a handler's location says of its tunnel and its partner, that a taken   *)
(* connection has been parked before, and that it is listed nowhere any    *)
(* more.                                                                   *)
(***************************************************************************)
EXTENDS TunnelRelay, FiniteSetTheorems, TLAPS

(* Where a handler has not been in its map yet.                            *)
Unparked == {"none", "accepted", "rejected", "read", "lookup", "store"}

(* Where a handler has read its tunnel ID and not returned.                *)
Serving == {"lookup", "store", "wait", "unregister", "count", "relay", "relaying",
            "unwindOK", "unwindErr"}

(* Where a handler has taken a partner and not returned.                   *)
HasPeer == {"unregister", "count", "relay", "relaying", "unwindOK", "unwindErr"}

(* Where a handler is inside relayData.                                    *)
InRelay == {"relaying", "unwindOK", "unwindErr"}

(* The accept loop dispatches a connection nobody else handles yet.        *)
AcceptInv == acceptPC = "dispatch" => /\ acceptConn \in Conns
                                      /\ pc[acceptConn] = "accepted"

(* What a handler's location says of its tunnel and of its partner.        *)
PlaceInv ==
    \A c \in Conns :
        /\ pc[c] \in Serving => tunnelID[c] \in Tunnels /\ ClientType(c) \in Kinds
        /\ pc[c] \in Unparked \cup {"wait"} => peer[c] = None
        /\ pc[c] \in HasPeer => peer[c] # None

(* A partner was parked under the same tunnel on the other side.           *)
PeerInv ==
    \A c \in Conns : peer[c] # None =>
        /\ tunnelID[peer[c]] = tunnelID[c]
        /\ ClientType(c) \in Kinds
        /\ ClientType(peer[c]) = Opposite(ClientType(c))
        /\ pc[peer[c]] \notin Unparked

(* A connection that is listed has not been taken.                         *)
ListedInv ==
    \A k \in Kinds, t \in Tunnels, d \in Conns :
        pending[k][t] # None => peer[d] # pending[k][t]

StructInv == /\ AcceptInv
             /\ PlaceInv
             /\ PeerInv
             /\ PendingOwnerWaiting
             /\ ListedInv
             /\ TakenAtMostOnce

(* The inductive invariant.                                                *)
IInv == /\ TypeOK
        /\ StructInv
        /\ ActiveNeverUnderReports

-----------------------------------------------------------------------------
LEMMA OppositeKind ==
    ASSUME NEW k \in Kinds
    PROVE  /\ Opposite(k) \in Kinds
           /\ Opposite(Opposite(k)) = k
           /\ Opposite(k) # k
           /\ {k, Opposite(k)} = Kinds
BY DEF Kinds, Opposite

LEMMA NoneNotConn == None \notin Conns /\ None \notin Tunnels
BY ConnsAssumption

(* Relaying is a finite set of connections: its cardinality is a number.   *)
LEMMA RelayingFinite ==
    /\ IsFiniteSet(Relaying)
    /\ Cardinality(Relaying) \in Nat
BY ConnsAssumption, FS_Subset, FS_CardinalityType DEF Relaying

(* The three ways a step of one handler changes the set of relays.         *)
LEMMA RelayingKept ==
    ASSUME NEW c \in Conns, NEW l, pc \in [Conns -> Locations],
           pc[c] \notin InRelay, l \notin InRelay, pc' = [pc EXCEPT ![c] = l]
    PROVE  Relaying' = Relaying
BY DEF Relaying, InRelay

LEMMA RelayingGrows ==
    ASSUME NEW c \in Conns, pc \in [Conns -> Locations],
           pc[c] = "relay", pc' = [pc EXCEPT ![c] = "relaying"]
    PROVE  Cardinality(Relaying') = Cardinality(Relaying) + 1
<1>1. c \notin Relaying /\ Relaying' = Relaying \cup {c}
  BY DEF Relaying
<1>2. QED BY <1>1, RelayingFinite, FS_AddElement

LEMMA RelayingShrinks ==
    ASSUME NEW c \in Conns, NEW l, pc \in [Conns -> Locations],
           pc[c] \in InRelay, l \notin InRelay, pc' = [pc EXCEPT ![c] = l]
    PROVE  /\ Cardinality(Relaying') = Cardinality(Relaying) - 1
           /\ Cardinality(Relaying) >= 1
<1>1. c \in Relaying /\ Relaying' = Relaying \ {c}
  BY DEF Relaying, InRelay
<1>2. Cardinality(Relaying \ {c}) = Cardinality(Relaying) - 1
  BY <1>1, RelayingFinite, FS_RemoveElement
<1>3. Cardinality(Relaying) # 0
  BY <1>1, RelayingFinite, FS_EmptySet
<1>4. QED BY <1>1, <1>2, <1>3, RelayingFinite

LEMMA InitIInv == Init => IInv
<1> SUFFICES ASSUME Init PROVE IInv
  OBVIOUS
<1>1. TypeOK
  BY DEF Init, TypeOK, NoPending, Kinds, Locations
<1>2. StructInv
  <2>1. AcceptInv /\ PlaceInv /\ PeerInv
    BY DEF Init, AcceptInv, PlaceInv, PeerInv, Serving, HasPeer
  <2>2. PendingOwnerWaiting /\ ListedInv /\ TakenAtMostOnce
    BY DEF Init, PendingOwnerWaiting, ListedInv, TakenAtMostOnce, NoPending
  <2>3. QED BY <2>1, <2>2 DEF StructInv
<1>3. ActiveNeverUnderReports
  <2>1. Relaying = {}
    BY DEF Init, Relaying
  <2>2. QED BY <2>1, FS_EmptySet DEF Init, ActiveNeverUnderReports
<1>4. QED BY <1>1, <1>2, <1>3 DEF IInv

-----------------------------------------------------------------------------
(* Steps that leave handlers and maps alone.                               *)
LEMMA QuietStep ==
    ASSUME StructInv, UNCHANGED <<pc, tunnelID, peer, pending>>, AcceptInv'
    PROVE  StructInv'
BY DEF StructInv, PlaceInv, PeerInv, PendingOwnerWaiting, ListedInv, TakenAtMostOnce

(* A handler's own steps do not touch the connection being dispatched.     *)
LEMMA AcceptKept ==
    ASSUME TypeOK, AcceptInv, NEW c \in Conns, NEW l, pc[c] # "accepted",
           pc' = [pc EXCEPT ![c] = l], UNCHANGED acceptVars
    PROVE  AcceptInv'
BY DEF TypeOK, AcceptInv, acceptVars

(* Steps in which a handler that is not listed only changes its location.  *)
LEMMA MoveStep ==
    ASSUME TypeOK, StructInv, NEW c \in Conns, NEW l,
           pc' = [pc EXCEPT ![c] = l],
           UNCHANGED <<tunnelID, peer, pending>>,
           AcceptInv',
           pc[c] \notin {"wait", "unregister"},
           l \in Serving => pc[c] \in Serving,
           l \in HasPeer => pc[c] \in HasPeer,
           l \in Unparked => pc[c] \in Unparked,
           l # "wait"
    PROVE  StructInv'
<1>1. PlaceInv'
  BY DEF TypeOK, StructInv, PlaceInv
<1>2. PeerInv'
  BY NoneNotConn DEF TypeOK, StructInv, PeerInv
<1>3. PendingOwnerWaiting'
  BY DEF TypeOK, StructInv, PendingOwnerWaiting
<1>4. ListedInv' /\ TakenAtMostOnce'
  BY DEF StructInv, ListedInv, TakenAtMostOnce
<1>5. QED BY <1>1, <1>2, <1>3, <1>4 DEF StructInv

(* LoadAndDelete with a hit: the partner leaves the map for good.          *)
LEMMA TakeStep ==
    ASSUME TypeOK, StructInv, NEW c \in Conns, NEW l,
           \/ pc[c] = "lookup" /\ l = "count"
           \/ pc[c] = "wait" /\ l = "unregister",
           Partner(c) # None, TakePartner(c),
           pc' = [pc EXCEPT ![c] = l], tunnelID' = tunnelID, AcceptInv'
    PROVE  StructInv'
<1> DEFINE k == Opposite(ClientType(c))
           t == tunnelID[c]
           x == pending[k][t]
<1>1. t \in Tunnels /\ ClientType(c) \in Kinds /\ peer[c] = None
  BY DEF StructInv, PlaceInv, Serving, Unparked
<1>2. k \in Kinds /\ k # ClientType(c) /\ Opposite(k) = ClientType(c)
  BY <1>1, OppositeKind
<1>3. x \in Conns /\ x # None
  BY <1>1, <1>2 DEF TypeOK, Partner
<1>4. /\ pc[x] \in {"wait", "unregister"}
      /\ ClientType(x) = k
      /\ tunnelID[x] = t
      /\ x # c
      /\ \A d \in Conns : peer[d] # x
  BY <1>1, <1>2, <1>3 DEF StructInv, PendingOwnerWaiting, ListedInv
<1>5. peer' = [peer EXCEPT ![c] = x] /\ pending' = [pending EXCEPT ![k][t] = None]
  BY DEF TakePartner, Partner, Put
<1> HIDE DEF k, t, x
<1>6. PlaceInv'
  BY <1>1, <1>3, <1>5 DEF TypeOK, StructInv, PlaceInv, Serving, Unparked, HasPeer
<1>7. PeerInv'
  <2> SUFFICES ASSUME NEW d \in Conns, peer'[d] # None
               PROVE  /\ tunnelID'[peer'[d]] = tunnelID'[d]
                      /\ ClientType(d) \in Kinds
                      /\ ClientType(peer'[d]) = Opposite(ClientType(d))
                      /\ pc'[peer'[d]] \notin Unparked
    BY DEF PeerInv
  <2>1. CASE d = c
    <3>1. peer'[d] = x
      BY <1>5, <2>1 DEF TypeOK
    <3>2. pc'[x] \notin Unparked
      BY <1>4, <1>3 DEF TypeOK, Unparked
    <3>3. k = Opposite(ClientType(c)) /\ t = tunnelID[c]
      BY DEF k, t
    <3>4. QED BY <1>1, <1>4, <2>1, <3>1, <3>2, <3>3
  <2>2. CASE d # c
    <3>1. peer'[d] = peer[d] /\ peer[d] \in Conns
      BY <1>5, <2>2 DEF TypeOK
    <3>2. pc'[peer[d]] \notin Unparked
      BY <3>1 DEF TypeOK, StructInv, PeerInv, Unparked
    <3>3. QED BY <3>1, <3>2 DEF StructInv, PeerInv
  <2>3. QED BY <2>1, <2>2
<1>8. PendingOwnerWaiting'
  <2> SUFFICES ASSUME NEW kk \in Kinds, NEW tt \in Tunnels, pending'[kk][tt] # None
               PROVE  /\ pc'[pending'[kk][tt]] \in {"wait", "unregister"}
                      /\ ClientType(pending'[kk][tt]) = kk
                      /\ tunnelID'[pending'[kk][tt]] = tt
    BY DEF PendingOwnerWaiting
  <2>1. pending'[kk][tt] = pending[kk][tt] /\ pending[kk][tt] \in Conns
    BY <1>1, <1>2, <1>5 DEF TypeOK
  <2>2. pc[c] = "lookup" => pending[kk][tt] # c
    BY <2>1 DEF StructInv, PendingOwnerWaiting
  <2>3. QED BY <2>1, <2>2 DEF TypeOK, StructInv, PendingOwnerWaiting
<1>9. ListedInv'
  <2> SUFFICES ASSUME NEW kk \in Kinds, NEW tt \in Tunnels, NEW d \in Conns,
                      pending'[kk][tt] # None
               PROVE  peer'[d] # pending'[kk][tt]
    BY DEF ListedInv
  <2>1. pending'[kk][tt] = pending[kk][tt] /\ pending[kk][tt] \in Conns
    BY <1>1, <1>2, <1>5 DEF TypeOK
  <2>2. ~(kk = k /\ tt = t)
    BY <1>1, <1>2, <1>5 DEF TypeOK
  <2>3. pending[kk][tt] # x
    BY <1>4, <2>1, <2>2 DEF StructInv, PendingOwnerWaiting
  <2>4. QED BY <1>5, <2>1, <2>3 DEF TypeOK, StructInv, ListedInv
<1>10. TakenAtMostOnce'
  BY <1>4, <1>5 DEF TypeOK, StructInv, TakenAtMostOnce
<1>11. QED BY <1>6, <1>7, <1>8, <1>9, <1>10 DEF StructInv

(* Deleting an entry of a map never hurts.                                 *)
LEMMA DeleteStep ==
    ASSUME TypeOK, StructInv, NEW k \in Kinds, NEW t \in Tunnels,
           Put(k, t, None), UNCHANGED <<pc, tunnelID, peer>>, AcceptInv'
    PROVE  StructInv'
<1>1. \A kk \in Kinds, tt \in Tunnels :
         pending'[kk][tt] # None => pending'[kk][tt] = pending[kk][tt]
  BY DEF TypeOK, Put
<1>2. PlaceInv' /\ PeerInv' /\ TakenAtMostOnce'
  BY DEF StructInv, PlaceInv, PeerInv, TakenAtMostOnce
<1>3. PendingOwnerWaiting'
  BY <1>1 DEF StructInv, PendingOwnerWaiting
<1>4. ListedInv'
  BY <1>1 DEF StructInv, ListedInv
<1>5. QED BY <1>2, <1>3, <1>4 DEF StructInv

(* A waiter deletes under its own key and leaves its wait loop.            *)
LEMMA LeaveStep ==
    ASSUME TypeOK, StructInv, NEW c \in Conns, NEW l,
           \/ pc[c] = "wait" /\ l = "retErr"
           \/ pc[c] = "unregister" /\ l \in {"count", "relay"},
           DeleteOwn(c), pc' = [pc EXCEPT ![c] = l],
           UNCHANGED <<tunnelID, peer>>, AcceptInv'
    PROVE  StructInv'
<1>1. tunnelID[c] \in Tunnels /\ ClientType(c) \in Kinds
  BY DEF StructInv, PlaceInv, Serving
<1>2. pending' = [pending EXCEPT ![ClientType(c)][tunnelID[c]] = None]
  BY DEF DeleteOwn, Put
<1>3. \A kk \in Kinds, tt \in Tunnels :
         pending'[kk][tt] # None => /\ pending'[kk][tt] = pending[kk][tt]
                                    /\ ~(kk = ClientType(c) /\ tt = tunnelID[c])
  BY <1>1, <1>2 DEF TypeOK
<1>4. PlaceInv'
  BY DEF TypeOK, StructInv, PlaceInv, Serving, Unparked, HasPeer
<1>5. PeerInv'
  BY NoneNotConn DEF TypeOK, StructInv, PeerInv, Unparked
<1>6. PendingOwnerWaiting'
  <2> SUFFICES ASSUME NEW kk \in Kinds, NEW tt \in Tunnels, pending'[kk][tt] # None
               PROVE  /\ pc'[pending'[kk][tt]] \in {"wait", "unregister"}
                      /\ ClientType(pending'[kk][tt]) = kk
                      /\ tunnelID'[pending'[kk][tt]] = tt
    BY DEF PendingOwnerWaiting
  <2>1. pending[kk][tt] # c /\ pending[kk][tt] \in Conns
    BY <1>3 DEF TypeOK, StructInv, PendingOwnerWaiting
  <2>2. QED BY <1>3, <2>1 DEF TypeOK, StructInv, PendingOwnerWaiting
<1>7. ListedInv' /\ TakenAtMostOnce'
  BY <1>3 DEF StructInv, ListedInv, TakenAtMostOnce
<1>8. QED BY <1>4, <1>5, <1>6, <1>7 DEF StructInv

(* A handler that nobody has taken enters its map.                         *)
LEMMA StoreStep ==
    ASSUME TypeOK, StructInv, NEW c \in Conns, pc[c] = "store",
           Put(ClientType(c), tunnelID[c], c), pc' = [pc EXCEPT ![c] = "wait"],
           UNCHANGED <<tunnelID, peer>>, AcceptInv'
    PROVE  StructInv'
<1>1. tunnelID[c] \in Tunnels /\ ClientType(c) \in Kinds /\ peer[c] = None
  BY DEF StructInv, PlaceInv, Serving, Unparked
<1>2. \A d \in Conns : peer[d] # c
  BY NoneNotConn DEF StructInv, PeerInv, Unparked
<1>3. pending' = [pending EXCEPT ![ClientType(c)][tunnelID[c]] = c]
  BY DEF Put
<1>4. \A kk \in Kinds, tt \in Tunnels :
         \/ pending'[kk][tt] = c /\ kk = ClientType(c) /\ tt = tunnelID[c]
         \/ pending'[kk][tt] = pending[kk][tt]
  BY <1>1, <1>3 DEF TypeOK
<1>5. PlaceInv'
  BY <1>1 DEF TypeOK, StructInv, PlaceInv, Serving, Unparked, HasPeer
<1>6. PeerInv'
  BY NoneNotConn DEF TypeOK, StructInv, PeerInv, Unparked
<1>7. PendingOwnerWaiting'
  BY <1>4 DEF TypeOK, StructInv, PendingOwnerWaiting
<1>8. ListedInv' /\ TakenAtMostOnce'
  BY <1>2, <1>4 DEF StructInv, ListedInv, TakenAtMostOnce
<1>9. QED BY <1>5, <1>6, <1>7, <1>8 DEF StructInv

(* The tunnel ID of a handler that nobody has taken becomes known.         *)
LEMMA ReadStep ==
    ASSUME TypeOK, StructInv, NEW c \in Conns, NEW t \in Tunnels, pc[c] = "read",
           tunnelID' = [tunnelID EXCEPT ![c] = t],
           pc' = [pc EXCEPT ![c] = IF ClientType(c) = "unknown"
                                   THEN "retErr" ELSE "lookup"],
           UNCHANGED <<peer, pending>>, AcceptInv'
    PROVE  StructInv'
<1>1. ClientType(c) \in Kinds \cup {"unknown"}
  BY DEF ClientType, Kinds
<1>2. peer[c] = None
  BY DEF StructInv, PlaceInv, Unparked
<1>3. \A d \in Conns : peer[d] # c
  BY NoneNotConn DEF StructInv, PeerInv, Unparked
<1>4. PlaceInv'
  BY <1>1, <1>2 DEF TypeOK, StructInv, PlaceInv, Serving, Unparked, HasPeer
<1>5. PeerInv'
  BY <1>2, <1>3 DEF TypeOK, StructInv, PeerInv
<1>6. PendingOwnerWaiting'
  BY DEF TypeOK, StructInv, PendingOwnerWaiting
<1>7. ListedInv' /\ TakenAtMostOnce'
  BY DEF StructInv, ListedInv, TakenAtMostOnce
<1>8. QED BY <1>4, <1>5, <1>6, <1>7 DEF StructInv

-----------------------------------------------------------------------------
(* Every step preserves the invariant.  Each action keeps the types, then  *)
(* falls under one of the lemmas above; only RelayStart and Unwind change  *)
(* the set of relays, and the counter with it.                             *)
LEMMA NextIInv == IInv /\ [Next]_vars => IInv'
<1> SUFFICES ASSUME IInv, [Next]_vars PROVE IInv'
  OBVIOUS
<1> USE DEF tunnelVars, serverVars, handlerVars, connVars, statVars, acceptVars,
            cleanVars, stopVars
<1>a. TypeOK /\ StructInv /\ AcceptInv /\ PlaceInv /\ ActiveNeverUnderReports
  BY DEF IInv, StructInv
<1>b. ASSUME Relaying' = Relaying, activeTunnels' >= activeTunnels, activeTunnels' \in Nat
      PROVE  ActiveNeverUnderReports'
  BY <1>a, <1>b, RelayingFinite DEF ActiveNeverUnderReports, TypeOK
<1>1. ASSUME StartTLS
     PROVE  IInv'
  <2>1. TypeOK'
    BY <1>a, <1>1 DEF TypeOK, StartTLS
  <2>2. UNCHANGED <<pc, tunnelID, peer, pending, activeTunnels>> /\ AcceptInv'
    BY <1>a, <1>1 DEF StartTLS, AcceptInv
  <2>3. ActiveNeverUnderReports'
    BY <1>a, <1>b, <2>2 DEF Relaying, TypeOK
  <2>4. QED BY <1>a, <2>1, <2>2, <2>3, QuietStep DEF IInv
<1>2. ASSUME NEW c \in Conns, Accept(c)
     PROVE  IInv'
  <2>1. PICK l \in {"accepted"} : /\ pc' = [pc EXCEPT ![c] = l]
                                /\ UNCHANGED <<tunnelID, peer, pending>>
    BY <1>2 DEF Accept, Goto
  <2>2. AcceptInv'
    BY <1>a, <2>1, <1>2 DEF Accept, AcceptInv, TypeOK
  <2>3. StructInv'
    BY <1>a, <1>2, <2>1, <2>2, MoveStep DEF Accept, Serving, HasPeer, Unparked
  <2>4. TypeOK'
    BY <1>a, <1>2 DEF TypeOK, Accept, Goto, Locations
  <2>5. Relaying' = Relaying
    BY <1>a, <1>2, <2>1, RelayingKept DEF TypeOK, Accept, InRelay
  <2>6. ActiveNeverUnderReports'
    BY <1>a, <1>b, <1>2, <2>4, <2>5 DEF Accept, TypeOK
  <2>7. QED BY <2>3, <2>4, <2>6 DEF IInv
<1>3. ASSUME AcceptError
     PROVE  IInv'
  <2>1. TypeOK'
    BY <1>a, <1>3 DEF TypeOK, AcceptError
  <2>2. UNCHANGED <<pc, tunnelID, peer, pending, activeTunnels>> /\ AcceptInv'
    BY <1>a, <1>3 DEF AcceptError, AcceptInv
  <2>3. ActiveNeverUnderReports'
    BY <1>a, <1>b, <2>2 DEF Relaying, TypeOK
  <2>4. QED BY <1>a, <2>1, <2>2, <2>3, QuietStep DEF IInv
<1>4. ASSUME Dispatch
     PROVE  IInv'
  <2>1. PICK l \in {"rejected", "read"} : /\ pc' = [pc EXCEPT ![acceptConn] = l]
                                /\ UNCHANGED <<tunnelID, peer, pending>>
    BY <1>4 DEF Dispatch, Goto
  <2>2. AcceptInv'
    BY <1>4 DEF Dispatch, AcceptInv
  <2>3. StructInv'
    BY <1>a, <1>4, <2>1, <2>2, MoveStep DEF Dispatch, Serving, HasPeer, Unparked, AcceptInv
  <2>4. TypeOK'
    BY <1>a, <1>4 DEF TypeOK, Dispatch, Goto, Locations, AcceptInv
  <2>5. Relaying' = Relaying
    BY <1>a, <1>4, <2>1, RelayingKept DEF TypeOK, Dispatch, InRelay, AcceptInv
  <2>6. ActiveNeverUnderReports'
    BY <1>a, <1>b, <1>4, <2>4, <2>5 DEF Dispatch, TypeOK
  <2>7. QED BY <2>3, <2>4, <2>6 DEF IInv
<1>5. ASSUME NEW c \in Conns, NEW t \in Tunnels, ReadTunnelID(c, t)
     PROVE  IInv'
  <2>1. AcceptInv'
    BY <1>a, <1>5, AcceptKept DEF ReadTunnelID, Goto
  <2>2. StructInv'
    BY <1>a, <1>5, <2>1, ReadStep DEF ReadTunnelID, Goto
  <2>3. TypeOK'
    BY <1>a, <1>5 DEF TypeOK, ReadTunnelID, Goto, Locations
  <2>4. Relaying' = Relaying
    BY <1>a, <1>5, RelayingKept DEF TypeOK, ReadTunnelID, Goto, InRelay
  <2>5. ActiveNeverUnderReports'
    BY <1>a, <1>b, <1>5, <2>3, <2>4 DEF ReadTunnelID, TypeOK
  <2>6. QED BY <2>2, <2>3, <2>5 DEF IInv
<1>6. ASSUME NEW c \in Conns, ReadFail(c)
     PROVE  IInv'
  <2>1. PICK l \in {"retErr"} : /\ pc' = [pc EXCEPT ![c] = l]
                                /\ UNCHANGED <<tunnelID, peer, pending>>
    BY <1>6 DEF ReadFail, Goto
  <2>2. AcceptInv'
    BY <1>a, <1>6, <2>1, AcceptKept DEF ReadFail
  <2>3. StructInv'
    BY <1>a, <1>6, <2>1, <2>2, MoveStep DEF ReadFail, Serving, HasPeer, Unparked
  <2>4. TypeOK'
    BY <1>a, <1>6 DEF TypeOK, ReadFail, Goto, Locations
  <2>5. Relaying' = Relaying
    BY <1>a, <1>6, <2>1, RelayingKept DEF TypeOK, ReadFail, InRelay
  <2>6. ActiveNeverUnderReports'
    BY <1>a, <1>b, <1>6, <2>4, <2>5 DEF ReadFail, TypeOK
  <2>7. QED BY <2>3, <2>4, <2>6 DEF IInv
<1>7. ASSUME NEW c \in Conns, Lookup(c)
     PROVE  IInv'
  <2>1. AcceptInv'
    BY <1>a, <1>7, AcceptKept DEF Lookup, Goto
  <2>2. CASE Partner(c) # None
    <3>1. TakePartner(c) /\ pc' = [pc EXCEPT ![c] = "count"] /\ tunnelID' = tunnelID
      BY <1>7, <2>2 DEF Lookup, Goto
    <3>2. StructInv'
      BY <1>a, <1>7, <2>1, <2>2, <3>1, TakeStep DEF Lookup
    <3>3. Partner(c) \in Conns /\ peer' \in [Conns -> Conns \cup {None}]
             /\ pending' \in [Kinds -> [Tunnels -> Conns \cup {None}]]
      BY <1>a, <1>7, <2>2, <3>1, OppositeKind
         DEF TypeOK, Lookup, PlaceInv, Serving, Partner, TakePartner, Put
    <3>4. TypeOK'
      BY <1>a, <1>7, <3>1, <3>3 DEF TypeOK, Lookup, Locations
    <3>5. Relaying' = Relaying
      BY <1>a, <1>7, <3>1, RelayingKept DEF TypeOK, Lookup, InRelay
    <3>6. QED BY <1>a, <1>b, <1>7, <3>2, <3>4, <3>5 DEF IInv, Lookup, TypeOK
  <2>3. CASE Partner(c) = None
    <3>1. pc' = [pc EXCEPT ![c] = "store"] /\ UNCHANGED <<tunnelID, peer, pending>>
      BY <1>7, <2>3 DEF Lookup, Goto
    <3>2. StructInv'
      BY <1>a, <1>7, <2>1, <3>1, MoveStep DEF Lookup, Serving, HasPeer, Unparked
    <3>3. TypeOK'
      BY <1>a, <1>7, <3>1 DEF TypeOK, Lookup, Locations
    <3>4. Relaying' = Relaying
      BY <1>a, <1>7, <3>1, RelayingKept DEF TypeOK, Lookup, InRelay
    <3>5. QED BY <1>a, <1>b, <1>7, <3>2, <3>3, <3>4 DEF IInv, Lookup, TypeOK
  <2>4. QED BY <2>2, <2>3
<1>8. ASSUME NEW c \in Conns, Store(c)
     PROVE  IInv'
  <2>1. AcceptInv'
    BY <1>a, <1>8, AcceptKept DEF Store, Goto
  <2>2. StructInv'
    BY <1>a, <1>8, <2>1, StoreStep DEF Store, Goto
  <2>3. TypeOK'
    BY <1>a, <1>8 DEF TypeOK, Store, Goto, Locations, Put, PlaceInv, Serving
  <2>4. Relaying' = Relaying
    BY <1>a, <1>8, RelayingKept DEF TypeOK, Store, Goto, InRelay
  <2>5. ActiveNeverUnderReports'
    BY <1>a, <1>b, <1>8, <2>3, <2>4 DEF Store, TypeOK
  <2>6. QED BY <2>2, <2>3, <2>5 DEF IInv
<1>9. ASSUME NEW c \in Conns, Tick(c)
     PROVE  IInv'
  <2>1. AcceptInv'
    BY <1>a, <1>9, AcceptKept DEF Tick, Goto
  <2>2. StructInv'
    BY <1>a, <1>9, <2>1, TakeStep DEF Tick, Goto
  <2>3. /\ peer' \in [Conns -> Conns \cup {None}]
        /\ pending' \in [Kinds -> [Tunnels -> Conns \cup {None}]]
    BY <1>a, <1>9, OppositeKind
       DEF TypeOK, Tick, PlaceInv, Serving, Partner, TakePartner, Put
  <2>4. TypeOK'
    BY <1>a, <1>9, <2>3 DEF TypeOK, Tick, Goto, Locations
  <2>5. Relaying' = Relaying
    BY <1>a, <1>9, RelayingKept DEF TypeOK, Tick, Goto, InRelay
  <2>6. QED BY <1>a, <1>b, <1>9, <2>2, <2>4, <2>5 DEF IInv, Tick, TypeOK
<1>10. ASSUME NEW c \in Conns, Unregister(c)
     PROVE  IInv'
  <2>1. AcceptInv'
    BY <1>a, <1>10, AcceptKept DEF Unregister, Goto
  <2>2. StructInv'
    BY <1>a, <1>10, <2>1, LeaveStep DEF Unregister, Goto
  <2>3. TypeOK'
    BY <1>a, <1>10 DEF TypeOK, Unregister, Goto, Locations, DeleteOwn, Put, PlaceInv, Serving
  <2>4. Relaying' = Relaying
    BY <1>a, <1>10, RelayingKept DEF TypeOK, Unregister, Goto, InRelay
  <2>5. ActiveNeverUnderReports'
    BY <1>a, <1>b, <1>10, <2>3, <2>4 DEF Unregister, TypeOK
  <2>6. QED BY <2>2, <2>3, <2>5 DEF IInv
<1>11. ASSUME NEW c \in Conns, Timeout(c)
     PROVE  IInv'
  <2>1. AcceptInv'
    BY <1>a, <1>11, AcceptKept DEF Timeout, Goto
  <2>2. StructInv'
    BY <1>a, <1>11, <2>1, LeaveStep DEF Timeout, Goto
  <2>3. TypeOK'
    BY <1>a, <1>11 DEF TypeOK, Timeout, Goto, Locations, DeleteOwn, Put, PlaceInv, Serving
  <2>4. Relaying' = Relaying
    BY <1>a, <1>11, RelayingKept DEF TypeOK, Timeout, Goto, InRelay
  <2>5. ActiveNeverUnderReports'
    BY <1>a, <1>b, <1>11, <2>3, <2>4 DEF Timeout, TypeOK
  <2>6. QED BY <2>2, <2>3, <2>5 DEF IInv
<1>12. ASSUME NEW c \in Conns, Count(c)
     PROVE  IInv'
  <2>1. PICK l \in {"relay"} : /\ pc' = [pc EXCEPT ![c] = l]
                                /\ UNCHANGED <<tunnelID, peer, pending>>
    BY <1>12 DEF Count, Goto
  <2>2. AcceptInv'
    BY <1>a, <1>12, <2>1, AcceptKept DEF Count
  <2>3. StructInv'
    BY <1>a, <1>12, <2>1, <2>2, MoveStep DEF Count, Serving, HasPeer, Unparked
  <2>4. TypeOK'
    BY <1>a, <1>12 DEF TypeOK, Count, Goto, Locations
  <2>5. Relaying' = Relaying
    BY <1>a, <1>12, <2>1, RelayingKept DEF TypeOK, Count, InRelay
  <2>6. ActiveNeverUnderReports'
    BY <1>a, <1>b, <1>12, <2>4, <2>5 DEF Count, TypeOK
  <2>7. QED BY <2>3, <2>4, <2>6 DEF IInv
<1>13. ASSUME NEW c \in Conns, RelayStart(c)
     PROVE  IInv'
  <2>1. PICK l \in {"relaying"} : /\ pc' = [pc EXCEPT ![c] = l]
                                /\ UNCHANGED <<tunnelID, peer, pending>>
    BY <1>13 DEF RelayStart, Goto
  <2>2. AcceptInv'
    BY <1>a, <1>13, <2>1, AcceptKept DEF RelayStart
  <2>3. StructInv'
    BY <1>a, <1>13, <2>1, <2>2, MoveStep DEF RelayStart, Serving, HasPeer, Unparked
  <2>4. TypeOK'
    BY <1>a, <1>13 DEF TypeOK, RelayStart, Goto, Locations
  <2>5. Cardinality(Relaying') = Cardinality(Relaying) + 1
    BY <1>a, <1>13, RelayingGrows DEF TypeOK, RelayStart, Goto
  <2>6. ActiveNeverUnderReports'
    BY <1>a, <1>13, <2>5, RelayingFinite DEF RelayStart, ActiveNeverUnderReports, TypeOK
  <2>7. QED BY <2>3, <2>4, <2>6 DEF IInv
<1>14. ASSUME NEW c \in Conns, NEW failed \in BOOLEAN, RelayEnd(c, failed)
     PROVE  IInv'
  <2>1. PICK l \in {"unwindOK", "unwindErr"} : /\ pc' = [pc EXCEPT ![c] = l]
                                /\ UNCHANGED <<tunnelID, peer, pending>>
    BY <1>14 DEF RelayEnd, Goto
  <2>2. AcceptInv'
    BY <1>a, <1>14, <2>1, AcceptKept DEF RelayEnd
  <2>3. StructInv'
    BY <1>a, <1>14, <2>1, <2>2, MoveStep DEF RelayEnd, Serving, HasPeer, Unparked
  <2>4. TypeOK'
    BY <1>a, <1>14 DEF TypeOK, RelayEnd, Goto, Locations
  <2>5. Relaying' = Relaying
    BY <1>a, <1>14 DEF TypeOK, RelayEnd, Goto, Relaying
  <2>6. ActiveNeverUnderReports'
    BY <1>a, <1>b, <1>14, <2>4, <2>5 DEF RelayEnd, TypeOK
  <2>7. QED BY <2>3, <2>4, <2>6 DEF IInv
<1>15. ASSUME NEW c \in Conns, Unwind(c)
     PROVE  IInv'
  <2>1. PICK l \in {"retOK", "retErr"} : /\ pc' = [pc EXCEPT ![c] = l]
                                /\ UNCHANGED <<tunnelID, peer, pending>>
    BY <1>15 DEF Unwind, Goto
  <2>2. AcceptInv'
    BY <1>a, <1>15, <2>1, AcceptKept DEF Unwind
  <2>3. StructInv'
    BY <1>a, <1>15, <2>1, <2>2, MoveStep DEF Unwind, Serving, HasPeer, Unparked
  <2>4. /\ Cardinality(Relaying') = Cardinality(Relaying) - 1
        /\ Cardinality(Relaying) >= 1
    BY <1>a, <1>15, <2>1, RelayingShrinks DEF TypeOK, Unwind, InRelay
  <2>5. activeTunnels' \in Nat
    BY <1>a, <1>15, <2>4, RelayingFinite DEF Unwind, Uncount, ActiveNeverUnderReports, TypeOK
  <2>6. ActiveNeverUnderReports'
    BY <1>a, <1>15, <2>4, RelayingFinite DEF Unwind, Uncount, ActiveNeverUnderReports, TypeOK
  <2>7. TypeOK'
    BY <1>a, <1>15, <2>5 DEF TypeOK, Unwind, Goto, Locations
  <2>8. QED BY <2>3, <2>6, <2>7 DEF IInv
<1>16. ASSUME NEW c \in Conns, Return(c)
     PROVE  IInv'
  <2>1. PICK l \in {"done"} : /\ pc' = [pc EXCEPT ![c] = l]
                                /\ UNCHANGED <<tunnelID, peer, pending>>
    BY <1>16 DEF Return, Goto, WgDone
  <2>2. AcceptInv'
    BY <1>a, <1>16, <2>1, AcceptKept DEF Return
  <2>3. StructInv'
    BY <1>a, <1>16, <2>1, <2>2, MoveStep DEF Return, Serving, HasPeer, Unparked
  <2>4. TypeOK'
    BY <1>a, <1>16 DEF TypeOK, Return, Goto, Locations, WgDone
  <2>5. Relaying' = Relaying
    BY <1>a, <1>16, <2>1, RelayingKept DEF TypeOK, Return, InRelay
  <2>6. ActiveNeverUnderReports'
    BY <1>a, <1>b, <1>16, <2>4, <2>5 DEF Return, TypeOK
  <2>7. QED BY <2>3, <2>4, <2>6 DEF IInv
<1>17. ASSUME NEW c \in Conns, Expire(c)
     PROVE  IInv'
  <2>1. TypeOK'
    BY <1>a, <1>17 DEF TypeOK, Expire
  <2>2. UNCHANGED <<pc, tunnelID, peer, pending, activeTunnels>> /\ AcceptInv'
    BY <1>a, <1>17 DEF Expire, AcceptInv
  <2>3. ActiveNeverUnderReports'
    BY <1>a, <1>b, <2>2 DEF Relaying, TypeOK
  <2>4. QED BY <1>a, <2>1, <2>2, <2>3, QuietStep DEF IInv
<1>18a. ASSUME NEW k \in Kinds, NEW t \in Tunnels, CleanLoad(k, t)
     PROVE  IInv'
  <2>1. TypeOK'
    BY <1>a, <1>18a DEF TypeOK, CleanLoad
  <2>2. UNCHANGED <<pc, tunnelID, peer, pending, activeTunnels>> /\ AcceptInv'
    BY <1>a, <1>18a DEF CleanLoad, AcceptInv
  <2>3. ActiveNeverUnderReports'
    BY <1>a, <1>b, <2>2 DEF Relaying, TypeOK
  <2>4. QED BY <1>a, <2>1, <2>2, <2>3, QuietStep DEF IInv
<1>18. ASSUME CleanClose
     PROVE  IInv'
  <2>1. TypeOK'
    BY <1>a, <1>18 DEF TypeOK, CleanClose
  <2>2. UNCHANGED <<pc, tunnelID, peer, pending, activeTunnels>> /\ AcceptInv'
    BY <1>a, <1>18 DEF CleanClose, AcceptInv
  <2>3. ActiveNeverUnderReports'
    BY <1>a, <1>b, <2>2 DEF Relaying, TypeOK
  <2>4. QED BY <1>a, <2>1, <2>2, <2>3, QuietStep DEF IInv
<1>19. ASSUME CleanDelete
     PROVE  IInv'
  <2>1. PICK k \in Kinds, t \in Tunnels : Put(k, t, None)
    BY <1>a, <1>19 DEF CleanDelete, TypeOK
  <2>2. UNCHANGED <<pc, tunnelID, peer, activeTunnels>> /\ AcceptInv'
    BY <1>a, <1>19 DEF CleanDelete, AcceptInv
  <2>3. StructInv'
    BY <1>a, <2>1, <2>2, DeleteStep
  <2>4. TypeOK'
    BY <1>a, <1>19, <2>1 DEF TypeOK, CleanDelete, Put
  <2>5. QED BY <1>a, <1>b, <2>2, <2>3, <2>4 DEF IInv, Relaying, TypeOK
<1>20. ASSUME CleanStop
     PROVE  IInv'
  <2>1. TypeOK'
    BY <1>a, <1>20 DEF TypeOK, CleanStop
  <2>2. UNCHANGED <<pc, tunnelID, peer, pending, activeTunnels>> /\ AcceptInv'
    BY <1>a, <1>20 DEF CleanStop, AcceptInv
  <2>3. ActiveNeverUnderReports'
    BY <1>a, <1>b, <2>2 DEF Relaying, TypeOK
  <2>4. QED BY <1>a, <2>1, <2>2, <2>3, QuietStep DEF IInv
<1>21. ASSUME NEW s \in Stoppers, StopCheck(s)
     PROVE  IInv'
  <2>1. TypeOK'
    BY <1>a, <1>21 DEF TypeOK, StopCheck
  <2>2. UNCHANGED <<pc, tunnelID, peer, pending, activeTunnels>> /\ AcceptInv'
    BY <1>a, <1>21 DEF StopCheck, AcceptInv
  <2>3. ActiveNeverUnderReports'
    BY <1>a, <1>b, <2>2 DEF Relaying, TypeOK
  <2>4. QED BY <1>a, <2>1, <2>2, <2>3, QuietStep DEF IInv
<1>22. ASSUME NEW s \in Stoppers, StopClose(s)
     PROVE  IInv'
  <2>1. TypeOK'
    BY <1>a, <1>22 DEF TypeOK, StopClose
  <2>2. UNCHANGED <<pc, tunnelID, peer, pending, activeTunnels>> /\ AcceptInv'
    BY <1>a, <1>22 DEF StopClose, AcceptInv
  <2>3. ActiveNeverUnderReports'
    BY <1>a, <1>b, <2>2 DEF Relaying, TypeOK
  <2>4. QED BY <1>a, <2>1, <2>2, <2>3, QuietStep DEF IInv
<1>23. ASSUME NEW s \in Stoppers, StopListener(s)
     PROVE  IInv'
  <2>1. TypeOK'
    BY <1>a, <1>23 DEF TypeOK, StopListener
  <2>2. UNCHANGED <<pc, tunnelID, peer, pending, activeTunnels>> /\ AcceptInv'
    BY <1>a, <1>23 DEF StopListener, AcceptInv
  <2>3. ActiveNeverUnderReports'
    BY <1>a, <1>b, <2>2 DEF Relaying, TypeOK
  <2>4. QED BY <1>a, <2>1, <2>2, <2>3, QuietStep DEF IInv
<1>24. ASSUME NEW s \in Stoppers, NEW k \in Kinds, StopPending(s, k)
     PROVE  IInv'
  <2>1. TypeOK'
    BY <1>a, <1>24 DEF TypeOK, StopPending
  <2>2. UNCHANGED <<pc, tunnelID, peer, pending, activeTunnels>> /\ AcceptInv'
    BY <1>a, <1>24 DEF StopPending, AcceptInv
  <2>3. ActiveNeverUnderReports'
    BY <1>a, <1>b, <2>2 DEF Relaying, TypeOK
  <2>4. QED BY <1>a, <2>1, <2>2, <2>3, QuietStep DEF IInv
<1>25. ASSUME NEW s \in Stoppers, StopReturn(s)
     PROVE  IInv'
  <2>1. TypeOK'
    BY <1>a, <1>25 DEF TypeOK, StopReturn
  <2>2. UNCHANGED <<pc, tunnelID, peer, pending, activeTunnels>> /\ AcceptInv'
    BY <1>a, <1>25 DEF StopReturn, AcceptInv
  <2>3. ActiveNeverUnderReports'
    BY <1>a, <1>b, <2>2 DEF Relaying, TypeOK
  <2>4. QED BY <1>a, <2>1, <2>2, <2>3, QuietStep DEF IInv
<1>26. ASSUME NEW c \in Conns, ClientClose(c)
     PROVE  IInv'
  <2>1. TypeOK'
    BY <1>a, <1>26 DEF TypeOK, ClientClose
  <2>2. UNCHANGED <<pc, tunnelID, peer, pending, activeTunnels>> /\ AcceptInv'
    BY <1>a, <1>26 DEF ClientClose, AcceptInv
  <2>3. ActiveNeverUnderReports'
    BY <1>a, <1>b, <2>2 DEF Relaying, TypeOK
  <2>4. QED BY <1>a, <2>1, <2>2, <2>3, QuietStep DEF IInv
<1>27. CASE UNCHANGED vars
  <2>1. TypeOK' /\ UNCHANGED <<pc, tunnelID, peer, pending, activeTunnels>> /\ AcceptInv'
    BY <1>a, <1>27 DEF TypeOK, AcceptInv, vars
  <2>2. ActiveNeverUnderReports'
    BY <1>a, <1>b, <2>1 DEF Relaying, TypeOK
  <2>3. QED BY <1>a, <2>1, <2>2, QuietStep DEF IInv
<1>28. ASSUME NEW c \in Conns, HandlerStep(c)
     PROVE  IInv'
  BY <1>5, <1>6, <1>7, <1>8, <1>9, <1>10, <1>11, <1>12, <1>13, <1>14, <1>15, <1>16,
     <1>28 DEF HandlerStep
<1>29. ASSUME NEW s \in Stoppers, StopStep(s)
     PROVE  IInv'
  BY <1>22, <1>23, <1>24, <1>25, <1>29 DEF StopStep
<1>30. QED
  BY <1>1, <1>2, <1>3, <1>4, <1>17, <1>18, <1>18a, <1>19, <1>20, <1>21, <1>26, <1>27, <1>28,
     <1>29 DEF Next

(* The invariant holds in every reachable state.                           *)
THEOREM Invariance == Spec => []IInv
<1>1. QED BY InitIInv, NextIInv, PTL DEF Spec

(* Type correctness; in particular activeTunnels, incremented and          *)
(* decremented by different goroutines, never becomes negative.            *)
THEOREM TypeCorrect == Spec => []TypeOK
<1>1. IInv => TypeOK
  BY DEF IInv
<1>2. QED BY <1>1, Invariance, PTL

(* Whatever connections arrive, in whatever order, a relay joins an IH and *)
(* an AH connection that sent the same tunnel ID.                          *)
THEOREM PairingIsSound == Spec => []PairingSound
<1>1. IInv => PairingSound
  <2> SUFFICES ASSUME IInv, NEW c \in Paired
               PROVE  /\ peer[c] \in Conns
                      /\ tunnelID[peer[c]] = tunnelID[c]
                      /\ {ClientType(c), ClientType(peer[c])} = Kinds
    BY DEF PairingSound
  <2>1. c \in Conns /\ peer[c] # None
    BY DEF IInv, StructInv, PlaceInv, HasPeer, Paired
  <2>2. /\ peer[c] \in Conns
        /\ tunnelID[peer[c]] = tunnelID[c]
        /\ ClientType(c) \in Kinds
        /\ ClientType(peer[c]) = Opposite(ClientType(c))
    BY <2>1 DEF IInv, StructInv, PeerInv, TypeOK
  <2>3. QED BY <2>2, OppositeKind
<1>2. QED BY <1>1, Invariance, PTL

(* No pending entry outlives its handler, although every Delete goes by    *)
(* key and may hit the entry of another connection.                        *)
THEOREM PendingOwnersWait == Spec => []PendingOwnerWaiting
<1>1. IInv => PendingOwnerWaiting
  BY DEF IInv, StructInv
<1>2. QED BY <1>1, Invariance, PTL

(* A connection is handed to one partner only, ever.                       *)
THEOREM OneTaker == Spec => []TakenAtMostOnce
<1>1. IInv => TakenAtMostOnce
  BY DEF IInv, StructInv
<1>2. QED BY <1>1, Invariance, PTL

(* The limit check never works from a count below the running relays.      *)
THEOREM NeverUnderReports == Spec => []ActiveNeverUnderReports
<1>1. IInv => ActiveNeverUnderReports
  BY DEF IInv
<1>2. QED BY <1>1, Invariance, PTL

-----------------------------------------------------------------------------
(* The server implements Rendezvous.  For the mapping a step is an         *)
(* announcement, a take, the end of a handler, or none of the three.       *)

(* Where a handler has not read its tunnel ID.                             *)
Silent == {"none", "accepted", "rejected", "read"}

(* The ID is set once: until it is read there is none.                     *)
SilentInv == \A c \in Conns : pc[c] \in Silent => tunnelID[c] = None

Done == {c \in Conns : pc[c] = "done"}

(* A step that Rendezvous does not see.                                    *)
Unseen ==
    /\ UNCHANGED <<tunnelID, peer>>
    /\ Done' = Done
    /\ \A c \in Conns : pc'[c] \in Silent => pc[c] \in Silent

(* A handler takes its partner, at its first lookup or at a poll.          *)
Takes(c) ==
    /\ pc[c] \in {"lookup", "wait"}
    /\ Partner(c) # None
    /\ TakePartner(c)
    /\ \E l \in {"count", "unregister"} : pc' = [pc EXCEPT ![c] = l]
    /\ UNCHANGED tunnelID

(* Moves of one handler that Rendezvous does not see.                      *)
LEMMA UnseenMove ==
    ASSUME TypeOK, NEW c \in Conns, NEW l, pc' = [pc EXCEPT ![c] = l],
           UNCHANGED <<tunnelID, peer>>, l # "done", pc[c] # "done",
           l \in Silent => pc[c] \in Silent
    PROVE  Unseen
<1>1. Done' = Done
  BY DEF TypeOK, Done
<1>2. \A d \in Conns : pc'[d] \in Silent => pc[d] \in Silent
  BY DEF TypeOK
<1>3. QED BY <1>1, <1>2 DEF Unseen

LEMMA UnseenQuiet ==
    ASSUME UNCHANGED <<pc, tunnelID, peer>>
    PROVE  Unseen
BY DEF Unseen, Done

(* What a step is to Rendezvous.                                           *)
LEMMA StepKinds ==
    ASSUME IInv, [Next]_vars
    PROVE  \/ \E c \in Conns, t \in Tunnels : ReadTunnelID(c, t)
           \/ \E c \in Conns : Takes(c)
           \/ \E c \in Conns : Return(c)
           \/ Unseen
<1> DEFINE Goal == \/ \E c \in Conns, t \in Tunnels : ReadTunnelID(c, t)
                   \/ \E c \in Conns : Takes(c)
                   \/ \E c \in Conns : Return(c)
                   \/ Unseen
<1>a. TypeOK /\ AcceptInv
  BY DEF IInv, StructInv
<1>1. ASSUME NEW c \in Conns, HandlerStep(c)
      PROVE  Goal
  <2>1. CASE \E t \in Tunnels : ReadTunnelID(c, t)
    BY <2>1
  <2>2. CASE ReadFail(c)
    BY <1>a, <2>2, UnseenMove DEF ReadFail, Goto, Silent
  <2>3. CASE Lookup(c)
    <3>1. CASE Partner(c) # None
      BY <2>3, <3>1 DEF Lookup, Goto, Takes
    <3>2. CASE Partner(c) = None
      BY <1>a, <2>3, <3>2, UnseenMove DEF Lookup, Goto, Silent
    <3>3. QED BY <3>1, <3>2
  <2>4. CASE Store(c)
    BY <1>a, <2>4, UnseenMove DEF Store, Goto, Silent
  <2>5. CASE Tick(c)
    BY <2>5 DEF Tick, Goto, Takes
  <2>6. CASE Unregister(c)
    <3>1. PICK l \in {"count", "relay"} : pc' = [pc EXCEPT ![c] = l]
      BY <2>6 DEF Unregister, Goto
    <3>2. QED BY <1>a, <2>6, <3>1, UnseenMove DEF Unregister, Silent
  <2>7. CASE Timeout(c)
    BY <1>a, <2>7, UnseenMove DEF Timeout, Goto, Silent
  <2>8. CASE Count(c)
    BY <1>a, <2>8, UnseenMove DEF Count, Goto, Silent
  <2>9. CASE RelayStart(c)
    BY <1>a, <2>9, UnseenMove DEF RelayStart, Goto, Silent
  <2>10. CASE \E failed \in BOOLEAN : RelayEnd(c, failed)
    <3>1. PICK l \in {"unwindOK", "unwindErr"} : pc' = [pc EXCEPT ![c] = l]
      BY <2>10 DEF RelayEnd, Goto
    <3>2. QED BY <1>a, <2>10, <3>1, UnseenMove DEF RelayEnd, Silent
  <2>11. CASE Unwind(c)
    <3>1. PICK l \in {"retOK", "retErr"} : pc' = [pc EXCEPT ![c] = l]
      BY <2>11 DEF Unwind, Goto
    <3>2. QED BY <1>a, <2>11, <3>1, UnseenMove DEF Unwind, Silent
  <2>12. CASE Return(c)
    BY <2>12
  <2>13. QED
    BY <1>1, <2>1, <2>2, <2>3, <2>4, <2>5, <2>6, <2>7, <2>8, <2>9, <2>10, <2>11, <2>12
    DEF HandlerStep
<1>2. ASSUME NEW c \in Conns, Accept(c)
      PROVE  Goal
  BY <1>a, <1>2, UnseenMove DEF Accept, Goto, Silent
<1>3. CASE Dispatch
  <2>1. PICK l \in {"rejected", "read"} : pc' = [pc EXCEPT ![acceptConn] = l]
    BY <1>3 DEF Dispatch, Goto
  <2>2. acceptConn \in Conns /\ pc[acceptConn] = "accepted"
    BY <1>a, <1>3 DEF AcceptInv, Dispatch
  <2>3. QED BY <1>a, <1>3, <2>1, <2>2, UnseenMove DEF Dispatch, Silent
<1>4. CASE StartTLS \/ AcceptError \/ CleanDelete \/ CleanStop
  BY <1>4, UnseenQuiet
  DEF StartTLS, AcceptError, CleanDelete, CleanStop, tunnelVars, handlerVars
<1>5. CASE \E c \in Conns : Expire(c) \/ ClientClose(c)
  BY <1>5, UnseenQuiet DEF Expire, ClientClose, handlerVars
<1>6. CASE CleanClose \/ \E k \in Kinds, t \in Tunnels : CleanLoad(k, t)
  BY <1>6, UnseenQuiet DEF CleanClose, CleanLoad, tunnelVars, handlerVars
<1>7. CASE \E s \in Stoppers : StopCheck(s) \/ StopStep(s)
  BY <1>7, UnseenQuiet
  DEF StopCheck, StopStep, StopClose, StopListener, StopPending, StopReturn, tunnelVars,
      handlerVars
<1>8. CASE UNCHANGED vars
  BY <1>8, UnseenQuiet DEF vars, tunnelVars, handlerVars
<1>9. QED BY <1>1, <1>2, <1>3, <1>4, <1>5, <1>6, <1>7, <1>8 DEF Next

(* Announcing: only a handler that reads leaves Silent with an ID.         *)
LEMMA SilentStep ==
    ASSUME IInv, SilentInv, [Next]_vars
    PROVE  SilentInv'
<1>a. TypeOK
  BY DEF IInv
<1>1. ASSUME NEW c \in Conns, NEW t \in Tunnels, ReadTunnelID(c, t)
      PROVE  SilentInv'
  BY <1>a, <1>1 DEF ReadTunnelID, Goto, SilentInv, Silent, TypeOK
<1>2. ASSUME NEW c \in Conns, Takes(c)
      PROVE  SilentInv'
  BY <1>a, <1>2 DEF Takes, SilentInv, Silent, TypeOK
<1>3. ASSUME NEW c \in Conns, Return(c)
      PROVE  SilentInv'
  BY <1>a, <1>3 DEF Return, WgDone, Goto, SilentInv, Silent, TypeOK
<1>4. CASE Unseen
  BY <1>4 DEF Unseen, SilentInv
<1>5. QED BY <1>1, <1>2, <1>3, <1>4, StepKinds

(* A take joins two connections as Rendezvous allows.                      *)
LEMMA TakeJoins ==
    ASSUME IInv, NEW c \in Conns, Takes(c)
    PROVE  \E d \in Conns : Meeting!Join(c, d)
<1>a. TypeOK /\ PlaceInv /\ PendingOwnerWaiting /\ ListedInv
  BY DEF IInv, StructInv
<1> DEFINE d == Partner(c)
<1>1. tunnelID[c] \in Tunnels /\ ClientType(c) \in Kinds /\ peer[c] = None
  BY <1>a DEF Takes, PlaceInv, Serving, Unparked
<1>2. Opposite(ClientType(c)) \in Kinds
  BY <1>1, OppositeKind
<1>3. d \in Conns /\ d # None
  BY <1>a, <1>1, <1>2 DEF Takes, Partner, TypeOK
<1>4. /\ pc[d] \in {"wait", "unregister"}
      /\ ClientType(d) = Opposite(ClientType(c))
      /\ tunnelID[d] = tunnelID[c]
  BY <1>a, <1>1, <1>2, <1>3 DEF Partner, PendingOwnerWaiting
<1>5. \A x \in Conns : peer[x] # d
  BY <1>a, <1>1, <1>2, <1>3 DEF Partner, ListedInv
<1>6. Meeting!Opposed(c, d)
  BY <1>1, <1>3, <1>4, ConnsAssumption
  DEF ClientType, Opposite, Kinds, Conns, Meeting!Opposed
<1>7. peer' = [peer EXCEPT ![c] = d]
  BY DEF Takes, TakePartner
<1>8. Done' = Done /\ c \notin Done /\ d \notin Done
  BY <1>a, <1>4 DEF Takes, Done, TypeOK
<1> HIDE DEF d
<1>9. Meeting!Conns = Conns
  BY DEF Meeting!Conns, Conns
<1>10. Meeting!Join(c, d)
  BY <1>1, <1>4, <1>5, <1>6, <1>7, <1>8, <1>9, NoneNotConn DEF Meeting!Join, Takes, Done
<1>11. QED BY <1>3, <1>10

(* The relay server implements the rendezvous it promises: a handler takes *)
(* at most one partner, for good, of the other side and the same tunnel,   *)
(* whom nobody else has taken and whose handler has not ended.             *)
THEOREM Refinement == Spec => RendezvousSpec
<1> DEFINE meeting == <<tunnelID, peer, {c \in Conns : pc[c] = "done"}>>
<1>0. Meeting!Conns = Conns
  BY DEF Meeting!Conns, Conns
<1>1. Init => Meeting!Init /\ SilentInv
  BY <1>0 DEF Init, Meeting!Init, SilentInv
<1>2. IInv /\ SilentInv /\ [Next]_vars => SilentInv'
  BY SilentStep
<1>3. IInv /\ SilentInv /\ [Next]_vars => Meeting!Next \/ UNCHANGED meeting
  <2> SUFFICES ASSUME IInv, SilentInv, [Next]_vars
               PROVE  Meeting!Next \/ UNCHANGED meeting
    OBVIOUS
  <2>a. TypeOK
    BY DEF IInv
  <2>1. ASSUME NEW c \in Conns, NEW t \in Tunnels, ReadTunnelID(c, t)
        PROVE  Meeting!Next
    <3>1. tunnelID[c] = None /\ c \notin Done
      BY <2>1 DEF SilentInv, Silent, ReadTunnelID, Done
    <3>2. Done' = Done
      BY <2>a, <2>1 DEF ReadTunnelID, Goto, Done, TypeOK
    <3>3. Meeting!Announce(c, t)
      BY <2>1, <3>1, <3>2 DEF Meeting!Announce, ReadTunnelID, Done
    <3>4. QED BY <1>0, <3>3 DEF Meeting!Next
  <2>2. ASSUME NEW c \in Conns, Takes(c)
        PROVE  Meeting!Next
    BY <1>0, <2>2, TakeJoins DEF Meeting!Next
  <2>3. ASSUME NEW c \in Conns, Return(c)
        PROVE  Meeting!Next
    <3>1. Done' = Done \cup {c}
      BY <2>a, <2>3 DEF Return, WgDone, Goto, Done, TypeOK
    <3>2. Meeting!End(c)
      BY <2>3, <3>1 DEF Meeting!End, Return, Done
    <3>3. QED BY <1>0, <3>2 DEF Meeting!Next
  <2>4. CASE Unseen
    BY <2>4 DEF Unseen, Done
  <2>5. QED BY <2>1, <2>2, <2>3, <2>4, StepKinds
<1>4. Spec => []SilentInv
  BY <1>1, <1>2, Invariance, PTL DEF Spec
<1>5. QED
  BY <1>1, <1>3, <1>4, Invariance, PTL DEF Spec, RendezvousSpec, Meeting!Spec, Meeting!vars
=============================================================================

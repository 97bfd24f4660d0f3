---------------------------- MODULE BrokerProofs ----------------------------
(***************************************************************************)
(* Proofs about Broker, for any session IDs, streams, pairs of forwarders  *)
(* and number of packets.                                                  *)
(*                                                                         *)
(* Isolation rests on what each stage of a packet's way says of its        *)
(* origin: a stream is set in one session only (Placed), a receiver reads  *)
(* a stream of its own session and side, and what it hands on was          *)
(* registered with the session's ID (Carried), which never changes.        *)
(*                                                                         *)
(* InOrder rests on the numbers: for a session with one pair, what a       *)
(* forwarder has sent, holds, finds in its channel and what its receiver   *)
(* holds are consecutive packets of one stream (InLine).                   *)
(*                                                                         *)
(* The refinement of PacketSwitch needs that a packet is in one place at   *)
(* most (OnePlace), also when many pairs read one stream and when a        *)
(* forwarder ends with a packet in hand.                                   *)
(***************************************************************************)
EXTENDS Broker, SequenceTheorems, TLAPS

-----------------------------------------------------------------------------
(* The map and the objects agree on IDs, and an object without an ID has   *)
(* never been used.                                                        *)
MapSound ==
    /\ OpenInMap
    /\ \A o \in stopped : id[o] # None

(* A stream is set in one object only, that of its ID, and on its side.    *)
Placed ==
    \A o \in Sessions, d \in Sides : stream[o][d] # None =>
        /\ id[o] # None
        /\ registered[stream[o][d]] = id[o]
        /\ Side(stream[o][d]) = d
        /\ \A q \in Sessions : stream[q][d] = stream[o][d] => q = o

(* A forwarder that runs has an object with both streams; one that does    *)
(* not has nothing.                                                        *)
Running ==
    \A f \in Forwarders :
        IF Obj(f) = None
        THEN /\ pc[f] = "off"
             /\ reading[f] = None /\ received[f] = None /\ recvChan[f] = None
             /\ hand[f] = None /\ target[f] = None
        ELSE /\ pc[f] # "off"
             /\ pc[f] \in {"send", "sending"} => hand[f] # None
             /\ pc[f] = "sending" => target[f] # None
             /\ reading[f] = None \/ received[f] = None
             /\ \A d \in Sides : stream[Obj(f)][d] # None

(* A packet of f's session, from f's side.                                 *)
From(f, m) == m # None => registered[m[1]] = id[Obj(f)] /\ Side(m[1]) = f[2]

Carried ==
    \A f \in Forwarders :
        /\ reading[f] # None =>
              /\ registered[reading[f]] = id[Obj(f)] /\ Side(reading[f]) = f[2]
              /\ \A o \in Sessions, d \in Sides : stream[o][d] = reading[f] => Obj(f) = o
        /\ target[f] # None =>
              /\ registered[target[f]] = id[Obj(f)] /\ Side(target[f]) = Other(f[2])
              /\ \A o \in Sessions, d \in Sides : stream[o][d] = target[f] => Obj(f) = o
        /\ From(f, received[f]) /\ From(f, recvChan[f]) /\ From(f, hand[f])

(* Nothing has been read from a stream or sent into it.                    *)
Fresh(s) == taken[s] = 0 /\ delivered[s] = <<>>

Unused ==
    /\ \A s \in Streams : registered[s] = None => Fresh(s)
    /\ \A o \in Sessions, d \in Sides :
          stream[o][d] # None /\ (\A p \in Pairs : owner[p] # o) => Fresh(stream[o][d])

(* The inductive invariant behind OpenInMap and Isolation ...              *)
Inv == TypeOK /\ MapSound /\ Placed /\ Running /\ Carried /\ Unused /\ Isolation

-----------------------------------------------------------------------------
(* Object o has one pair of forwarders at most.                            *)
Single(o) == \A p, q \in Pairs : owner[p] = o /\ owner[q] = o => p = q

Source(f) == stream[Obj(f)][f[2]]

One(b) == IF b THEN 1 ELSE 0

(* How many packets were sent, taken from the channel, and put there.      *)
SentBy(f) == Len(delivered[Target(f)])
HeldBy(f) == SentBy(f) + One(pc[f] \in {"send", "sending"})
PutBy(f)  == HeldBy(f) + One(recvChan[f] # None)

InLine(f) ==
    /\ reading[f] \in {Source(f), None} /\ target[f] \in {Target(f), None}
    /\ \A i \in DOMAIN delivered[Target(f)] : delivered[Target(f)][i] = <<Source(f), i>>
    /\ pc[f] \in {"select", "send", "sending"} =>
          /\ pc[f] \in {"send", "sending"} => hand[f] = <<Source(f), SentBy(f) + 1>>
          /\ recvChan[f] # None => recvChan[f] = <<Source(f), HeldBy(f) + 1>>
          /\ received[f] # None => received[f] = <<Source(f), PutBy(f) + 1>>
          /\ taken[Source(f)] = PutBy(f) + One(received[f] # None)

Consecutive ==
    \A f \in Forwarders : Obj(f) # None /\ Single(Obj(f)) => InLine(f)

(* ... and the one behind InOrder.                                         *)
OrderInv == Inv /\ Consecutive /\ InOrder

-----------------------------------------------------------------------------
(* Names for the parts of a forwarder.                                     *)
LEMMA ForwarderParts ==
    ASSUME NEW f \in Forwarders
    PROVE  f[1] \in Pairs /\ f[2] \in Sides /\ Other(f[2]) \in Sides
BY DEF Forwarders, Sides, Other

LEMMA SideFacts ==
    /\ \A s \in Streams : Side(s) \in Sides
    /\ \A d \in Sides : Other(d) \in Sides /\ Other(d) # d /\ Other(Other(d)) = d
BY DEF Side, Sides, Other

(* A forwarder that has begun works for an object that has an ID and two   *)
(* streams of this ID.                                                     *)
LEMMA OwnerFacts ==
    ASSUME TypeOK, Placed, Running, NEW f \in Forwarders, Obj(f) # None
    PROVE  /\ Obj(f) \in Sessions
           /\ id[Obj(f)] \in SessionIDs
           /\ Source(f) \in Streams /\ Target(f) \in Streams
           /\ registered[Source(f)] = id[Obj(f)] /\ Side(Source(f)) = f[2]
           /\ registered[Target(f)] = id[Obj(f)] /\ Side(Target(f)) = Other(f[2])
<1>1. f[1] \in Pairs /\ f[2] \in Sides /\ Other(f[2]) \in Sides
  BY ForwarderParts
<1>2. Obj(f) \in Sessions
  BY <1>1 DEF TypeOK, Obj
<1>3. \A d \in Sides : stream[Obj(f)][d] # None /\ stream[Obj(f)][d] \in Streams \cup {None}
  BY <1>2 DEF Running, TypeOK
<1>4. id[Obj(f)] \in SessionIDs \cup {None}
  BY <1>2 DEF TypeOK
<1>5. QED BY <1>1, <1>2, <1>3, <1>4 DEF Placed, Source, Target

LEMMA InitInv == Init => OrderInv
<1> SUFFICES ASSUME Init PROVE OrderInv
  OBVIOUS
<1>0. <<>> \in Seq(Packets) /\ DOMAIN <<>> = {} /\ Len(<<>>) = 0
  OBVIOUS
<1>1. TypeOK
  BY <1>0, BrokerAssumption DEF Init, TypeOK
<1>2. MapSound /\ Placed
  BY DEF Init, MapSound, OpenInMap, Placed
<1>3. ASSUME NEW f \in Forwarders
      PROVE  /\ Obj(f) = None /\ pc[f] = "off" /\ reading[f] = None /\ received[f] = None
             /\ recvChan[f] = None /\ hand[f] = None /\ target[f] = None
  BY ForwarderParts DEF Init, Obj
<1>4. Running /\ Carried /\ Consecutive
  BY <1>3 DEF Running, Carried, From, Consecutive
<1>5. Unused
  BY DEF Init, Unused, Fresh
<1>6. \A s \in Streams : DOMAIN delivered[s] = {}
  BY <1>0 DEF Init
<1>7. Isolation /\ InOrder
  BY <1>6 DEF Isolation, InOrder
<1>8. QED BY <1>1, <1>2, <1>4, <1>5, <1>7 DEF OrderInv, Inv

-----------------------------------------------------------------------------
(* Steps that close sessions.                                              *)
LEMMA CloseFacts ==
    ASSUME TypeOK, MapSound, NEW x \in SessionIDs, CloseByID(x), BrokerClosed => BrokerClosed'
    PROVE  /\ MapSound'
           /\ sessions' \in [SessionIDs -> Sessions \cup {None}]
           /\ stopped' \subseteq Sessions /\ stale' \subseteq Sessions
<1>1. sessions[x] \in Sessions \cup {None}
  BY DEF TypeOK
<1>2. \A y \in SessionIDs : sessions'[y] = IF y = x THEN None ELSE sessions[y]
  BY DEF CloseByID, TypeOK
<1>3. stopped' = stopped \cup ({sessions[x]} \ {None}) /\ id' = id
  BY DEF CloseByID
<1>4. \A y \in SessionIDs \ {x} : sessions[y] # None => sessions[y] # sessions[x]
  BY DEF MapSound, OpenInMap
<1>5. OpenInMap'
  BY <1>2, <1>3, <1>4 DEF MapSound, OpenInMap
<1>6. \A o \in stopped' : id'[o] # None
  BY <1>1, <1>3, BrokerAssumption DEF MapSound, OpenInMap
<1>7. QED BY <1>1, <1>5, <1>6 DEF MapSound, CloseByID, TypeOK

(* RegisterStream is the only step that gives an object its ID, its        *)
(* streams or a pair of forwarders.                                        *)
Fixed == UNCHANGED <<id, stream, registered, owner>>

(* A step of forwarder f or of its receiver.                               *)
ForwarderStep(f) ==
    \/ CallRecv(f) \/ RecvPacket(f) \/ RecvError(f) \/ PutPacket(f)
    \/ SeeStop(f) \/ SeeError(f) \/ TakePacket(f) \/ CallSend(f)
    \/ Send(f) \/ SendError(f) \/ ForwardEnd(f)

LEMMA FixedSteps ==
    ASSUME NEW f \in Forwarders
    PROVE  ForwarderStep(f) => Fixed
BY DEF ForwarderStep, Fixed, CallRecv, RecvPacket, RecvError, PutPacket, SeeStop, SeeError, TakePacket, CallSend,
       Send, SendError, ForwardEnd, HandleForwardError, CloseByID, sessVars, fwdVars, netVars

LEMMA FixedPlaced == Placed /\ Fixed => Placed'
BY DEF Placed, Fixed

(* What a registration does: the object is new or that of the map, the     *)
(* stream is new, and a pair begins when the other stream is there.        *)
LEMMA RegisterFacts ==
    ASSUME Inv, NEW x \in SessionIDs, NEW o \in Sessions, NEW s \in Streams,
           RegisterStream(x, o, s)
    PROVE  /\ Side(s) \in Sides /\ Fresh(s) /\ registered[s] = None
           /\ id[o] \in {None, x}
           /\ \A q \in Sessions : id'[q] = IF q = o THEN x ELSE id[q]
           /\ \A r \in Streams : registered'[r] = IF r = s THEN x ELSE registered[r]
           /\ \A q \in Sessions, d \in Sides :
                 /\ stream'[q][d] = IF q = o /\ d = Side(s) THEN s ELSE stream[q][d]
                 /\ stream[q][d] # s
           /\ \A y \in SessionIDs : sessions'[y] = IF y = x THEN o ELSE sessions[y]
<1>1. Side(s) \in Sides
  BY SideFacts
<1>2. registered[s] = None /\ Fresh(s)
  BY DEF RegisterStream, Inv, Unused
<1>3. id[o] \in {None, x}
  BY DEF RegisterStream, Inv, MapSound, OpenInMap
<1>4. /\ \A q \in Sessions : id'[q] = IF q = o THEN x ELSE id[q]
      /\ \A r \in Streams : registered'[r] = IF r = s THEN x ELSE registered[r]
      /\ \A y \in SessionIDs : sessions'[y] = IF y = x THEN o ELSE sessions[y]
  BY DEF RegisterStream, Inv, TypeOK
<1>5. ASSUME NEW q \in Sessions, NEW d \in Sides
      PROVE  /\ stream'[q][d] = IF q = o /\ d = Side(s) THEN s ELSE stream[q][d]
             /\ stream[q][d] # s
  <2>1. stream \in [Sessions -> [Sides -> Streams \cup {None}]]
    BY DEF Inv, TypeOK
  <2>2. stream' = [stream EXCEPT ![o] = [stream[o] EXCEPT ![Side(s)] = s]]
    BY DEF RegisterStream
  <2>3. stream'[q][d] = IF q = o /\ d = Side(s) THEN s ELSE stream[q][d]
    BY <1>1, <2>1, <2>2
  <2>4. stream[q][d] # s
    BY <1>2, BrokerAssumption DEF Inv, Placed
  <2>5. QED BY <2>3, <2>4
<1>6. QED BY <1>1, <1>2, <1>3, <1>4, <1>5

LEMMA RegisterPlaced ==
    ASSUME Inv, NEW x \in SessionIDs, NEW o \in Sessions, NEW s \in Streams,
           RegisterStream(x, o, s)
    PROVE  Placed' /\ MapSound'
<1>0. x # None /\ s # None
  BY BrokerAssumption
<1>1. ASSUME NEW q \in Sessions, NEW d \in Sides, stream'[q][d] # None
      PROVE  /\ id'[q] # None
             /\ registered'[stream'[q][d]] = id'[q]
             /\ Side(stream'[q][d]) = d
             /\ \A r \in Sessions : stream'[r][d] = stream'[q][d] => r = q
  <2>1. CASE q = o /\ d = Side(s)
    BY <1>0, <2>1, RegisterFacts
  <2>2. CASE ~(q = o /\ d = Side(s))
    <3>1. stream'[q][d] = stream[q][d] /\ stream[q][d] # s /\ stream[q][d] \in Streams
      BY <1>1, <2>2, RegisterFacts DEF Inv, TypeOK
    <3>2. /\ id[q] # None /\ registered[stream[q][d]] = id[q] /\ Side(stream[q][d]) = d
          /\ \A r \in Sessions : stream[r][d] = stream[q][d] => r = q
      BY <1>1, <3>1 DEF Inv, Placed
    <3>3. id'[q] = id[q]
      BY <3>2, RegisterFacts
    <3>4. \A r \in Sessions : stream'[r][d] = stream'[q][d] => r = q
      BY <3>1, <3>2, RegisterFacts
    <3>5. QED BY <3>1, <3>2, <3>3, <3>4, RegisterFacts
  <2>3. QED BY <2>1, <2>2
<1>2. Placed'
  BY <1>1 DEF Placed
<1>3. ASSUME NEW y \in SessionIDs, sessions'[y] # None
      PROVE  id'[sessions'[y]] = y /\ (sessions'[y] \in stopped => BrokerClosed)
  <2>1. CASE y = x
    <3>1. o \in stopped => sessions[x] = o
      BY DEF RegisterStream, Inv, MapSound
    <3>2. sessions'[y] = o /\ id'[o] = x
      BY <2>1, RegisterFacts
    <3>3. QED BY <1>0, <2>1, <3>1, <3>2, BrokerAssumption DEF Inv, MapSound, OpenInMap
  <2>2. CASE y # x
    <3>1. sessions'[y] = sessions[y] /\ sessions[y] \in Sessions /\ id[sessions[y]] = y
      BY <1>3, <2>2, RegisterFacts DEF Inv, MapSound, OpenInMap, TypeOK
    <3>2. sessions[y] # o
      BY <2>2, <3>1, RegisterFacts, BrokerAssumption
    <3>3. QED BY <1>3, <3>1, <3>2, RegisterFacts DEF Inv, MapSound, OpenInMap
  <2>3. QED BY <2>1, <2>2
<1>4. stopped' = stopped /\ closePC' = closePC
  BY DEF RegisterStream, ctlVars
<1>5. \A q \in stopped : id'[q] # None
  BY <1>0, RegisterFacts DEF Inv, MapSound, TypeOK
<1>6. QED BY <1>2, <1>3, <1>4, <1>5 DEF MapSound, OpenInMap, BrokerClosed

(* A registration leaves every pair alone but the one it may begin, which  *)
(* it begins exactly when both streams are there.                          *)
LEMMA RegisterPairs ==
    ASSUME Inv, NEW x \in SessionIDs, NEW o \in Sessions, NEW s \in Streams,
           RegisterStream(x, o, s)
    PROVE  /\ owner' \in [Pairs -> Sessions \cup {None}]
           /\ pc' \in [Forwarders -> {"off", "select", "send", "sending", "closing", "done"}]
           /\ \A p \in Pairs : owner[p] # None => owner'[p] = owner[p]
           /\ \A f \in Forwarders :
                 \/ Obj(f)' = Obj(f) /\ pc'[f] = pc[f]
                 \/ /\ Obj(f) = None /\ Obj(f)' = o /\ pc'[f] = "select"
                    /\ stream[o][Other(Side(s))] # None
           /\ \A p \in Pairs : owner[p] = o => \E q \in Pairs : owner[q] = None /\ owner'[q] = o
           /\ UNCHANGED <<target, hand, recvVars, taken, broken, delivered, ctlVars, stopped>>
<1>1. UNCHANGED <<target, hand, recvVars, taken, broken, delivered, ctlVars, stopped>>
  BY DEF RegisterStream
<1>2. TypeOK /\ o # None
  BY BrokerAssumption DEF Inv
<1>3. CASE stream[o][Other(Side(s))] = None
  <2>1. owner' = owner /\ pc' = pc
    BY <1>3 DEF RegisterStream
  <2>2. ASSUME NEW p \in Pairs, owner[p] = o PROVE FALSE
    <3>1. <<p, "IH">> \in Forwarders /\ Obj(<<p, "IH">>) = o
      BY <2>2 DEF Forwarders, Sides, Obj
    <3>2. \A d \in Sides : stream[o][d] # None
      BY <1>2, <3>1 DEF Inv, Running
    <3>3. QED BY <1>3, <3>2, SideFacts
  <2>3. QED BY <1>1, <1>2, <2>1, <2>2 DEF TypeOK, Obj
<1>4. CASE stream[o][Other(Side(s))] # None
  <2>1. PICK p \in Pairs :
           /\ owner[p] = None
           /\ owner' = [owner EXCEPT ![p] = o]
           /\ pc' = [f \in Forwarders |-> IF f[1] = p THEN "select" ELSE pc[f]]
    BY <1>4 DEF RegisterStream
  <2>2. owner'[p] = o /\ \A q \in Pairs \ {p} : owner'[q] = owner[q]
    BY <1>2, <2>1 DEF TypeOK
  <2>3. /\ owner' \in [Pairs -> Sessions \cup {None}]
        /\ pc' \in [Forwarders -> {"off", "select", "send", "sending", "closing", "done"}]
    BY <1>2, <2>1 DEF TypeOK
  <2>4. \A f \in Forwarders :
           \/ Obj(f)' = Obj(f) /\ pc'[f] = pc[f]
           \/ Obj(f) = None /\ Obj(f)' = o /\ pc'[f] = "select"
    BY <2>1, <2>2, ForwarderParts DEF Obj
  <2>5. QED BY <1>1, <1>4, <2>1, <2>2, <2>3, <2>4
<1>5. QED BY <1>3, <1>4

LEMMA RegisterRest ==
    ASSUME Inv, NEW x \in SessionIDs, NEW o \in Sessions, NEW s \in Streams,
           RegisterStream(x, o, s)
    PROVE  TypeOK' /\ Running' /\ Carried' /\ Unused' /\ Isolation'
<1>0. x # None /\ s # None /\ o # None
  BY BrokerAssumption
<1>a. TypeOK /\ Placed /\ Running /\ Carried /\ Unused /\ Isolation
  BY DEF Inv
<1>b. /\ taken' = taken /\ delivered' = delivered /\ hand' = hand /\ reading' = reading
      /\ received' = received /\ recvChan' = recvChan /\ errChan' = errChan /\ target' = target
      /\ broken' = broken /\ toClose' = toClose /\ monitor' = monitor /\ closePC' = closePC
      /\ stopped' = stopped
  BY RegisterPairs DEF recvVars, ctlVars
<1>1. TypeOK'
  <2>1. stream' \in [Sessions -> [Sides -> Streams \cup {None}]]
    BY <1>a DEF TypeOK, RegisterStream
  <2>2. /\ sessions' \in [SessionIDs -> Sessions \cup {None}]
        /\ id' \in [Sessions -> SessionIDs \cup {None}]
        /\ registered' \in [Streams -> SessionIDs \cup {None}]
        /\ stale' \subseteq Sessions
    BY <1>a DEF TypeOK, RegisterStream
  <2>3. /\ owner' \in [Pairs -> Sessions \cup {None}]
        /\ pc' \in [Forwarders -> {"off", "select", "send", "sending", "closing", "done"}]
    BY RegisterPairs
  <2>4. QED BY <1>a, <1>b, <2>1, <2>2, <2>3 DEF TypeOK
<1>2. ASSUME NEW f \in Forwarders, Obj(f) # None
      PROVE  /\ Obj(f)' = Obj(f) /\ pc'[f] = pc[f] /\ Obj(f) \in Sessions
             /\ id[Obj(f)] \in SessionIDs /\ id'[Obj(f)] = id[Obj(f)]
  <2>1. Obj(f)' = Obj(f) /\ pc'[f] = pc[f]
    BY <1>2, RegisterPairs
  <2>2. Obj(f) \in Sessions /\ id[Obj(f)] \in SessionIDs
    BY <1>a, <1>2, OwnerFacts
  <2>3. QED BY <2>1, <2>2, RegisterFacts, BrokerAssumption
<1>3. Running'
  <2> SUFFICES ASSUME NEW f \in Forwarders
               PROVE  IF Obj(f)' = None
                      THEN /\ pc'[f] = "off"
                           /\ reading'[f] = None /\ received'[f] = None
                           /\ recvChan'[f] = None /\ hand'[f] = None /\ target'[f] = None
                      ELSE /\ pc'[f] # "off"
                           /\ pc'[f] \in {"send", "sending"} => hand'[f] # None
                           /\ pc'[f] = "sending" => target'[f] # None
                           /\ reading'[f] = None \/ received'[f] = None
                           /\ \A d \in Sides : stream'[Obj(f)'][d] # None
    BY DEF Running
  <2>1. CASE Obj(f) # None
    BY <1>0, <1>a, <1>b, <1>2, <2>1, RegisterFacts DEF Running
  <2>2. CASE Obj(f) = None /\ Obj(f)' = None
    BY <1>0, <1>a, <1>b, <2>2, RegisterPairs DEF Running
  <2>3. CASE Obj(f) = None /\ Obj(f)' # None
    <3>1. Obj(f)' = o /\ pc'[f] = "select" /\ stream[o][Other(Side(s))] # None
      BY <2>3, RegisterPairs
    <3>2. \A d \in Sides : stream'[o][d] # None
      BY <1>0, <3>1, RegisterFacts, SideFacts DEF Sides, Other
    <3>3. QED BY <1>0, <1>a, <1>b, <2>3, <3>1, <3>2 DEF Running
  <2>4. QED BY <2>1, <2>2, <2>3
<1>4. Carried'
  <2> SUFFICES ASSUME NEW f \in Forwarders
               PROVE  /\ reading'[f] # None =>
                            /\ registered'[reading'[f]] = id'[Obj(f)']
                            /\ Side(reading'[f]) = f[2]
                            /\ \A q \in Sessions, d \in Sides :
                                  stream'[q][d] = reading'[f] => Obj(f)' = q
                      /\ target'[f] # None =>
                            /\ registered'[target'[f]] = id'[Obj(f)']
                            /\ Side(target'[f]) = Other(f[2])
                            /\ \A q \in Sessions, d \in Sides :
                                  stream'[q][d] = target'[f] => Obj(f)' = q
                      /\ From(f, received[f])' /\ From(f, recvChan[f])' /\ From(f, hand[f])'
    BY DEF Carried
  <2>1. CASE Obj(f) = None
    BY <1>a, <1>b, <2>1 DEF Running, From
  <2>2. CASE Obj(f) # None
    <3>1. \A r \in Streams : registered[r] = id[Obj(f)] => r # s /\ registered'[r] = registered[r]
      BY <1>2, <2>2, RegisterFacts, BrokerAssumption
    <3>2. ASSUME NEW m \in Packets \cup {None}, From(f, m)
          PROVE  m # None => registered'[m[1]] = id'[Obj(f)'] /\ Side(m[1]) = f[2]
      BY <1>2, <2>2, <3>1, <3>2 DEF From, Packets
    <3>3. From(f, received[f])' /\ From(f, recvChan[f])' /\ From(f, hand[f])'
      <4>1. received[f] \in Packets \cup {None} /\ recvChan[f] \in Packets \cup {None}
            /\ hand[f] \in Packets \cup {None}
        BY <1>a DEF TypeOK
      <4>2. From(f, received[f]) /\ From(f, recvChan[f]) /\ From(f, hand[f])
        BY <1>a DEF Carried
      <4>3. QED BY <1>b, <3>2, <4>1, <4>2 DEF From
    <3>4. ASSUME NEW r \in Streams, registered[r] = id[Obj(f)],
                 \A q \in Sessions, d \in Sides : stream[q][d] = r => Obj(f) = q
          PROVE  /\ registered'[r] = id'[Obj(f)']
                 /\ \A q \in Sessions, d \in Sides : stream'[q][d] = r => Obj(f)' = q
      <4>1. r # s /\ registered'[r] = id[Obj(f)]
        BY <3>1, <3>4
      <4>2. \A q \in Sessions, d \in Sides : stream'[q][d] = r => Obj(f) = q
        BY <3>4, <4>1, RegisterFacts
      <4>3. QED BY <1>2, <2>2, <4>1, <4>2
    <3>5. ASSUME reading[f] # None
          PROVE  /\ registered'[reading[f]] = id'[Obj(f)'] /\ Side(reading[f]) = f[2]
                 /\ \A q \in Sessions, d \in Sides : stream'[q][d] = reading[f] => Obj(f)' = q
      <4>1. /\ reading[f] \in Streams /\ registered[reading[f]] = id[Obj(f)]
            /\ Side(reading[f]) = f[2]
            /\ \A q \in Sessions, d \in Sides : stream[q][d] = reading[f] => Obj(f) = q
        BY <1>a, <3>5 DEF Carried, TypeOK
      <4>2. QED BY <3>4, <4>1
    <3>6. ASSUME target[f] # None
          PROVE  /\ registered'[target[f]] = id'[Obj(f)'] /\ Side(target[f]) = Other(f[2])
                 /\ \A q \in Sessions, d \in Sides : stream'[q][d] = target[f] => Obj(f)' = q
      <4>1. /\ target[f] \in Streams /\ registered[target[f]] = id[Obj(f)]
            /\ Side(target[f]) = Other(f[2])
            /\ \A q \in Sessions, d \in Sides : stream[q][d] = target[f] => Obj(f) = q
        BY <1>a, <3>6 DEF Carried, TypeOK
      <4>2. QED BY <3>4, <4>1
    <3>7. QED BY <1>b, <3>3, <3>5, <3>6
  <2>3. QED BY <2>1, <2>2
<1>5. Unused'
  <2>1. \A t \in Streams : registered'[t] = None => Fresh(t)
    BY <1>0, <1>a, RegisterFacts DEF Unused
  <2>2. ASSUME NEW q \in Sessions, NEW d \in Sides, stream'[q][d] # None,
               \A p \in Pairs : owner'[p] # q
        PROVE  Fresh(stream'[q][d])
    <3>1. \A p \in Pairs : owner[p] # q
      BY <2>2, RegisterPairs, BrokerAssumption
    <3>2. CASE q = o /\ d = Side(s)
      BY <3>2, RegisterFacts
    <3>3. CASE ~(q = o /\ d = Side(s))
      BY <1>a, <2>2, <3>1, <3>3, RegisterFacts DEF Unused
    <3>4. QED BY <3>2, <3>3
  <2>3. QED BY <1>b, <2>1, <2>2 DEF Unused, Fresh
<1>6. Isolation'
  <2> SUFFICES ASSUME NEW t \in Streams, NEW i \in DOMAIN delivered[t]
               PROVE  /\ registered'[delivered[t][i][1]] = registered'[t]
                      /\ Side(delivered[t][i][1]) = Other(Side(t))
    BY <1>b DEF Isolation
  <2>1. delivered[t][i] \in Packets
    BY <1>a DEF TypeOK
  <2>2. /\ delivered[t][i][1] \in Streams
        /\ registered[delivered[t][i][1]] = registered[t]
        /\ Side(delivered[t][i][1]) = Other(Side(t))
    BY <1>a, <2>1 DEF Isolation, Packets
  <2>3. registered[t] # None
    BY <1>a DEF Unused, Fresh
  <2>4. QED BY <2>2, <2>3, RegisterFacts
<1>7. QED BY <1>1, <1>3, <1>4, <1>5, <1>6

(* A second pair of the same object ends what Consecutive promises, and    *)
(* the first pair begins with streams nobody has used.                     *)
LEMMA RegisterOrder ==
    ASSUME OrderInv, NEW x \in SessionIDs, NEW o \in Sessions, NEW s \in Streams,
           RegisterStream(x, o, s)
    PROVE  Consecutive' /\ InOrder'
<1>0. x # None /\ s # None /\ o # None
  BY BrokerAssumption
<1>a. Inv /\ TypeOK /\ Placed /\ Running /\ Unused /\ Consecutive /\ InOrder
  BY DEF OrderInv, Inv
<1>b. /\ taken' = taken /\ delivered' = delivered /\ hand' = hand /\ reading' = reading
      /\ received' = received /\ recvChan' = recvChan /\ target' = target
  BY <1>a, RegisterPairs DEF recvVars
<1>c. <<>> \in Seq(Packets) /\ DOMAIN <<>> = {} /\ Len(<<>>) = 0
  OBVIOUS
<1>1. ASSUME NEW f \in Forwarders, Obj(f)' # None, Single(Obj(f))'
      PROVE  InLine(f)'
  <2>0. f[1] \in Pairs /\ f[2] \in Sides /\ Other(f[2]) \in Sides /\ Other(f[2]) # f[2]
    BY ForwarderParts, SideFacts
  <2>1. CASE Obj(f) # None
    <3>1. Obj(f)' = Obj(f) /\ pc'[f] = pc[f] /\ Obj(f) \in Sessions
      BY <1>a, <2>1, RegisterPairs, OwnerFacts
    <3>2. Obj(f) # o
      <4> SUFFICES ASSUME Obj(f) = o PROVE FALSE
        OBVIOUS
      <4>1. PICK q \in Pairs : owner[q] = None /\ owner'[q] = o
        BY <1>a, <2>0, RegisterPairs DEF Obj
      <4>2. owner'[f[1]] = o /\ owner[f[1]] = o
        BY <3>1 DEF Obj
      <4>3. QED BY <1>0, <1>1, <2>0, <3>1, <4>1, <4>2 DEF Single
    <3>3. Source(f)' = Source(f) /\ Target(f)' = Target(f)
      BY <1>a, <2>0, <3>1, <3>2, RegisterFacts DEF Source, Target
    <3>4. Single(Obj(f))
      BY <1>a, <1>1, <2>1, <3>1, RegisterPairs DEF Single
    <3>5. InLine(f)
      BY <1>a, <2>1, <3>4 DEF Consecutive
    <3>6. QED BY <1>b, <3>1, <3>3, <3>5 DEF InLine, SentBy, HeldBy, PutBy
  <2>2. CASE Obj(f) = None
    <3>1. Obj(f)' = o /\ pc'[f] = "select"
      BY <1>a, <1>1, <2>2, RegisterPairs
    <3>2. reading'[f] = None /\ received'[f] = None /\ recvChan'[f] = None /\ target'[f] = None
      BY <1>a, <1>b, <2>2 DEF Running
    <3>3. ASSUME NEW p \in Pairs PROVE owner[p] # o
      <4> SUFFICES ASSUME owner[p] = o PROVE FALSE
        OBVIOUS
      <4>1. owner'[p] = o
        BY <1>0, <1>a, RegisterPairs
      <4>2. owner'[f[1]] = o /\ owner[f[1]] = None
        BY <2>2, <3>1 DEF Obj
      <4>3. QED BY <1>0, <1>1, <2>0, <3>1, <4>1, <4>2 DEF Single
    <3>4. ASSUME NEW d \in Sides
          PROVE  Fresh(stream'[o][d]) /\ stream'[o][d] \in Streams
      <4>1. stream'[o][d] # None /\ stream'[o][d] \in Streams \cup {None}
        <5>1. Running' /\ TypeOK'
          BY <1>a, RegisterRest
        <5>2. QED BY <1>1, <3>1, <5>1 DEF Running, TypeOK
      <4>2. CASE d = Side(s)
        BY <1>a, <4>1, <4>2, RegisterFacts
      <4>3. CASE d # Side(s)
        BY <1>a, <3>3, <4>1, <4>3, RegisterFacts DEF Unused
      <4>4. QED BY <4>1, <4>2, <4>3
    <3>5. taken'[Source(f)'] = 0 /\ delivered'[Target(f)'] = <<>>
      BY <1>b, <2>0, <3>1, <3>4 DEF Source, Target, Fresh
    <3>6. SentBy(f)' = 0 /\ HeldBy(f)' = 0 /\ PutBy(f)' = 0
      BY <1>c, <3>1, <3>2, <3>5 DEF SentBy, HeldBy, PutBy, One
    <3>7. QED BY <1>c, <3>1, <3>2, <3>5, <3>6 DEF InLine, One
  <2>3. QED BY <2>1, <2>2
<1>2. ASSUME NEW t \in Streams, SinglePair(t)'
      PROVE  \E r \in Streams : \A i \in DOMAIN delivered[t] : delivered[t][i] = <<r, i>>
  <2>1. CASE registered[t] = None
    BY <1>a, <1>c, <2>1 DEF Unused, Fresh
  <2>2. CASE registered[t] # None
    <3>1. t # s /\ registered'[t] = registered[t]
      BY <1>a, <2>2, RegisterFacts
    <3>2. ASSUME NEW q \in Sessions, id[q] = registered[t] PROVE id'[q] = registered'[t]
      BY <1>a, <2>2, <3>1, <3>2, RegisterFacts
    <3>3. ASSUME NEW q \in Sessions, NEW p \in Pairs, owner[p] = q PROVE owner'[p] = q
      BY <1>a, <3>3, RegisterPairs, BrokerAssumption
    <3>4. SinglePair(t)
      BY <1>2, <3>2, <3>3 DEF SinglePair
    <3>5. QED BY <1>a, <3>4 DEF InOrder
  <2>3. QED BY <2>1, <2>2
<1>3. QED BY <1>b, <1>1, <1>2 DEF Consecutive, InOrder

-----------------------------------------------------------------------------
(* Steps that touch neither a forwarder nor a stream.                      *)
LEMMA Aside ==
    ASSUME OrderInv, Fixed,
           UNCHANGED <<pc, reading, received, recvChan, target, hand, taken, delivered>>
    PROVE  Placed' /\ Running' /\ Carried' /\ Unused' /\ Isolation' /\ Consecutive' /\ InOrder'
<1>1. Placed'
  BY FixedPlaced DEF OrderInv, Inv
<1>2. \A f : Obj(f)' = Obj(f) /\ Source(f)' = Source(f) /\ Target(f)' = Target(f)
  BY DEF Fixed, Obj, Source, Target
<1>3. Running' /\ Carried'
  BY <1>2 DEF OrderInv, Inv, Fixed, Running, Carried, From
<1>4. Unused' /\ Isolation'
  BY DEF OrderInv, Inv, Fixed, Unused, Fresh, Isolation
<1>5. ASSUME NEW f \in Forwarders, Obj(f)' # None, Single(Obj(f))' PROVE InLine(f)'
  <2>1. Single(Obj(f)) /\ Obj(f) # None
    BY <1>2, <1>5 DEF Fixed, Single
  <2>2. InLine(f)
    BY <2>1 DEF OrderInv, Consecutive
  <2>3. QED BY <1>2, <2>2 DEF InLine, SentBy, HeldBy, PutBy
<1>6. Consecutive'
  BY <1>5 DEF Consecutive
<1>7. InOrder'
  BY DEF OrderInv, Fixed, InOrder, SinglePair
<1>8. QED BY <1>1, <1>3, <1>4, <1>6, <1>7

-----------------------------------------------------------------------------
(* Steps of a forwarder or its receiver.                                   *)
LEMMA SameForwarder ==
    ASSUME NEW f \in Forwarders, NEW g \in Forwarders, f[1] = g[1], f[2] = g[2]
    PROVE  f = g
BY DEF Forwarders

(* f has begun; the others, and every stream but the one it reads and the  *)
(* one it sends into, stay as they are.                                    *)
LEMMA StepFrame ==
    ASSUME TypeOK, Running, NEW f \in Forwarders, ForwarderStep(f)
    PROVE  /\ Obj(f) # None /\ Obj(f)' = Obj(f)
           /\ \A g \in Forwarders \ {f} :
                 /\ pc'[g] = pc[g] /\ hand'[g] = hand[g] /\ reading'[g] = reading[g]
                 /\ received'[g] = received[g] /\ recvChan'[g] = recvChan[g]
                 /\ target'[g] = target[g]
           /\ \A r \in Streams : taken'[r] = taken[r] \/ r = reading[f]
           /\ \A r \in Streams : delivered'[r] = delivered[r] \/ r = target[f]
           /\ BrokerClosed => BrokerClosed'
<1>0. None \notin Senders /\ None \notin broken
  BY BrokerAssumption DEF TypeOK
<1>1. Obj(f)' = Obj(f)
  BY FixedSteps DEF Fixed, Obj
<1>2. Obj(f) # None
  <2> SUFFICES ASSUME Obj(f) = None PROVE FALSE
    OBVIOUS
  <2>1. pc[f] = "off" /\ reading[f] = None /\ received[f] = None
    BY DEF Running
  <2>2. QED BY <1>0, <2>1 DEF ForwarderStep, CallRecv, RecvPacket, RecvError, PutPacket,
              SeeStop, SeeError, TakePacket, CallSend, Send, SendError, ForwardEnd
<1>3. \A g \in Forwarders \ {f} :
         /\ pc'[g] = pc[g] /\ hand'[g] = hand[g] /\ reading'[g] = reading[g]
         /\ received'[g] = received[g] /\ recvChan'[g] = recvChan[g] /\ target'[g] = target[g]
  BY DEF ForwarderStep, CallRecv, RecvPacket, RecvError, PutPacket, SeeStop, SeeError,
         TakePacket, CallSend, Send, SendError, ForwardEnd, fwdVars, recvVars, TypeOK
<1>4. /\ \A r \in Streams : taken'[r] = taken[r] \/ r = reading[f]
      /\ \A r \in Streams : delivered'[r] = delivered[r] \/ r = target[f]
  BY DEF ForwarderStep, CallRecv, RecvPacket, RecvError, PutPacket, SeeStop, SeeError,
         TakePacket, CallSend, Send, SendError, ForwardEnd, netVars, TypeOK
<1>5. closePC' = closePC
  BY DEF ForwarderStep, CallRecv, RecvPacket, RecvError, PutPacket, SeeStop, SeeError,
         TakePacket, CallSend, Send, SendError, ForwardEnd, ctlVars
<1>6. QED BY <1>1, <1>2, <1>3, <1>4, <1>5 DEF BrokerClosed

LEMMA StepTypes ==
    ASSUME Inv, NEW f \in Forwarders, ForwarderStep(f)
    PROVE  TypeOK' /\ MapSound'
<1>a. TypeOK /\ MapSound /\ Placed /\ Running
  BY DEF Inv
<1>b. Obj(f) # None /\ (BrokerClosed => BrokerClosed')
  BY <1>a, StepFrame
<1>c. Obj(f) \in Sessions /\ id[Obj(f)] \in SessionIDs /\ Source(f) \in Streams /\ Target(f) \in Streams
  BY <1>a, <1>b, OwnerFacts

<1>1. CASE ForwardEnd(f)
  <2>1. CloseByID(id[Obj(f)])
    BY <1>1 DEF ForwardEnd, HandleForwardError
  <2>2. /\ MapSound' /\ sessions' \in [SessionIDs -> Sessions \cup {None}]
        /\ stopped' \subseteq Sessions /\ stale' \subseteq Sessions
    BY <1>a, <1>b, <1>c, <2>1, CloseFacts
  <2>3. /\ pc' \in [Forwarders -> {"off", "select", "send", "sending", "closing", "done"}]
        /\ reading' \in [Forwarders -> Streams \cup {None}]
        /\ received' \in [Forwarders -> Packets \cup {None}]
        /\ recvChan' \in [Forwarders -> Packets \cup {None}]
        /\ errChan' \subseteq Forwarders
    BY <1>a, <1>1 DEF ForwardEnd, TypeOK
  <2>4. UNCHANGED <<id, stream, owner, target, hand, registered, taken, broken, delivered,
                    toClose, monitor, closePC>>
    BY <1>1, <2>1 DEF ForwardEnd, CloseByID, netVars, ctlVars
  <2>5. QED BY <1>a, <2>2, <2>3, <2>4 DEF TypeOK
<1>2. CASE ~ForwardEnd(f)
  <2>1. UNCHANGED <<sessVars, ctlVars, owner, registered, broken>>
    BY <1>2 DEF ForwarderStep, CallRecv, RecvPacket, RecvError, PutPacket, SeeStop, SeeError,
                TakePacket, CallSend, Send, SendError, fwdVars, netVars
  <2>2. MapSound'
    BY <1>a, <1>b, <2>1 DEF MapSound, OpenInMap, sessVars
  <2>3. pc' \in [Forwarders -> {"off", "select", "send", "sending", "closing", "done"}]
    BY <1>a, <1>2, ZenonT(40) DEF ForwarderStep, CallRecv, RecvPacket, RecvError, PutPacket, SeeStop,
                SeeError, TakePacket, CallSend, Send, SendError, fwdVars, TypeOK
  <2>4. reading' \in [Forwarders -> Streams \cup {None}]
    BY <1>a, <1>c, <1>2 DEF ForwarderStep, CallRecv, RecvPacket, RecvError, PutPacket, SeeStop,
                SeeError, TakePacket, CallSend, Send, SendError, recvVars, TypeOK, Source
  <2>5. /\ received' \in [Forwarders -> Packets \cup {None}]
        /\ taken' \in [Streams -> 0 .. MaxPackets]
    <3>1. CASE RecvPacket(f)
      <4>1. reading[f] \in Streams /\ taken[reading[f]] \in 0 .. MaxPackets - 1
        BY <1>a, <3>1, BrokerAssumption DEF RecvPacket, TypeOK
      <4>2. <<reading[f], taken[reading[f]] + 1>> \in Packets
        BY <4>1, BrokerAssumption DEF Packets
      <4>3. received' \in [Forwarders -> Packets \cup {None}]
        BY <1>a, <3>1, <4>2 DEF RecvPacket, TypeOK
      <4>4. taken[reading[f]] + 1 \in 0 .. MaxPackets
        BY <4>1, BrokerAssumption
      <4>5. QED BY <1>a, <3>1, <4>3, <4>4 DEF RecvPacket, TypeOK
    <3>2. CASE ~RecvPacket(f)
      BY <1>a, <1>2, <3>2 DEF ForwarderStep, CallRecv, RecvError, PutPacket, SeeStop,
                SeeError, TakePacket, CallSend, Send, SendError, recvVars, netVars, TypeOK
    <3>3. QED BY <3>1, <3>2
  <2>6. /\ recvChan' \in [Forwarders -> Packets \cup {None}]
        /\ hand' \in [Forwarders -> Packets \cup {None}]
        /\ target' \in [Forwarders -> Streams \cup {None}]
        /\ errChan' \subseteq Forwarders
        /\ stale' \subseteq Sessions
    <3>1. recvChan' \in [Forwarders -> Packets \cup {None}]
      BY <1>a, <1>c, <1>2 DEF ForwarderStep, CallRecv, RecvPacket, RecvError, PutPacket, SeeStop,
                SeeError, TakePacket, CallSend, Send, SendError, fwdVars, recvVars, TypeOK
    <3>2. hand' \in [Forwarders -> Packets \cup {None}]
      BY <1>a, <1>c, <1>2 DEF ForwarderStep, CallRecv, RecvPacket, RecvError, PutPacket, SeeStop,
                SeeError, TakePacket, CallSend, Send, SendError, fwdVars, recvVars, TypeOK
    <3>3. target' \in [Forwarders -> Streams \cup {None}]
      BY <1>a, <1>c, <1>2 DEF ForwarderStep, CallRecv, RecvPacket, RecvError, PutPacket, SeeStop,
                SeeError, TakePacket, CallSend, Send, SendError, fwdVars, recvVars, TypeOK
    <3>4. errChan' \subseteq Forwarders /\ stale' \subseteq Sessions
      BY <1>a, <1>c, <1>2 DEF ForwarderStep, CallRecv, RecvPacket, RecvError, PutPacket, SeeStop,
                SeeError, TakePacket, CallSend, Send, SendError, fwdVars, recvVars, TypeOK
    <3>5. QED BY <3>1, <3>2, <3>3, <3>4
  <2>7. delivered' \in [Streams -> Seq(Packets)]
    <3>1. CASE Send(f)
      <4>1. hand[f] \in Packets /\ target[f] \in Streams
        BY <1>a, <1>b, <3>1 DEF Send, Running, TypeOK
      <4>2. Append(delivered[target[f]], hand[f]) \in Seq(Packets)
        BY <1>a, <4>1 DEF TypeOK
      <4>3. QED BY <1>a, <3>1, <4>1, <4>2 DEF Send, TypeOK
    <3>2. CASE ~Send(f)
      BY <1>a, <1>2, <3>2 DEF ForwarderStep, CallRecv, RecvPacket, RecvError, PutPacket,
                SeeStop, SeeError, TakePacket, CallSend, SendError, netVars, TypeOK
    <3>3. QED BY <3>1, <3>2
  <2>8. QED BY <1>a, <2>1, <2>2, <2>3, <2>4, <2>5, <2>6, <2>7 DEF TypeOK, sessVars, ctlVars
<1>3. QED BY <1>1, <1>2

(* A stream of f's session on its side is nobody else's.                   *)
LEMMA Owned ==
    ASSUME TypeOK, Placed, Running, NEW f \in Forwarders, Obj(f) # None,
           NEW o \in Sessions, NEW d \in Sides,
           stream[o][d] \in {Source(f), Target(f)}
    PROVE  Obj(f) = o
<1>1. /\ Obj(f) \in Sessions /\ Source(f) \in Streams /\ Target(f) \in Streams
      /\ Side(Source(f)) = f[2] /\ Side(Target(f)) = Other(f[2])
  BY OwnerFacts
<1>2. stream[o][d] # None /\ Side(stream[o][d]) = d
  BY <1>1, BrokerAssumption DEF Placed
<1>3. CASE stream[o][d] = Source(f)
  <2>1. d = f[2] /\ stream[Obj(f)][d] = stream[o][d]
    BY <1>1, <1>2, <1>3 DEF Source
  <2>2. QED BY <1>1, <1>2, <2>1 DEF Placed
<1>4. CASE stream[o][d] = Target(f)
  <2>1. d = Other(f[2]) /\ stream[Obj(f)][d] = stream[o][d]
    BY <1>1, <1>2, <1>4 DEF Target
  <2>2. QED BY <1>1, <1>2, <2>1 DEF Placed
<1>5. QED BY <1>3, <1>4

LEMMA StepRunning ==
    ASSUME Inv, NEW f \in Forwarders, ForwarderStep(f)
    PROVE  Running'
<1>a. TypeOK /\ Running
  BY DEF Inv
<1>b. Obj(f) # None /\ Obj(f)' = Obj(f) /\ \A g \in Forwarders : Obj(g)' = Obj(g)
  BY <1>a, StepFrame, FixedSteps DEF Fixed, Obj
<1>c. stream' = stream
  BY FixedSteps DEF Fixed
<1>d. /\ pc[f] # "off" /\ (pc[f] \in {"send", "sending"} => hand[f] # None)
      /\ reading[f] = None \/ received[f] = None
      /\ \A d \in Sides : stream[Obj(f)][d] # None
  BY <1>a, <1>b DEF Running
<1>0. Target(f) # None
  BY <1>d, ForwarderParts DEF Target
<1>t. pc'[f] = "sending" => target'[f] # None
  <2>1. pc[f] = "sending" => target[f] # None
    BY <1>a, <1>b DEF Running
  <2>2. QED
    BY <1>a, <1>0, <2>1 DEF ForwarderStep, CallRecv, RecvPacket, RecvError, PutPacket, SeeStop,
                SeeError, TakePacket, CallSend, Send, SendError, ForwardEnd, fwdVars, TypeOK
<1>1. pc'[f] # "off" /\ (pc'[f] \in {"send", "sending"} => hand'[f] # None)
  BY <1>a, <1>d DEF ForwarderStep, CallRecv, RecvPacket, RecvError, PutPacket, SeeStop,
                SeeError, TakePacket, CallSend, Send, SendError, ForwardEnd, fwdVars, TypeOK
<1>2. reading'[f] = None \/ received'[f] = None
  BY <1>a, <1>d DEF ForwarderStep, CallRecv, RecvPacket, RecvError, PutPacket, SeeStop,
                SeeError, TakePacket, CallSend, Send, SendError, ForwardEnd, recvVars, TypeOK
<1>3. ASSUME NEW g \in Forwarders
      PROVE  IF Obj(g)' = None
             THEN /\ pc'[g] = "off"
                  /\ reading'[g] = None /\ received'[g] = None
                  /\ recvChan'[g] = None /\ hand'[g] = None /\ target'[g] = None
             ELSE /\ pc'[g] # "off"
                  /\ pc'[g] \in {"send", "sending"} => hand'[g] # None
                  /\ pc'[g] = "sending" => target'[g] # None
                  /\ reading'[g] = None \/ received'[g] = None
                  /\ \A d \in Sides : stream'[Obj(g)'][d] # None
  <2>1. CASE g = f
    BY <1>b, <1>c, <1>d, <1>t, <1>1, <1>2, <2>1
  <2>2. CASE g # f
    BY <1>a, <1>b, <1>c, <2>2, StepFrame DEF Running
  <2>3. QED BY <2>1, <2>2
<1>4. QED BY <1>3 DEF Running

LEMMA StepCarried ==
    ASSUME Inv, NEW f \in Forwarders, ForwarderStep(f)
    PROVE  Carried'
<1>a. TypeOK /\ Placed /\ Running /\ Carried
  BY DEF Inv
<1>b. Obj(f) # None /\ \A g \in Forwarders : Obj(g)' = Obj(g)
  BY <1>a, StepFrame, FixedSteps DEF Fixed, Obj
<1>c. stream' = stream /\ id' = id /\ registered' = registered
  BY FixedSteps DEF Fixed
<1>1. reading'[f] \in {Source(f), reading[f], None}
  BY <1>a DEF ForwarderStep, CallRecv, RecvPacket, RecvError, PutPacket, SeeStop,
                SeeError, TakePacket, CallSend, Send, SendError, ForwardEnd, recvVars, TypeOK, Source
<1>2. reading'[f] # None =>
         /\ registered[reading'[f]] = id[Obj(f)] /\ Side(reading'[f]) = f[2]
         /\ \A o \in Sessions, d \in Sides : stream[o][d] = reading'[f] => Obj(f) = o
  <2>1. CASE reading'[f] = Source(f)
    <3>1. registered[Source(f)] = id[Obj(f)] /\ Side(Source(f)) = f[2]
      BY <1>a, <1>b, OwnerFacts
    <3>2. \A o \in Sessions, d \in Sides : stream[o][d] = Source(f) => Obj(f) = o
      BY <1>a, <1>b, Owned
    <3>3. QED BY <2>1, <3>1, <3>2
  <2>2. CASE reading'[f] # Source(f)
    BY <1>a, <1>1, <2>2 DEF Carried
  <2>3. QED BY <2>1, <2>2
<1>t. target'[f] \in {Target(f), target[f], None}
  BY <1>a DEF ForwarderStep, CallRecv, RecvPacket, RecvError, PutPacket, SeeStop,
                SeeError, TakePacket, CallSend, Send, SendError, ForwardEnd, fwdVars, TypeOK
<1>s. target'[f] # None =>
         /\ registered[target'[f]] = id[Obj(f)] /\ Side(target'[f]) = Other(f[2])
         /\ \A o \in Sessions, d \in Sides : stream[o][d] = target'[f] => Obj(f) = o
  <2>1. CASE target'[f] = Target(f)
    <3>1. registered[Target(f)] = id[Obj(f)] /\ Side(Target(f)) = Other(f[2])
      BY <1>a, <1>b, OwnerFacts
    <3>2. \A o \in Sessions, d \in Sides : stream[o][d] = Target(f) => Obj(f) = o
      BY <1>a, <1>b, Owned
    <3>3. QED BY <2>1, <3>1, <3>2
  <2>2. CASE target'[f] # Target(f)
    BY <1>a, <1>t, <2>2 DEF Carried
  <2>3. QED BY <2>1, <2>2
<1>3. From(f, received'[f]) /\ From(f, recvChan'[f]) /\ From(f, hand'[f])
  <2>0. From(f, None) /\ From(f, received[f]) /\ From(f, recvChan[f]) /\ From(f, hand[f])
    BY <1>a DEF Carried, From
  <2>1. recvChan'[f] \in {recvChan[f], received[f], None} /\ hand'[f] \in {hand[f], recvChan[f], None}
    BY <1>a DEF ForwarderStep, CallRecv, RecvPacket, RecvError, PutPacket, SeeStop,
                SeeError, TakePacket, CallSend, Send, SendError, ForwardEnd, recvVars, fwdVars, TypeOK
  <2>2. CASE RecvPacket(f)
    <3>1. received'[f] = <<reading[f], taken[reading[f]] + 1>> /\ reading[f] # None
      BY <1>a, <2>2, BrokerAssumption DEF RecvPacket, TypeOK
    <3>2. From(f, received'[f])
      BY <1>a, <3>1 DEF Carried, From
    <3>3. QED BY <2>0, <2>1, <3>2
  <2>3. CASE ~RecvPacket(f)
    <3>1. received'[f] \in {received[f], None}
      BY <1>a, <2>3 DEF ForwarderStep, CallRecv, RecvError, PutPacket, SeeStop,
                SeeError, TakePacket, CallSend, Send, SendError, ForwardEnd, recvVars, TypeOK
    <3>2. QED BY <2>0, <2>1, <3>1
  <2>4. QED BY <2>2, <2>3
<1>4. ASSUME NEW g \in Forwarders
      PROVE  /\ reading'[g] # None =>
                   /\ registered'[reading'[g]] = id'[Obj(g)'] /\ Side(reading'[g]) = g[2]
                   /\ \A o \in Sessions, d \in Sides : stream'[o][d] = reading'[g] => Obj(g)' = o
             /\ target'[g] # None =>
                   /\ registered'[target'[g]] = id'[Obj(g)'] /\ Side(target'[g]) = Other(g[2])
                   /\ \A o \in Sessions, d \in Sides : stream'[o][d] = target'[g] => Obj(g)' = o
             /\ From(g, received[g])' /\ From(g, recvChan[g])' /\ From(g, hand[g])'
  <2>1. CASE g = f
    BY <1>b, <1>c, <1>2, <1>s, <1>3, <2>1 DEF From
  <2>2. CASE g # f
    BY <1>a, <1>b, <1>c, <2>2, StepFrame DEF Carried, From
  <2>3. QED BY <2>1, <2>2
<1>5. QED BY <1>4 DEF Carried

LEMMA StepUnused ==
    ASSUME Inv, NEW f \in Forwarders, ForwarderStep(f)
    PROVE  Unused'
<1>a. TypeOK /\ Placed /\ Running /\ Carried /\ Unused
  BY DEF Inv
<1>b. Obj(f) # None
  BY <1>a, StepFrame
<1>c. stream' = stream /\ owner' = owner /\ registered' = registered
  BY FixedSteps DEF Fixed
<1>d. Obj(f) \in Sessions /\ id[Obj(f)] # None
  BY <1>a, <1>b, OwnerFacts, BrokerAssumption
<1>1. ASSUME NEW r \in Streams, r # reading[f], r # target[f], Fresh(r)
      PROVE  Fresh(r)'
  BY <1>a, <1>1, StepFrame DEF Fresh
<1>2. ASSUME NEW r \in Streams, registered[r] = None
      PROVE  Fresh(r)'
  <2>1. r # reading[f] /\ r # target[f]
    BY <1>a, <1>d, <1>2, BrokerAssumption DEF Carried
  <2>2. QED BY <1>a, <1>1, <1>2, <2>1 DEF Unused
<1>3. ASSUME NEW o \in Sessions, NEW d \in Sides, stream[o][d] # None, \A p \in Pairs : owner[p] # o
      PROVE  Fresh(stream[o][d])'
  <2>0. stream[o][d] \in Streams
    BY <1>a, <1>3 DEF TypeOK
  <2>1. Obj(f) # o
    BY <1>3, ForwarderParts DEF Obj
  <2>2. stream[o][d] # reading[f] /\ stream[o][d] # target[f]
    BY <1>a, <1>3, <2>1 DEF Carried
  <2>3. Fresh(stream[o][d])
    BY <1>a, <1>3 DEF Unused
  <2>4. ASSUME NEW r \in Streams, r = stream[o][d] PROVE Fresh(r)'
    BY <1>1, <2>2, <2>3, <2>4
  <2>5. QED BY <1>c, <2>0, <2>4
<1>4. QED BY <1>c, <1>2, <1>3 DEF Unused

(* Sent packets.                                                           *)
LEMMA SendFacts ==
    ASSUME Inv, NEW f \in Forwarders, Send(f)
    PROVE  /\ hand[f] \in Packets /\ target[f] \in Streams
           /\ Len(delivered'[target[f]]) = Len(delivered[target[f]]) + 1
           /\ Len(delivered[target[f]]) \in Nat
           /\ DOMAIN delivered'[target[f]] = 1 .. Len(delivered[target[f]]) + 1
           /\ DOMAIN delivered[target[f]] = 1 .. Len(delivered[target[f]])
           /\ \A i \in DOMAIN delivered[target[f]] :
                 delivered'[target[f]][i] = delivered[target[f]][i]
           /\ delivered'[target[f]][Len(delivered[target[f]]) + 1] = hand[f]
           /\ \A r \in Streams \ {target[f]} : delivered'[r] = delivered[r]
<1>1. TypeOK /\ Placed /\ Running /\ Obj(f) # None
  BY StepFrame DEF Inv, ForwarderStep
<1>2. target[f] \in Streams
  BY <1>1 DEF Send, Running, TypeOK
<1>3. hand[f] \in Packets /\ delivered[target[f]] \in Seq(Packets)
  BY <1>1, <1>2 DEF Send, Running, TypeOK
<1>4. /\ delivered'[target[f]] = Append(delivered[target[f]], hand[f])
      /\ \A r \in Streams \ {target[f]} : delivered'[r] = delivered[r]
  BY <1>1, <1>2 DEF Send, TypeOK
<1>5. QED BY <1>2, <1>3, <1>4

LEMMA StepIsolation ==
    ASSUME Inv, NEW f \in Forwarders, ForwarderStep(f)
    PROVE  Isolation'
<1>a. TypeOK /\ Placed /\ Running /\ Carried /\ Isolation
  BY DEF Inv
<1>b. Obj(f) # None /\ registered' = registered
  BY <1>a, StepFrame, FixedSteps DEF Fixed
<1>1. CASE ~Send(f)
  BY <1>a, <1>b, <1>1 DEF ForwarderStep, CallRecv, RecvPacket, RecvError, PutPacket, SeeStop,
         SeeError, TakePacket, CallSend, SendError, ForwardEnd, netVars, Isolation
<1>2. CASE Send(f)
  <2>1. /\ registered[hand[f][1]] = registered[target[f]]
        /\ Side(hand[f][1]) = Other(Side(target[f]))
    <3>1. registered[target[f]] = id[Obj(f)] /\ Side(target[f]) = Other(f[2])
      BY <1>a, <1>b, <1>2 DEF Running, Carried, Send
    <3>2. hand[f] # None
      BY <1>a, <1>b, <1>2 DEF Running, Send
    <3>3. registered[hand[f][1]] = id[Obj(f)] /\ Side(hand[f][1]) = f[2]
      BY <1>a, <3>2 DEF Carried, From
    <3>4. QED BY <3>1, <3>3, ForwarderParts, SideFacts
  <2>2. ASSUME NEW s \in Streams, NEW i \in DOMAIN delivered'[s]
        PROVE  /\ registered[delivered'[s][i][1]] = registered[s]
               /\ Side(delivered'[s][i][1]) = Other(Side(s))
    <3>1. CASE s # target[f]
      <4>1. delivered'[s] = delivered[s]
        BY <1>2, <3>1, SendFacts
      <4>2. QED BY <1>a, <2>2, <4>1 DEF Isolation
    <3>2. CASE s = target[f]
      <4>1. CASE i \in DOMAIN delivered[s]
        <5>1. delivered'[s][i] = delivered[s][i]
          BY <1>2, <3>2, <4>1, SendFacts
        <5>2. QED BY <1>a, <4>1, <5>1 DEF Isolation
      <4>2. CASE i \notin DOMAIN delivered[s]
        <5>1. i = Len(delivered[s]) + 1
          BY <1>2, <2>2, <3>2, <4>2, SendFacts
        <5>2. QED BY <1>2, <2>1, <3>2, <5>1, SendFacts
      <4>3. QED BY <4>1, <4>2
    <3>3. QED BY <3>1, <3>2
  <2>3. QED BY <1>b, <2>2 DEF Isolation
<1>3. QED BY <1>1, <1>2

(* What another forwarder does leaves a forwarder's packets in line: it    *)
(* neither reads nor writes the same stream, or the object has two pairs.  *)
LEMMA OthersInLine ==
    ASSUME OrderInv, NEW f \in Forwarders, ForwarderStep(f),
           NEW g \in Forwarders, g # f, Obj(g) # None, Single(Obj(g))
    PROVE  InLine(g)'
<1>a. TypeOK /\ Placed /\ Running /\ Carried /\ Consecutive
  BY DEF OrderInv, Inv
<1>b. Obj(f) # None
  BY <1>a, StepFrame
<1>c. /\ Obj(g) \in Sessions /\ Source(g) \in Streams /\ Target(g) \in Streams
      /\ Side(Source(g)) = g[2] /\ Side(Target(g)) = Other(g[2])
  BY <1>a, OwnerFacts
<1>d. /\ f[1] \in Pairs /\ f[2] \in Sides /\ g[1] \in Pairs /\ g[2] \in Sides
      /\ Other(g[2]) \in Sides
  BY ForwarderParts
<1>1. Source(g) # reading[f]
  <2> SUFFICES ASSUME Source(g) = reading[f] PROVE FALSE
    OBVIOUS
  <2>1. Side(reading[f]) = f[2] /\ Obj(f) = Obj(g)
    BY <1>a, <1>c, <1>d, BrokerAssumption DEF Carried, Source
  <2>2. f[2] = g[2] /\ f[1] = g[1]
    BY <1>c, <1>d, <2>1 DEF Single, Obj
  <2>3. QED BY <2>2, SameForwarder
<1>2. Target(g) # target[f]
  <2> SUFFICES ASSUME Target(g) = target[f] PROVE FALSE
    OBVIOUS
  <2>1. Side(target[f]) = Other(f[2]) /\ Obj(f) = Obj(g)
    BY <1>a, <1>c, <1>d, BrokerAssumption DEF Carried, Target
  <2>2. f[2] = g[2]
    BY <1>c, <1>d, <2>1, SideFacts
  <2>3. f[1] = g[1]
    BY <1>d, <2>1 DEF Single, Obj
  <2>4. QED BY <2>2, <2>3, SameForwarder
<1>3. taken'[Source(g)] = taken[Source(g)] /\ delivered'[Target(g)] = delivered[Target(g)]
  BY <1>a, <1>c, <1>1, <1>2, StepFrame
<1>4. /\ pc'[g] = pc[g] /\ hand'[g] = hand[g] /\ reading'[g] = reading[g]
      /\ received'[g] = received[g] /\ recvChan'[g] = recvChan[g] /\ target'[g] = target[g]
  BY <1>a, StepFrame
<1>5. Source(g)' = Source(g) /\ Target(g)' = Target(g)
  BY FixedSteps DEF Fixed, Source, Target, Obj
<1>6. InLine(g)
  BY <1>a DEF Consecutive
<1>7. QED BY <1>3, <1>4, <1>5, <1>6 DEF InLine, SentBy, HeldBy, PutBy

(* Its own steps move a packet on by one stage, in order.                  *)
LEMMA OwnInLine ==
    ASSUME OrderInv, NEW f \in Forwarders, ForwarderStep(f), Single(Obj(f))
    PROVE  InLine(f)'
<1>a. Inv /\ TypeOK /\ Placed /\ Running /\ Carried /\ Consecutive
  BY DEF OrderInv, Inv
<1>b. Obj(f) # None
  BY <1>a, StepFrame
<1>c. Source(f) \in Streams /\ Target(f) \in Streams
  BY <1>a, <1>b, OwnerFacts
<1>d. Source(f)' = Source(f) /\ Target(f)' = Target(f)
  BY FixedSteps DEF Fixed, Source, Target, Obj
<1>e. InLine(f) /\ (reading[f] = None \/ received[f] = None)
  BY <1>a, <1>b DEF Consecutive, Running
<1>f. SentBy(f) \in Nat /\ None \notin Streams /\ taken[Source(f)] \in Nat
  <2>1. delivered[Target(f)] \in Seq(Packets) /\ taken[Source(f)] \in 0 .. MaxPackets
    BY <1>a, <1>c DEF TypeOK
  <2>2. QED BY <2>1, BrokerAssumption DEF SentBy
<1>1. CASE CallRecv(f)
  <2>1. reading'[f] = Source(f)
    BY <1>a, <1>1 DEF CallRecv, TypeOK, Source
  <2>2. UNCHANGED <<pc, target, hand, received, recvChan, taken, delivered>>
    BY <1>1 DEF CallRecv, fwdVars, netVars
  <2>3. QED BY <1>d, <1>e, <2>1, <2>2 DEF InLine, SentBy, HeldBy, PutBy
<1>2. CASE RecvPacket(f)
  <2>1. reading[f] = Source(f) /\ received[f] = None
    BY <1>a, <1>e, <1>f, <1>2, BrokerAssumption DEF RecvPacket, InLine
  <2>2. /\ reading'[f] = None
        /\ taken'[Source(f)] = taken[Source(f)] + 1
        /\ received'[f] = <<Source(f), taken[Source(f)] + 1>>
    BY <1>a, <1>c, <1>2, <2>1 DEF RecvPacket, TypeOK
  <2>3. UNCHANGED <<pc, target, hand, recvChan, delivered>>
    BY <1>2 DEF RecvPacket, fwdVars
  <2>4. SentBy(f)' = SentBy(f) /\ HeldBy(f)' = HeldBy(f) /\ PutBy(f)' = PutBy(f)
    BY <1>d, <2>3 DEF SentBy, HeldBy, PutBy
  <2>5. PutBy(f) \in Nat
    BY <1>f DEF HeldBy, PutBy, One
  <2>6. received'[f] # None
    <3>1. <<Source(f), taken[Source(f)] + 1>> \in Packets
      BY <1>a, <1>c, <1>2, <2>1, BrokerAssumption DEF RecvPacket, TypeOK, Packets
    <3>2. QED BY <2>2, <3>1, BrokerAssumption
  <2>7. QED BY <1>d, <1>e, <2>1, <2>2, <2>3, <2>4, <2>5, <2>6 DEF InLine, One
<1>3. CASE RecvError(f)
  <2>1. reading'[f] = None
    BY <1>a, <1>3 DEF RecvError, TypeOK
  <2>2. UNCHANGED <<pc, target, hand, received, recvChan, taken, delivered>>
    BY <1>3 DEF RecvError, fwdVars, netVars
  <2>3. QED BY <1>d, <1>e, <2>1, <2>2 DEF InLine, SentBy, HeldBy, PutBy
<1>4. CASE PutPacket(f)
  <2>1. received[f] # None /\ recvChan[f] = None
    BY <1>4 DEF PutPacket, HasRoom
  <2>2. reading' = reading /\ recvChan'[f] = received[f] /\ received'[f] = None
    BY <1>a, <1>4 DEF PutPacket, TypeOK
  <2>3. UNCHANGED <<pc, target, hand, taken, delivered>>
    BY <1>4 DEF PutPacket, fwdVars, netVars
  <2>4. SentBy(f)' = SentBy(f) /\ HeldBy(f)' = HeldBy(f)
    BY <1>d, <2>3 DEF SentBy, HeldBy
  <2>5. HeldBy(f) \in Nat /\ PutBy(f) = HeldBy(f) /\ PutBy(f)' = HeldBy(f) + 1
    BY <1>f, <2>1, <2>2, <2>4 DEF HeldBy, PutBy, One
  <2>6. QED BY <1>d, <1>e, <2>1, <2>2, <2>3, <2>4, <2>5 DEF InLine, One
<1>5. CASE SeeStop(f) \/ SeeError(f) \/ SendError(f) \/ ForwardEnd(f)
  <2>1. /\ pc'[f] \in {"closing", "done"} /\ reading'[f] \in {reading[f], None}
        /\ target'[f] \in {target[f], None}
    BY <1>a, <1>5 DEF SeeStop, SeeError, SendError, ForwardEnd, recvVars, TypeOK
  <2>2. delivered' = delivered
    BY <1>5 DEF SeeStop, SeeError, SendError, ForwardEnd, netVars
  <2>3. QED BY <1>d, <1>e, <2>1, <2>2 DEF InLine
<1>6. CASE TakePacket(f)
  <2>1. pc[f] = "select" /\ recvChan[f] # None
    BY <1>6 DEF TakePacket
  <2>2. pc'[f] = "send" /\ hand'[f] = recvChan[f] /\ recvChan'[f] = None
    BY <1>a, <1>6 DEF TakePacket, TypeOK
  <2>3. UNCHANGED <<target, reading, received, taken, delivered>>
    BY <1>6 DEF TakePacket, netVars
  <2>4. /\ SentBy(f)' = SentBy(f) /\ HeldBy(f) = SentBy(f) /\ PutBy(f) = SentBy(f) + 1
        /\ HeldBy(f)' = SentBy(f) + 1 /\ PutBy(f)' = SentBy(f) + 1
    BY <1>d, <1>f, <2>1, <2>2, <2>3 DEF SentBy, HeldBy, PutBy, One
  <2>5. QED BY <1>d, <1>e, <2>1, <2>2, <2>3, <2>4 DEF InLine
<1>7. CASE Send(f)
  <2>1. pc[f] = "sending" /\ hand[f] = <<Source(f), SentBy(f) + 1>> /\ target[f] = Target(f)
    BY <1>a, <1>b, <1>e, <1>7 DEF Send, InLine, Running
  <2>2. pc'[f] = "select" /\ target'[f] = None
    BY <1>a, <1>7 DEF Send, TypeOK
  <2>3. UNCHANGED <<reading, received, recvChan, taken>>
    BY <1>7 DEF Send, recvVars
  <2>4. SentBy(f)' = SentBy(f) + 1
    BY <1>a, <1>d, <1>7, <2>1, SendFacts DEF SentBy
  <2>5. /\ HeldBy(f)' = HeldBy(f) /\ PutBy(f)' = PutBy(f)
    BY <1>f, <2>1, <2>2, <2>3, <2>4 DEF HeldBy, PutBy, One
  <2>6. \A i \in DOMAIN delivered'[Target(f)] : delivered'[Target(f)][i] = <<Source(f), i>>
    <3>1. \A i \in DOMAIN delivered[Target(f)] : delivered[Target(f)][i] = <<Source(f), i>>
      BY <1>e DEF InLine
    <3>2. /\ DOMAIN delivered'[Target(f)] = 1 .. Len(delivered[Target(f)]) + 1
          /\ DOMAIN delivered[Target(f)] = 1 .. Len(delivered[Target(f)])
          /\ Len(delivered[Target(f)]) \in Nat
      BY <1>a, <1>7, <2>1, SendFacts
    <3>3. /\ \A i \in DOMAIN delivered[Target(f)] :
                delivered'[Target(f)][i] = delivered[Target(f)][i]
          /\ delivered'[Target(f)][Len(delivered[Target(f)]) + 1] = <<Source(f), SentBy(f) + 1>>
      BY <1>a, <1>7, <2>1, SendFacts
    <3>4. QED BY <3>1, <3>2, <3>3 DEF SentBy
  <2>7. QED BY <1>d, <1>e, <2>1, <2>2, <2>3, <2>5, <2>6 DEF InLine
<1>8. CASE CallSend(f)
  <2>1. pc[f] = "send" /\ pc'[f] = "sending" /\ target'[f] = Target(f)
    BY <1>a, <1>8 DEF CallSend, TypeOK
  <2>2. UNCHANGED <<reading, received, recvChan, hand, taken, delivered>>
    BY <1>8 DEF CallSend, recvVars, netVars
  <2>3. SentBy(f)' = SentBy(f) /\ HeldBy(f)' = HeldBy(f) /\ PutBy(f)' = PutBy(f)
    BY <1>d, <2>1, <2>2 DEF SentBy, HeldBy, PutBy, One
  <2>4. QED BY <1>d, <1>e, <2>1, <2>2, <2>3 DEF InLine
<1>9. QED BY <1>1, <1>2, <1>3, <1>4, <1>5, <1>6, <1>7, <1>8 DEF ForwarderStep

LEMMA StepOrder ==
    ASSUME OrderInv, NEW f \in Forwarders, ForwarderStep(f)
    PROVE  Consecutive' /\ InOrder'
<1>a. Inv /\ TypeOK /\ Placed /\ Running /\ Consecutive /\ InOrder
  BY DEF OrderInv, Inv
<1>b. Obj(f) # None /\ \A g \in Forwarders : Obj(g)' = Obj(g)
  BY <1>a, StepFrame, FixedSteps DEF Fixed, Obj
<1>c. id' = id /\ registered' = registered /\ owner' = owner
  BY FixedSteps DEF Fixed
<1>1. ASSUME NEW g \in Forwarders, Obj(g)' # None, Single(Obj(g))' PROVE InLine(g)'
  <2>1. Obj(g) # None /\ Single(Obj(g))
    BY <1>b, <1>c, <1>1 DEF Single
  <2>2. CASE g = f
    BY <2>1, <2>2, OwnInLine
  <2>3. CASE g # f
    BY <2>1, <2>3, OthersInLine
  <2>4. QED BY <2>2, <2>3
<1>2. ASSUME NEW s \in Streams, SinglePair(s)
      PROVE  \E r \in Streams : \A i \in DOMAIN delivered'[s] : delivered'[s][i] = <<r, i>>
  <2>1. CASE s # target[f]
    <3>1. delivered'[s] = delivered[s]
      BY <1>a, <2>1, StepFrame
    <3>2. QED BY <1>a, <1>2, <3>1 DEF InOrder
  <2>2. CASE s = target[f]
    <3>1. Obj(f) \in Sessions /\ Source(f) \in Streams
      BY <1>a, <1>b, OwnerFacts
    <3>2. registered[s] = id[Obj(f)]
      BY <1>a, <2>2, BrokerAssumption DEF Inv, Carried
    <3>3. Single(Obj(f))
      BY <1>2, <3>1, <3>2 DEF SinglePair, Single
    <3>4. InLine(f) /\ InLine(f)'
      BY <1>a, <1>b, <3>3, OwnInLine DEF Consecutive
    <3>5. s = Target(f)
      BY <2>2, <3>4, BrokerAssumption DEF InLine
    <3>6. Source(f)' = Source(f) /\ Target(f)' = s
      BY <3>5, FixedSteps DEF Fixed, Source, Target, Obj
    <3>7. QED BY <3>1, <3>4, <3>6 DEF InLine
  <2>3. QED BY <2>1, <2>2
<1>3. Consecutive'
  BY <1>1 DEF Consecutive
<1>4. InOrder'
  BY <1>c, <1>2 DEF InOrder, SinglePair
<1>5. QED BY <1>3, <1>4

LEMMA NextInv ==
    ASSUME OrderInv, [Next]_vars
    PROVE  OrderInv'
<1>a. Inv /\ TypeOK /\ MapSound
  BY DEF OrderInv, Inv
<1> USE DEF sessVars, fwdVars, recvVars, netVars, ctlVars
<1>1. ASSUME NEW x \in SessionIDs, NEW o \in Sessions, NEW s \in Streams, RegisterStream(x, o, s)
      PROVE  OrderInv'
  <2>1. Placed' /\ MapSound'
    BY <1>a, <1>1, RegisterPlaced
  <2>2. TypeOK' /\ Running' /\ Carried' /\ Unused' /\ Isolation'
    BY <1>a, <1>1, RegisterRest
  <2>3. Consecutive' /\ InOrder'
    BY <1>1, RegisterOrder
  <2>4. QED BY <2>1, <2>2, <2>3 DEF OrderInv, Inv
<1>2. ASSUME NEW f \in Forwarders, ForwarderStep(f)
      PROVE  OrderInv'
  <2>1. TypeOK' /\ MapSound'
    BY <1>a, <1>2, StepTypes
  <2>2. Placed'
    BY <1>a, <1>2, FixedSteps, FixedPlaced DEF Inv
  <2>3. Running' /\ Carried' /\ Unused' /\ Isolation'
    BY <1>a, <1>2, StepRunning, StepCarried, StepUnused, StepIsolation
  <2>4. Consecutive' /\ InOrder'
    BY <1>2, StepOrder
  <2>5. QED BY <2>1, <2>2, <2>3, <2>4 DEF OrderInv, Inv
<1>3. ASSUME Fixed, UNCHANGED <<fwdVars, recvVars, netVars>>, MapSound', TypeOK'
      PROVE  OrderInv'
  <2>1. Placed' /\ Running' /\ Carried' /\ Unused' /\ Isolation' /\ Consecutive' /\ InOrder'
    BY <1>3, Aside
  <2>2. QED BY <1>3, <2>1 DEF OrderInv, Inv
<1>4. ASSUME UNCHANGED <<fwdVars, recvVars, netVars, broken>>, NEW x \in SessionIDs, CloseByID(x),
             toClose' \subseteq SessionIDs, monitor' = monitor, closePC' = closePC
      PROVE  OrderInv'
  <2>1. BrokerClosed => BrokerClosed'
    BY <1>4 DEF BrokerClosed
  <2>2. /\ MapSound'
        /\ sessions' \in [SessionIDs -> Sessions \cup {None}]
        /\ stopped' \subseteq Sessions /\ stale' \subseteq Sessions
    BY <1>a, <1>4, <2>1, CloseFacts
  <2>3. TypeOK' /\ Fixed
    BY <1>a, <1>4, <2>2 DEF TypeOK, CloseByID, Fixed
  <2>4. QED BY <1>3, <1>4, <2>2, <2>3
<1>5. ASSUME UNCHANGED <<sessVars, fwdVars, recvVars, netVars>>, TypeOK', BrokerClosed => BrokerClosed'
      PROVE  OrderInv'
  <2>1. MapSound' /\ Fixed
    BY <1>a, <1>5 DEF MapSound, OpenInMap, Fixed
  <2>2. QED BY <1>3, <1>5, <2>1
<1>6. ASSUME NEW x \in SessionIDs, CloseSession(x) PROVE OrderInv'
  BY <1>a, <1>4, <1>6 DEF CloseSession, TypeOK
<1>7. ASSUME NEW x \in SessionIDs, CloseTimedOut(x) PROVE OrderInv'
  BY <1>a, <1>4, <1>7 DEF CloseTimedOut, TypeOK
<1>8. ASSUME NEW s \in Streams, Break(s) PROVE OrderInv'
  <2>1. TypeOK' /\ MapSound' /\ Fixed
    BY <1>a, <1>8, BrokerAssumption DEF Break, TypeOK, MapSound, OpenInMap, Fixed, BrokerClosed
  <2>2. UNCHANGED <<pc, reading, received, recvChan, target, hand, taken, delivered>>
    BY <1>8 DEF Break
  <2>3. Placed' /\ Running' /\ Carried' /\ Unused' /\ Isolation' /\ Consecutive' /\ InOrder'
    BY <2>1, <2>2, Aside
  <2>4. QED BY <2>1, <2>3 DEF OrderInv, Inv
<1>9. ASSUME NEW o \in Sessions, HeartbeatMissed(o) PROVE OrderInv'
  <2>1. TypeOK' /\ (BrokerClosed => BrokerClosed')
    BY <1>a, <1>9 DEF HeartbeatMissed, TypeOK, BrokerClosed
  <2>2. QED BY <1>5, <1>9, <2>1 DEF HeartbeatMissed
<1>10. CASE CheckHeartbeats \/ MonitorEnd
  <2>1. TypeOK' /\ (BrokerClosed => BrokerClosed')
    BY <1>a, <1>10 DEF CheckHeartbeats, MonitorEnd, TimedOut, TypeOK, BrokerClosed
  <2>2. QED BY <1>5, <1>10, <2>1 DEF CheckHeartbeats, MonitorEnd
<1>11. CASE Close \/ CloseReturn
  <2>1. TypeOK' /\ (BrokerClosed => BrokerClosed')
    BY <1>a, <1>11 DEF Close, CloseReturn, TypeOK, BrokerClosed
  <2>2. QED BY <1>5, <1>11, <2>1 DEF Close, CloseReturn
<1>12. CASE CloseAll
  <2>1. TypeOK' /\ Fixed /\ UNCHANGED <<fwdVars, recvVars, netVars>>
    BY <1>a, <1>12 DEF CloseAll, TypeOK, Fixed
  <2>2. BrokerClosed'
    BY <1>12 DEF CloseAll, BrokerClosed
  <2>3. MapSound'
    BY <1>a, <1>12, <2>2, BrokerAssumption DEF CloseAll, MapSound, OpenInMap
  <2>4. QED BY <1>3, <2>1, <2>3
<1>13. CASE UNCHANGED vars
  <2>1. TypeOK' /\ (BrokerClosed => BrokerClosed')
    BY <1>a, <1>13 DEF vars, TypeOK, BrokerClosed
  <2>2. QED BY <1>5, <1>13, <2>1 DEF vars
<1>14. QED
  BY <1>1, <1>2, <1>6, <1>7, <1>8, <1>9, <1>10, <1>11, <1>12, <1>13 DEF Next, ForwarderStep

-----------------------------------------------------------------------------
(* The conjuncts of OrderInv hold together in every reachable state of the *)
(* broker: each needs the others of the step before.                       *)
THEOREM OrderInvariant == Spec => []OrderInv
BY InitInv, NextInv, PTL DEF Spec

(* Every variable of the broker keeps its type.                            *)
THEOREM BrokerTypeCorrect == Spec => []TypeOK
<1>1. OrderInv => TypeOK
  BY DEF OrderInv, Inv
<1>2. QED BY <1>1, OrderInvariant, PTL

(* The map of the broker holds each session under its own ID, and none     *)
(* whose stop channel is closed until Close itself closes them.            *)
THEOREM BrokerOpenInMap == Spec => []OpenInMap
<1>1. OrderInv => OpenInMap
  BY DEF OrderInv, Inv, MapSound
<1>2. QED BY <1>1, OrderInvariant, PTL

(* What forwardPackets sends into a stream was read from a stream that was *)
(* registered with the same session ID for the other side, however         *)
(* registrations, closes and heartbeat timeouts interleave.                *)
THEOREM BrokerIsolation == Spec => []Isolation
<1>1. OrderInv => Isolation
  BY DEF OrderInv, Inv
<1>2. QED BY <1>1, OrderInvariant, PTL

(* A stream of a session with one pair of forwarders receives the packets  *)
(* of one peer in order, each once and without gaps.                       *)
THEOREM BrokerInOrder == Spec => []InOrder
<1>1. OrderInv => InOrder
  BY DEF OrderInv
<1>2. QED BY <1>1, OrderInvariant, PTL

-----------------------------------------------------------------------------
(* The broker implements PacketSwitch.  A packet that was taken from its   *)
(* stream is in one place at most: with a receiver, in a channel, in the   *)
(* hand of a forwarder (also of one that failed to send it), or sent.      *)
Stages == {"received", "recvChan", "hand"}

Slot(f, k) == IF k = "received" THEN received[f]
              ELSE IF k = "recvChan" THEN recvChan[f] ELSE hand[f]

WasTaken(m) == m[2] <= taken[m[1]]

SlotsTaken == \A f \in Forwarders, k \in Stages : Slot(f, k) # None => WasTaken(Slot(f, k))

SlotsDiffer ==
    \A f, g \in Forwarders, k, l \in Stages :
        Slot(f, k) # None /\ Slot(f, k) = Slot(g, l) => f = g /\ k = l

SentTaken == \A s \in Streams : \A i \in DOMAIN delivered[s] : WasTaken(delivered[s][i])

SentGone ==
    \A s \in Streams : \A i \in DOMAIN delivered[s] :
        \A f \in Forwarders, k \in Stages : Slot(f, k) # delivered[s][i]

OnePlace == SlotsTaken /\ SlotsDiffer /\ SentTaken /\ SentGone

(* What a slot and a sequence of sent packets hold.                        *)
LEMMA SlotTypes ==
    ASSUME TypeOK
    PROVE  /\ \A f \in Forwarders, k \in Stages : Slot(f, k) \in Packets \cup {None}
           /\ \A s \in Streams : \A i \in DOMAIN delivered[s] : delivered[s][i] \in Packets
           /\ \A s \in Streams : taken[s] \in Nat
           /\ \A m \in Packets : m # None /\ m[1] \in Streams /\ m[2] \in Nat /\ m = <<m[1], m[2]>>
<1>1. \A f \in Forwarders, k \in Stages : Slot(f, k) \in Packets \cup {None}
  BY DEF TypeOK, Slot
<1>2. ASSUME NEW s \in Streams, NEW i \in DOMAIN delivered[s]
      PROVE  delivered[s][i] \in Packets
  <2>1. delivered[s] \in Seq(Packets)
    BY DEF TypeOK
  <2>2. QED BY <1>2, <2>1
<1>3. \A s \in Streams : taken[s] \in Nat
  BY BrokerAssumption DEF TypeOK
<1>4. \A m \in Packets : m # None /\ m[1] \in Streams /\ m[2] \in Nat /\ m = <<m[1], m[2]>>
  BY BrokerAssumption DEF Packets
<1>5. QED BY <1>1, <1>2, <1>3, <1>4

(* Steps in which packets stay where they are or are dropped.              *)
LEMMA DropStep ==
    ASSUME TypeOK, OnePlace, UNCHANGED <<taken, delivered>>,
           \A f \in Forwarders, k \in Stages : Slot(f, k)' \in {Slot(f, k), None}
    PROVE  OnePlace'
<1>1. SlotsTaken' /\ SlotsDiffer'
  BY DEF OnePlace, SlotsTaken, SlotsDiffer, WasTaken
<1>2. SentTaken'
  BY DEF OnePlace, SentTaken, WasTaken
<1>3. ASSUME NEW s \in Streams, NEW i \in DOMAIN delivered[s], NEW f \in Forwarders, NEW k \in Stages
      PROVE  Slot(f, k)' # delivered[s][i]
  <2>1. Slot(f, k) # delivered[s][i]
    BY DEF OnePlace, SentGone
  <2>2. delivered[s][i] # None
    BY SlotTypes
  <2>3. Slot(f, k)' \in {Slot(f, k), None}
    OBVIOUS
  <2>4. QED BY <2>1, <2>2, <2>3
<1>4. SentGone'
  BY <1>3 DEF SentGone
<1>5. QED BY <1>1, <1>2, <1>4 DEF OnePlace

(* A forwarder or its receiver hands its packet on to the next stage.      *)
LEMMA MoveStep ==
    ASSUME TypeOK, OnePlace, UNCHANGED <<taken, delivered>>,
           NEW f \in Forwarders, NEW k \in Stages, NEW l \in Stages, k # l,
           Slot(f, l)' = Slot(f, k), Slot(f, k)' = None,
           \A g \in Forwarders, j \in Stages :
              Slot(g, j)' = Slot(g, j) \/ (g = f /\ j \in {k, l})
    PROVE  OnePlace'
<1>1. ASSUME NEW g \in Forwarders, NEW j \in Stages, Slot(g, j)' # None
      PROVE  \/ g = f /\ j = l /\ Slot(g, j)' = Slot(f, k)
             \/ ~(g = f /\ j \in {k, l}) /\ Slot(g, j)' = Slot(g, j)
  <2>1. Slot(g, j)' = Slot(g, j) \/ (g = f /\ j \in {k, l})
    OBVIOUS
  <2>2. CASE g = f /\ j = k
    BY <1>1, <2>2
  <2>3. CASE g = f /\ j = l
    BY <2>3
  <2>4. CASE ~(g = f /\ j \in {k, l})
    BY <2>1, <2>4
  <2>5. QED BY <2>2, <2>3, <2>4
<1>2. SlotsTaken'
  BY <1>1 DEF OnePlace, SlotsTaken, WasTaken
<1>3. ASSUME NEW g \in Forwarders, NEW h \in Forwarders, NEW i \in Stages, NEW j \in Stages,
             Slot(g, i)' # None, Slot(g, i)' = Slot(h, j)'
      PROVE  g = h /\ i = j
  BY <1>1, <1>3 DEF OnePlace, SlotsDiffer
<1>4. SlotsDiffer'
  BY <1>3 DEF SlotsDiffer
<1>5. SentTaken'
  BY DEF OnePlace, SentTaken, WasTaken
<1>6. ASSUME NEW s \in Streams, NEW i \in DOMAIN delivered[s], NEW g \in Forwarders, NEW j \in Stages
      PROVE  Slot(g, j)' # delivered[s][i]
  <2>1. \A h \in Forwarders, m \in Stages : Slot(h, m) # delivered[s][i]
    BY DEF OnePlace, SentGone
  <2>2. delivered[s][i] # None
    BY SlotTypes
  <2>3. QED BY <1>1, <2>1, <2>2
<1>7. SentGone'
  BY <1>6 DEF SentGone
<1>8. QED BY <1>2, <1>4, <1>5, <1>7 DEF OnePlace

(* Recv returns a packet with a number that no other has.                  *)
LEMMA RecvStep ==
    ASSUME TypeOK, OnePlace, NEW f \in Forwarders, RecvPacket(f)
    PROVE  OnePlace'
<1>1. PICK r \in Streams : r = reading[f]
  BY BrokerAssumption DEF RecvPacket
<1>2. /\ taken'[r] = taken[r] + 1
      /\ \A s \in Streams \ {r} : taken'[s] = taken[s]
      /\ delivered' = delivered
  BY <1>1 DEF RecvPacket, TypeOK
<1>3. /\ Slot(f, "received")' = <<r, taken[r] + 1>>
      /\ \A g \in Forwarders, k \in Stages :
            Slot(g, k)' = Slot(g, k) \/ (g = f /\ k = "received")
  <2>1. received'[f] = <<r, taken[r] + 1>> /\ \A g \in Forwarders \ {f} : received'[g] = received[g]
    BY <1>1 DEF RecvPacket, TypeOK
  <2>2. recvChan' = recvChan /\ hand' = hand
    BY DEF RecvPacket, fwdVars
  <2>3. QED BY <2>1, <2>2 DEF Slot
<1>4. ASSUME NEW m \in Packets, WasTaken(m)
      PROVE  WasTaken(m)' /\ m # <<r, taken[r] + 1>>
  <2>1. m[1] \in Streams /\ m[2] \in Nat /\ taken[m[1]] \in Nat
    BY SlotTypes
  <2>2. m[2] <= taken[m[1]]
    BY <1>4 DEF WasTaken
  <2>3. m[2] <= taken'[m[1]]
    BY <1>2, <2>1, <2>2
  <2>4. ASSUME m = <<r, taken[r] + 1>> PROVE FALSE
    <3>1. m[1] = r /\ m[2] = taken[r] + 1
      BY <2>4
    <3>2. QED BY <2>1, <2>2, <3>1
  <2>5. QED BY <2>3, <2>4 DEF WasTaken
<1>5. ASSUME NEW g \in Forwarders, NEW k \in Stages, Slot(g, k) # None
      PROVE  Slot(g, k) \in Packets /\ WasTaken(Slot(g, k))
  BY <1>5, SlotTypes DEF OnePlace, SlotsTaken
<1>6. taken[r] \in Nat
  BY SlotTypes
<1>7. ASSUME NEW g \in Forwarders, NEW k \in Stages, Slot(g, k)' # None
      PROVE  WasTaken(Slot(g, k))'
  <2>1. CASE g = f /\ k = "received"
    <3>1. Slot(g, k)' = <<r, taken[r] + 1>>
      BY <1>3, <2>1
    <3>2. QED BY <1>2, <1>6, <3>1 DEF WasTaken
  <2>2. CASE ~(g = f /\ k = "received")
    <3>1. PICK m : m = Slot(g, k)
      OBVIOUS
    <3>2. Slot(g, k)' = m
      BY <1>3, <2>2, <3>1
    <3>3. m \in Packets /\ WasTaken(m)
      BY <1>5, <1>7, <3>1, <3>2
    <3>4. WasTaken(m)'
      BY <1>4, <3>3
    <3>5. QED BY <3>2, <3>4 DEF WasTaken
  <2>3. QED BY <2>1, <2>2
<1>8. SlotsTaken'
  BY <1>7 DEF SlotsTaken
<1>9. ASSUME NEW g \in Forwarders, NEW h \in Forwarders, NEW k \in Stages, NEW l \in Stages,
             Slot(g, k)' # None, Slot(g, k)' = Slot(h, l)'
      PROVE  g = h /\ k = l
  <2>1. \A e \in Forwarders, j \in Stages : Slot(e, j) # <<r, taken[r] + 1>>
    <3>1. <<r, taken[r] + 1>> \in Packets
      BY <1>1, <1>6, BrokerAssumption DEF RecvPacket, Packets
    <3>2. QED BY <1>4, <1>5, <3>1, SlotTypes
  <2>2. \A e \in Forwarders, j \in Stages :
           \/ Slot(e, j)' = Slot(e, j) /\ ~(e = f /\ j = "received")
           \/ Slot(e, j)' = <<r, taken[r] + 1>> /\ e = f /\ j = "received"
    BY <1>3
  <2>3. QED BY <1>9, <2>1, <2>2 DEF OnePlace, SlotsDiffer
<1>10. SlotsDiffer'
  BY <1>9 DEF SlotsDiffer
<1>11. ASSUME NEW s \in Streams, NEW i \in DOMAIN delivered[s]
       PROVE  /\ WasTaken(delivered[s][i])'
              /\ \A g \in Forwarders, k \in Stages : Slot(g, k)' # delivered[s][i]
  <2>1. PICK m : m = delivered[s][i]
    OBVIOUS
  <2>2. m \in Packets /\ WasTaken(m)
    BY <2>1, SlotTypes DEF OnePlace, SentTaken
  <2>3. WasTaken(m)' /\ m # <<r, taken[r] + 1>>
    BY <1>4, <2>2
  <2>4. \A g \in Forwarders, k \in Stages : Slot(g, k) # m
    BY <2>1 DEF OnePlace, SentGone
  <2>5. \A g \in Forwarders, k \in Stages : Slot(g, k)' # m
    BY <1>3, <2>3, <2>4
  <2>6. WasTaken(delivered[s][i])'
    BY <1>2, <2>1, <2>3 DEF WasTaken
  <2>7. QED BY <2>1, <2>5, <2>6
<1>12. SentTaken' /\ SentGone'
  BY <1>2, <1>11 DEF SentTaken, SentGone
<1>13. QED BY <1>8, <1>10, <1>12 DEF OnePlace

(* Send: the packet leaves the hand of the forwarder for good.             *)
LEMMA SendStep ==
    ASSUME Inv, OnePlace, NEW f \in Forwarders, Send(f)
    PROVE  OnePlace'
<1>a. TypeOK /\ target[f] \in Streams /\ hand[f] \in Packets
  BY SendFacts DEF Inv
<1>b. PICK t \in Streams : t = target[f]
  BY <1>a
<1>c. PICK m \in Packets : m = hand[f]
  BY <1>a
<1>d. m # None
  BY <1>a, SlotTypes
<1>1. /\ Slot(f, "hand") = m /\ Slot(f, "hand")' = None
      /\ \A g \in Forwarders, k \in Stages :
            Slot(g, k)' = Slot(g, k) \/ (g = f /\ k = "hand")
  <2>1. hand'[f] = None /\ \A g \in Forwarders \ {f} : hand'[g] = hand[g]
    BY <1>a DEF Send, TypeOK
  <2>2. received' = received /\ recvChan' = recvChan
    BY DEF Send, recvVars
  <2>3. QED BY <1>c, <2>1, <2>2 DEF Slot, Stages
<1>2. taken' = taken
  BY DEF Send
<1>3. ASSUME NEW s \in Streams, NEW i \in DOMAIN delivered'[s]
      PROVE  \/ i \in DOMAIN delivered[s] /\ delivered'[s][i] = delivered[s][i]
             \/ delivered'[s][i] = m
  <2>1. CASE s = t
    <3>1. i \in 1 .. Len(delivered[t]) + 1 /\ Len(delivered[t]) \in Nat
      BY <1>b, <2>1, SendFacts
    <3>2. i \in 1 .. Len(delivered[t]) \/ i = Len(delivered[t]) + 1
      BY <3>1
    <3>3. QED BY <1>b, <1>c, <2>1, <3>2, SendFacts
  <2>2. CASE s # t
    <3>1. delivered'[s] = delivered[s]
      BY <1>b, <2>2, SendFacts
    <3>2. QED BY <3>1
  <2>3. QED BY <2>1, <2>2
<1>4. SlotsTaken'
  BY <1>1, <1>2 DEF OnePlace, SlotsTaken, WasTaken
<1>5. SlotsDiffer'
  BY <1>1 DEF OnePlace, SlotsDiffer
<1>6. WasTaken(m)
  BY <1>1, <1>d DEF OnePlace, SlotsTaken, Stages
<1>7. SentTaken'
  BY <1>2, <1>3, <1>6 DEF OnePlace, SentTaken, WasTaken
<1>8. ASSUME NEW g \in Forwarders, NEW k \in Stages
      PROVE  Slot(g, k)' # m
  <2>1. CASE g = f /\ k = "hand"
    BY <1>1, <1>d, <2>1
  <2>2. CASE ~(g = f /\ k = "hand")
    <3>1. Slot(g, k)' = Slot(g, k)
      BY <1>1, <2>2
    <3>2. "hand" \in Stages
      BY DEF Stages
    <3>3. QED BY <1>1, <1>d, <2>2, <3>1, <3>2 DEF OnePlace, SlotsDiffer
  <2>3. QED BY <2>1, <2>2
<1>9. ASSUME NEW s \in Streams, NEW i \in DOMAIN delivered'[s], NEW g \in Forwarders, NEW k \in Stages
      PROVE  Slot(g, k)' # delivered'[s][i]
  <2>1. CASE delivered'[s][i] = m
    BY <1>8, <2>1
  <2>2. CASE i \in DOMAIN delivered[s] /\ delivered'[s][i] = delivered[s][i]
    <3>1. Slot(g, k) # delivered[s][i]
      BY <2>2 DEF OnePlace, SentGone
    <3>2. delivered[s][i] # None
      BY <1>a, <2>2, SlotTypes
    <3>3. Slot(g, k)' \in {Slot(g, k), None}
      BY <1>1
    <3>4. QED BY <2>2, <3>1, <3>2, <3>3
  <2>3. QED BY <1>3, <2>1, <2>2
<1>10. SentGone'
  BY <1>9 DEF SentGone
<1>11. QED BY <1>4, <1>5, <1>7, <1>10 DEF OnePlace

(* Every other step of a forwarder leaves taken and delivered alone.       *)
LEMMA StepOnePlace ==
    ASSUME Inv, OnePlace, NEW f \in Forwarders, ForwarderStep(f)
    PROVE  OnePlace'
<1>a. TypeOK
  BY DEF Inv
<1> USE DEF fwdVars, recvVars, netVars
<1>1. CASE \/ CallRecv(f) \/ RecvError(f) \/ SeeStop(f) \/ SeeError(f)
           \/ CallSend(f) \/ SendError(f)
  <2>1. UNCHANGED <<taken, delivered, received, recvChan, hand>>
    BY <1>1 DEF CallRecv, RecvError, SeeStop, SeeError, CallSend, SendError
  <2>2. \A g \in Forwarders, k \in Stages : Slot(g, k)' = Slot(g, k)
    BY <2>1 DEF Slot
  <2>3. QED BY <1>a, <2>1, <2>2, DropStep
<1>2. CASE ForwardEnd(f)
  <2>1. UNCHANGED <<taken, delivered, hand>>
    BY <1>2 DEF ForwardEnd
  <2>2. \A g \in Forwarders :
           received'[g] \in {received[g], None} /\ recvChan'[g] \in {recvChan[g], None}
    BY <1>a, <1>2 DEF ForwardEnd, TypeOK
  <2>3. \A g \in Forwarders, k \in Stages : Slot(g, k)' \in {Slot(g, k), None}
    BY <2>1, <2>2 DEF Slot
  <2>4. QED BY <1>a, <2>1, <2>3, DropStep
<1>3. CASE PutPacket(f)
  <2>1. UNCHANGED <<taken, delivered, hand>>
    BY <1>3 DEF PutPacket
  <2>2. /\ recvChan'[f] = received[f] /\ received'[f] = None
        /\ \A g \in Forwarders \ {f} : recvChan'[g] = recvChan[g] /\ received'[g] = received[g]
    BY <1>a, <1>3 DEF PutPacket, TypeOK
  <2>3. /\ "received" \in Stages /\ "recvChan" \in Stages /\ "received" # "recvChan"
        /\ Slot(f, "recvChan")' = Slot(f, "received") /\ Slot(f, "received")' = None
        /\ \A g \in Forwarders, j \in Stages :
              Slot(g, j)' = Slot(g, j) \/ (g = f /\ j \in {"received", "recvChan"})
    BY <2>1, <2>2 DEF Slot, Stages
  <2>4. QED BY <1>a, <2>1, <2>3, MoveStep
<1>4. CASE TakePacket(f)
  <2>1. UNCHANGED <<taken, delivered, received>>
    BY <1>4 DEF TakePacket
  <2>2. /\ hand'[f] = recvChan[f] /\ recvChan'[f] = None
        /\ \A g \in Forwarders \ {f} : recvChan'[g] = recvChan[g] /\ hand'[g] = hand[g]
    BY <1>a, <1>4 DEF TakePacket, TypeOK
  <2>3. /\ "recvChan" \in Stages /\ "hand" \in Stages /\ "recvChan" # "hand"
        /\ Slot(f, "hand")' = Slot(f, "recvChan") /\ Slot(f, "recvChan")' = None
        /\ \A g \in Forwarders, j \in Stages :
              Slot(g, j)' = Slot(g, j) \/ (g = f /\ j \in {"recvChan", "hand"})
    BY <2>1, <2>2 DEF Slot, Stages
  <2>4. QED BY <1>a, <2>1, <2>3, MoveStep
<1>5. CASE RecvPacket(f)
  BY <1>a, <1>5, RecvStep
<1>6. CASE Send(f)
  BY <1>6, SendStep
<1>7. QED BY <1>1, <1>2, <1>3, <1>4, <1>5, <1>6 DEF ForwarderStep

(* Steps that are not those of a forwarder: a registration, or one that    *)
(* leaves the switch and the forwarders' packets alone.                    *)
LEMMA StepKinds ==
    ASSUME [Next]_vars
    PROVE  \/ \E f \in Forwarders : ForwarderStep(f)
           \/ \E x \in SessionIDs, o \in Sessions, s \in Streams : RegisterStream(x, o, s)
           \/ UNCHANGED <<registered, taken, delivered, received, recvChan, hand>>
<1> USE DEF sessVars, fwdVars, recvVars, netVars
<1>1. CASE \/ \E s \in Streams : Break(s)
           \/ \E x \in SessionIDs : CloseSession(x) \/ CloseTimedOut(x)
           \/ \E o \in Sessions : HeartbeatMissed(o)
  BY <1>1 DEF Break, CloseSession, CloseTimedOut, HeartbeatMissed
<1>2. CASE CheckHeartbeats \/ MonitorEnd \/ Close \/ CloseAll \/ CloseReturn \/ UNCHANGED vars
  BY <1>2 DEF CheckHeartbeats, MonitorEnd, Close, CloseAll, CloseReturn, vars
<1>3. CASE \/ \E f \in Forwarders : ForwarderStep(f)
           \/ \E x \in SessionIDs, o \in Sessions, s \in Streams : RegisterStream(x, o, s)
  BY <1>3
<1>4. QED BY <1>1, <1>2, <1>3 DEF Next, ForwarderStep

LEMMA NextOnePlace ==
    ASSUME OrderInv, OnePlace, [Next]_vars
    PROVE  OnePlace'
<1>a. Inv /\ TypeOK
  BY DEF OrderInv, Inv
<1>1. ASSUME NEW f \in Forwarders, ForwarderStep(f) PROVE OnePlace'
  BY <1>a, <1>1, StepOnePlace
<1>2. ASSUME UNCHANGED <<taken, delivered, received, recvChan, hand>> PROVE OnePlace'
  <2>1. \A g \in Forwarders, k \in Stages : Slot(g, k)' = Slot(g, k)
    BY <1>2 DEF Slot
  <2>2. QED BY <1>a, <1>2, <2>1, DropStep
<1>3. ASSUME NEW x \in SessionIDs, NEW o \in Sessions, NEW s \in Streams, RegisterStream(x, o, s)
      PROVE  OnePlace'
  <2>1. UNCHANGED <<taken, delivered, received, recvChan, hand>>
    BY <1>3 DEF RegisterStream, recvVars
  <2>2. QED BY <1>2, <2>1
<1>4. QED BY <1>1, <1>2, <1>3, StepKinds

LEMMA InitOnePlace == Init => OnePlace
<1> SUFFICES ASSUME Init PROVE OnePlace
  OBVIOUS
<1>1. \A f \in Forwarders, k \in Stages : Slot(f, k) = None
  BY DEF Init, Slot
<1>2. \A s \in Streams : DOMAIN delivered[s] = {}
  BY DEF Init
<1>3. QED BY <1>1, <1>2 DEF OnePlace, SlotsTaken, SlotsDiffer, SentTaken, SentGone

(* A packet read from a stream is in one place at most: with a receiver,   *)
(* in a forwarder's channel, in a forwarder's hand, or sent.               *)
THEOREM PacketsInOnePlace == Spec => [](OrderInv /\ OnePlace)
<1>1. Init => OrderInv /\ OnePlace
  BY InitInv, InitOnePlace
<1>2. (OrderInv /\ OnePlace) /\ [Next]_vars => (OrderInv /\ OnePlace)'
  BY NextInv, NextOnePlace
<1>3. QED BY <1>1, <1>2, PTL DEF Spec

-----------------------------------------------------------------------------
LEMMA SwitchRegister ==
    ASSUME NEW x \in SessionIDs, NEW o \in Sessions, NEW s \in Streams, RegisterStream(x, o, s)
    PROVE  Switch!Register(s, x)
BY DEF RegisterStream, Switch!Register

LEMMA SwitchTake ==
    ASSUME Inv, NEW f \in Forwarders, RecvPacket(f)
    PROVE  \E s \in Streams : Switch!Take(s)
<1>1. PICK s \in Streams : s = reading[f]
  BY BrokerAssumption DEF RecvPacket
<1>2. Obj(f) # None /\ TypeOK /\ Placed /\ Running
  BY StepFrame DEF Inv, ForwarderStep
<1>3. registered[s] = id[Obj(f)]
  BY <1>1, BrokerAssumption DEF Inv, Carried
<1>4. registered[s] # None
  BY <1>2, <1>3, OwnerFacts, BrokerAssumption
<1>5. UNCHANGED <<registered, delivered>> /\ taken' = [taken EXCEPT ![s] = @ + 1]
  BY <1>1 DEF RecvPacket
<1>6. QED BY <1>4, <1>5 DEF Switch!Take

LEMMA SwitchDeliver ==
    ASSUME Inv, OnePlace, NEW f \in Forwarders, Send(f)
    PROVE  \E s, r \in Streams : \E n \in 1 .. taken[r] : Switch!Deliver(s, r, n)
<1>1. Obj(f) # None /\ TypeOK /\ Placed /\ Running /\ Carried
  BY StepFrame DEF Inv, ForwarderStep
<1>2. PICK s \in Streams : s = target[f]
  BY SendFacts
<1>3. PICK r \in Streams, n \in 1 .. MaxPackets : hand[f] = <<r, n>>
  BY SendFacts DEF Packets
<1>4. <<r, n>> # None /\ <<r, n>>[1] = r /\ <<r, n>>[2] = n
  BY <1>3, SendFacts, BrokerAssumption
<1>5. /\ registered[s] = id[Obj(f)] /\ id[Obj(f)] # None /\ Side(s) = Other(f[2])
  <2>1. registered[s] = id[Obj(f)] /\ Side(s) = Other(f[2])
    BY <1>1, <1>2, BrokerAssumption DEF Carried
  <2>2. QED BY <1>1, <2>1, OwnerFacts, BrokerAssumption
<1>6. From(f, hand[f])
  BY <1>1 DEF Carried
<1>7. registered[r] = id[Obj(f)] /\ Side(r) = f[2]
  BY <1>3, <1>4, <1>6 DEF From
<1>8. Side(s) # Side(r)
  BY <1>5, <1>7, SideFacts, ForwarderParts
<1>9. Switch!Opposed(s, r)
  BY <1>8, BrokerAssumption DEF Switch!Opposed, Side, Streams
<1>10. Slot(f, "hand") = <<r, n>> /\ "hand" \in Stages
  BY <1>3 DEF Slot, Stages
<1>11. \A t \in Streams : \A i \in DOMAIN delivered[t] : delivered[t][i] # <<r, n>>
  BY <1>10 DEF OnePlace, SentGone
<1>12. n <= taken[r]
  BY <1>4, <1>10 DEF OnePlace, SlotsTaken, WasTaken
<1>13. n \in 1 .. taken[r]
  BY <1>1, <1>12, SlotTypes, BrokerAssumption
<1>14. /\ delivered' = [delivered EXCEPT ![s] = Append(@, <<r, n>>)]
       /\ UNCHANGED <<registered, taken>>
  BY <1>2, <1>3 DEF Send
<1>15. Switch!Streams = Streams
  BY DEF Switch!Streams, Streams
<1>16. Switch!Deliver(s, r, n)
  BY <1>5, <1>7, <1>9, <1>11, <1>14, <1>15 DEF Switch!Deliver
<1>17. QED BY <1>13, <1>16

(* The broker implements PacketSwitch: RegisterStream registers, Recv      *)
(* takes, Send delivers a packet of the session's other side that was      *)
(* never sent before, and no other step of a forwarder, a receiver, the    *)
(* heartbeat monitor or Close is seen.                                     *)
THEOREM BrokerRefinement == Spec => SwitchSpec
<1>1. Init => Switch!Init
  BY DEF Init, Switch!Init, Switch!Streams, Streams
<1>2. ASSUME OrderInv, OnePlace, [Next]_vars
      PROVE  [Switch!Next]_Switch!vars
  <2>a. Inv /\ Switch!Streams = Streams
    BY <1>2 DEF OrderInv, Switch!Streams, Streams
  <2>1. ASSUME NEW x \in SessionIDs, NEW o \in Sessions, NEW s \in Streams, RegisterStream(x, o, s)
        PROVE  Switch!Next
    <3>1. Switch!Register(s, x)
      BY <2>1, SwitchRegister
    <3>2. QED BY <2>a, <3>1 DEF Switch!Next
  <2>2. ASSUME NEW f \in Forwarders, ForwarderStep(f)
        PROVE  [Switch!Next]_Switch!vars
    <3>1. CASE RecvPacket(f)
      <4>1. \E s \in Streams : Switch!Take(s)
        BY <2>a, <3>1, SwitchTake
      <4>2. QED BY <2>a, <4>1 DEF Switch!Next
    <3>2. CASE Send(f)
      <4>1. \E s, r \in Streams : \E n \in 1 .. taken[r] : Switch!Deliver(s, r, n)
        BY <1>2, <2>a, <3>2, SwitchDeliver
      <4>2. QED BY <2>a, <4>1 DEF Switch!Next
    <3>3. CASE ~RecvPacket(f) /\ ~Send(f)
      <4>1. UNCHANGED <<registered, taken, delivered>>
        BY <2>2, <3>3 DEF ForwarderStep, CallRecv, RecvError, PutPacket, SeeStop, SeeError,
              TakePacket, CallSend, SendError, ForwardEnd, netVars
      <4>2. QED BY <4>1 DEF Switch!vars
    <3>4. QED BY <3>1, <3>2, <3>3
  <2>3. ASSUME UNCHANGED <<registered, taken, delivered>> PROVE UNCHANGED Switch!vars
    BY <2>3 DEF Switch!vars
  <2>4. QED BY <1>2, <2>1, <2>2, <2>3, StepKinds
<1>3. QED BY <1>1, <1>2, PacketsInOnePlace, PTL DEF Spec, SwitchSpec, Switch!Spec
=============================================================================

-------------------------- MODULE SubscriberProofs --------------------------
(***************************************************************************)
(* Proofs about Subscriber, for any number of events and faults, any       *)
(* window of repetition and any cache that is large enough for it, and for *)
(* either server.                                                          *)
(*                                                                         *)
(* With a server that keeps its events (IInv) those that were handled are  *)
(* an interval of numbers that ends with lastEventID.  It stays one        *)
(* because an event the server sends for the first time is the next one    *)
(* (so that no cached ID hides it), and an event it repeats is in the      *)
(* cache: whatever was used after an event of the window is less than      *)
(* Window away from it, so there is room for all.  With the notifier       *)
(* (PInv) no event is written twice, and what is written is newer than     *)
(* all that was handled.                                                   *)
(***************************************************************************)
EXTENDS Subscriber, FiniteSetTheorems, SequenceTheorems, TLAPS

(* What is in handled: a number of events, the last one lastEventID.       *)
Interval ==
    /\ handled = <<>> <=> lastEventID = 0
    /\ Len(handled) <= lastEventID
    /\ \A i \in 1 .. Len(handled) : handled[i] = lastEventID - Len(handled) + i

(* The cache: entries that were handled, each once, and one that was used  *)
(* after another is not far below it.                                      *)
CacheOrder ==
    /\ \A i \in 1 .. Len(eventCache) : eventCache[i] <= lastEventID
    /\ \A i, j \in 1 .. Len(eventCache) :
          i < j => eventCache[i] # eventCache[j] /\ eventCache[j] > eventCache[i] - Window

(* What was handled and may be repeated is cached.                         *)
Covered ==
    \A e \in 1 .. lastEventID :
        e > lastEventID - Len(handled) /\ e > lastEventID - Window => Cached(e)

-----------------------------------------------------------------------------
(* The stream: the lines s that are still to come are those of a frame F   *)
(* from k + 1 on; all of them, unless the stream broke.                    *)
Match(s, whole, F, k) ==
    /\ Len(s) <= Len(F) - k
    /\ whole => Len(s) = Len(F) - k
    /\ \A i \in 1 .. Len(s) : s[i] = F[k + i]

(* What readEventStream has put together after k lines of a frame.         *)
NoType == ""
Part(t, d, n) == [type |-> t, data |-> d, id |-> n]

ConnectedPart(k) ==
    /\ k = 0 => frame = NoFrame
    /\ k = 1 => frame = Part("connected", 0, 0)
    /\ k = 2 => frame = Part("connected", -1, 0)
EventPart(e, k) ==
    /\ k = 0 => frame = NoFrame
    /\ k = 1 => frame = Part(NoType, 0, e)
    /\ k = 2 => frame = Part("tunnel", 0, e)
    /\ k = 3 => frame = Part("tunnel", e, e)

(* The subscriber is where the server thinks it is; an event is the next   *)
(* one; an event is a repetition.                                          *)
Level == lastEventID = cursor \/ (lastEventID = 0 /\ cursor = base)
Fresh(e) == e = cursor /\ base < cursor /\ (lastEventID = cursor - 1 \/ (lastEventID = 0 /\ base = cursor - 1))
Repeated(e) == lastEventID = cursor /\ e \in base + 1 .. cursor /\ e > cursor - Window

BetweenFrames == stream = <<>> /\ (open => frame = NoFrame /\ Level)
InConnected(k) == Match(stream, open, ConnectedFrame, k) /\ ConnectedPart(k) /\ Level
InHeartbeat(k) == Match(stream, open, Heartbeat, k) /\ frame = NoFrame /\ Level
InEvent(e, k) == Match(stream, open, NumberedFrame(e), k) /\ EventPart(e, k) /\ (Fresh(e) \/ Repeated(e))

Reading ==
    \/ BetweenFrames
    \/ stream # <<>> /\ \E k \in 0 .. 2 : InConnected(k)
    \/ stream # <<>> /\ \E k \in 0 .. 1 : InHeartbeat(k)
    \/ stream # <<>> /\ \E e \in 1 .. published, k \in 0 .. 3 : InEvent(e, k)

(* While a stream is read.  No event before its base is repeated.          *)
StreamOK ==
    pc \in {"check", "line"} =>
        /\ Reading
        /\ lastEventID # 0 => base >= lastEventID - Len(handled)

(* A stream that is not read is closed.                                    *)
Closed == pc \notin {"check", "line"} => ~open /\ stream = <<>>

Lines ==
    {Line("event", "connected"), Line("event", "tunnel"), Line("comment", 0), Blank}
    \cup {Line("id", e) : e \in Nat} \cup {Line("data", d) : d \in Int}

(* The inductive invariant, for a server that keeps its events.            *)
IInv ==
    /\ TypeOK /\ stream \in Seq(Lines)
    /\ Interval /\ CacheOrder /\ Covered /\ StreamOK /\ Closed

-----------------------------------------------------------------------------
(* The frames, line by line.                                               *)
LEMMA FrameLines ==
    /\ ConnectedFrame \in Seq(Lines) /\ Len(ConnectedFrame) = 3
    /\ ConnectedFrame[1] = Line("event", "connected")
    /\ ConnectedFrame[2] = Line("data", -1) /\ ConnectedFrame[3] = Blank
    /\ Heartbeat \in Seq(Lines) /\ Len(Heartbeat) = 2
    /\ Heartbeat[1] = Line("comment", 0) /\ Heartbeat[2] = Blank
<1>1. /\ Line("event", "connected") \in Lines /\ Line("data", -1) \in Lines
      /\ Line("comment", 0) \in Lines /\ Blank \in Lines
  BY DEF Lines
<1>2. QED BY <1>1 DEF ConnectedFrame, Heartbeat

LEMMA EventLines ==
    ASSUME NEW e \in Nat
    PROVE  /\ NumberedFrame(e) \in Seq(Lines) /\ Len(NumberedFrame(e)) = 4
           /\ NumberedFrame(e)[1] = Line("id", e) /\ NumberedFrame(e)[2] = Line("event", "tunnel")
           /\ NumberedFrame(e)[3] = Line("data", e) /\ NumberedFrame(e)[4] = Blank
<1>1. /\ Line("id", e) \in Lines /\ Line("event", "tunnel") \in Lines
      /\ Line("data", e) \in Lines /\ Blank \in Lines
  BY DEF Lines
<1>2. QED BY <1>1 DEF NumberedFrame

(* A whole frame is written.                                               *)
LEMMA MatchNew ==
    ASSUME NEW F \in Seq(Lines), NEW whole
    PROVE  Match(F, whole, F, 0)
BY DEF Match

(* One line is read.                                                       *)
LEMMA MatchTake ==
    ASSUME NEW F \in Seq(Lines), NEW k \in Nat, NEW s \in Seq(Lines), s # <<>>, NEW whole,
           Match(s, whole, F, k)
    PROVE  /\ Head(s) = F[k + 1] /\ k + 1 <= Len(F)
           /\ Match(Tail(s), whole, F, k + 1) /\ Tail(s) \in Seq(Lines)
           /\ Tail(s) = <<>> /\ whole => k + 1 = Len(F)
           /\ k + 1 = Len(F) => Tail(s) = <<>>
<1> DEFINE t == Tail(s)
<1>1. Len(s) \in Nat /\ Len(s) >= 1 /\ Len(F) \in Nat
  OBVIOUS
<1>2. /\ t \in Seq(Lines) /\ Len(t) = Len(s) - 1
      /\ \A i \in 1 .. Len(t) : t[i] = s[i + 1]
  BY <1>1
<1> HIDE DEF t
<1>3. Head(s) = F[k + 1] /\ k + 1 <= Len(F)
  BY <1>1 DEF Match
<1>4. ASSUME NEW i \in 1 .. Len(t) PROVE t[i] = F[(k + 1) + i]
  <2>1. i + 1 \in 1 .. Len(s) /\ k + (i + 1) = (k + 1) + i
    BY <1>1, <1>2
  <2>2. s[i + 1] = F[k + (i + 1)]
    BY <2>1 DEF Match
  <2>3. QED BY <1>2, <2>1, <2>2
<1>5. Match(t, whole, F, k + 1)
  BY <1>1, <1>2, <1>4 DEF Match
<1>6. t = <<>> <=> Len(t) = 0
  BY <1>2, EmptySeq
<1>7. QED BY <1>1, <1>2, <1>3, <1>5, <1>6 DEF Match, t

(* The stream breaks: a beginning of what was on its way arrives.          *)
LEMMA MatchBreak ==
    ASSUME NEW F \in Seq(Lines), NEW k \in Nat, NEW s \in Seq(Lines), NEW whole,
           Match(s, whole, F, k), NEW n \in 0 .. Len(s)
    PROVE  Match(SubSeq(s, 1, n), FALSE, F, k) /\ SubSeq(s, 1, n) \in Seq(Lines)
<1> DEFINE t == SubSeq(s, 1, n)
<1>1. /\ t \in Seq(Lines) /\ Len(t) = n /\ n <= Len(s)
      /\ \A i \in 1 .. n : t[i] = s[i]
  OBVIOUS
<1>2. QED BY <1>1 DEF Match

-----------------------------------------------------------------------------
(* The cache.                                                              *)

(* Pigeonhole: CacheSize entries cannot all differ, be less than Window    *)
(* away from a and not be a.                                               *)
LEMMA TooMany ==
    ASSUME NEW a \in Int,
           NEW f \in [2 .. CacheSize + 1 -> (a - Window + 1 .. a + Window - 1) \ {a}]
    PROVE  \E x, y \in 2 .. CacheSize + 1 : x # y /\ f[x] = f[y]
<1> DEFINE S == 2 .. CacheSize + 1
           W == a - Window + 1 .. a + Window - 1
<1>1. /\ Window \in Nat /\ CacheSize \in Nat /\ CacheSize >= 1 /\ 2 * Window - 1 <= CacheSize
  BY SubscriberAssumption
<1>2. IsFiniteSet(S) /\ Cardinality(S) = CacheSize
  <2>1. CacheSize + 1 \in Int /\ 2 \in Int /\ ~(2 > CacheSize + 1)
    BY <1>1
  <2>2. QED BY <1>1, <2>1, FS_Interval
<1>3. IsFiniteSet(W) /\ Cardinality(W) = IF Window = 0 THEN 0 ELSE 2 * Window - 1
  <2>1. a - Window + 1 \in Int /\ a + Window - 1 \in Int
    BY <1>1
  <2>2. /\ IsFiniteSet(W)
        /\ Cardinality(W) = IF a - Window + 1 > a + Window - 1 THEN 0
                            ELSE (a + Window - 1) - (a - Window + 1) + 1
    BY <2>1, FS_Interval
  <2>3. QED BY <1>1, <2>2
<1>4. IsFiniteSet(W \ {a}) /\ Cardinality(W \ {a}) < CacheSize
  <2>1. Window # 0 => a \in W
    BY <1>1
  <2> HIDE DEF W
  <2>2. /\ IsFiniteSet(W \ {a})
        /\ Cardinality(W \ {a}) = IF a \in W THEN Cardinality(W) - 1 ELSE Cardinality(W)
    BY <1>3, FS_RemoveElement
  <2>3. CASE Window = 0
    <3>1. a \notin W
      BY <1>3, <2>3, FS_EmptySet
    <3>2. QED BY <1>1, <1>3, <2>2, <2>3, <3>1
  <2>4. CASE Window # 0
    BY <1>1, <1>3, <2>1, <2>2, <2>4
  <2>5. QED BY <2>3, <2>4
<1>5. f \in [S -> W \ {a}]
  OBVIOUS
<1> HIDE DEF S, W
<1>6. \E x, y \in S : x # y /\ f[x] = f[y]
  BY <1>2, <1>4, <1>5, FS_PigeonHole
<1>7. QED BY <1>6 DEF S

(* Numbers and entries.                                                    *)
LEMMA Numbers ==
    ASSUME TypeOK
    PROVE  /\ Window \in Nat /\ CacheSize \in Nat /\ CacheSize >= 1
           /\ published \in Nat /\ lastEventID \in Nat /\ lastEventID <= published
           /\ base \in Nat /\ cursor \in Nat /\ base <= cursor /\ cursor <= published
           /\ Len(handled) \in Nat /\ Len(eventCache) \in Nat /\ Len(eventCache) <= CacheSize
           /\ eventCache \in Seq(1 .. published) /\ handled \in Seq(1 .. published)
           /\ \A i \in 1 .. Len(eventCache) :
                 eventCache[i] \in 1 .. published /\ eventCache[i] \in Int
           /\ \A i \in 1 .. Len(handled) : handled[i] \in 1 .. published
<1>1. /\ Window \in Nat /\ CacheSize \in Nat /\ CacheSize >= 1
      /\ published \in Nat /\ lastEventID \in Nat /\ lastEventID <= published
      /\ base \in Nat /\ cursor \in Nat /\ base <= cursor /\ cursor <= published
      /\ Len(eventCache) <= CacheSize
  <2>1. /\ published \in 0 .. MaxEvents /\ lastEventID \in 0 .. published
        /\ base \in 0 .. cursor /\ cursor \in 0 .. published /\ Len(eventCache) <= CacheSize
    BY DEF TypeOK
  <2>2. QED BY <2>1, SubscriberAssumption
<1>2. eventCache \in Seq(1 .. published) /\ handled \in Seq(1 .. published)
  BY DEF TypeOK
<1>3. /\ \A i \in 1 .. Len(eventCache) : eventCache[i] \in 1 .. published
      /\ \A i \in 1 .. Len(handled) : handled[i] \in 1 .. published
  BY <1>2, ElementOfSeq
<1>4. Len(handled) \in Nat /\ Len(eventCache) \in Nat
  BY <1>2, LenProperties
<1>5. QED BY <1>1, <1>2, <1>3, <1>4

(* Get takes an entry out before it puts it in front.                      *)
LEMMA WithoutFacts ==
    ASSUME NEW S, NEW s \in Seq(S), NEW i \in 1 .. Len(s)
    PROVE  /\ Without(s, i) \in Seq(S) /\ Len(Without(s, i)) = Len(s) - 1
           /\ \A j \in 1 .. Len(s) - 1 :
                 Without(s, i)[j] = IF j < i THEN s[j] ELSE s[j + 1]
<1> DEFINE n == Len(s)
           before == SubSeq(s, 1, i - 1)
           after == SubSeq(s, i + 1, n)
<1>1. n \in Nat /\ i \in 1 .. n
  OBVIOUS
<1>2. /\ before \in Seq(S) /\ Len(before) = i - 1
      /\ \A j \in 1 .. i - 1 : before[j] = s[j]
  BY <1>1
<1>3. /\ after \in Seq(S) /\ Len(after) = n - i
      /\ \A j \in 1 .. n - i : after[j] = s[i + j]
  BY <1>1
<1>4. Without(s, i) = before \o after
  BY DEF Without
<1> HIDE DEF before, after
<1>5. /\ Without(s, i) \in Seq(S) /\ Len(Without(s, i)) = Len(before) + Len(after)
      /\ \A j \in 1 .. Len(before) + Len(after) :
            Without(s, i)[j] = IF j <= Len(before) THEN before[j] ELSE after[j - Len(before)]
  BY <1>2, <1>3, <1>4, ConcatProperties
<1>6. ASSUME NEW j \in 1 .. n - 1
      PROVE  Without(s, i)[j] = IF j < i THEN s[j] ELSE s[j + 1]
  <2>1. j \in 1 .. Len(before) + Len(after)
    BY <1>1, <1>2, <1>3
  <2>2. Without(s, i)[j] = IF j <= i - 1 THEN before[j] ELSE after[j - (i - 1)]
    BY <1>2, <1>5, <2>1
  <2>3. CASE j < i
    <3>1. j <= i - 1 /\ j \in 1 .. i - 1
      BY <1>1, <2>3
    <3>2. QED BY <1>2, <2>2, <2>3, <3>1
  <2>4. CASE ~(j < i)
    <3>1. ~(j <= i - 1) /\ j - (i - 1) \in 1 .. n - i /\ i + (j - (i - 1)) = j + 1
      BY <1>1, <2>4
    <3>2. after[j - (i - 1)] = s[i + (j - (i - 1))]
      BY <1>3, <3>1
    <3>3. QED BY <2>2, <2>4, <3>1, <3>2
  <2>5. QED BY <2>3, <2>4
<1>7. QED BY <1>1, <1>2, <1>3, <1>5, <1>6

(* A repeated event becomes the newest entry: what is cached stays cached. *)
LEMMA MoveCache ==
    ASSUME TypeOK, CacheOrder, Covered, NEW i \in 1 .. Len(eventCache),
           eventCache' = Append(Without(eventCache, i), eventCache[i]),
           eventCache[i] > lastEventID - Window, UNCHANGED <<lastEventID, handled>>
    PROVE  /\ eventCache' \in Seq(1 .. published) /\ Len(eventCache') <= CacheSize
           /\ CacheOrder' /\ Covered'
<1> DEFINE n == Len(eventCache)
           Old(j) == IF j < i THEN j ELSE IF j < n THEN j + 1 ELSE i
<1>1. /\ n \in Nat /\ i \in 1 .. n /\ n <= CacheSize /\ CacheSize \in Nat
      /\ eventCache \in Seq(1 .. published)
      /\ Window \in Nat /\ lastEventID \in Nat
      /\ \A j \in 1 .. n : eventCache[j] \in 1 .. published
      /\ \A j \in 1 .. n : eventCache[j] \in Int
  BY Numbers
<1>2. /\ Without(eventCache, i) \in Seq(1 .. published)
      /\ Len(Without(eventCache, i)) = n - 1
      /\ \A j \in 1 .. n - 1 :
            Without(eventCache, i)[j] = IF j < i THEN eventCache[j] ELSE eventCache[j + 1]
  BY <1>1, WithoutFacts
<1>3. /\ eventCache' \in Seq(1 .. published) /\ Len(eventCache') = n
      /\ \A j \in 1 .. n - 1 : eventCache'[j] = Without(eventCache, i)[j]
      /\ eventCache'[n] = eventCache[i]
  <2>1. eventCache[i] \in 1 .. published
    BY <1>1
  <2>2. /\ eventCache' \in Seq(1 .. published)
        /\ Len(eventCache') = Len(Without(eventCache, i)) + 1
        /\ \A j \in 1 .. Len(Without(eventCache, i)) :
              eventCache'[j] = Without(eventCache, i)[j]
        /\ eventCache'[Len(Without(eventCache, i)) + 1] = eventCache[i]
    BY <1>2, <2>1, AppendProperties
  <2>3. QED BY <1>1, <1>2, <2>2
<1>4. ASSUME NEW j \in 1 .. n
      PROVE  Old(j) \in 1 .. n /\ eventCache'[j] = eventCache[Old(j)]
  <2>1. CASE j < n
    BY <1>1, <1>2, <1>3, <2>1
  <2>2. CASE j = n
    BY <1>1, <1>3, <2>2
  <2>3. j < n \/ j = n
    BY <1>1
  <2>4. QED BY <2>1, <2>2, <2>3
<1>5. \A j, k \in 1 .. n : j < k /\ k < n => Old(j) < Old(k)
  BY <1>1
<1>6. \A j \in 1 .. n : j < n => Old(j) # i
  BY <1>1
<1>7. Old(n) = i
  BY <1>1
<1>8. \A g : Cached(g) => Cached(g)'
  <2> SUFFICES ASSUME NEW g, NEW p \in 1 .. n, eventCache[p] = g
               PROVE  \E q \in 1 .. n : eventCache'[q] = g
    BY <1>3 DEF Cached
  <2> DEFINE q == IF p < i THEN p ELSE IF p = i THEN n ELSE p - 1
  <2>1. q \in 1 .. n /\ Old(q) = p
    BY <1>1
  <2>2. eventCache'[q] = g
    BY <1>4, <2>1
  <2>3. QED BY <2>1, <2>2
<1> HIDE DEF Old
<1>9. CacheOrder'
  <2>1. ASSUME NEW j \in 1 .. n PROVE eventCache'[j] <= lastEventID
    BY <1>4 DEF CacheOrder
  <2>2. ASSUME NEW j \in 1 .. n, NEW k \in 1 .. n, j < k
        PROVE  eventCache'[j] # eventCache'[k] /\ eventCache'[k] > eventCache'[j] - Window
    <3>1. /\ Old(j) \in 1 .. n /\ eventCache'[j] = eventCache[Old(j)]
          /\ Old(k) \in 1 .. n /\ eventCache'[k] = eventCache[Old(k)]
      BY <1>4
    <3>2. CASE k < n
      <4>1. Old(j) < Old(k)
        BY <1>5, <2>2, <3>2
      <4>2. QED BY <3>1, <4>1 DEF CacheOrder
    <3>3. CASE k = n
      <4>1. Old(k) = i /\ Old(j) # i
        BY <1>1, <1>6, <1>7, <2>2, <3>3
      <4>2. eventCache[Old(j)] # eventCache[i]
        <5>1. Old(j) < i \/ i < Old(j)
          BY <1>1, <3>1, <4>1
        <5>2. QED BY <1>1, <3>1, <5>1 DEF CacheOrder
      <4>3. eventCache[Old(j)] <= lastEventID /\ eventCache[Old(j)] \in Int /\ eventCache[i] \in Int
        BY <1>1, <3>1 DEF CacheOrder
      <4>4. eventCache[i] > eventCache[Old(j)] - Window
        BY <1>1, <4>3
      <4>5. QED BY <3>1, <4>1, <4>2, <4>4
    <3>4. k < n \/ k = n
      BY <1>1
    <3>5. QED BY <3>2, <3>3, <3>4
  <2>3. QED BY <1>3, <2>1, <2>2 DEF CacheOrder
<1>10. Covered'
  BY <1>8 DEF Covered
<1>11. QED BY <1>1, <1>3, <1>9, <1>10

(* Add appends; what it evicts is out of the window.                       *)
LEMMA AppendFacts ==
    ASSUME TypeOK, CacheOrder, NEW e \in 1 .. published, e > lastEventID
    PROVE  LET all == Append(eventCache, e)
               n == Len(eventCache)
           IN  /\ all \in Seq(1 .. published) /\ Len(all) = n + 1
               /\ \A j \in 1 .. n : all[j] = eventCache[j]
               /\ all[n + 1] = e
               /\ \A j \in 1 .. n + 1 : all[j] \in Int /\ all[j] <= e
               /\ \A j, k \in 1 .. n + 1 : j < k => all[j] # all[k] /\ all[k] > all[j] - Window
<1> DEFINE all == Append(eventCache, e)
           n == Len(eventCache)
<1>1. /\ n \in Nat /\ eventCache \in Seq(1 .. published) /\ Window \in Nat
      /\ lastEventID \in Nat /\ e \in Int
      /\ \A j \in 1 .. n : eventCache[j] \in Int /\ eventCache[j] <= lastEventID
  BY Numbers DEF CacheOrder
<1>2. /\ all \in Seq(1 .. published) /\ Len(all) = n + 1
      /\ \A j \in 1 .. n : all[j] = eventCache[j]
      /\ all[n + 1] = e
  BY <1>1, AppendProperties
<1> HIDE DEF all
<1>3. ASSUME NEW j \in 1 .. n + 1 PROVE all[j] \in Int /\ all[j] <= e
  <2>1. CASE j \in 1 .. n
    BY <1>1, <1>2, <2>1
  <2>2. CASE j = n + 1
    BY <1>1, <1>2, <2>2
  <2>3. QED BY <1>1, <2>1, <2>2
<1>4. ASSUME NEW j \in 1 .. n + 1, NEW k \in 1 .. n + 1, j < k
      PROVE  all[j] # all[k] /\ all[k] > all[j] - Window
  <2>1. j \in 1 .. n
    BY <1>1, <1>4
  <2>2. CASE k \in 1 .. n
    BY <1>2, <1>4, <2>1, <2>2 DEF CacheOrder
  <2>3. CASE k = n + 1
    BY <1>1, <1>2, <2>1, <2>3
  <2>4. QED BY <1>1, <2>2, <2>3
<1>5. QED BY <1>2, <1>3, <1>4 DEF all

LEMMA AddCache ==
    ASSUME TypeOK, Interval, CacheOrder, Covered,
           NEW e \in 1 .. published, e > lastEventID, e = lastEventID + 1 \/ lastEventID = 0,
           eventCache' = Add(e), lastEventID' = e, handled' = Append(handled, e)
    PROVE  /\ eventCache' \in Seq(1 .. published) /\ Len(eventCache') <= CacheSize
           /\ CacheOrder' /\ Covered'
<1> DEFINE all == Append(eventCache, e)
           n == Len(eventCache)
<1>1. /\ n \in Nat /\ n <= CacheSize /\ CacheSize \in Nat /\ CacheSize >= 1
      /\ Window \in Nat /\ lastEventID \in Nat /\ e \in Nat /\ Len(handled) \in Nat
      /\ handled \in Seq(1 .. published)
  BY Numbers
<1>2. /\ all \in Seq(1 .. published) /\ Len(all) = n + 1
      /\ \A j \in 1 .. n : all[j] = eventCache[j]
      /\ all[n + 1] = e
      /\ \A j \in 1 .. n + 1 : all[j] \in Int /\ all[j] <= e
      /\ \A j, k \in 1 .. n + 1 : j < k => all[j] # all[k] /\ all[k] > all[j] - Window
  BY AppendFacts
<1>3. eventCache' = IF Len(all) > CacheSize THEN Tail(all) ELSE all
  BY DEF Add
<1>4. Len(handled') = Len(handled) + 1
  BY <1>1
<1> HIDE DEF all
(* What has to be covered is e or was covered, as it stands in all.        *)
<1>5. ASSUME NEW g \in 1 .. e, g > e - (Len(handled) + 1), g > e - Window
      PROVE  \E p \in 1 .. n + 1 : all[p] = g
  <2>1. CASE g = e
    BY <1>1, <1>2, <2>1
  <2>2. CASE g # e
    <3>1. lastEventID # 0
      <4>1. lastEventID = 0 => handled = <<>> /\ Len(handled) = 0
        BY EmptySeq DEF Interval
      <4>2. QED BY <1>1, <1>5, <2>2, <4>1
    <3>2. g \in 1 .. lastEventID /\ g > lastEventID - Len(handled) /\ g > lastEventID - Window
      BY <1>1, <1>5, <2>2, <3>1
    <3>3. Cached(g)
      BY <3>2 DEF Covered
    <3>4. QED BY <1>1, <1>2, <3>3 DEF Cached
  <2>3. QED BY <2>1, <2>2
<1>6. CASE ~(Len(all) > CacheSize)
  <2>1. eventCache' = all
    BY <1>3, <1>6
  <2>2. CacheOrder'
    BY <1>2, <2>1 DEF CacheOrder
  <2>3. Covered'
    BY <1>2, <1>4, <1>5, <2>1 DEF Covered, Cached
  <2>4. QED BY <1>1, <1>2, <1>6, <2>1, <2>2, <2>3
<1>7. CASE Len(all) > CacheSize
  <2>1. n = CacheSize /\ eventCache' = Tail(all) /\ all # <<>>
    BY <1>1, <1>2, <1>3, <1>7
  <2>2. /\ eventCache' \in Seq(1 .. published) /\ Len(eventCache') = n
        /\ \A j \in 1 .. n : eventCache'[j] = all[j + 1]
    BY <1>1, <1>2, <2>1
  <2>3. CacheOrder'
    <3>1. ASSUME NEW j \in 1 .. n PROVE eventCache'[j] <= e
      BY <1>1, <1>2, <2>2
    <3>2. ASSUME NEW j \in 1 .. n, NEW k \in 1 .. n, j < k
          PROVE  eventCache'[j] # eventCache'[k] /\ eventCache'[k] > eventCache'[j] - Window
      <4>1. j + 1 \in 1 .. n + 1 /\ k + 1 \in 1 .. n + 1 /\ j + 1 < k + 1
        BY <1>1, <3>2
      <4>2. all[j + 1] # all[k + 1] /\ all[k + 1] > all[j + 1] - Window
        BY <1>2, <4>1
      <4>3. eventCache'[j] = all[j + 1] /\ eventCache'[k] = all[k + 1]
        BY <2>2
      <4>4. QED BY <4>2, <4>3
    <3>3. QED BY <2>2, <3>1, <3>2 DEF CacheOrder
  <2>4. ~(all[1] > e - Window)
    <3> SUFFICES ASSUME all[1] > e - Window PROVE FALSE
      OBVIOUS
    <3> DEFINE a == all[1]
               f == [x \in 2 .. CacheSize + 1 |-> all[x]]
    <3>1. a \in Int /\ 1 \in 1 .. n + 1
      BY <1>1, <1>2
    <3>2. ASSUME NEW x \in 2 .. CacheSize + 1
          PROVE  all[x] \in (a - Window + 1 .. a + Window - 1) \ {a}
      <4>1. x \in 1 .. n + 1 /\ 1 < x
        BY <1>1, <2>1
      <4>2. all[x] # a /\ all[x] > a - Window /\ all[x] <= e /\ all[x] \in Int
        BY <1>2, <3>1, <4>1
      <4>3. QED BY <1>1, <3>1, <4>2
    <3>3. f \in [2 .. CacheSize + 1 -> (a - Window + 1 .. a + Window - 1) \ {a}]
      BY <3>2
    <3>4. PICK x, y \in 2 .. CacheSize + 1 : x # y /\ f[x] = f[y]
      <4> HIDE DEF a, f
      <4>1. QED BY <3>1, <3>3, TooMany
    <3>5. x \in 1 .. n + 1 /\ y \in 1 .. n + 1 /\ all[x] = all[y]
      BY <1>1, <2>1, <3>4
    <3>6. x < y \/ y < x
      BY <1>1, <3>4
    <3>7. QED BY <1>2, <3>5, <3>6
  <2>5. Covered'
    <3>1. ASSUME NEW g \in 1 .. e, g > e - (Len(handled) + 1), g > e - Window
          PROVE  \E q \in 1 .. n : eventCache'[q] = g
      <4>1. PICK p \in 1 .. n + 1 : all[p] = g
        BY <1>5, <3>1
      <4>2. p # 1
        BY <2>4, <3>1, <4>1
      <4>3. p - 1 \in 1 .. n /\ (p - 1) + 1 = p
        BY <1>1, <4>1, <4>2
      <4>4. eventCache'[p - 1] = g
        BY <2>2, <4>1, <4>3
      <4>5. QED BY <4>3, <4>4
    <3>2. QED BY <1>4, <2>2, <3>1 DEF Covered, Cached
  <2>6. QED BY <1>1, <2>1, <2>2, <2>3, <2>5
<1>8. QED BY <1>6, <1>7

-----------------------------------------------------------------------------
(* The steps.  First the parts of the type invariant.                      *)
ControlOK ==
    /\ pc \in {"off", "loop", "request", "check", "line", "failed", "backoff", "done"}
    /\ connected \in BOOLEAN /\ cancelled \in BOOLEAN /\ backoff \in 1 .. MaxBackoff
    /\ stop \in {"idle", "waiting", "returned"} /\ faults \in 0 .. MaxFaults

NetOK ==
    /\ open \in BOOLEAN /\ keepsEvents \in BOOLEAN /\ published \in 0 .. MaxEvents
    /\ base \in 0 .. cursor /\ cursor \in 0 .. published

Frames == [type : {"", "connected", "tunnel"}, data : -1 .. published, id : 0 .. published]

ReadOK ==
    /\ lastEventID \in 0 .. published
    /\ eventCache \in Seq(1 .. published) /\ Len(eventCache) <= CacheSize
    /\ frame \in Frames /\ handled \in Seq(1 .. published)

LEMMA TypeParts == TypeOK <=> ControlOK /\ NetOK /\ ReadOK
BY DEF TypeOK, ControlOK, NetOK, ReadOK, Frames

LEMMA TypeNext == ControlOK' /\ NetOK' /\ ReadOK' => TypeOK'
BY DEF TypeOK, ControlOK, NetOK, ReadOK, Frames

(* The loop goes on, or somebody outside does something.                   *)
LEMMA QuietStep ==
    ASSUME IInv, ControlOK', pc' \in {"check", "line"} <=> pc \in {"check", "line"},
           UNCHANGED <<lastEventID, eventCache, frame, handled, keepsEvents, published, base, cursor, open,
                       stream>>
    PROVE  IInv'
<1>1. NetOK' /\ ReadOK'
  BY TypeParts DEF IInv, NetOK, ReadOK, Frames
<1>2. TypeOK' /\ stream' \in Seq(Lines)
  BY <1>1, TypeNext DEF IInv
<1>3. Interval' /\ CacheOrder' /\ Covered'
  BY DEF IInv, Interval, CacheOrder, Covered, Cached
<1>4. Reading' <=> Reading
  BY DEF Reading, BetweenFrames, InConnected, InHeartbeat, InEvent, Level, Fresh, Repeated,
         ConnectedPart, EventPart
<1>5. StreamOK' /\ Closed'
  BY <1>4 DEF IInv, StreamOK, Closed
<1>6. QED BY <1>2, <1>3, <1>5 DEF IInv

(* readEventStream returns.                                                *)
LEMMA LeaveStep ==
    ASSUME IInv, NEW l \in {"loop", "failed"}, LeaveStream(l), backoff' \in 1 .. MaxBackoff
    PROVE  IInv'
<1>1. ControlOK' /\ NetOK' /\ ReadOK'
  BY TypeParts DEF IInv, ControlOK, NetOK, ReadOK, Frames, LeaveStream, readVars, ctlVars, srvVars
<1>2. TypeOK' /\ stream' \in Seq(Lines)
  BY <1>1, TypeNext, EmptySeq DEF LeaveStream
<1>3. Interval' /\ CacheOrder' /\ Covered'
  BY DEF IInv, Interval, CacheOrder, Covered, Cached, LeaveStream, readVars
<1>4. StreamOK' /\ Closed'
  BY DEF StreamOK, Closed, LeaveStream
<1>5. QED BY <1>2, <1>3, <1>4 DEF IInv

(* A new stream begins where the last event was, without a half frame.     *)
LEMMA ConnectStep ==
    ASSUME IInv, Connect
    PROVE  IInv'
<1>a. TypeOK /\ ControlOK /\ NetOK /\ ReadOK
  BY TypeParts DEF IInv
<1>1. /\ pc' = "check" /\ connected' = TRUE /\ frame' = NoFrame /\ open' = TRUE
      /\ stream' = ConnectedFrame
      /\ base' = (IF lastEventID = 0 THEN published ELSE lastEventID) /\ cursor' = base'
      /\ UNCHANGED <<backoff, lastEventID, eventCache, handled, stop, cancelled, keepsEvents, published, faults>>
  BY DEF Connect, ConnectWith, ctlVars, srvVars
<1>2. ControlOK'
  BY <1>a, <1>1 DEF ControlOK
<1>3. NetOK'
  BY <1>a, <1>1, SubscriberAssumption DEF NetOK, ReadOK
<1>4. ReadOK'
  <2>1. published \in Nat
    BY <1>a, Numbers
  <2>2. NoFrame \in Frames
    BY <2>1 DEF NoFrame, Frames
  <2>3. QED BY <1>a, <1>1, <2>2 DEF ReadOK, Frames
<1>5. TypeOK'
  BY <1>2, <1>3, <1>4, TypeNext
<1>6. Interval' /\ CacheOrder' /\ Covered'
  BY <1>1 DEF IInv, Interval, CacheOrder, Covered, Cached
<1>7. Match(stream', open', ConnectedFrame, 0) /\ stream' \in Seq(Lines) /\ stream' # <<>>
  <2>1. ConnectedFrame \in Seq(Lines)
    BY FrameLines
  <2>2. Match(ConnectedFrame, open', ConnectedFrame, 0)
    BY <2>1, MatchNew
  <2>3. ConnectedFrame # <<>>
    BY FrameLines, EmptySeq
  <2>4. QED BY <1>1, <2>1, <2>2, <2>3
<1>8. InConnected(0)'
  <2>1. ConnectedPart(0)'
    BY <1>1 DEF ConnectedPart
  <2>2. Level'
    BY <1>1 DEF Level
  <2>3. QED BY <1>7, <2>1, <2>2 DEF InConnected
<1>9. StreamOK' /\ Closed'
  <2>1. Reading'
    BY <1>7, <1>8 DEF Reading
  <2>2. lastEventID # 0 => base' >= lastEventID - Len(handled)
    BY <1>a, <1>1, Numbers
  <2>3. QED BY <1>1, <2>1, <2>2 DEF StreamOK, Closed
<1>10. QED BY <1>5, <1>6, <1>7, <1>9 DEF IInv

(* The server writes only when all it wrote before has been read.          *)
LEMMA ServerWaits ==
    ASSUME IInv, open, stream = <<>>
    PROVE  pc \in {"check", "line"} /\ frame = NoFrame /\ Level
<1>1. pc \in {"check", "line"}
  BY DEF IInv, Closed
<1>2. Reading
  BY <1>1 DEF IInv, StreamOK
<1>3. QED BY <1>1, <1>2 DEF Reading, BetweenFrames

LEMMA SeqGrows ==
    ASSUME NEW S, NEW T, S \subseteq T, NEW s \in Seq(S)
    PROVE  s \in Seq(T)
OBVIOUS

LEMMA PublishStep ==
    ASSUME IInv, Publish
    PROVE  IInv'
<1>a. TypeOK /\ ControlOK /\ NetOK /\ ReadOK
  BY TypeParts DEF IInv
<1>1. /\ published < MaxEvents /\ published' = published + 1
      /\ UNCHANGED <<pc, backoff, connected, lastEventID, eventCache, frame, handled, stop,
                     cancelled, keepsEvents, base, cursor, open, stream, faults>>
  BY DEF Publish, loopVars, readVars, ctlVars, srvVars, netVars
<1>2. published \in Nat /\ published' \in Nat /\ 1 .. published \subseteq 1 .. published'
  BY <1>a, <1>1, Numbers
<1>3. ControlOK' /\ NetOK'
  BY <1>a, <1>1, SubscriberAssumption DEF ControlOK, NetOK
<1>4. ReadOK'
  <2>1. frame \in Frames'
    <3>1. -1 .. published \subseteq -1 .. published' /\ 0 .. published \subseteq 0 .. published'
      BY <1>1, <1>2
    <3>2. frame \in Frames
      BY <1>a DEF ReadOK
    <3>3. QED BY <3>1, <3>2 DEF Frames
  <2>2. eventCache \in Seq(1 .. published') /\ handled \in Seq(1 .. published')
    BY <1>a, <1>2, SeqGrows DEF ReadOK
  <2>3. QED BY <1>a, <1>1, <1>2, <2>1, <2>2 DEF ReadOK
<1>5. TypeOK'
  BY <1>3, <1>4, TypeNext
<1>6. Interval' /\ CacheOrder' /\ Covered'
  BY <1>1 DEF IInv, Interval, CacheOrder, Covered, Cached
<1>7. Reading => Reading'
  <2>1. ASSUME NEW e \in 1 .. published PROVE e \in 1 .. published'
    BY <1>2
  <2>2. QED
    BY <1>1, <2>1
       DEF Reading, BetweenFrames, InConnected, InHeartbeat, InEvent, Level, Fresh, Repeated,
           ConnectedPart, EventPart
<1>8. StreamOK' /\ Closed' /\ stream' \in Seq(Lines)
  BY <1>1, <1>7 DEF IInv, StreamOK, Closed
<1>9. QED BY <1>5, <1>6, <1>8 DEF IInv

(* What the server writes: an event, an old one again, or a heartbeat.     *)
LEMMA WriteStep ==
    ASSUME keepsEvents, IInv, SendEvent \/ RepeatEvent \/ SendHeartbeat
    PROVE  IInv'
<1>a. TypeOK /\ ControlOK /\ NetOK /\ ReadOK
  BY TypeParts DEF IInv
<1>1. /\ open /\ stream = <<>> /\ open' = open
      /\ UNCHANGED <<pc, backoff, connected, lastEventID, eventCache, frame, handled, stop,
                     cancelled, keepsEvents, published, base, faults>>
  BY DEF SendEvent, RepeatEvent, SendHeartbeat, loopVars, readVars, ctlVars, srvVars
<1>2. pc \in {"check", "line"} /\ frame = NoFrame /\ Level
  BY <1>1, ServerWaits
<1>3. /\ base \in Nat /\ cursor \in Nat /\ base <= cursor /\ cursor <= published
      /\ published \in Nat /\ lastEventID \in Nat
  BY <1>a, Numbers
<1>4. cursor' \in {cursor, cursor + 1} /\ cursor' <= published
  BY <1>3 DEF SendEvent, RepeatEvent, SendHeartbeat
<1>5. ControlOK' /\ NetOK' /\ ReadOK'
  <2>1. ControlOK'
    BY <1>a, <1>1 DEF ControlOK
  <2>2. NetOK'
    BY <1>a, <1>1, <1>3, <1>4 DEF NetOK
  <2>3. ReadOK'
    BY <1>a, <1>1 DEF ReadOK, Frames
  <2>4. QED BY <2>1, <2>2, <2>3
<1>6. TypeOK'
  BY <1>5, TypeNext
<1>7. Interval' /\ CacheOrder' /\ Covered'
  BY <1>1 DEF IInv, Interval, CacheOrder, Covered, Cached
<1>8. ASSUME NEW F \in Seq(Lines), Len(F) > 0, stream' = F
      PROVE  Match(stream', open', F, 0) /\ stream' \in Seq(Lines) /\ stream' # <<>>
  BY <1>8, MatchNew, EmptySeq
<1>9. ASSUME NEW e \in 1 .. published, stream' = NumberedFrame(e), Fresh(e)' \/ Repeated(e)'
      PROVE  Reading' /\ stream' \in Seq(Lines)
  <2>1. NumberedFrame(e) \in Seq(Lines) /\ Len(NumberedFrame(e)) > 0
    BY <1>9, EventLines DEF IInv
  <2>2. Match(stream', open', NumberedFrame(e), 0) /\ stream' \in Seq(Lines) /\ stream' # <<>>
    BY <1>8, <1>9, <2>1
  <2>3. EventPart(e, 0)'
    BY <1>1, <1>2 DEF EventPart
  <2>4. InEvent(e, 0)'
    BY <1>9, <2>2, <2>3 DEF InEvent
  <2>5. QED BY <1>1, <2>2, <2>4 DEF Reading
<1>10. Reading' /\ stream' \in Seq(Lines)
  <2>1. CASE SendEvent
    <3>a. cursor + 1 \in 1 .. published
      BY <1>3, <2>1 DEF SendEvent
    <3>b. PICK e \in 1 .. published : e = cursor + 1
      BY <3>a
    <3>1. cursor' = e /\ stream' = NumberedFrame(e)
      BY <2>1, <3>b DEF SendEvent, EventFrame
    <3>2. Fresh(e)'
      BY <3>b, <1>1, <1>2, <1>3, <3>1 DEF Fresh, Level
    <3>3. QED BY <1>9, <3>1, <3>2
  <2>2. CASE RepeatEvent
    <3>1. PICK e \in base + 1 .. cursor : e > cursor - Window /\ stream' = NumberedFrame(e)
      BY <2>2 DEF RepeatEvent
    <3>2. e \in 1 .. published /\ cursor # base
      BY <1>3, <3>1
    <3>3. cursor' = cursor
      BY <2>2 DEF RepeatEvent
    <3>4. Repeated(e)'
      BY <1>1, <1>2, <1>3, <3>1, <3>2, <3>3 DEF Repeated, Level
    <3>5. QED BY <1>9, <3>1, <3>2, <3>4
  <2>3. CASE SendHeartbeat
    <3>1. stream' = Heartbeat /\ cursor' = cursor
      BY <2>3 DEF SendHeartbeat
    <3>2. Match(stream', open', Heartbeat, 0) /\ stream' \in Seq(Lines) /\ stream' # <<>>
      <4>1. Heartbeat \in Seq(Lines) /\ Len(Heartbeat) > 0
        BY FrameLines
      <4>2. QED BY <1>8, <3>1, <4>1
    <3>3. Level' /\ frame' = NoFrame
      BY <1>1, <1>2, <3>1 DEF Level
    <3>4. InHeartbeat(0)'
      BY <3>2, <3>3 DEF InHeartbeat
    <3>5. QED BY <3>2, <3>4 DEF Reading
  <2>4. QED BY <2>1, <2>2, <2>3
<1>11. StreamOK' /\ Closed'
  BY <1>1, <1>2, <1>10 DEF IInv, StreamOK, Closed
<1>12. QED BY <1>6, <1>7, <1>10, <1>11 DEF IInv

(* The stream breaks.                                                      *)
LEMMA BreakStep ==
    ASSUME IInv, Break
    PROVE  IInv'
<1>a. TypeOK /\ ControlOK /\ NetOK /\ ReadOK /\ stream \in Seq(Lines)
  BY TypeParts DEF IInv
<1>1. /\ open /\ open' = FALSE /\ faults < MaxFaults /\ faults' = faults + 1
      /\ UNCHANGED <<pc, backoff, connected, lastEventID, eventCache, frame, handled, stop,
                     cancelled, keepsEvents, published, base, cursor>>
  BY DEF Break, loopVars, readVars, ctlVars, srvVars
<1>2. PICK n \in 0 .. Len(stream) : stream' = SubSeq(stream, 1, n)
  BY DEF Break
<1>3. pc \in {"check", "line"} /\ Reading
  BY <1>1 DEF IInv, Closed, StreamOK
<1>4. ControlOK' /\ NetOK' /\ ReadOK'
  <2>1. ControlOK'
    BY <1>a, <1>1, SubscriberAssumption DEF ControlOK
  <2>2. NetOK'
    BY <1>a, <1>1 DEF NetOK
  <2>3. ReadOK'
    BY <1>a, <1>1 DEF ReadOK, Frames
  <2>4. QED BY <2>1, <2>2, <2>3
<1>5. TypeOK'
  BY <1>4, TypeNext
<1>6. Interval' /\ CacheOrder' /\ Covered'
  BY <1>1 DEF IInv, Interval, CacheOrder, Covered, Cached
<1>7. stream' \in Seq(Lines)
  BY <1>a, <1>2
<1>8. ASSUME NEW F \in Seq(Lines), NEW k \in Nat, Match(stream, open, F, k)
      PROVE  Match(stream', open', F, k)
  BY <1>a, <1>1, <1>2, <1>8, MatchBreak
<1>9. Reading'
  <2>1. CASE stream' = <<>>
    BY <1>1, <2>1 DEF Reading, BetweenFrames
  <2>2. CASE stream' # <<>>
    <3>1. stream # <<>>
      BY <1>2, <2>2
    <3>2. ASSUME NEW k \in 0 .. 2, InConnected(k) PROVE Reading'
      <4>1. Match(stream', open', ConnectedFrame, k)
        BY <1>8, <3>2, FrameLines DEF InConnected
      <4>2. InConnected(k)'
        BY <1>1, <3>2, <4>1 DEF InConnected, Level, ConnectedPart
      <4>3. QED BY <2>2, <4>2 DEF Reading
    <3>3. ASSUME NEW k \in 0 .. 1, InHeartbeat(k) PROVE Reading'
      <4>1. Match(stream', open', Heartbeat, k)
        BY <1>8, <3>3, FrameLines DEF InHeartbeat
      <4>2. InHeartbeat(k)'
        BY <1>1, <3>3, <4>1 DEF InHeartbeat, Level
      <4>3. QED BY <2>2, <4>2 DEF Reading
    <3>4. ASSUME NEW e \in 1 .. published, NEW k \in 0 .. 3, InEvent(e, k) PROVE Reading'
      <4>1. Match(stream', open', NumberedFrame(e), k)
        BY <1>8, <3>4, EventLines DEF IInv, InEvent
      <4>2. InEvent(e, k)'
        BY <1>1, <3>4, <4>1 DEF InEvent, Fresh, Repeated, EventPart
      <4>3. QED BY <1>1, <2>2, <4>2 DEF Reading
    <3>5. QED BY <1>3, <3>1, <3>2, <3>3, <3>4 DEF Reading, BetweenFrames
  <2>3. QED BY <2>1, <2>2
<1>10. StreamOK' /\ Closed'
  BY <1>1, <1>3, <1>9 DEF IInv, StreamOK, Closed
<1>11. QED BY <1>5, <1>6, <1>7, <1>10 DEF IInv

-----------------------------------------------------------------------------
(* Reading.  A line of each kind of frame, and what is left after it.      *)
LEMMA TakeFacts ==
    ASSUME NEW f, TakeLine(f)
    PROVE  /\ pc = "line" /\ pc' = "check" /\ stream # <<>> /\ stream' = Tail(stream)
           /\ Head(stream).field = f
           /\ UNCHANGED <<backoff, connected, stop, cancelled, keepsEvents, published, base, cursor, open, faults>>
BY DEF TakeLine, ctlVars, srvVars

LEMMA TakeOf ==
    ASSUME stream \in Seq(Lines), NEW F \in Seq(Lines), NEW k \in Nat,
           Match(stream, open, F, k), NEW f, TakeLine(f)
    PROVE  /\ Head(stream) = F[k + 1] /\ Head(stream).field = f /\ k + 1 <= Len(F)
           /\ Match(stream', open', F, k + 1) /\ stream' \in Seq(Lines)
           /\ stream' = <<>> /\ open' => k + 1 = Len(F)
           /\ k + 1 = Len(F) => stream' = <<>>
<1>1. stream # <<>> /\ stream' = Tail(stream) /\ open' = open /\ Head(stream).field = f
  BY TakeFacts
<1>2. /\ Head(stream) = F[k + 1] /\ k + 1 <= Len(F)
      /\ Match(Tail(stream), open, F, k + 1) /\ Tail(stream) \in Seq(Lines)
      /\ Tail(stream) = <<>> /\ open => k + 1 = Len(F)
      /\ k + 1 = Len(F) => Tail(stream) = <<>>
  BY <1>1, MatchTake
<1>3. QED BY <1>1, <1>2

LEMMA ConnectedLine ==
    ASSUME stream \in Seq(Lines), NEW k \in 0 .. 2, Match(stream, open, ConnectedFrame, k),
           NEW f, TakeLine(f)
    PROVE  /\ k = 0 => f = "event" /\ Head(stream).value = "connected"
           /\ k = 1 => f = "data" /\ Head(stream).value = -1
           /\ k = 2 => f = "blank" /\ stream' = <<>>
           /\ Match(stream', open', ConnectedFrame, k + 1) /\ stream' \in Seq(Lines)
           /\ stream' = <<>> /\ open' => k = 2
<1>1. k \in Nat /\ ConnectedFrame \in Seq(Lines) /\ Match(stream, open, ConnectedFrame, k)
  BY FrameLines
<1>2. /\ Head(stream) = ConnectedFrame[k + 1] /\ Head(stream).field = f
      /\ Match(stream', open', ConnectedFrame, k + 1) /\ stream' \in Seq(Lines)
      /\ stream' = <<>> /\ open' => k + 1 = 3
      /\ k + 1 = 3 => stream' = <<>>
  <2>1. Len(ConnectedFrame) = 3
    BY FrameLines
  <2>2. QED BY <1>1, <2>1, TakeOf
<1>3. /\ k = 0 => Head(stream) = Line("event", "connected")
      /\ k = 1 => Head(stream) = Line("data", -1)
      /\ k = 2 => Head(stream) = Blank
  BY <1>2, FrameLines
<1>4. /\ k = 0 => f = "event" /\ Head(stream).value = "connected"
      /\ k = 1 => f = "data" /\ Head(stream).value = -1
      /\ k = 2 => f = "blank"
  BY <1>2, <1>3 DEF Line, Blank
<1>5. k = 2 <=> k + 1 = 3
  OBVIOUS
<1>6. QED BY <1>2, <1>4, <1>5

LEMMA HeartbeatLine ==
    ASSUME stream \in Seq(Lines), NEW k \in 0 .. 1, Match(stream, open, Heartbeat, k),
           NEW f, TakeLine(f)
    PROVE  /\ k = 0 => f = "comment"
           /\ k = 1 => f = "blank" /\ stream' = <<>>
           /\ Match(stream', open', Heartbeat, k + 1) /\ stream' \in Seq(Lines)
           /\ stream' = <<>> /\ open' => k = 1
<1>1. k \in Nat /\ Heartbeat \in Seq(Lines) /\ Match(stream, open, Heartbeat, k)
  BY FrameLines
<1>2. /\ Head(stream) = Heartbeat[k + 1] /\ Head(stream).field = f
      /\ Match(stream', open', Heartbeat, k + 1) /\ stream' \in Seq(Lines)
      /\ stream' = <<>> /\ open' => k + 1 = 2
      /\ k + 1 = 2 => stream' = <<>>
  <2>1. Len(Heartbeat) = 2
    BY FrameLines
  <2>2. QED BY <1>1, <2>1, TakeOf
<1>3. /\ k = 0 => Head(stream) = Line("comment", 0)
      /\ k = 1 => Head(stream) = Blank
  BY <1>2, FrameLines
<1>4. (k = 0 => f = "comment") /\ (k = 1 => f = "blank")
  BY <1>2, <1>3 DEF Line, Blank
<1>5. k = 1 <=> k + 1 = 2
  OBVIOUS
<1>6. QED BY <1>2, <1>4, <1>5

LEMMA EventLine ==
    ASSUME stream \in Seq(Lines), NEW e \in Nat, NEW k \in 0 .. 3, InEvent(e, k),
           NEW f, TakeLine(f)
    PROVE  /\ k = 0 => f = "id" /\ Head(stream).value = e
           /\ k = 1 => f = "event" /\ Head(stream).value = "tunnel"
           /\ k = 2 => f = "data" /\ Head(stream).value = e
           /\ k = 3 => f = "blank" /\ stream' = <<>>
           /\ Match(stream', open', NumberedFrame(e), k + 1) /\ stream' \in Seq(Lines)
           /\ stream' = <<>> /\ open' => k = 3
<1>1. k \in Nat /\ NumberedFrame(e) \in Seq(Lines) /\ Match(stream, open, NumberedFrame(e), k)
  BY EventLines DEF InEvent
<1>2. /\ Head(stream) = NumberedFrame(e)[k + 1] /\ Head(stream).field = f
      /\ Match(stream', open', NumberedFrame(e), k + 1) /\ stream' \in Seq(Lines)
      /\ stream' = <<>> /\ open' => k + 1 = 4
      /\ k + 1 = 4 => stream' = <<>>
  <2>1. Len(NumberedFrame(e)) = 4
    BY EventLines
  <2>2. QED BY <1>1, <2>1, TakeOf
<1>3. /\ k = 0 => Head(stream) = Line("id", e)
      /\ k = 1 => Head(stream) = Line("event", "tunnel")
      /\ k = 2 => Head(stream) = Line("data", e)
      /\ k = 3 => Head(stream) = Blank
  <2>1. /\ NumberedFrame(e)[1] = Line("id", e) /\ NumberedFrame(e)[2] = Line("event", "tunnel")
        /\ NumberedFrame(e)[3] = Line("data", e) /\ NumberedFrame(e)[4] = Blank
    BY EventLines
  <2>2. Head(stream) = NumberedFrame(e)[k + 1]
    BY <1>2
  <2>3. k \in {0, 1, 2, 3}
    OBVIOUS
  <2>4. QED BY <2>1, <2>2, <2>3
<1>4. /\ k = 0 => f = "id" /\ Head(stream).value = e
      /\ k = 1 => f = "event" /\ Head(stream).value = "tunnel"
      /\ k = 2 => f = "data" /\ Head(stream).value = e
      /\ k = 3 => f = "blank"
  BY <1>2, <1>3 DEF Line, Blank
<1>5. k = 3 <=> k + 1 = 4
  OBVIOUS
<1>6. QED BY <1>2, <1>4, <1>5

(* After a line: what there is to show.                                    *)
LEMMA ReadStep ==
    ASSUME IInv, NEW f, TakeLine(f), ReadOK', Interval', CacheOrder', Covered', Reading',
           stream' \in Seq(Lines), lastEventID' # 0 => base >= lastEventID' - Len(handled')
    PROVE  IInv'
<1>1. ControlOK' /\ NetOK'
  <2>1. ControlOK /\ NetOK
    BY TypeParts DEF IInv
  <2>2. ControlOK'
    BY <2>1, TakeFacts DEF ControlOK
  <2>3. NetOK'
    BY <2>1, TakeFacts DEF NetOK
  <2>4. QED BY <2>2, <2>3
<1>2. StreamOK' /\ Closed'
  BY TakeFacts DEF StreamOK, Closed
<1>3. QED BY <1>1, <1>2, TypeNext DEF IInv

(* A line that handles nothing.                                            *)
LEMMA UnhandledStep ==
    ASSUME IInv, NEW f, TakeLine(f), UNCHANGED <<lastEventID, eventCache, handled>>,
           frame' \in Frames, Reading', stream' \in Seq(Lines)
    PROVE  IInv'
<1>1. published' = published /\ pc = "line"
  BY TakeFacts
<1>2. ReadOK'
  BY <1>1, TypeParts DEF IInv, ReadOK, Frames
<1>3. Interval' /\ CacheOrder' /\ Covered'
  BY DEF IInv, Interval, CacheOrder, Covered, Cached
<1>4. lastEventID # 0 => base >= lastEventID - Len(handled)
  BY <1>1 DEF IInv, StreamOK
<1>5. QED BY <1>2, <1>3, <1>4, ReadStep

(* The record of a frame.                                                  *)
LEMMA PartFacts ==
    ASSUME NEW t, NEW d, NEW n, NEW v
    PROVE  /\ Part(t, d, n).type = t /\ Part(t, d, n).data = d /\ Part(t, d, n).id = n
           /\ [Part(t, d, n) EXCEPT !.type = v] = Part(v, d, n)
           /\ [Part(t, d, n) EXCEPT !.data = v] = Part(t, v, n)
           /\ [Part(t, d, n) EXCEPT !.id = v] = Part(t, d, v)
BY DEF Part

LEMMA NoTypeFacts == NoType # "connected" /\ NoType # "tunnel" /\ NoFrame = Part(NoType, 0, 0)
BY DEF NoType, NoFrame, Part

LEMMA PartType ==
    ASSUME NEW t \in {NoType, "connected", "tunnel"}, NEW d \in -1 .. published,
           NEW n \in 0 .. published
    PROVE  Part(t, d, n) \in Frames
BY DEF Part, Frames, NoType

(* The line of a field: the frame grows by what its line says.             *)
LEMMA FieldStep ==
    ASSUME IInv, ReadField
    PROVE  IInv'
<1>1. PICK f \in {"id", "event", "data"} : TakeLine(f)
  BY DEF ReadField
<1>2. /\ pc = "line" /\ stream # <<>> /\ Head(stream).field = f /\ open' = open
      /\ UNCHANGED <<keepsEvents, published, base, cursor, lastEventID, eventCache, handled>>
  BY <1>1, TakeFacts DEF ReadField
<1>3. /\ f = "id" => frame' = [frame EXCEPT !.id = Head(stream).value]
      /\ f = "event" => frame' = [frame EXCEPT !.type = Head(stream).value]
      /\ f = "data" => frame' = [frame EXCEPT !.data = Head(stream).value]
  BY <1>2 DEF ReadField, TakeLine
<1>4. stream \in Seq(Lines) /\ Reading /\ published \in Nat
  BY <1>2, Numbers DEF IInv, StreamOK
<1>5. Level => Level'
  BY <1>2 DEF Level
<1>6. ASSUME NEW k \in 0 .. 2, InConnected(k)
      PROVE  Reading' /\ frame' \in Frames /\ stream' \in Seq(Lines)
  <2>1. /\ k = 0 => f = "event" /\ Head(stream).value = "connected"
        /\ k = 1 => f = "data" /\ Head(stream).value = -1
        /\ k = 2 => f = "blank"
        /\ Match(stream', open', ConnectedFrame, k + 1) /\ stream' \in Seq(Lines)
        /\ stream' = <<>> /\ open' => k = 2
    BY <1>1, <1>4, <1>6, ConnectedLine DEF InConnected
  <2>2. k # 2
    BY <1>1, <2>1
  <2>a. (k = 0 => frame = Part(NoType, 0, 0)) /\ (k = 1 => frame = Part("connected", 0, 0))
    BY <1>6, NoTypeFacts DEF InConnected, ConnectedPart
  <2>3. k = 0 => frame' = Part("connected", 0, 0)
    BY <1>3, <2>1, <2>a, PartFacts
  <2>4. k = 1 => frame' = Part("connected", -1, 0)
    BY <1>3, <2>1, <2>a, PartFacts
  <2>5. k = 0 \/ k = 1
    BY <2>2
  <2>6. frame' \in Frames
    <3>1. 0 \in 0 .. published /\ 0 \in -1 .. published /\ -1 \in -1 .. published
      BY <1>4
    <3>2. Part("connected", 0, 0) \in Frames /\ Part("connected", -1, 0) \in Frames
      BY <3>1, PartType
    <3>3. QED BY <2>3, <2>4, <2>5, <3>2
  <2>7. ConnectedPart(k + 1)' /\ k + 1 \in 0 .. 2
    BY <2>3, <2>4, <2>5 DEF ConnectedPart
  <2>8. InConnected(k + 1)'
    BY <1>5, <1>6, <2>1, <2>7 DEF InConnected
  <2>9. stream' = <<>> => BetweenFrames'
    BY <2>1, <2>2 DEF BetweenFrames
  <2>10. Reading'
    BY <2>7, <2>8, <2>9 DEF Reading
  <2>11. QED BY <2>1, <2>6, <2>10
<1>7. ASSUME NEW k \in 0 .. 1, InHeartbeat(k)
      PROVE  FALSE
  <2>1. (k = 0 => f = "comment") /\ (k = 1 => f = "blank")
    BY <1>1, <1>4, <1>7, HeartbeatLine DEF InHeartbeat
  <2>2. QED BY <1>1, <2>1
<1>8. ASSUME NEW e \in 1 .. published, NEW k \in 0 .. 3, InEvent(e, k)
      PROVE  Reading' /\ frame' \in Frames /\ stream' \in Seq(Lines)
  <2>0. e \in Nat
    BY <1>4
  <2>1. /\ k = 0 => f = "id" /\ Head(stream).value = e
        /\ k = 1 => f = "event" /\ Head(stream).value = "tunnel"
        /\ k = 2 => f = "data" /\ Head(stream).value = e
        /\ k = 3 => f = "blank"
        /\ Match(stream', open', NumberedFrame(e), k + 1) /\ stream' \in Seq(Lines)
        /\ stream' = <<>> /\ open' => k = 3
    BY <1>1, <1>4, <1>8, <2>0, EventLine DEF IInv
  <2>2. k # 3
    BY <1>1, <2>1
  <2>a. /\ k = 0 => frame = Part(NoType, 0, 0)
        /\ k = 1 => frame = Part(NoType, 0, e)
        /\ k = 2 => frame = Part("tunnel", 0, e)
    BY <1>8, NoTypeFacts DEF InEvent, EventPart
  <2>3. k = 0 => frame' = Part(NoType, 0, e)
    BY <1>3, <2>1, <2>a, PartFacts
  <2>4. k = 1 => frame' = Part("tunnel", 0, e)
    BY <1>3, <2>1, <2>a, PartFacts
  <2>5. k = 2 => frame' = Part("tunnel", e, e)
    BY <1>3, <2>1, <2>a, PartFacts
  <2>6. k = 0 \/ k = 1 \/ k = 2
    BY <2>2
  <2>7. frame' \in Frames
    <3>1. 0 \in -1 .. published /\ e \in -1 .. published /\ e \in 0 .. published
      BY <1>4
    <3>2. /\ Part(NoType, 0, e) \in Frames /\ Part("tunnel", 0, e) \in Frames
          /\ Part("tunnel", e, e) \in Frames
      BY <3>1, PartType
    <3>3. QED BY <2>3, <2>4, <2>5, <2>6, <3>2
  <2>8. EventPart(e, k + 1)' /\ k + 1 \in 0 .. 3
    <3>1. CASE k = 0
      BY <2>3, <3>1 DEF EventPart
    <3>2. CASE k = 1
      BY <2>4, <3>2 DEF EventPart
    <3>3. CASE k = 2
      BY <2>5, <3>3 DEF EventPart
    <3>4. QED BY <2>6, <3>1, <3>2, <3>3
  <2>9. Fresh(e)' \/ Repeated(e)'
    BY <1>2, <1>8 DEF InEvent, Fresh, Repeated
  <2>10. InEvent(e, k + 1)' /\ e \in 1 .. published'
    BY <1>2, <2>1, <2>8, <2>9 DEF InEvent
  <2>11. stream' = <<>> => BetweenFrames'
    BY <2>1, <2>2 DEF BetweenFrames
  <2>12. Reading'
    BY <2>8, <2>10, <2>11 DEF Reading
  <2>13. QED BY <2>1, <2>7, <2>12
<1>9. Reading' /\ frame' \in Frames /\ stream' \in Seq(Lines)
  BY <1>2, <1>4, <1>6, <1>7, <1>8 DEF Reading, BetweenFrames
<1>10. QED BY <1>1, <1>2, <1>9, UnhandledStep

(* The line that ends a frame finds a frame complete, or a heartbeat.      *)
LEMMA BlankCases ==
    ASSUME IInv, TakeLine("blank")
    PROVE  /\ stream' = <<>>
           /\ \/ frame = NoFrame /\ Level
              \/ frame = Part("connected", -1, 0) /\ Level
              \/ \E e \in 1 .. published :
                    frame = Part("tunnel", e, e) /\ (Fresh(e) \/ Repeated(e))
<1>1. stream \in Seq(Lines) /\ Reading /\ stream # <<>> /\ published \in Nat
  BY TakeFacts, Numbers DEF IInv, StreamOK
<1>2. ASSUME NEW k \in 0 .. 2, InConnected(k)
      PROVE  stream' = <<>> /\ frame = Part("connected", -1, 0) /\ Level
  <2>1. k = 2 /\ stream' = <<>>
    BY <1>1, <1>2, ConnectedLine DEF InConnected
  <2>2. QED BY <1>2, <2>1 DEF InConnected, ConnectedPart
<1>3. ASSUME NEW k \in 0 .. 1, InHeartbeat(k)
      PROVE  stream' = <<>> /\ frame = NoFrame /\ Level
  <2>1. k = 1 /\ stream' = <<>>
    BY <1>1, <1>3, HeartbeatLine DEF InHeartbeat
  <2>2. QED BY <1>3, <2>1 DEF InHeartbeat
<1>4. ASSUME NEW e \in 1 .. published, NEW k \in 0 .. 3, InEvent(e, k)
      PROVE  stream' = <<>> /\ frame = Part("tunnel", e, e) /\ (Fresh(e) \/ Repeated(e))
  <2>0. e \in Nat
    BY <1>1
  <2>1. k = 3 /\ stream' = <<>>
    BY <1>1, <1>4, <2>0, EventLine DEF IInv
  <2>2. QED BY <1>4, <2>1 DEF InEvent, EventPart
<1>5. QED BY <1>1, <1>2, <1>3, <1>4 DEF Reading, BetweenFrames

(* A line that is skipped belongs to a heartbeat.                          *)
LEMMA SkipStep ==
    ASSUME IInv, SkipLine
    PROVE  IInv'
<1>1. /\ UNCHANGED <<lastEventID, eventCache, handled, frame>>
      /\ stream \in Seq(Lines) /\ published \in Nat /\ frame \in Frames
  BY Numbers, TypeParts DEF SkipLine, readVars, IInv, ReadOK
<1>2. CASE TakeLine("comment")
  <2>1. Reading /\ stream # <<>> /\ UNCHANGED <<base, cursor, open>>
    BY <1>2, TakeFacts DEF IInv, StreamOK
  <2>2. ~\E k \in 0 .. 2 : InConnected(k)
    BY <1>1, <1>2, ConnectedLine DEF InConnected
  <2>3. ~\E e \in 1 .. published, k \in 0 .. 3 : InEvent(e, k)
    <3>1. SUFFICES ASSUME NEW e \in 1 .. published, NEW k \in 0 .. 3, InEvent(e, k) PROVE FALSE
      OBVIOUS
    <3>2. e \in Nat
      BY <1>1
    <3>3. QED BY <1>1, <1>2, <3>1, <3>2, EventLine DEF IInv
  <2>4. PICK k \in 0 .. 1 : InHeartbeat(k)
    BY <2>1, <2>2, <2>3 DEF Reading, BetweenFrames
  <2>5. /\ k = 0 /\ Match(stream', open', Heartbeat, k + 1) /\ stream' \in Seq(Lines)
        /\ stream' = <<>> /\ open' => k = 1
    BY <1>1, <1>2, <2>4, HeartbeatLine DEF InHeartbeat
  <2>6. Level' /\ frame' = NoFrame
    BY <1>1, <2>1, <2>4 DEF InHeartbeat, Level
  <2>7. InHeartbeat(k + 1)' /\ k + 1 \in 0 .. 1
    BY <2>5, <2>6 DEF InHeartbeat
  <2>8. stream' = <<>> => BetweenFrames'
    BY <2>5, <2>6 DEF BetweenFrames
  <2>9. Reading'
    BY <2>7, <2>8 DEF Reading
  <2>10. QED BY <1>1, <1>2, <2>5, <2>9, UnhandledStep
<1>3. CASE TakeLine("blank") /\ (frame.type = NoType \/ frame.data = 0)
  <2>1. \A e \in 1 .. published : frame # Part("tunnel", e, e)
    <3>1. ASSUME NEW e \in 1 .. published, frame = Part("tunnel", e, e) PROVE FALSE
      <4>1. frame.type = "tunnel" /\ frame.data = e
        BY <3>1, PartFacts
      <4>2. QED BY <1>1, <1>3, <4>1, NoTypeFacts
    <3>2. QED BY <3>1
  <2>2. frame # Part("connected", -1, 0)
    <3>1. Part("connected", -1, 0).type = "connected" /\ Part("connected", -1, 0).data = -1
      BY PartFacts
    <3>2. QED BY <1>3, <3>1, NoTypeFacts
  <2>3. stream' = <<>> /\ frame = NoFrame /\ Level
    BY <1>3, <2>1, <2>2, BlankCases
  <2>4. Level' /\ frame' = NoFrame
    BY <1>1, <1>3, <2>3, TakeFacts DEF Level
  <2>5. Reading' /\ stream' \in Seq(Lines)
    BY <2>3, <2>4, EmptySeq DEF Reading, BetweenFrames
  <2>6. QED BY <1>1, <1>3, <2>5, UnhandledStep
<1>4. QED BY <1>2, <1>3 DEF SkipLine, NoType

LEMMA NoFrameType ==
    ASSUME published \in Nat
    PROVE  NoFrame \in Frames
<1>1. 0 \in -1 .. published /\ 0 \in 0 .. published
  OBVIOUS
<1>2. QED BY <1>1, PartType, NoTypeFacts

(* A frame whose ID is cached repeats an event of the window: an event     *)
(* that is sent for the first time is above all that is cached.            *)
LEMMA DuplicateStep ==
    ASSUME IInv, SkipDuplicate
    PROVE  IInv'
<1>a. TypeOK /\ ReadOK /\ Interval /\ CacheOrder /\ Covered /\ StreamOK
  BY TypeParts DEF IInv
<1>1. /\ TakeLine("blank") /\ frame.id # 0 /\ frame.type # NoType
      /\ frame' = NoFrame /\ UNCHANGED <<lastEventID, handled>>
  BY DEF SkipDuplicate, NoType
<1>2. PICK i \in 1 .. Len(eventCache) :
         eventCache[i] = frame.id /\ eventCache' = Append(Without(eventCache, i), frame.id)
  BY DEF SkipDuplicate
<1>3. /\ published \in Nat /\ cursor \in Nat /\ base \in Nat /\ lastEventID \in Nat
      /\ Window \in Nat /\ pc = "line" /\ UNCHANGED <<keepsEvents, published, base, cursor>>
  BY <1>a, <1>1, Numbers, TakeFacts
<1>4. PICK e \in 1 .. published : frame = Part("tunnel", e, e) /\ (Fresh(e) \/ Repeated(e))
  <2>1. frame # NoFrame
    <3>1. NoFrame.type = NoType
      BY NoTypeFacts, PartFacts
    <3>2. QED BY <1>1, <3>1
  <2>2. frame # Part("connected", -1, 0)
    <3>1. Part("connected", -1, 0).id = 0
      BY PartFacts
    <3>2. QED BY <1>1, <3>1
  <2>3. QED BY <1>1, <2>1, <2>2, BlankCases
<1>5. frame.id = e /\ eventCache[i] = e /\ e <= lastEventID
  BY <1>a, <1>2, <1>4, PartFacts DEF CacheOrder
<1>6. lastEventID = cursor /\ e > lastEventID - Window
  BY <1>3, <1>4, <1>5 DEF Fresh, Repeated
<1>7. /\ eventCache' \in Seq(1 .. published) /\ Len(eventCache') <= CacheSize
      /\ CacheOrder' /\ Covered'
  <2>1. eventCache' = Append(Without(eventCache, i), eventCache[i])
    BY <1>2
  <2>2. eventCache[i] > lastEventID - Window
    BY <1>5, <1>6
  <2>3. QED BY <1>a, <1>1, <2>1, <2>2, MoveCache
<1>8. ReadOK'
  <2>1. Frames' = Frames /\ NoFrame \in Frames
    BY <1>3, NoFrameType DEF Frames
  <2>2. QED BY <1>a, <1>1, <1>3, <1>7, <2>1 DEF ReadOK
<1>9. Interval'
  BY <1>a, <1>1 DEF Interval
<1>10. Reading' /\ stream' \in Seq(Lines)
  <2>1. stream' = <<>>
    BY <1>1, BlankCases
  <2>2. Level'
    BY <1>1, <1>3, <1>6 DEF Level
  <2>3. QED BY <1>1, <2>1, <2>2, EmptySeq DEF Reading, BetweenFrames
<1>11. lastEventID' # 0 => base >= lastEventID' - Len(handled')
  BY <1>a, <1>1, <1>3 DEF StreamOK
<1>12. QED BY <1>1, <1>7, <1>8, <1>9, <1>10, <1>11, ReadStep

(* The next event is handled.                                              *)
LEMMA FreshStep ==
    ASSUME IInv, HandleEvent, NEW e \in 1 .. published, frame = Part("tunnel", e, e), Fresh(e)
    PROVE  IInv'
<1>a. TypeOK /\ ReadOK /\ Interval /\ CacheOrder /\ Covered /\ StreamOK
  BY TypeParts DEF IInv
<1>b. frame.type = "tunnel" /\ frame.data = e /\ frame.id = e
  BY PartFacts
<1>1. TakeLine("blank") /\ frame' = NoFrame
  BY DEF HandleEvent
<1>2. /\ published \in Nat /\ cursor \in Nat /\ base \in Nat /\ lastEventID \in Nat
      /\ Len(handled) \in Nat /\ handled \in Seq(1 .. published)
      /\ pc = "line" /\ UNCHANGED <<keepsEvents, published, base, cursor>>
  BY <1>a, <1>1, Numbers, TakeFacts
<1>3. /\ e = cursor /\ e > lastEventID /\ (e = lastEventID + 1 \/ lastEventID = 0)
      /\ lastEventID = 0 => base = e - 1
  BY <1>2 DEF Fresh
<1>4. eventCache' = Add(e) /\ lastEventID' = e /\ handled' = Append(handled, e)
  BY <1>b, <1>2 DEF HandleEvent
<1>5. /\ eventCache' \in Seq(1 .. published) /\ Len(eventCache') <= CacheSize
      /\ CacheOrder' /\ Covered'
  BY <1>a, <1>3, <1>4, AddCache
<1>6. /\ handled' \in Seq(1 .. published) /\ Len(handled') = Len(handled) + 1
      /\ \A i \in 1 .. Len(handled) : handled'[i] = handled[i]
      /\ handled'[Len(handled) + 1] = e
  BY <1>2, <1>4, AppendProperties
<1>7. lastEventID = 0 => Len(handled) = 0
  BY <1>a, EmptySeq DEF Interval
<1>8. ReadOK'
  <2>1. Frames' = Frames /\ NoFrame \in Frames
    BY <1>2, NoFrameType DEF Frames
  <2>2. lastEventID' \in 0 .. published
    BY <1>2, <1>4
  <2>3. QED BY <1>1, <1>2, <1>5, <1>6, <2>1, <2>2 DEF ReadOK
<1>9. Interval'
  <2>1. handled' # <<>> /\ lastEventID' # 0
    BY <1>2, <1>4, <1>6, EmptySeq
  <2>2. Len(handled) <= lastEventID /\ Len(handled') <= lastEventID'
    BY <1>a, <1>2, <1>3, <1>4, <1>6 DEF Interval
  <2>3. ASSUME NEW i \in 1 .. Len(handled')
        PROVE  handled'[i] = lastEventID' - Len(handled') + i
    <3>1. CASE i = Len(handled) + 1
      BY <1>2, <1>4, <1>6, <3>1
    <3>2. CASE i \in 1 .. Len(handled)
      <4>1. lastEventID # 0
        BY <1>2, <1>7, <3>2
      <4>2. handled'[i] = lastEventID - Len(handled) + i
        BY <1>a, <1>6, <3>2 DEF Interval
      <4>3. e = lastEventID + 1
        BY <1>3, <4>1
      <4>4. QED BY <1>2, <1>4, <1>6, <4>2, <4>3
    <3>3. QED BY <1>2, <1>6, <3>1, <3>2
  <2>4. QED BY <2>1, <2>2, <2>3 DEF Interval
<1>10. Reading' /\ stream' \in Seq(Lines)
  <2>1. stream' = <<>>
    BY <1>1, BlankCases
  <2>2. Level'
    BY <1>2, <1>3, <1>4 DEF Level
  <2>3. QED BY <1>1, <2>1, <2>2, EmptySeq DEF Reading, BetweenFrames
<1>11. base >= lastEventID' - Len(handled')
  <2>1. CASE lastEventID = 0
    BY <1>2, <1>3, <1>4, <1>6, <1>7, <2>1
  <2>2. CASE lastEventID # 0
    <3>1. base >= lastEventID - Len(handled)
      BY <1>a, <1>2, <2>2 DEF StreamOK
    <3>2. QED BY <1>2, <1>3, <1>4, <1>6, <2>2, <3>1
  <2>3. QED BY <2>1, <2>2
<1>12. QED BY <1>1, <1>5, <1>8, <1>9, <1>10, <1>11, ReadStep

(* A complete frame whose ID is not cached is the server's greeting or the *)
(* next event: a repetition would be cached.                               *)
LEMMA HandleCases ==
    ASSUME IInv, HandleEvent
    PROVE  \/ frame = Part("connected", -1, 0) /\ Level
           \/ \E e \in 1 .. published : frame = Part("tunnel", e, e) /\ Fresh(e)
<1>a. TypeOK /\ Covered /\ StreamOK
  BY DEF IInv
<1>1. TakeLine("blank") /\ frame.type # NoType /\ ~(frame.id # 0 /\ Cached(frame.id))
  BY DEF HandleEvent, NoType
<1>2. /\ published \in Nat /\ cursor \in Nat /\ base \in Nat /\ lastEventID \in Nat
      /\ Len(handled) \in Nat /\ Window \in Nat /\ pc = "line"
  BY <1>a, <1>1, Numbers, TakeFacts
<1>3. ASSUME NEW e \in 1 .. published, frame = Part("tunnel", e, e), Repeated(e)
      PROVE  FALSE
  <2>1. frame.id = e
    BY <1>3, PartFacts
  <2>2. /\ lastEventID = cursor /\ e \in base + 1 .. cursor /\ e > cursor - Window
        /\ e \in 1 .. lastEventID /\ lastEventID # 0
    BY <1>2, <1>3 DEF Repeated
  <2>3. base >= lastEventID - Len(handled)
    BY <1>a, <1>2, <2>2 DEF StreamOK
  <2>4. e > lastEventID - Len(handled) /\ e > lastEventID - Window
    BY <1>2, <2>2, <2>3
  <2>5. Cached(e)
    BY <1>a, <2>2, <2>4 DEF Covered
  <2>6. QED BY <1>1, <1>2, <2>1, <2>5
<1>4. frame # NoFrame
  <2>1. NoFrame.type = NoType
    BY NoTypeFacts, PartFacts
  <2>2. QED BY <1>1, <2>1
<1>5. QED BY <1>1, <1>3, <1>4, BlankCases

LEMMA HandleStep ==
    ASSUME IInv, HandleEvent
    PROVE  IInv'
<1>1. TakeLine("blank") /\ frame' = NoFrame
  BY DEF HandleEvent
<1>2. /\ published \in Nat /\ cursor \in Nat /\ base \in Nat /\ lastEventID \in Nat
      /\ stream' = <<>> /\ UNCHANGED <<base, cursor>>
  BY <1>1, Numbers, TakeFacts, BlankCases DEF IInv
<1>3. CASE frame = Part("connected", -1, 0) /\ Level
  <2>1. frame.id = 0 /\ frame.type = "connected"
    BY <1>3, PartFacts
  <2>2. UNCHANGED <<eventCache, lastEventID, handled>>
    BY <2>1 DEF HandleEvent
  <2>3. Level'
    BY <1>2, <1>3, <2>2 DEF Level
  <2>4. Reading' /\ stream' \in Seq(Lines)
    BY <1>1, <1>2, <2>3, EmptySeq DEF Reading, BetweenFrames
  <2>5. frame' \in Frames
    BY <1>1, <1>2, NoFrameType
  <2>6. QED BY <1>1, <2>2, <2>4, <2>5, UnhandledStep
<1>4. CASE \E e \in 1 .. published : frame = Part("tunnel", e, e) /\ Fresh(e)
  BY <1>4, FreshStep
<1>5. QED BY <1>3, <1>4, HandleCases

-----------------------------------------------------------------------------
LEMMA InitIInv == Init => IInv
<1> SUFFICES ASSUME Init PROVE IInv
  OBVIOUS
<1>1. ControlOK /\ NetOK
  <2>1. 1 \in 1 .. MaxBackoff /\ 0 \in 0 .. MaxFaults /\ 0 \in 0 .. MaxEvents
    BY SubscriberAssumption
  <2>2. ControlOK
    BY <2>1 DEF Init, ControlOK
  <2>3. NetOK
    <3>1. open = FALSE /\ published = 0 /\ base = 0 /\ cursor = 0
      BY DEF Init
    <3>2. published \in 0 .. MaxEvents /\ base \in 0 .. cursor /\ cursor \in 0 .. published
      BY <2>1, <3>1
    <3>3. open \in BOOLEAN /\ keepsEvents \in BOOLEAN
      BY <3>1 DEF Init
    <3>4. QED BY <3>2, <3>3 DEF NetOK
  <2>4. QED BY <2>2, <2>3
<1>2. ReadOK
  <2>1. published = 0 /\ NoFrame \in Frames
    BY NoFrameType DEF Init
  <2>2. <<>> \in Seq(1 .. published) /\ Len(<<>>) = 0
    BY EmptySeq
  <2>3. QED BY <2>1, <2>2, SubscriberAssumption DEF Init, ReadOK
<1>3. TypeOK /\ stream \in Seq(Lines)
  BY <1>1, <1>2, TypeParts, EmptySeq DEF Init
<1>4. Interval /\ CacheOrder /\ Covered
  BY DEF Init, Interval, CacheOrder, Covered
<1>5. StreamOK /\ Closed
  BY DEF Init, StreamOK, Closed
<1>6. QED BY <1>3, <1>4, <1>5 DEF IInv

LEMMA NextIInv == keepsEvents /\ IInv /\ [Next]_vars => IInv'
<1> SUFFICES ASSUME keepsEvents, IInv, [Next]_vars PROVE IInv'
  OBVIOUS
<1>a. ControlOK /\ MaxBackoff \in Nat /\ MaxBackoff >= 1 /\ MaxFaults \in Nat
  BY TypeParts, SubscriberAssumption DEF IInv
<1>1. CASE Start \/ LoopTop \/ MarkDisconnected \/ BackoffStopped
  <2>1. /\ pc' \in {"loop", "request", "backoff", "done"} /\ connected' \in {connected, FALSE}
        /\ pc \in {"off", "loop", "failed", "backoff"}
        /\ UNCHANGED <<backoff, stop, cancelled, faults, lastEventID, eventCache, frame, handled,
                       keepsEvents, published, base, cursor, open, stream>>
    BY <1>1 DEF Start, LoopTop, MarkDisconnected, BackoffStopped, readVars, ctlVars, srvVars, netVars
  <2>2. ControlOK'
    BY <1>a, <2>1 DEF ControlOK
  <2>3. QED BY <2>1, <2>2, QuietStep
<1>2. CASE ConnectFails
  <2>1. /\ pc' = "failed" /\ pc = "request" /\ faults' \in 0 .. MaxFaults
        /\ UNCHANGED <<backoff, stop, cancelled, connected, lastEventID, eventCache, frame,
                       handled, keepsEvents, published, base, cursor, open, stream>>
    BY <1>a, <1>2 DEF ConnectFails, ControlOK, readVars, ctlVars, srvVars, netVars
  <2>2. ControlOK'
    BY <1>a, <2>1 DEF ControlOK
  <2>3. QED BY <2>1, <2>2, QuietStep
<1>3. CASE CheckPasses
  <2>1. /\ pc' = "line" /\ pc = "check"
        /\ UNCHANGED <<backoff, stop, cancelled, connected, faults, lastEventID, eventCache,
                       frame, handled, keepsEvents, published, base, cursor, open, stream>>
    BY <1>3 DEF CheckPasses, readVars, ctlVars, srvVars, netVars
  <2>2. ControlOK'
    BY <1>a, <2>1 DEF ControlOK
  <2>3. QED BY <2>1, <2>2, QuietStep
<1>4. CASE BackoffEnds
  <2>1. /\ pc' = "loop" /\ pc = "backoff" /\ backoff' = NextBackoff
        /\ UNCHANGED <<stop, cancelled, connected, faults, lastEventID, eventCache,
                       frame, handled, keepsEvents, published, base, cursor, open, stream>>
    BY <1>4 DEF BackoffEnds, readVars, ctlVars, srvVars, netVars
  <2>2. NextBackoff \in 1 .. MaxBackoff
    BY <1>a DEF NextBackoff, ControlOK
  <2>3. ControlOK'
    BY <1>a, <2>1, <2>2 DEF ControlOK
  <2>4. QED BY <2>1, <2>3, QuietStep
<1>5. CASE Stop \/ StopReturn \/ Cancel \/ UNCHANGED vars
  <2>1. /\ stop' \in {stop, "waiting", "returned"} /\ cancelled' \in {cancelled, TRUE}
        /\ UNCHANGED <<pc, backoff, connected, faults, lastEventID, eventCache,
                       frame, handled, keepsEvents, published, base, cursor, open, stream>>
    BY <1>5 DEF Stop, StopReturn, Cancel, vars, loopVars, readVars, ctlVars, srvVars, netVars
  <2>2. ControlOK'
    BY <1>a, <2>1 DEF ControlOK
  <2>3. QED BY <2>1, <2>2, QuietStep
<1>6. CASE CheckStop \/ CheckCancelled \/ ReadFails
  <2>1. backoff \in 1 .. MaxBackoff /\ 1 \in 1 .. MaxBackoff
    BY <1>a DEF ControlOK
  <2>2. CASE CheckStop
    BY <2>1, <2>2, LeaveStep DEF CheckStop
  <2>3. CASE CheckCancelled
    BY <2>1, <2>3, LeaveStep DEF CheckCancelled
  <2>4. CASE ReadFails
    BY <2>1, <2>4, LeaveStep DEF ReadFails
  <2>5. QED BY <1>6, <2>2, <2>3, <2>4
<1>7. CASE Connect \/ ReadField \/ SkipLine \/ SkipDuplicate \/ HandleEvent
  BY <1>7, ConnectStep, FieldStep, SkipStep, DuplicateStep, HandleStep
<1>8. CASE Publish \/ SendEvent \/ RepeatEvent \/ SendHeartbeat \/ Break
  BY <1>8, PublishStep, WriteStep, BreakStep
<1>9. QED BY <1>1, <1>2, <1>3, <1>4, <1>5, <1>6, <1>7, <1>8 DEF Next

-----------------------------------------------------------------------------
(* The repository's notifier.  Its events have no ID, so that lastEventID  *)
(* and the cache are never used; an event on its way is the newest of all  *)
(* that were written, and nothing is written twice.                        *)
PlainPart(e, k) ==
    /\ k = 0 => frame = NoFrame
    /\ k = 1 => frame = Part("tunnel", 0, 0)
    /\ k = 2 => frame = Part("tunnel", e, 0)

Newest(e) == e = cursor /\ \A i \in 1 .. Len(handled) : handled[i] < e

PlainConnected(k) == Match(stream, open, ConnectedFrame, k) /\ ConnectedPart(k)
PlainHeartbeat(k) == Match(stream, open, Heartbeat, k) /\ frame = NoFrame
PlainEvent(e, k) == Match(stream, open, PlainFrame(e), k) /\ PlainPart(e, k) /\ Newest(e)

PlainReading ==
    \/ stream = <<>> /\ (open => frame = NoFrame)
    \/ stream # <<>> /\ \E k \in 0 .. 2 : PlainConnected(k)
    \/ stream # <<>> /\ \E k \in 0 .. 1 : PlainHeartbeat(k)
    \/ stream # <<>> /\ \E e \in 1 .. published, k \in 0 .. 2 : PlainEvent(e, k)

PlainStream == pc \in {"check", "line"} => PlainReading

Unnumbered == lastEventID = 0 /\ eventCache = <<>>

Rising ==
    /\ \A i, j \in 1 .. Len(handled) : i < j => handled[i] < handled[j]
    /\ \A i \in 1 .. Len(handled) : handled[i] <= cursor

(* The inductive invariant.                                                *)
PInv == TypeOK /\ stream \in Seq(Lines) /\ Unnumbered /\ Rising /\ PlainStream /\ Closed

LEMMA PlainLines ==
    ASSUME NEW e \in Nat
    PROVE  /\ PlainFrame(e) \in Seq(Lines) /\ Len(PlainFrame(e)) = 3
           /\ PlainFrame(e)[1] = Line("event", "tunnel")
           /\ PlainFrame(e)[2] = Line("data", e) /\ PlainFrame(e)[3] = Blank
<1>1. Line("event", "tunnel") \in Lines /\ Line("data", e) \in Lines /\ Blank \in Lines
  BY DEF Lines
<1>2. QED BY <1>1 DEF PlainFrame

LEMMA PlainLine ==
    ASSUME stream \in Seq(Lines), NEW e \in Nat, NEW k \in 0 .. 2, PlainEvent(e, k),
           NEW f, TakeLine(f)
    PROVE  /\ k = 0 => f = "event" /\ Head(stream).value = "tunnel"
           /\ k = 1 => f = "data" /\ Head(stream).value = e
           /\ k = 2 => f = "blank" /\ stream' = <<>>
           /\ Match(stream', open', PlainFrame(e), k + 1) /\ stream' \in Seq(Lines)
           /\ stream' = <<>> /\ open' => k = 2
<1>1. /\ k \in Nat /\ PlainFrame(e) \in Seq(Lines) /\ Len(PlainFrame(e)) = 3
      /\ Match(stream, open, PlainFrame(e), k)
  BY PlainLines DEF PlainEvent
<1>2. /\ Head(stream) = PlainFrame(e)[k + 1] /\ Head(stream).field = f
      /\ Match(stream', open', PlainFrame(e), k + 1) /\ stream' \in Seq(Lines)
      /\ stream' = <<>> /\ open' => k + 1 = 3
      /\ k + 1 = 3 => stream' = <<>>
  BY <1>1, TakeOf
<1>3. /\ k = 0 => Head(stream) = Line("event", "tunnel")
      /\ k = 1 => Head(stream) = Line("data", e)
      /\ k = 2 => Head(stream) = Blank
  BY <1>2, PlainLines
<1>4. /\ k = 0 => f = "event" /\ Head(stream).value = "tunnel"
      /\ k = 1 => f = "data" /\ Head(stream).value = e
      /\ k = 2 => f = "blank"
  BY <1>2, <1>3 DEF Line, Blank
<1>5. k = 2 <=> k + 1 = 3
  OBVIOUS
<1>6. QED BY <1>2, <1>4, <1>5

(* The loop goes on, or somebody outside does something.                   *)
LEMMA PlainQuiet ==
    ASSUME PInv, ControlOK', pc' \in {"check", "line"} <=> pc \in {"check", "line"},
           UNCHANGED <<lastEventID, eventCache, frame, handled, keepsEvents, published, base,
                       cursor, open, stream>>
    PROVE  PInv'
<1>1. NetOK' /\ ReadOK'
  BY TypeParts DEF PInv, NetOK, ReadOK, Frames
<1>2. TypeOK' /\ stream' \in Seq(Lines)
  BY <1>1, TypeNext DEF PInv
<1>3. Unnumbered' /\ Rising'
  BY DEF PInv, Unnumbered, Rising
<1>4. PlainReading' <=> PlainReading
  BY DEF PlainReading, PlainConnected, PlainHeartbeat, PlainEvent, Newest, ConnectedPart, PlainPart
<1>5. PlainStream' /\ Closed'
  BY <1>4 DEF PInv, PlainStream, Closed
<1>6. QED BY <1>2, <1>3, <1>5 DEF PInv

LEMMA PlainLeave ==
    ASSUME PInv, NEW l \in {"loop", "failed"}, LeaveStream(l), backoff' \in 1 .. MaxBackoff
    PROVE  PInv'
<1>1. ControlOK' /\ NetOK' /\ ReadOK'
  BY TypeParts DEF PInv, ControlOK, NetOK, ReadOK, Frames, LeaveStream, readVars, ctlVars, srvVars
<1>2. TypeOK' /\ stream' \in Seq(Lines)
  BY <1>1, TypeNext, EmptySeq DEF LeaveStream
<1>3. Unnumbered' /\ Rising'
  BY DEF PInv, Unnumbered, Rising, LeaveStream, readVars
<1>4. PlainStream' /\ Closed'
  BY DEF PlainStream, Closed, LeaveStream
<1>5. QED BY <1>2, <1>3, <1>4 DEF PInv

(* A new stream begins with the events still to be published.              *)
LEMMA PlainConnect ==
    ASSUME PInv, Connect
    PROVE  PInv'
<1>a. TypeOK /\ ControlOK /\ NetOK /\ ReadOK /\ Unnumbered /\ Rising
  BY TypeParts DEF PInv
<1>1. /\ pc' = "check" /\ connected' = TRUE /\ frame' = NoFrame /\ open' = TRUE
      /\ stream' = ConnectedFrame /\ base' = published /\ cursor' = published
      /\ UNCHANGED <<backoff, lastEventID, eventCache, handled, stop, cancelled, keepsEvents,
                     published, faults>>
  BY <1>a DEF Connect, ConnectWith, ctlVars, srvVars, Unnumbered
<1>2. /\ published \in Nat /\ cursor \in Nat /\ cursor <= published
      /\ \A i \in 1 .. Len(handled) : handled[i] \in 1 .. published
  BY <1>a, Numbers
<1>3. TypeOK'
  <2>1. ControlOK'
    BY <1>a, <1>1 DEF ControlOK
  <2>2. NetOK'
    BY <1>a, <1>1, <1>2 DEF NetOK
  <2>3. ReadOK'
    BY <1>a, <1>1, <1>2, NoFrameType DEF ReadOK, Frames
  <2>4. QED BY <2>1, <2>2, <2>3, TypeNext
<1>4. Unnumbered' /\ Rising'
  BY <1>a, <1>1, <1>2 DEF Unnumbered, Rising
<1>5. Match(stream', open', ConnectedFrame, 0) /\ stream' \in Seq(Lines) /\ stream' # <<>>
  <2>1. ConnectedFrame \in Seq(Lines)
    BY FrameLines
  <2>2. Match(ConnectedFrame, open', ConnectedFrame, 0)
    BY <2>1, MatchNew
  <2>3. ConnectedFrame # <<>>
    BY FrameLines, EmptySeq
  <2>4. QED BY <1>1, <2>1, <2>2, <2>3
<1>6. PlainConnected(0)'
  <2>1. ConnectedPart(0)'
    BY <1>1 DEF ConnectedPart
  <2>2. QED BY <1>5, <2>1 DEF PlainConnected
<1>7. PlainStream' /\ Closed'
  BY <1>1, <1>5, <1>6 DEF PlainStream, PlainReading, Closed
<1>8. QED BY <1>3, <1>4, <1>5, <1>7 DEF PInv

LEMMA PlainPublish ==
    ASSUME PInv, Publish
    PROVE  PInv'
<1>a. TypeOK /\ ControlOK /\ NetOK /\ ReadOK
  BY TypeParts DEF PInv
<1>1. /\ published < MaxEvents /\ published' = published + 1
      /\ UNCHANGED <<pc, backoff, connected, lastEventID, eventCache, frame, handled, stop,
                     cancelled, keepsEvents, base, cursor, open, stream, faults>>
  BY DEF Publish, loopVars, readVars, ctlVars, netVars
<1>2. published \in Nat /\ published' \in Nat /\ 1 .. published \subseteq 1 .. published'
  BY <1>a, <1>1, Numbers
<1>3. ControlOK' /\ NetOK'
  BY <1>a, <1>1, SubscriberAssumption DEF ControlOK, NetOK
<1>4. ReadOK'
  <2>1. frame \in Frames'
    <3>1. -1 .. published \subseteq -1 .. published' /\ 0 .. published \subseteq 0 .. published'
      BY <1>1, <1>2
    <3>2. frame \in Frames
      BY <1>a DEF ReadOK
    <3>3. QED BY <3>1, <3>2 DEF Frames
  <2>2. eventCache \in Seq(1 .. published') /\ handled \in Seq(1 .. published')
    BY <1>a, <1>2, SeqGrows DEF ReadOK
  <2>3. QED BY <1>a, <1>1, <1>2, <2>1, <2>2 DEF ReadOK
<1>5. TypeOK'
  BY <1>3, <1>4, TypeNext
<1>6. Unnumbered' /\ Rising'
  BY <1>1 DEF PInv, Unnumbered, Rising
<1>7. PlainReading => PlainReading'
  <2>1. ASSUME NEW e \in 1 .. published PROVE e \in 1 .. published'
    BY <1>2
  <2>2. QED
    BY <1>1, <2>1
       DEF PlainReading, PlainConnected, PlainHeartbeat, PlainEvent, Newest, ConnectedPart,
           PlainPart
<1>8. PlainStream' /\ Closed' /\ stream' \in Seq(Lines)
  BY <1>1, <1>7 DEF PInv, PlainStream, Closed
<1>9. QED BY <1>5, <1>6, <1>8 DEF PInv

(* What the server writes: an event or a heartbeat.                        *)
LEMMA PlainWrite ==
    ASSUME ~keepsEvents, PInv, SendEvent \/ RepeatEvent \/ SendHeartbeat
    PROVE  PInv'
<1>a. TypeOK /\ ControlOK /\ NetOK /\ ReadOK /\ Unnumbered /\ Rising
  BY TypeParts DEF PInv
<1>b. SendEvent \/ SendHeartbeat
  BY DEF RepeatEvent
<1>1. /\ open /\ stream = <<>> /\ open' = open
      /\ UNCHANGED <<pc, backoff, connected, lastEventID, eventCache, frame, handled, stop,
                     cancelled, keepsEvents, published, base, faults>>
  BY <1>b DEF SendEvent, SendHeartbeat, loopVars, readVars, ctlVars, srvVars
<1>2. pc \in {"check", "line"} /\ frame = NoFrame
  BY <1>1 DEF PInv, PlainStream, PlainReading, Closed
<1>3. /\ base \in Nat /\ cursor \in Nat /\ base <= cursor /\ cursor <= published
      /\ published \in Nat /\ \A i \in 1 .. Len(handled) : handled[i] \in Nat
  <2>1. \A i \in 1 .. Len(handled) : handled[i] \in 1 .. published
    BY <1>a, Numbers
  <2>2. QED BY <1>a, <2>1, Numbers
<1>4. cursor' \in {cursor, cursor + 1} /\ cursor' <= published
  BY <1>b, <1>3 DEF SendEvent, SendHeartbeat
<1>5. TypeOK'
  <2>1. ControlOK'
    BY <1>a, <1>1 DEF ControlOK
  <2>2. NetOK'
    BY <1>a, <1>1, <1>3, <1>4 DEF NetOK
  <2>3. ReadOK'
    BY <1>a, <1>1 DEF ReadOK, Frames
  <2>4. QED BY <2>1, <2>2, <2>3, TypeNext
<1>6. Unnumbered' /\ Rising'
  BY <1>a, <1>1, <1>3, <1>4 DEF Unnumbered, Rising
<1>7. ASSUME NEW F \in Seq(Lines), Len(F) > 0, stream' = F
      PROVE  Match(stream', open', F, 0) /\ stream' \in Seq(Lines) /\ stream' # <<>>
  BY <1>7, MatchNew, EmptySeq
<1>8. PlainReading' /\ stream' \in Seq(Lines)
  <2>1. CASE SendEvent
    <3>a. cursor + 1 \in 1 .. published
      BY <1>3, <2>1 DEF SendEvent
    <3>b. PICK e \in 1 .. published : e = cursor + 1
      BY <3>a
    <3>1. cursor' = e /\ stream' = PlainFrame(e)
      BY <2>1, <3>b DEF SendEvent, EventFrame
    <3>2. PlainFrame(e) \in Seq(Lines) /\ Len(PlainFrame(e)) > 0
      BY <1>3, PlainLines
    <3>3. Match(stream', open', PlainFrame(e), 0) /\ stream' \in Seq(Lines) /\ stream' # <<>>
      BY <1>7, <3>1, <3>2
    <3>4. Newest(e)'
      BY <1>a, <1>1, <1>3, <3>b, <3>1 DEF Newest, Rising
    <3>5. PlainEvent(e, 0)'
      <4>1. PlainPart(e, 0)'
        BY <1>1, <1>2 DEF PlainPart
      <4>2. QED BY <3>3, <3>4, <4>1 DEF PlainEvent
    <3>6. QED BY <1>1, <3>3, <3>5 DEF PlainReading
  <2>2. CASE SendHeartbeat
    <3>1. stream' = Heartbeat
      BY <2>2 DEF SendHeartbeat
    <3>2. Match(stream', open', Heartbeat, 0) /\ stream' \in Seq(Lines) /\ stream' # <<>>
      <4>1. Heartbeat \in Seq(Lines) /\ Len(Heartbeat) > 0
        BY FrameLines
      <4>2. QED BY <1>7, <3>1, <4>1
    <3>3. PlainHeartbeat(0)'
      BY <1>1, <1>2, <3>2 DEF PlainHeartbeat
    <3>4. QED BY <3>2, <3>3 DEF PlainReading
  <2>3. QED BY <1>b, <2>1, <2>2
<1>9. PlainStream' /\ Closed'
  BY <1>1, <1>2, <1>8 DEF PlainStream, Closed
<1>10. QED BY <1>5, <1>6, <1>8, <1>9 DEF PInv

LEMMA PlainBreak ==
    ASSUME PInv, Break
    PROVE  PInv'
<1>a. TypeOK /\ ControlOK /\ NetOK /\ ReadOK /\ stream \in Seq(Lines)
  BY TypeParts DEF PInv
<1>1. /\ open /\ open' = FALSE /\ faults < MaxFaults /\ faults' = faults + 1
      /\ UNCHANGED <<pc, backoff, connected, lastEventID, eventCache, frame, handled, stop,
                     cancelled, keepsEvents, published, base, cursor>>
  BY DEF Break, loopVars, readVars, ctlVars, srvVars
<1>2. PICK n \in 0 .. Len(stream) : stream' = SubSeq(stream, 1, n)
  BY DEF Break
<1>3. pc \in {"check", "line"} /\ PlainReading
  BY <1>1 DEF PInv, Closed, PlainStream
<1>4. TypeOK'
  <2>1. ControlOK'
    BY <1>a, <1>1, SubscriberAssumption DEF ControlOK
  <2>2. NetOK'
    BY <1>a, <1>1 DEF NetOK
  <2>3. ReadOK'
    BY <1>a, <1>1 DEF ReadOK, Frames
  <2>4. QED BY <2>1, <2>2, <2>3, TypeNext
<1>5. Unnumbered' /\ Rising' /\ stream' \in Seq(Lines)
  BY <1>a, <1>1, <1>2 DEF PInv, Unnumbered, Rising
<1>6. ASSUME NEW F \in Seq(Lines), NEW k \in Nat, Match(stream, open, F, k)
      PROVE  Match(stream', open', F, k)
  BY <1>a, <1>1, <1>2, <1>6, MatchBreak
<1>7. PlainReading'
  <2>1. CASE stream' = <<>>
    BY <1>1, <2>1 DEF PlainReading
  <2>2. CASE stream' # <<>>
    <3>1. stream # <<>>
      BY <1>2, <2>2
    <3>2. ASSUME NEW k \in 0 .. 2, PlainConnected(k) PROVE PlainReading'
      <4>1. Match(stream', open', ConnectedFrame, k)
        BY <1>6, <3>2, FrameLines DEF PlainConnected
      <4>2. PlainConnected(k)'
        BY <1>1, <3>2, <4>1 DEF PlainConnected, ConnectedPart
      <4>3. QED BY <2>2, <4>2 DEF PlainReading
    <3>3. ASSUME NEW k \in 0 .. 1, PlainHeartbeat(k) PROVE PlainReading'
      <4>1. Match(stream', open', Heartbeat, k)
        BY <1>6, <3>3, FrameLines DEF PlainHeartbeat
      <4>2. PlainHeartbeat(k)'
        BY <1>1, <3>3, <4>1 DEF PlainHeartbeat
      <4>3. QED BY <2>2, <4>2 DEF PlainReading
    <3>4. ASSUME NEW e \in 1 .. published, NEW k \in 0 .. 2, PlainEvent(e, k) PROVE PlainReading'
      <4>1. Match(stream', open', PlainFrame(e), k)
        BY <1>6, <3>4, PlainLines DEF PlainEvent
      <4>2. PlainEvent(e, k)'
        BY <1>1, <3>4, <4>1 DEF PlainEvent, Newest, PlainPart
      <4>3. QED BY <1>1, <2>2, <4>2 DEF PlainReading
    <3>5. QED BY <1>3, <3>1, <3>2, <3>3, <3>4 DEF PlainReading
  <2>3. QED BY <2>1, <2>2
<1>8. PlainStream' /\ Closed'
  BY <1>1, <1>3, <1>7 DEF PlainStream, Closed
<1>9. QED BY <1>4, <1>5, <1>8 DEF PInv

(* After a line: what there is to show.                                    *)
LEMMA PlainRead ==
    ASSUME PInv, NEW f, TakeLine(f), ReadOK', Unnumbered', Rising', PlainReading',
           stream' \in Seq(Lines)
    PROVE  PInv'
<1>1. ControlOK' /\ NetOK'
  <2>1. ControlOK /\ NetOK
    BY TypeParts DEF PInv
  <2>2. ControlOK'
    BY <2>1, TakeFacts DEF ControlOK
  <2>3. NetOK'
    BY <2>1, TakeFacts DEF NetOK
  <2>4. QED BY <2>2, <2>3
<1>2. PlainStream' /\ Closed'
  BY TakeFacts DEF PlainStream, Closed
<1>3. QED BY <1>1, <1>2, TypeNext DEF PInv

LEMMA PlainUnhandled ==
    ASSUME PInv, NEW f, TakeLine(f), UNCHANGED <<lastEventID, eventCache, handled>>,
           frame' \in Frames, PlainReading', stream' \in Seq(Lines)
    PROVE  PInv'
<1>1. UNCHANGED <<published, cursor>>
  BY TakeFacts
<1>2. ReadOK'
  BY <1>1, TypeParts DEF PInv, ReadOK, Frames
<1>3. Unnumbered' /\ Rising'
  BY <1>1 DEF PInv, Unnumbered, Rising
<1>4. QED BY <1>2, <1>3, PlainRead

LEMMA PlainField ==
    ASSUME PInv, ReadField
    PROVE  PInv'
<1>1. PICK f \in {"id", "event", "data"} : TakeLine(f)
  BY DEF ReadField
<1>2. /\ pc = "line" /\ stream # <<>> /\ Head(stream).field = f /\ open' = open
      /\ UNCHANGED <<keepsEvents, published, base, cursor, lastEventID, eventCache, handled>>
  BY <1>1, TakeFacts DEF ReadField
<1>3. /\ f = "id" => frame' = [frame EXCEPT !.id = Head(stream).value]
      /\ f = "event" => frame' = [frame EXCEPT !.type = Head(stream).value]
      /\ f = "data" => frame' = [frame EXCEPT !.data = Head(stream).value]
  BY <1>2 DEF ReadField, TakeLine
<1>4. stream \in Seq(Lines) /\ PlainReading /\ published \in Nat
  BY <1>2, Numbers DEF PInv, PlainStream
<1>5. ASSUME NEW k \in 0 .. 2, PlainConnected(k)
      PROVE  PlainReading' /\ frame' \in Frames /\ stream' \in Seq(Lines)
  <2>1. /\ k = 0 => f = "event" /\ Head(stream).value = "connected"
        /\ k = 1 => f = "data" /\ Head(stream).value = -1
        /\ k = 2 => f = "blank"
        /\ Match(stream', open', ConnectedFrame, k + 1) /\ stream' \in Seq(Lines)
        /\ stream' = <<>> /\ open' => k = 2
    BY <1>1, <1>4, <1>5, ConnectedLine DEF PlainConnected
  <2>2. k = 0 \/ k = 1
    BY <1>1, <2>1
  <2>a. (k = 0 => frame = Part(NoType, 0, 0)) /\ (k = 1 => frame = Part("connected", 0, 0))
    BY <1>5, NoTypeFacts DEF PlainConnected, ConnectedPart
  <2>3. k = 0 => frame' = Part("connected", 0, 0)
    BY <1>3, <2>1, <2>a, PartFacts
  <2>4. k = 1 => frame' = Part("connected", -1, 0)
    BY <1>3, <2>1, <2>a, PartFacts
  <2>5. frame' \in Frames
    <3>1. 0 \in 0 .. published /\ 0 \in -1 .. published /\ -1 \in -1 .. published
      BY <1>4
    <3>2. Part("connected", 0, 0) \in Frames /\ Part("connected", -1, 0) \in Frames
      BY <3>1, PartType
    <3>3. QED BY <2>2, <2>3, <2>4, <3>2
  <2>6. ConnectedPart(k + 1)' /\ k + 1 \in 0 .. 2
    BY <2>2, <2>3, <2>4 DEF ConnectedPart
  <2>7. PlainConnected(k + 1)'
    BY <2>1, <2>6 DEF PlainConnected
  <2>8. stream' = <<>> => ~open'
    BY <2>1, <2>2
  <2>9. QED BY <2>1, <2>5, <2>6, <2>7, <2>8 DEF PlainReading
<1>6. ASSUME NEW k \in 0 .. 1, PlainHeartbeat(k)
      PROVE  FALSE
  <2>1. (k = 0 => f = "comment") /\ (k = 1 => f = "blank")
    BY <1>1, <1>4, <1>6, HeartbeatLine DEF PlainHeartbeat
  <2>2. QED BY <1>1, <2>1
<1>7. ASSUME NEW e \in 1 .. published, NEW k \in 0 .. 2, PlainEvent(e, k)
      PROVE  PlainReading' /\ frame' \in Frames /\ stream' \in Seq(Lines)
  <2>0. e \in Nat
    BY <1>4
  <2>1. /\ k = 0 => f = "event" /\ Head(stream).value = "tunnel"
        /\ k = 1 => f = "data" /\ Head(stream).value = e
        /\ k = 2 => f = "blank"
        /\ Match(stream', open', PlainFrame(e), k + 1) /\ stream' \in Seq(Lines)
        /\ stream' = <<>> /\ open' => k = 2
    BY <1>1, <1>4, <1>7, <2>0, PlainLine
  <2>2. k = 0 \/ k = 1
    BY <1>1, <2>1
  <2>a. (k = 0 => frame = Part(NoType, 0, 0)) /\ (k = 1 => frame = Part("tunnel", 0, 0))
    BY <1>7, NoTypeFacts DEF PlainEvent, PlainPart
  <2>3. k = 0 => frame' = Part("tunnel", 0, 0)
    BY <1>3, <2>1, <2>a, PartFacts
  <2>4. k = 1 => frame' = Part("tunnel", e, 0)
    BY <1>3, <2>1, <2>a, PartFacts
  <2>5. frame' \in Frames
    <3>1. 0 \in 0 .. published /\ 0 \in -1 .. published /\ e \in -1 .. published
      BY <1>4
    <3>2. Part("tunnel", 0, 0) \in Frames /\ Part("tunnel", e, 0) \in Frames
      BY <3>1, PartType
    <3>3. QED BY <2>2, <2>3, <2>4, <3>2
  <2>6. PlainPart(e, k + 1)' /\ k + 1 \in 0 .. 2
    <3>1. CASE k = 0
      BY <2>3, <3>1 DEF PlainPart
    <3>2. CASE k = 1
      BY <2>4, <3>2 DEF PlainPart
    <3>3. QED BY <2>2, <3>1, <3>2
  <2>7. PlainEvent(e, k + 1)' /\ e \in 1 .. published'
    BY <1>2, <1>7, <2>1, <2>6 DEF PlainEvent, Newest
  <2>8. stream' = <<>> => ~open'
    BY <2>1, <2>2
  <2>9. QED BY <2>1, <2>5, <2>6, <2>7, <2>8 DEF PlainReading
<1>8. PlainReading' /\ frame' \in Frames /\ stream' \in Seq(Lines)
  BY <1>2, <1>4, <1>5, <1>6, <1>7 DEF PlainReading
<1>9. QED BY <1>1, <1>2, <1>8, PlainUnhandled

LEMMA PlainBlank ==
    ASSUME PInv, TakeLine("blank")
    PROVE  /\ stream' = <<>>
           /\ \/ frame = NoFrame
              \/ frame = Part("connected", -1, 0)
              \/ \E e \in 1 .. published : frame = Part("tunnel", e, 0) /\ Newest(e)
<1>1. stream \in Seq(Lines) /\ PlainReading /\ stream # <<>> /\ published \in Nat
  BY TakeFacts, Numbers DEF PInv, PlainStream
<1>2. ASSUME NEW k \in 0 .. 2, PlainConnected(k)
      PROVE  stream' = <<>> /\ frame = Part("connected", -1, 0)
  <2>1. k = 2 /\ stream' = <<>>
    BY <1>1, <1>2, ConnectedLine DEF PlainConnected
  <2>2. QED BY <1>2, <2>1 DEF PlainConnected, ConnectedPart
<1>3. ASSUME NEW k \in 0 .. 1, PlainHeartbeat(k)
      PROVE  stream' = <<>> /\ frame = NoFrame
  <2>1. k = 1 /\ stream' = <<>>
    BY <1>1, <1>3, HeartbeatLine DEF PlainHeartbeat
  <2>2. QED BY <1>3, <2>1 DEF PlainHeartbeat
<1>4. ASSUME NEW e \in 1 .. published, NEW k \in 0 .. 2, PlainEvent(e, k)
      PROVE  stream' = <<>> /\ frame = Part("tunnel", e, 0) /\ Newest(e)
  <2>0. e \in Nat
    BY <1>1
  <2>1. k = 2 /\ stream' = <<>>
    BY <1>1, <1>4, <2>0, PlainLine
  <2>2. QED BY <1>4, <2>1 DEF PlainEvent, PlainPart
<1>5. QED BY <1>1, <1>2, <1>3, <1>4 DEF PlainReading

LEMMA PlainSkip ==
    ASSUME PInv, SkipLine
    PROVE  PInv'
<1>1. /\ UNCHANGED <<lastEventID, eventCache, handled, frame>>
      /\ stream \in Seq(Lines) /\ published \in Nat /\ frame \in Frames
  BY Numbers, TypeParts DEF SkipLine, readVars, PInv, ReadOK
<1>2. CASE TakeLine("comment")
  <2>1. PlainReading /\ stream # <<>>
    BY <1>2, TakeFacts DEF PInv, PlainStream
  <2>2. ~\E k \in 0 .. 2 : PlainConnected(k)
    BY <1>1, <1>2, ConnectedLine DEF PlainConnected
  <2>3. ~\E e \in 1 .. published, k \in 0 .. 2 : PlainEvent(e, k)
    <3>1. SUFFICES ASSUME NEW e \in 1 .. published, NEW k \in 0 .. 2, PlainEvent(e, k) PROVE FALSE
      OBVIOUS
    <3>2. e \in Nat
      BY <1>1
    <3>3. QED BY <1>1, <1>2, <3>1, <3>2, PlainLine
  <2>4. PICK k \in 0 .. 1 : PlainHeartbeat(k)
    BY <2>1, <2>2, <2>3 DEF PlainReading
  <2>5. k = 0 /\ Match(stream', open', Heartbeat, k + 1) /\ stream' \in Seq(Lines)
    BY <1>1, <1>2, <2>4, HeartbeatLine DEF PlainHeartbeat
  <2>6. PlainHeartbeat(1)'
    BY <1>1, <2>4, <2>5 DEF PlainHeartbeat
  <2>7. PlainReading'
    BY <1>1, <2>4, <2>6 DEF PlainReading, PlainHeartbeat
  <2>8. QED BY <1>1, <1>2, <2>5, <2>7, PlainUnhandled
<1>3. CASE TakeLine("blank") /\ (frame.type = NoType \/ frame.data = 0)
  <2>1. \A e \in 1 .. published : frame # Part("tunnel", e, 0)
    <3>1. ASSUME NEW e \in 1 .. published, frame = Part("tunnel", e, 0) PROVE FALSE
      <4>1. frame.type = "tunnel" /\ frame.data = e
        BY <3>1, PartFacts
      <4>2. QED BY <1>1, <1>3, <4>1, NoTypeFacts
    <3>2. QED BY <3>1
  <2>2. frame # Part("connected", -1, 0)
    <3>1. Part("connected", -1, 0).type = "connected" /\ Part("connected", -1, 0).data = -1
      BY PartFacts
    <3>2. QED BY <1>3, <3>1, NoTypeFacts
  <2>3. stream' = <<>> /\ frame' = NoFrame
    BY <1>1, <1>3, <2>1, <2>2, PlainBlank
  <2>4. PlainReading' /\ stream' \in Seq(Lines)
    BY <2>3, EmptySeq DEF PlainReading
  <2>5. QED BY <1>1, <1>3, <2>4, PlainUnhandled
<1>4. QED BY <1>2, <1>3 DEF SkipLine, NoType

(* No frame has an ID.                                                     *)
LEMMA PlainNoID ==
    ASSUME PInv, TakeLine("blank")
    PROVE  frame.id = 0
<1>1. NoFrame.id = 0
  BY NoTypeFacts, PartFacts
<1>2. Part("connected", -1, 0).id = 0
  BY PartFacts
<1>3. \A e \in 1 .. published : Part("tunnel", e, 0).id = 0
  BY PartFacts
<1>4. QED BY <1>1, <1>2, <1>3, PlainBlank

(* What a complete frame does: nothing, or the newest event is handled.    *)
LEMMA PlainCases ==
    ASSUME PInv, HandleEvent
    PROVE  /\ UNCHANGED <<lastEventID, eventCache>> /\ frame' = NoFrame /\ stream' = <<>>
           /\ \/ UNCHANGED handled
              \/ \E e \in 1 .. published : handled' = Append(handled, e) /\ Newest(e)
<1>1. TakeLine("blank") /\ frame' = NoFrame /\ frame.type # NoType
  BY DEF HandleEvent, NoType
<1>2. UNCHANGED <<lastEventID, eventCache>> /\ stream' = <<>>
  BY <1>1, PlainNoID, PlainBlank DEF HandleEvent
<1>3. frame # NoFrame
  <2>1. NoFrame.type = NoType
    BY NoTypeFacts, PartFacts
  <2>2. QED BY <1>1, <2>1
<1>4. CASE frame = Part("connected", -1, 0)
  <2>1. frame.type = "connected"
    BY <1>4, PartFacts
  <2>2. handled' = handled
    BY <2>1 DEF HandleEvent
  <2>3. QED BY <1>1, <1>2, <2>2
<1>5. ASSUME NEW e \in 1 .. published, frame = Part("tunnel", e, 0), Newest(e)
      PROVE  handled' = Append(handled, e)
  <2>1. frame.type = "tunnel" /\ frame.data = e
    BY <1>5, PartFacts
  <2>2. QED BY <2>1 DEF HandleEvent
<1>6. QED BY <1>1, <1>2, <1>3, <1>4, <1>5, PlainBlank

LEMMA PlainHandle ==
    ASSUME PInv, HandleEvent
    PROVE  PInv'
<1>1. /\ TakeLine("blank") /\ frame' = NoFrame /\ stream' = <<>>
      /\ UNCHANGED <<lastEventID, eventCache>>
  BY PlainCases DEF HandleEvent
<1>2. /\ published \in Nat /\ cursor \in Nat /\ UNCHANGED <<published, cursor>>
      /\ Len(handled) \in Nat /\ handled \in Seq(1 .. published)
  BY <1>1, Numbers, TakeFacts DEF PInv
<1>3. PlainReading' /\ stream' \in Seq(Lines) /\ frame' \in Frames
  BY <1>1, <1>2, NoFrameType, EmptySeq DEF PlainReading
<1>4. CASE UNCHANGED handled
  BY <1>1, <1>3, <1>4, PlainUnhandled
<1>5. ASSUME NEW e \in 1 .. published, handled' = Append(handled, e), Newest(e)
      PROVE  PInv'
  <2>1. /\ handled' \in Seq(1 .. published) /\ Len(handled') = Len(handled) + 1
        /\ \A i \in 1 .. Len(handled) : handled'[i] = handled[i]
        /\ handled'[Len(handled) + 1] = e
    BY <1>2, <1>5, AppendProperties
  <2>2. e = cursor /\ \A i \in 1 .. Len(handled) : handled'[i] < e /\ handled'[i] <= cursor
    BY <1>5, <2>1 DEF Newest, Rising, PInv
  <2>3. Unnumbered'
    BY <1>1 DEF PInv, Unnumbered
  <2>4. Rising'
    <3>1. \A i, j \in 1 .. Len(handled) : i < j => handled'[i] < handled'[j]
      BY <2>1 DEF PInv, Rising
    <3>2. \A i \in 1 .. Len(handled') : i \in 1 .. Len(handled) \/ i = Len(handled) + 1
      BY <1>2, <2>1
    <3>3. ASSUME NEW i \in 1 .. Len(handled'), NEW j \in 1 .. Len(handled'), i < j
          PROVE  handled'[i] < handled'[j]
      <4>1. i \in 1 .. Len(handled)
        BY <1>2, <2>1, <3>3
      <4>2. CASE j \in 1 .. Len(handled)
        BY <3>1, <3>3, <4>1, <4>2
      <4>3. CASE j = Len(handled) + 1
        BY <2>1, <2>2, <4>1, <4>3
      <4>4. QED BY <3>2, <4>2, <4>3
    <3>4. \A i \in 1 .. Len(handled') : handled'[i] <= cursor'
      BY <1>2, <2>1, <2>2, <3>2
    <3>5. QED BY <3>3, <3>4 DEF Rising
  <2>5. ReadOK'
    <3>1. ReadOK
      BY TypeParts DEF PInv
    <3>2. QED BY <1>1, <1>2, <1>3, <2>1, <3>1 DEF ReadOK, Frames
  <2>6. QED BY <1>1, <1>3, <2>3, <2>4, <2>5, PlainRead
<1>6. QED BY <1>4, <1>5, PlainCases

LEMMA NextPInv == ~keepsEvents /\ PInv /\ [Next]_vars => PInv'
<1> SUFFICES ASSUME ~keepsEvents, PInv, [Next]_vars PROVE PInv'
  OBVIOUS
<1>a. ControlOK /\ MaxBackoff \in Nat /\ MaxBackoff >= 1 /\ MaxFaults \in Nat
  BY TypeParts, SubscriberAssumption DEF PInv
<1>1. CASE Start \/ LoopTop \/ MarkDisconnected \/ BackoffStopped
  <2>1. /\ pc' \in {"loop", "request", "backoff", "done"} /\ connected' \in {connected, FALSE}
        /\ pc \in {"off", "loop", "failed", "backoff"}
        /\ UNCHANGED <<backoff, stop, cancelled, faults, lastEventID, eventCache, frame, handled,
                       keepsEvents, published, base, cursor, open, stream>>
    BY <1>1
    DEF Start, LoopTop, MarkDisconnected, BackoffStopped, readVars, ctlVars, srvVars, netVars
  <2>2. ControlOK'
    BY <1>a, <2>1 DEF ControlOK
  <2>3. QED BY <2>1, <2>2, PlainQuiet
<1>2. CASE ConnectFails
  <2>1. /\ pc' = "failed" /\ pc = "request" /\ faults' \in 0 .. MaxFaults
        /\ UNCHANGED <<backoff, stop, cancelled, connected, lastEventID, eventCache, frame,
                       handled, keepsEvents, published, base, cursor, open, stream>>
    BY <1>a, <1>2 DEF ConnectFails, ControlOK, readVars, ctlVars, srvVars, netVars
  <2>2. ControlOK'
    BY <1>a, <2>1 DEF ControlOK
  <2>3. QED BY <2>1, <2>2, PlainQuiet
<1>3. CASE CheckPasses
  <2>1. /\ pc' = "line" /\ pc = "check"
        /\ UNCHANGED <<backoff, stop, cancelled, connected, faults, lastEventID, eventCache,
                       frame, handled, keepsEvents, published, base, cursor, open, stream>>
    BY <1>3 DEF CheckPasses, readVars, ctlVars, srvVars, netVars
  <2>2. ControlOK'
    BY <1>a, <2>1 DEF ControlOK
  <2>3. QED BY <2>1, <2>2, PlainQuiet
<1>4. CASE BackoffEnds
  <2>1. /\ pc' = "loop" /\ pc = "backoff" /\ backoff' = NextBackoff
        /\ UNCHANGED <<stop, cancelled, connected, faults, lastEventID, eventCache,
                       frame, handled, keepsEvents, published, base, cursor, open, stream>>
    BY <1>4 DEF BackoffEnds, readVars, ctlVars, srvVars, netVars
  <2>2. NextBackoff \in 1 .. MaxBackoff
    BY <1>a DEF NextBackoff, ControlOK
  <2>3. ControlOK'
    BY <1>a, <2>1, <2>2 DEF ControlOK
  <2>4. QED BY <2>1, <2>3, PlainQuiet
<1>5. CASE Stop \/ StopReturn \/ Cancel \/ UNCHANGED vars
  <2>1. /\ stop' \in {stop, "waiting", "returned"} /\ cancelled' \in {cancelled, TRUE}
        /\ UNCHANGED <<pc, backoff, connected, faults, lastEventID, eventCache,
                       frame, handled, keepsEvents, published, base, cursor, open, stream>>
    BY <1>5 DEF Stop, StopReturn, Cancel, vars, loopVars, readVars, ctlVars, srvVars, netVars
  <2>2. ControlOK'
    BY <1>a, <2>1 DEF ControlOK
  <2>3. QED BY <2>1, <2>2, PlainQuiet
<1>6. CASE CheckStop \/ CheckCancelled \/ ReadFails
  <2>1. backoff \in 1 .. MaxBackoff /\ 1 \in 1 .. MaxBackoff
    BY <1>a DEF ControlOK
  <2>2. CASE CheckStop
    BY <2>1, <2>2, PlainLeave DEF CheckStop
  <2>3. CASE CheckCancelled
    BY <2>1, <2>3, PlainLeave DEF CheckCancelled
  <2>4. CASE ReadFails
    BY <2>1, <2>4, PlainLeave DEF ReadFails
  <2>5. QED BY <1>6, <2>2, <2>3, <2>4
<1>7. CASE SkipDuplicate
  <2>1. TakeLine("blank") /\ frame.id # 0
    BY <1>7 DEF SkipDuplicate
  <2>2. QED BY <2>1, PlainNoID
<1>8. CASE Connect \/ ReadField \/ SkipLine \/ HandleEvent
  BY <1>8, PlainConnect, PlainField, PlainSkip, PlainHandle
<1>9. CASE Publish \/ SendEvent \/ RepeatEvent \/ SendHeartbeat \/ Break
  BY <1>9, PlainPublish, PlainWrite, PlainBreak
<1>10. QED BY <1>1, <1>2, <1>3, <1>4, <1>5, <1>6, <1>7, <1>8, <1>9 DEF Next

-----------------------------------------------------------------------------
(* The server stays what it is.                                            *)
LEMMA SameServer == [Next]_vars => UNCHANGED keepsEvents
<1> SUFFICES ASSUME [Next]_vars PROVE UNCHANGED keepsEvents
  OBVIOUS
<1>1. CASE Start \/ LoopTop \/ Connect \/ ConnectFails \/ MarkDisconnected \/ BackoffEnds \/ BackoffStopped
  BY <1>1
  DEF Start, LoopTop, Connect, ConnectWith, ConnectFails, MarkDisconnected, BackoffEnds,
      BackoffStopped, srvVars
<1>2. CASE CheckStop \/ CheckCancelled \/ CheckPasses \/ ReadFails
  BY <1>2 DEF CheckStop, CheckCancelled, CheckPasses, ReadFails, LeaveStream, srvVars
<1>3. CASE ReadField \/ SkipLine \/ SkipDuplicate \/ HandleEvent
  BY <1>3 DEF ReadField, SkipLine, SkipDuplicate, HandleEvent, TakeLine, srvVars
<1>4. CASE Stop \/ StopReturn \/ Cancel \/ Publish
  BY <1>4 DEF Stop, StopReturn, Cancel, Publish, srvVars
<1>5. CASE SendEvent \/ RepeatEvent \/ SendHeartbeat \/ Break
  BY <1>5 DEF SendEvent, RepeatEvent, SendHeartbeat, Break, srvVars
<1>6. CASE UNCHANGED vars
  BY <1>6 DEF vars, srvVars
<1>7. QED BY <1>1, <1>2, <1>3, <1>4, <1>5, <1>6 DEF Next

(* The invariant of either server.                                         *)
Inv == (keepsEvents => IInv) /\ (~keepsEvents => PInv)

(* The subscriber and its stream keep the inductive invariant.             *)
THEOREM StreamInvariant == Spec => []Inv
<1>1. Init => Inv
  <2>1. Init => Unnumbered /\ Rising /\ PlainStream
    BY EmptySeq DEF Init, Unnumbered, Rising, PlainStream
  <2>2. QED BY <2>1, InitIInv DEF Inv, IInv, PInv
<1>2. Inv /\ [Next]_vars => Inv'
  BY NextIInv, NextPInv, SameServer DEF Inv
<1>3. QED BY <1>1, <1>2, PTL DEF Spec

(* subscribeLoop and readEventStream keep their types; the cache keeps its *)
(* bound and the wait between two attempts its limits.                     *)
THEOREM SubscriberTypeCorrect == Spec => []TypeOK
<1>1. Inv => TypeOK
  BY DEF Inv, IInv, PInv
<1>2. QED BY <1>1, StreamInvariant, PTL

(* No event is handled twice by readEventStream, however often the streams *)
(* break and whatever the server repeats of its window.                    *)
THEOREM EventsHandledOnce == Spec => []HandledOnce
<1>1. IInv => HandledOnce
  <2> SUFFICES ASSUME IInv, NEW i \in 1 .. Len(handled), NEW j \in 1 .. Len(handled), i # j
               PROVE  handled[i] # handled[j]
    BY DEF HandledOnce
  <2>1. lastEventID \in Nat /\ Len(handled) \in Nat
    BY Numbers DEF IInv
  <2>2. /\ handled[i] = lastEventID - Len(handled) + i
        /\ handled[j] = lastEventID - Len(handled) + j
    BY DEF IInv, Interval
  <2>3. QED BY <2>1, <2>2
<1>2. PInv => HandledOnce
  <2> SUFFICES ASSUME PInv, NEW i \in 1 .. Len(handled), NEW j \in 1 .. Len(handled), i # j
               PROVE  handled[i] # handled[j]
    BY DEF HandledOnce
  <2>1. /\ Len(handled) \in Nat /\ published \in Nat
        /\ handled[i] \in 1 .. published /\ handled[j] \in 1 .. published
    BY Numbers DEF PInv
  <2>2. i < j \/ j < i
    BY <2>1
  <2>3. handled[i] < handled[j] \/ handled[j] < handled[i]
    BY <2>2 DEF PInv, Rising
  <2>4. QED BY <2>1, <2>3
<1>3. QED BY <1>1, <1>2, StreamInvariant, PTL DEF Inv

(* If the server keeps its events, readEventStream skips none from the     *)
(* first on, and the ID that connectAndListen asks for is that of the      *)
(* event handled last.                                                     *)
THEOREM EventsWithoutGap == Spec => []NoGap
<1>1. Inv => NoGap
  <2> SUFFICES ASSUME IInv, keepsEvents PROVE NoGap
    BY DEF Inv, NoGap
  <2>1. lastEventID \in Nat /\ Len(handled) \in Nat /\ handled \in Seq(1 .. published)
    BY Numbers DEF IInv
  <2>2. \A i \in 1 .. Len(handled) : handled[i] = lastEventID - Len(handled) + i
    BY DEF IInv, Interval
  <2>3. ASSUME NEW i \in 1 .. Len(handled) - 1 PROVE handled[i + 1] <= handled[i] + 1
    <3>1. i \in 1 .. Len(handled) /\ i + 1 \in 1 .. Len(handled)
      BY <2>1
    <3>2. QED BY <2>1, <2>2, <3>1
  <2>4. ASSUME handled # <<>> PROVE lastEventID = handled[Len(handled)]
    <3>1. Len(handled) \in 1 .. Len(handled)
      BY <2>1, <2>4, EmptySeq
    <3>2. QED BY <2>1, <2>2, <3>1
  <2>5. QED BY <2>3, <2>4 DEF NoGap
<1>2. QED BY <1>1, StreamInvariant, PTL

(* To the log, a complete frame is nothing or the next event, or one that  *)
(* is newer than all before.                                               *)
LEMMA HandleReads ==
    ASSUME Inv, HandleEvent
    PROVE  \/ UNCHANGED <<keepsEvents, published, handled, Position>>
           \/ \E e \in 1 .. published : Log!Handle(e)
<1>a. TypeOK
  BY DEF Inv, IInv, PInv
<1>1. /\ cursor \in Nat /\ base \in Nat /\ lastEventID \in Nat /\ published \in Nat
      /\ Len(handled) \in Nat /\ handled \in Seq(1 .. published)
      /\ UNCHANGED <<keepsEvents, published>>
  BY <1>a, Numbers, TakeFacts DEF HandleEvent
<1>2. CASE keepsEvents
  <2>a. IInv /\ Position = lastEventID /\ Position' = lastEventID'
    BY <1>1, <1>2 DEF Inv, Position
  <2>1. CASE frame = Part("connected", -1, 0)
    <3>1. frame.id = 0 /\ frame.type = "connected"
      BY <2>1, PartFacts
    <3>2. QED BY <1>1, <2>a, <3>1 DEF HandleEvent
  <2>2. ASSUME NEW e \in 1 .. published, frame = Part("tunnel", e, e), Fresh(e)
        PROVE  Log!Handle(e)
    <3>1. frame.type = "tunnel" /\ frame.data = e /\ frame.id = e /\ e # 0
      BY <2>2, PartFacts
    <3>2. lastEventID' = e /\ handled' = Append(handled, e)
      BY <3>1 DEF HandleEvent
    <3>3. (lastEventID # 0 => e = lastEventID + 1) /\ e > lastEventID
      BY <1>1, <2>2 DEF Fresh
    <3>4. QED BY <1>1, <2>a, <3>2, <3>3 DEF Log!Handle
  <2>3. QED BY <2>a, <2>1, <2>2, HandleCases
<1>3. CASE ~keepsEvents
  <2>a. PInv
    BY <1>3 DEF Inv
  <2>b. /\ Position = IF handled = <<>> THEN 0 ELSE handled[Len(handled)]
        /\ Position' = IF handled' = <<>> THEN 0 ELSE handled'[Len(handled')]
    BY <1>1, <1>3 DEF Position
  <2>1. CASE UNCHANGED handled
    BY <1>1, <2>b, <2>1
  <2>2. ASSUME NEW e \in 1 .. published, handled' = Append(handled, e), Newest(e)
        PROVE  Log!Handle(e)
    <3>1. Len(handled') = Len(handled) + 1 /\ handled'[Len(handled) + 1] = e /\ handled' # <<>>
      BY <1>1, <2>2, AppendProperties
    <3>2. Position' = e
      BY <2>b, <3>1
    <3>3. e > Position
      <4>1. CASE handled = <<>>
        BY <1>1, <2>b, <4>1
      <4>2. CASE handled # <<>>
        <5>1. Len(handled) \in 1 .. Len(handled)
          BY <1>1, <4>2, EmptySeq
        <5>2. handled[Len(handled)] < e /\ Position = handled[Len(handled)]
          BY <2>b, <2>2, <4>2, <5>1 DEF Newest
        <5>3. QED BY <5>2
      <4>3. QED BY <4>1, <4>2
    <3>4. QED BY <1>1, <1>3, <2>2, <3>2, <3>3 DEF Log!Handle
  <2>3. QED BY <2>a, <2>1, <2>2, PlainCases
<1>4. QED BY <1>2, <1>3

(* The subscriber is a reader of the event log: wherever streams break and *)
(* whatever the server repeats, it goes forward only; and if the server    *)
(* keeps its events, it goes on with the one after the one it handled      *)
(* last, and the ID it asks for moves with what it has handled.            *)
THEOREM Refinement == Spec => ReaderSpec
<1> DEFINE reader == <<keepsEvents, published, handled, Position>>
<1>1. Init => Log!Init
  BY DEF Init, Log!Init, Position
<1>2. Inv /\ [Next]_vars => Log!Next \/ UNCHANGED reader
  <2> SUFFICES ASSUME Inv, [Next]_vars
               PROVE  Log!Next \/ UNCHANGED reader
    OBVIOUS
  <2>a. UNCHANGED <<published, handled, lastEventID>> => UNCHANGED reader
    BY SameServer DEF Position
  <2>1. CASE HandleEvent
    BY <2>1, HandleReads DEF Log!Next
  <2>2. CASE Publish
    <3>1. published' = published + 1 /\ UNCHANGED <<keepsEvents, handled, lastEventID>>
      BY <2>2 DEF Publish, readVars
    <3>2. UNCHANGED Position
      BY <3>1 DEF Position
    <3>3. QED BY <3>1, <3>2 DEF Log!Next, Log!Publish
  <2>3. CASE Start \/ LoopTop \/ Connect \/ ConnectFails \/ MarkDisconnected
    BY <2>a, <2>3
    DEF Start, LoopTop, Connect, ConnectWith, ConnectFails, MarkDisconnected, readVars, srvVars
  <2>4. CASE CheckStop \/ CheckCancelled \/ CheckPasses \/ ReadFails
    BY <2>a, <2>4
    DEF CheckStop, CheckCancelled, CheckPasses, ReadFails, LeaveStream, readVars, srvVars
  <2>5. CASE ReadField \/ SkipLine \/ SkipDuplicate
    BY <2>a, <2>5 DEF ReadField, SkipLine, SkipDuplicate, TakeLine, readVars, srvVars
  <2>6. CASE BackoffEnds \/ BackoffStopped \/ Stop \/ StopReturn \/ Cancel
    BY <2>a, <2>6 DEF BackoffEnds, BackoffStopped, Stop, StopReturn, Cancel, readVars, srvVars
  <2>7. CASE SendEvent \/ RepeatEvent \/ SendHeartbeat \/ Break
    BY <2>a, <2>7 DEF SendEvent, RepeatEvent, SendHeartbeat, Break, readVars, srvVars
  <2>8. CASE UNCHANGED vars
    BY <2>a, <2>8 DEF vars, readVars, srvVars
  <2>9. QED BY <2>1, <2>2, <2>3, <2>4, <2>5, <2>6, <2>7, <2>8 DEF Next
<1>3. QED BY <1>1, <1>2, StreamInvariant, PTL DEF Spec, ReaderSpec, Log!Spec, Log!vars
=============================================================================

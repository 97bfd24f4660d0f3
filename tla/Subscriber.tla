----------------------------- MODULE Subscriber -----------------------------
(***************************************************************************)
(* The agent's event subscriber: tunnel/subscriber.go.                     *)
(*                                                                         *)
(* One goroutine (subscribeLoop) connects to the controller, reads the     *)
(* lines of an SSE stream, puts frames together, hands tunnel events to a  *)
(* callback and, when the stream breaks, waits and connects again.  Stop   *)
(* and the context come from outside.                                      *)
(*                                                                         *)
(* There are two servers.  The notifier of this repository begins every    *)
(* stream with a "connected" frame, then writes the events published while *)
(* the stream is there, without an ID; it keeps none of them and does not  *)
(* look at Last-Event-ID.  A server with an EventStore (tunnel/events.go   *)
(* has the interface only; keepsEvents) also numbers the events, resumes   *)
(* after the Last-Event-ID it is given, and may repeat one of the last     *)
(* events, as it joins its history with what is published meanwhile.       *)
(* That the notifier itself may drop an event is the subject of Notifier.  *)
(*                                                                         *)
(* Abstracted: a line is a field and its value, the data of an event is    *)
(* its number, and the result of the callback, which is only logged, is    *)
(* left out.                                                               *)
(***************************************************************************)
EXTENDS Integers, Sequences

CONSTANTS
    MaxEvents,   \* bound: events the server publishes
    MaxFaults,   \* bound: refused connections and broken streams
    Window,      \* a server with an EventStore repeats only one of the last so many events
    CacheSize,   \* size of eventCache (100)
    MaxBackoff   \* maxBackoff, in seconds (60)

(* The cache must hold what the server may repeat.  Get makes a repeated   *)
(* event the newest of the cache, so between two uses of one event there   *)
(* may be uses of Window - 1 older and Window - 1 newer ones.              *)
ASSUME SubscriberAssumption ==
    /\ MaxEvents \in Nat /\ MaxFaults \in Nat /\ Window \in Nat
    /\ CacheSize \in Nat \ {0} /\ MaxBackoff \in Nat \ {0}
    /\ 2 * Window - 1 <= CacheSize

VARIABLES
    pc,           \* where subscribeLoop stands
    connected,    \* s.connected
    lastEventID,  \* s.lastEventID, 0 for ""
    eventCache,   \* s.eventCache, least recently used first
    frame,        \* eventType, eventData, eventID of readEventStream
    backoff,
    handled,      \* events given to handleEvent's tunnel case, in order
    stop,         \* where Stop stands; from "waiting" on stopChan is closed
    cancelled,    \* the context is done
    keepsEvents,  \* the server has an EventStore
    published,    \* newest event of the server
    base, cursor, \* the server wrote events base + 1 .. cursor to this stream
    open,         \* the server holds the stream open
    stream,       \* lines on their way
    faults        \* faults so far

loopVars == <<pc, backoff>>
readVars == <<lastEventID, eventCache, frame, handled>>
ctlVars == <<stop, cancelled>>
netVars == <<base, cursor, open, stream>>
srvVars == <<keepsEvents, published>>
vars == <<loopVars, connected, readVars, ctlVars, srvVars, netVars, faults>>

stopChan == stop # "idle"

NoFrame == [type |-> "", data |-> 0, id |-> 0]

Line(field, value) == [field |-> field, value |-> value]
Blank == Line("blank", 0)

ConnectedFrame == <<Line("event", "connected"), Line("data", -1), Blank>>
PlainFrame(e) == <<Line("event", "tunnel"), Line("data", e), Blank>>
NumberedFrame(e) == <<Line("id", e), Line("event", "tunnel"), Line("data", e), Blank>>
EventFrame(e) == IF keepsEvents THEN NumberedFrame(e) ELSE PlainFrame(e)
Heartbeat == <<Line("comment", 0), Blank>>

Init ==
    /\ pc = "off" /\ backoff = 1 /\ connected = FALSE
    /\ lastEventID = 0 /\ eventCache = <<>> /\ frame = NoFrame /\ handled = <<>>
    /\ stop = "idle" /\ cancelled = FALSE
    /\ keepsEvents \in BOOLEAN /\ published = 0
    /\ base = 0 /\ cursor = 0 /\ open = FALSE /\ stream = <<>> /\ faults = 0

-----------------------------------------------------------------------------
Start ==
    /\ pc = "off"
    /\ pc' = "loop"
    /\ UNCHANGED <<backoff, connected, readVars, ctlVars, srvVars, netVars, faults>>

(* The select at the top of subscribeLoop.  Variant: it looks only at the  *)
(* context.                                                                *)
LoopTopContextOnly ==
    /\ pc = "loop"
    /\ pc' = IF cancelled THEN "done" ELSE "request"
    /\ UNCHANGED <<backoff, connected, readVars, ctlVars, srvVars, netVars, faults>>

LoopTop ==
    /\ pc = "loop"
    /\ pc' = IF cancelled \/ stopChan THEN "done" ELSE "request"
    /\ UNCHANGED <<backoff, connected, readVars, ctlVars, srvVars, netVars, faults>>

(* connectAndListen: the server accepts the request, which names           *)
(* lastEventID if there is one (never, with the notifier), and             *)
(* readEventStream begins.  Variant: the variables of a frame outlive      *)
(* their stream.                                                           *)
ConnectWith(newFrame) ==
    /\ pc = "request"
    /\ pc' = "check"
    /\ connected' = TRUE
    /\ frame' = newFrame
    /\ open' = TRUE
    /\ stream' = ConnectedFrame
    /\ base' = IF lastEventID = 0 THEN published ELSE lastEventID
    /\ cursor' = base'
    /\ UNCHANGED <<backoff, lastEventID, eventCache, handled, ctlVars, srvVars, faults>>

ConnectKeepingFrame == ConnectWith(frame)

Connect == ConnectWith(NoFrame)

(* The request fails or is answered with another status; the context ends  *)
(* it as well.                                                             *)
ConnectFails ==
    /\ pc = "request"
    /\ \/ cancelled /\ UNCHANGED faults
       \/ faults < MaxFaults /\ faults' = faults + 1
    /\ pc' = "failed"
    /\ UNCHANGED <<backoff, connected, readVars, ctlVars, srvVars, netVars>>

(* readEventStream returns and the response body is closed.                *)
LeaveStream(next) ==
    /\ pc' = next
    /\ open' = FALSE
    /\ stream' = <<>>
    /\ UNCHANGED <<base, cursor, connected, readVars, ctlVars, srvVars, faults>>

(* The select before each line.  A stop is no error: subscribeLoop resets  *)
(* its backoff and looks at the channels again.                            *)
CheckStop ==
    /\ pc = "check"
    /\ stopChan
    /\ backoff' = 1
    /\ LeaveStream("loop")

CheckCancelled ==
    /\ pc = "check"
    /\ cancelled
    /\ LeaveStream("failed")
    /\ UNCHANGED backoff

CheckPasses ==
    /\ pc = "check"
    /\ ~stopChan /\ ~cancelled
    /\ pc' = "line"
    /\ UNCHANGED <<backoff, connected, readVars, ctlVars, srvVars, netVars, faults>>

(* ReadString returns an error: the stream ended or the context did.       *)
ReadFails ==
    /\ pc = "line"
    /\ cancelled \/ (~open /\ stream = <<>>)
    /\ LeaveStream("failed")
    /\ UNCHANGED backoff

(* The next line is there and readEventStream takes it.                    *)
TakeLine(field) ==
    /\ pc = "line"
    /\ stream # <<>>
    /\ Head(stream).field = field
    /\ stream' = Tail(stream)
    /\ pc' = "check"
    /\ UNCHANGED <<backoff, connected, ctlVars, srvVars, base, cursor, open, faults>>

(* A field of the frame.                                                   *)
ReadField ==
    /\ \/ /\ TakeLine("id")
          /\ frame' = [frame EXCEPT !.id = Head(stream).value]
       \/ /\ TakeLine("event")
          /\ frame' = [frame EXCEPT !.type = Head(stream).value]
       \/ /\ TakeLine("data")
          /\ frame' = [frame EXCEPT !.data = Head(stream).value]
    /\ UNCHANGED <<lastEventID, eventCache, handled>>

(* Any other line is skipped, and so is the end of an incomplete frame.    *)
SkipLine ==
    /\ \/ TakeLine("comment")
       \/ TakeLine("blank") /\ (frame.type = "" \/ frame.data = 0)
    /\ UNCHANGED readVars

(* The LRU cache: Get makes an entry the newest, Add evicts the oldest.    *)
(* Variant: one entry too few.                                             *)
Cached(e) == \E i \in 1 .. Len(eventCache) : eventCache[i] = e
Without(s, i) == SubSeq(s, 1, i - 1) \o SubSeq(s, i + 1, Len(s))

AddToSmaller(e) ==
    LET all == Append(eventCache, e)
    IN  IF Len(all) > CacheSize - 1 THEN Tail(all) ELSE all

Add(e) ==
    LET all == Append(eventCache, e)
    IN  IF Len(all) > CacheSize THEN Tail(all) ELSE all

(* A complete frame with a known ID is dropped.                            *)
SkipDuplicate ==
    /\ TakeLine("blank")
    /\ frame.type # "" /\ frame.data # 0
    /\ frame.id # 0
    /\ \E i \in 1 .. Len(eventCache) :
          eventCache[i] = frame.id /\ eventCache' = Append(Without(eventCache, i), frame.id)
    /\ frame' = NoFrame
    /\ UNCHANGED <<lastEventID, handled>>

(* Any other is handled; its ID is recorded first.  A tunnel event goes to *)
(* the callback, other types are only logged.                               *)
HandleEvent ==
    /\ TakeLine("blank")
    /\ frame.type # "" /\ frame.data # 0
    /\ ~(frame.id # 0 /\ Cached(frame.id))
    /\ IF frame.id = 0
       THEN UNCHANGED <<eventCache, lastEventID>>
       ELSE eventCache' = Add(frame.id) /\ lastEventID' = frame.id
    /\ handled' = IF frame.type = "tunnel" THEN Append(handled, frame.data) ELSE handled
    /\ frame' = NoFrame

(* connectAndListen returned an error.                                     *)
MarkDisconnected ==
    /\ pc = "failed"
    /\ connected' = FALSE
    /\ pc' = "backoff"
    /\ UNCHANGED <<backoff, readVars, ctlVars, srvVars, netVars, faults>>

(* The wait ends and doubles the next one.  Variant: the loop ends.        *)
NextBackoff == IF 2 * backoff > MaxBackoff THEN MaxBackoff ELSE 2 * backoff

GiveUp ==
    /\ pc = "backoff"
    /\ pc' = "done"
    /\ UNCHANGED <<backoff, connected, readVars, ctlVars, srvVars, netVars, faults>>

BackoffEnds ==
    /\ pc = "backoff"
    /\ pc' = "loop"
    /\ backoff' = NextBackoff
    /\ UNCHANGED <<connected, readVars, ctlVars, srvVars, netVars, faults>>

BackoffStopped ==
    /\ pc = "backoff"
    /\ cancelled \/ stopChan
    /\ pc' = "done"
    /\ UNCHANGED <<backoff, connected, readVars, ctlVars, srvVars, netVars, faults>>

-----------------------------------------------------------------------------
(* Stop closes stopChan and waits for the goroutine, if it was started.    *)
(* The owner calls it once: a second close would panic.                    *)
Stop ==
    /\ stop = "idle"
    /\ stop' = "waiting"
    /\ UNCHANGED <<loopVars, connected, readVars, cancelled, srvVars, netVars, faults>>

StopReturn ==
    /\ stop = "waiting"
    /\ pc \in {"off", "done"}
    /\ stop' = "returned"
    /\ UNCHANGED <<loopVars, connected, readVars, cancelled, srvVars, netVars, faults>>

Cancel ==
    /\ ~cancelled
    /\ cancelled' = TRUE
    /\ UNCHANGED <<loopVars, connected, readVars, stop, srvVars, netVars, faults>>

-----------------------------------------------------------------------------
(* The server and the network.                                             *)
Publish ==
    /\ published < MaxEvents
    /\ published' = published + 1
    /\ UNCHANGED <<loopVars, connected, readVars, ctlVars, keepsEvents, netVars, faults>>

SendEvent ==
    /\ open /\ stream = <<>> /\ cursor < published
    /\ cursor' = cursor + 1
    /\ stream' = EventFrame(cursor + 1)
    /\ UNCHANGED <<loopVars, connected, readVars, ctlVars, srvVars, base, open, faults>>

RepeatEvent ==
    /\ keepsEvents
    /\ open /\ stream = <<>> /\ cursor = published
    /\ \E e \in base + 1 .. cursor : e > cursor - Window /\ stream' = NumberedFrame(e)
    /\ UNCHANGED <<loopVars, connected, readVars, ctlVars, srvVars, base, cursor, open, faults>>

SendHeartbeat ==
    /\ open /\ stream = <<>> /\ cursor = published
    /\ stream' = Heartbeat
    /\ UNCHANGED <<loopVars, connected, readVars, ctlVars, srvVars, base, cursor, open, faults>>

(* The stream breaks; some of the lines on their way still arrive.         *)
Break ==
    /\ open /\ faults < MaxFaults
    /\ faults' = faults + 1
    /\ open' = FALSE
    /\ \E n \in 0 .. Len(stream) : stream' = SubSeq(stream, 1, n)
    /\ UNCHANGED <<loopVars, connected, readVars, ctlVars, srvVars, base, cursor>>

Loop ==
    \/ LoopTop \/ Connect \/ ConnectFails
    \/ CheckStop \/ CheckCancelled \/ CheckPasses
    \/ ReadFails \/ ReadField \/ SkipLine \/ SkipDuplicate \/ HandleEvent
    \/ MarkDisconnected \/ BackoffEnds \/ BackoffStopped

Next ==
    \/ Start
    \/ LoopTop \/ Connect \/ ConnectFails
    \/ CheckStop \/ CheckCancelled \/ CheckPasses
    \/ ReadFails \/ ReadField \/ SkipLine \/ SkipDuplicate \/ HandleEvent
    \/ MarkDisconnected \/ BackoffEnds \/ BackoffStopped
    \/ Stop \/ StopReturn \/ Cancel
    \/ Publish \/ SendEvent \/ RepeatEvent \/ SendHeartbeat \/ Break

Spec == Init /\ [][Next]_vars

(* The goroutine runs when it can, timers fire, the server answers a       *)
(* request and writes what it has to write.  Heartbeats are promised by    *)
(* nobody.                                                                 *)
FairSpec ==
    /\ Spec
    /\ WF_vars(Loop) /\ WF_vars(StopReturn)
    /\ WF_vars(SendEvent)

-----------------------------------------------------------------------------
(* Properties.                                                             *)

(* Type invariant: the cache keeps its bound and the backoff its limits.   *)
TypeOK ==
    /\ pc \in {"off", "loop", "request", "check", "line", "failed", "backoff", "done"}
    /\ connected \in BOOLEAN /\ cancelled \in BOOLEAN /\ open \in BOOLEAN
    /\ lastEventID \in 0 .. published /\ base \in 0 .. cursor /\ cursor \in 0 .. published
    /\ keepsEvents \in BOOLEAN /\ published \in 0 .. MaxEvents
    /\ eventCache \in Seq(1 .. published) /\ Len(eventCache) <= CacheSize
    /\ frame \in [type : {"", "connected", "tunnel"}, data : -1 .. published, id : 0 .. published]
    /\ backoff \in 1 .. MaxBackoff
    /\ handled \in Seq(1 .. published)
    /\ stop \in {"idle", "waiting", "returned"}
    /\ faults \in 0 .. MaxFaults

(* readEventStream's duplicate check: however often streams break and the  *)
(* server repeats events, none is handled twice.                           *)
HandledOnce ==
    \A i, j \in 1 .. Len(handled) : i # j => handled[i] # handled[j]

(* Recovery with Last-Event-ID, where the server keeps its events: from    *)
(* the first event on, every event is handled and none is skipped,         *)
(* wherever in a frame a stream broke, and the ID that will be asked for   *)
(* is the one handled last.                                                *)
NoGap ==
    keepsEvents =>
        /\ \A i \in 1 .. Len(handled) - 1 : handled[i + 1] <= handled[i] + 1
        /\ handled # <<>> => lastEventID = handled[Len(handled)]

(* Where the reader stands: at the ID it asks for, if there are IDs.       *)
Position ==
    IF keepsEvents THEN lastEventID ELSE IF handled = <<>> THEN 0 ELSE handled[Len(handled)]

(* Refinement: the subscriber is a reader of EventLog.  It never goes      *)
(* back, also to an event it has not handled, and neither a broken frame   *)
(* nor a repeated event moves it.  If the server keeps its events, the     *)
(* reader leaves none out; with the repository's notifier it does, over a  *)
(* reconnection.                                                           *)
Log == INSTANCE EventLog WITH kept <- keepsEvents, position <- Position

ReaderSpec == Log!Spec

(* Recovery, with either server: a subscriber that lost its stream or was  *)
(* refused has one again in the end, for subscribeLoop does not give up;   *)
(* and an event that is written to a stream is handled, unless the stream  *)
(* breaks.  Stop and the context end both.                                 *)
Recovers ==
    /\ (pc = "failed") ~> (open \/ stopChan \/ cancelled)
    /\ \A e \in 1 .. MaxEvents :
          (open /\ stream = EventFrame(e))
              ~> ((\E i \in 1 .. Len(handled) : handled[i] = e)
                   \/ ~open \/ stopChan \/ cancelled)

(* Cancelling the context ends the goroutine wherever it stands, and with  *)
(* it a Stop that waits.  Stop alone ends it wherever it does not wait for *)
(* a line that is not on its way, and so as soon as the server writes one  *)
(* or the stream ends.  (On a stream that stays open and silent Stop does  *)
(* not return.)                                                            *)
AwaitsLine == pc = "line" /\ open /\ stream = <<>>

GoroutineEnds ==
    /\ (cancelled /\ pc # "off") ~> (pc = "done" /\ stop # "waiting")
    /\ (stop = "waiting" /\ ~AwaitsLine) ~> (stop = "returned")
=============================================================================

--------------------------- MODULE NotifierProofs ---------------------------
(***************************************************************************)
(* Proofs about Notifier, for any number of subscriptions, agents and      *)
(* calls and any channel capacity.                                         *)
(*                                                                         *)
(* A client record is in the map's hands, in those of one Unsubscribe that *)
(* will close its Done, or in nobody's: never in two (EntryOpen, Clean).   *)
(* As long as an agent ID is used by one subscription only, that record is *)
(* in the map until it is taken to be ended (Registered), and a broadcast  *)
(* still has to visit it or has it as its target (OwedPending).            *)
(***************************************************************************)
EXTENDS Notifier, TLAPS

(* A call that has not begun has nothing to visit and nothing loaded.      *)
CallStarted ==
    \A c \in Calls : callKind[c] = None => todo[c] = {} /\ target[c] = None

(* Once made, a subscription has its agent; before, nobody knows it.       *)
AgentKnown ==
    \A s \in Subs :
        IF pc[s] = "new"
        THEN /\ agent[s] = None
             /\ s \notin doneClosed
             /\ \A u \in Unsubscribers : holding[u] # s
        ELSE agent[s] \in Agents

(* An Unsubscribe holds a record alone.  Apart from subscriptions that     *)
(* failed, what it holds is open, and a loop ends only after a close.      *)
Clean ==
    /\ closedTwice \subseteq failed
    /\ \A u \in Unsubscribers : holding[u] # None =>
          /\ holding[u] \in doneClosed => holding[u] \in failed
          /\ \A v \in Unsubscribers : holding[v] = holding[u] => v = u
    /\ \A s \in Subs : pc[s] \notin {"new", "loop", "write"} /\ s \notin failed =>
          s \in doneClosed /\ pc[s] # "close"

(* The subscription is not ended nor about to be.                          *)
Active(s) == /\ InLoop(s)
             /\ s \notin doneClosed
             /\ \A u \in Unsubscribers : holding[u] # s

(* Another subscription was made with the same ID.                         *)
Reused(s) == \E t \in Subs \ {s} : agent[t] = agent[s]

Registered == \A s \in Subs : Active(s) => clients[agent[s]] = s \/ Reused(s)

OwedPending ==
    \A c \in Calls : \A s \in owed[c] :
        /\ pc[s] # "new"
        /\ Active(s) => agent[s] \in todo[c] \/ target[c] = s \/ Reused(s)

MissedMade == \A s \in missed : pc[s] # "new"

(* The inductive invariant.                                                *)
IInv == /\ TypeOK
        /\ CallStarted
        /\ AgentKnown
        /\ EntryOpen
        /\ Clean
        /\ Registered
        /\ OwedPending
        /\ MissedMade
        /\ MissedOnlyIfIDReused

LEMMA InitTypeOK == Init => TypeOK
<1> SUFFICES ASSUME Init PROVE TypeOK
  OBVIOUS
<1>1. <<>> \in Seq(Calls) /\ Len(<<>>) <= Cap
  BY CapAssumption
<1>2. channel = [s \in Subs |-> [k \in Kinds |-> <<>>]]
  BY DEF Init
<1>3. channel \in [Subs -> [Kinds -> Seq(Calls)]]
  BY <1>1, <1>2
<1>4. \A s \in Subs, k \in Kinds : Len(channel[s][k]) <= Cap
  BY <1>1, <1>2
<1>5. QED BY <1>3, <1>4 DEF Init, TypeOK

(* A channel after a receive and after a send.                             *)
LEMMA ReceiveFacts ==
    ASSUME TypeOK, NEW s \in Subs, NEW k \in Kinds, channel[s][k] # <<>>,
           channel' = [channel EXCEPT ![s] = [channel[s] EXCEPT ![k] = Tail(@)]]
    PROVE  /\ channel' \in [Subs -> [Kinds -> Seq(Calls)]]
           /\ \A t \in Subs, j \in Kinds : Len(channel'[t][j]) <= Cap
           /\ Head(channel[s][k]) \in Calls
<1>1. channel \in [Subs -> [Kinds -> Seq(Calls)]] /\ channel[s][k] \in Seq(Calls)
  BY DEF TypeOK
<1>2. /\ Tail(channel[s][k]) \in Seq(Calls)
      /\ Head(channel[s][k]) \in Calls
      /\ Len(Tail(channel[s][k])) = Len(channel[s][k]) - 1
      /\ Len(channel[s][k]) \in Nat
  BY <1>1
<1>3. [channel[s] EXCEPT ![k] = Tail(@)] \in [Kinds -> Seq(Calls)]
  BY <1>1, <1>2
<1>4. channel' \in [Subs -> [Kinds -> Seq(Calls)]]
  BY <1>1, <1>3
<1>5. ASSUME NEW t \in Subs, NEW j \in Kinds PROVE Len(channel'[t][j]) <= Cap
  <2>1. Len(channel[t][j]) <= Cap /\ Len(channel[s][k]) <= Cap
    BY DEF TypeOK
  <2>2. channel'[t][j] = IF t = s /\ j = k THEN Tail(channel[s][k]) ELSE channel[t][j]
    BY <1>1
  <2>3. QED BY <2>1, <2>2, <1>2, CapAssumption
<1>6. QED BY <1>2, <1>4, <1>5

LEMMA SendFacts ==
    ASSUME TypeOK, NEW s \in Subs, NEW k \in Kinds, NEW c \in Calls, Room(channel[s][k]),
           channel' = [channel EXCEPT ![s] = [channel[s] EXCEPT ![k] = Append(@, c)]]
    PROVE  /\ channel' \in [Subs -> [Kinds -> Seq(Calls)]]
           /\ \A t \in Subs, j \in Kinds : Len(channel'[t][j]) <= Cap
<1>1. channel \in [Subs -> [Kinds -> Seq(Calls)]] /\ channel[s][k] \in Seq(Calls)
  BY DEF TypeOK
<1>2. /\ Append(channel[s][k], c) \in Seq(Calls)
      /\ Len(Append(channel[s][k], c)) = Len(channel[s][k]) + 1
      /\ Len(channel[s][k]) \in Nat
  BY <1>1
<1>3. [channel[s] EXCEPT ![k] = Append(@, c)] \in [Kinds -> Seq(Calls)]
  BY <1>1, <1>2
<1>4. channel' \in [Subs -> [Kinds -> Seq(Calls)]]
  BY <1>1, <1>3
<1>5. ASSUME NEW t \in Subs, NEW j \in Kinds PROVE Len(channel'[t][j]) <= Cap
  <2>1. Len(channel[t][j]) <= Cap /\ Len(channel[s][k]) < Cap
    BY DEF TypeOK, Room
  <2>2. channel'[t][j] = IF t = s /\ j = k THEN Append(channel[s][k], c)
                                           ELSE channel[t][j]
    BY <1>1
  <2>3. QED BY <2>1, <2>2, <1>2, CapAssumption
<1>6. QED BY <1>4, <1>5

LEMMA NextTypeOK == TypeOK /\ CallStarted /\ [Next]_vars => TypeOK'
<1> SUFFICES ASSUME TypeOK, CallStarted, [Next]_vars PROVE TypeOK'
  OBVIOUS
<1>1. ASSUME NEW s \in Subs, NEW a \in Agents, Subscribe(s, a) PROVE TypeOK'
  BY <1>1 DEF Subscribe, TypeOK, callVars
<1>2. ASSUME NEW s \in Subs, NEW k \in Kinds, Deliver(s, k) PROVE TypeOK'
  <2>1. /\ channel' \in [Subs -> [Kinds -> Seq(Calls)]]
        /\ \A t \in Subs, j \in Kinds : Len(channel'[t][j]) <= Cap
        /\ Head(channel[s][k]) \in Calls
    BY <1>2, ReceiveFacts DEF Deliver, Ready
  <2>2. QED BY <1>2, <2>1 DEF Deliver, TypeOK, callVars
<1>3. ASSUME NEW s \in Subs, NEW k \in Kinds, MarshalFail(s, k) PROVE TypeOK'
  BY <1>3, ReceiveFacts DEF MarshalFail, Ready, TypeOK, callVars
<1>4. ASSUME NEW s \in Subs, SeeDone(s) PROVE TypeOK'
  BY <1>4 DEF SeeDone, TypeOK, callVars
<1>5. ASSUME NEW s \in Subs, DeferredDelete(s) PROVE TypeOK'
  BY <1>5 DEF DeferredDelete, TypeOK, callVars
<1>6. ASSUME NEW s \in Subs, DeferredCheck(s) PROVE TypeOK'
  BY <1>6 DEF DeferredCheck, CloseIfOpen, TypeOK, callVars
<1>7. ASSUME NEW s \in Subs, DeferredClose(s) PROVE TypeOK'
  BY <1>7 DEF DeferredClose, TypeOK, callVars
<1>8. ASSUME NEW s \in Subs, HandlerReturn(s) PROVE TypeOK'
  BY <1>8 DEF HandlerReturn, TypeOK, callVars
<1>9. ASSUME NEW s \in Subs, Stall(s) PROVE TypeOK'
  BY <1>9 DEF Stall, TypeOK, callVars
<1>9a. ASSUME NEW s \in Subs, Written(s) \/ Ping(s) PROVE TypeOK'
  BY <1>9a, ZenonT(40) DEF Written, Ping, TypeOK, callVars
<1>10. ASSUME NEW u \in Unsubscribers, NEW a \in Agents, LoadAndDelete(u, a) PROVE TypeOK'
  BY <1>10 DEF LoadAndDelete, TakeEntry, TypeOK, callVars, subVars
<1>11. ASSUME NEW u \in Unsubscribers, CloseDone(u) PROVE TypeOK'
  BY <1>11 DEF CloseDone, CloseChan, TypeOK, callVars, subVars
<1>12. ASSUME NEW c \in Calls, NEW k \in Kinds, NEW A \in SUBSET Agents, NotifyAll(c, k, A)
       PROVE TypeOK'
  <2>1. Subscribed \subseteq Subs
    BY DEF Subscribed
  <2>2. QED BY <1>12, <2>1 DEF NotifyAll, TypeOK, subVars
<1>13. ASSUME NEW c \in Calls, NEW k \in Kinds, NEW a \in Agents, NotifyOne(c, k, a)
       PROVE TypeOK'
  BY <1>13 DEF NotifyOne, TypeOK, subVars
<1>14. ASSUME NEW c \in Calls, NEW a \in Agents, LoadClient(c, a) PROVE TypeOK'
  BY <1>14 DEF LoadClient, PassedOver, Subscribed, TypeOK, subVars
<1>15. ASSUME NEW c \in Calls, Send(c) PROVE TypeOK'
  <2>1. target[c] \in Subs
    BY <1>15 DEF Send, TypeOK
  <2>2. callKind[c] \in Kinds
    BY <1>15, <2>1, NotifierNoneAssumption DEF Send, TypeOK, CallStarted
  <2>3. /\ channel' \in [Subs -> [Kinds -> Seq(Calls)]]
        /\ \A t \in Subs, j \in Kinds : Len(channel'[t][j]) <= Cap
    <3>1. CASE UNCHANGED channel
      BY <3>1 DEF TypeOK
    <3>2. CASE /\ Room(channel[target[c]][callKind[c]])
               /\ channel' = [channel EXCEPT ![target[c]] =
                                [channel[target[c]] EXCEPT ![callKind[c]] = Append(@, c)]]
      BY <3>2, <2>1, <2>2, SendFacts
    <3>3. QED BY <1>15, <3>1, <3>2 DEF Send
  <2>4. QED BY <1>15, <2>1, <2>3 DEF Send, PassedOver, TypeOK, subVars
<1>16. CASE UNCHANGED vars
  BY <1>16 DEF vars, TypeOK
<1>17. QED
  BY <1>1, <1>2, <1>3, <1>4, <1>5, <1>6, <1>7, <1>8, <1>9, <1>9a, <1>10, <1>11, <1>12, <1>13,
     <1>14, <1>15, <1>16 DEF Next

(* Only the steps of a call change what is known about calls.              *)
LEMMA CallSteps ==
    ASSUME [Next]_vars
    PROVE  \/ \E c \in Calls, k \in Kinds, A \in SUBSET Agents : NotifyAll(c, k, A)
           \/ \E c \in Calls, k \in Kinds, a \in Agents : NotifyOne(c, k, a)
           \/ \E c \in Calls, a \in Agents : LoadClient(c, a)
           \/ \E c \in Calls : Send(c)
           \/ UNCHANGED callVars
BY DEF Next, vars, callVars, Subscribe, Written, Ping, Deliver, MarshalFail, SeeDone, DeferredDelete,
   DeferredCheck, DeferredClose, HandlerReturn, Stall, LoadAndDelete, CloseDone

LEMMA NextCallStarted == TypeOK /\ CallStarted /\ [Next]_vars => CallStarted'
<1> SUFFICES ASSUME TypeOK, CallStarted, [Next]_vars PROVE CallStarted'
  OBVIOUS
<1>1. ASSUME NEW c \in Calls, NEW k \in Kinds, NEW A \in SUBSET Agents, NotifyAll(c, k, A)
      PROVE CallStarted'
  BY <1>1, NotifierNoneAssumption DEF NotifyAll, TypeOK, CallStarted
<1>2. ASSUME NEW c \in Calls, NEW k \in Kinds, NEW a \in Agents, NotifyOne(c, k, a)
      PROVE CallStarted'
  BY <1>2, NotifierNoneAssumption DEF NotifyOne, TypeOK, CallStarted
<1>3. ASSUME NEW c \in Calls, NEW a \in Agents, LoadClient(c, a) PROVE CallStarted'
  BY <1>3 DEF LoadClient, TypeOK, CallStarted
<1>4. ASSUME NEW c \in Calls, Send(c) PROVE CallStarted'
  BY <1>4 DEF Send, TypeOK, CallStarted
<1>5. CASE UNCHANGED callVars
  BY <1>5 DEF callVars, CallStarted
<1>6. QED BY <1>1, <1>2, <1>3, <1>4, <1>5, CallSteps

(* Who is in the map, who knows a subscription.                            *)
LEMMA NextOwnership ==
    TypeOK /\ AgentKnown /\ EntryOpen /\ [Next]_vars => AgentKnown' /\ EntryOpen'
<1> SUFFICES ASSUME TypeOK, AgentKnown, EntryOpen, [Next]_vars
             PROVE AgentKnown' /\ EntryOpen'
  OBVIOUS
<1> USE NotifierNoneAssumption DEF TypeOK, AgentKnown, EntryOpen, InLoop
<1>1. ASSUME NEW s \in Subs, NEW a \in Agents, Subscribe(s, a)
      PROVE AgentKnown' /\ EntryOpen'
  BY <1>1 DEF Subscribe
<1>2. ASSUME NEW s \in Subs, NEW k \in Kinds, Deliver(s, k) PROVE AgentKnown' /\ EntryOpen'
  BY <1>2 DEF Deliver, Ready
<1>3. ASSUME NEW s \in Subs, NEW k \in Kinds, MarshalFail(s, k)
      PROVE AgentKnown' /\ EntryOpen'
  BY <1>3 DEF MarshalFail, Ready
<1>4. ASSUME NEW s \in Subs, SeeDone(s) PROVE AgentKnown' /\ EntryOpen'
  BY <1>4 DEF SeeDone
<1>5. ASSUME NEW s \in Subs, DeferredDelete(s) PROVE AgentKnown' /\ EntryOpen'
  BY <1>5 DEF DeferredDelete
<1>6. ASSUME NEW s \in Subs, DeferredCheck(s) PROVE AgentKnown' /\ EntryOpen'
  BY <1>6 DEF DeferredCheck, CloseIfOpen
<1>7. ASSUME NEW s \in Subs, DeferredClose(s) PROVE AgentKnown' /\ EntryOpen'
  BY <1>7 DEF DeferredClose
<1>8. ASSUME NEW s \in Subs, HandlerReturn(s) PROVE AgentKnown' /\ EntryOpen'
  BY <1>8 DEF HandlerReturn
<1>9. ASSUME NEW s \in Subs, Stall(s) PROVE AgentKnown' /\ EntryOpen'
  BY <1>9 DEF Stall
<1>9a. ASSUME NEW s \in Subs, Written(s) \/ Ping(s) PROVE AgentKnown' /\ EntryOpen'
  <2>1. pc' \in [Subs -> {"new", "loop", "write", "delete", "check", "close", "return",
                           "unsubscribe", "end"}]
    BY <1>9a, ZenonT(40) DEF Written, Ping
  <2>2. \A t \in Subs : pc'[t] = pc[t] \/ {pc[t], pc'[t]} \subseteq {"loop", "write"}
    BY <1>9a DEF Written, Ping
  <2>3. UNCHANGED <<clients, agent, doneClosed, holding>>
    BY <1>9a DEF Written, Ping
  <2>4. AgentKnown'
    BY <2>2, <2>3
  <2>5. ASSUME NEW a \in Agents, clients'[a] # None
        PROVE  /\ agent'[clients'[a]] = a /\ clients'[a] \notin doneClosed'
               /\ pc'[clients'[a]] \in {"loop", "write", "delete"}
               /\ \A u \in Unsubscribers : holding'[u] # clients'[a]
    BY <2>2, <2>3, <2>5
  <2>6. EntryOpen'
    BY <2>5
  <2>7. QED BY <2>4, <2>6
<1>10. ASSUME NEW u \in Unsubscribers, NEW a \in Agents, LoadAndDelete(u, a)
       PROVE AgentKnown' /\ EntryOpen'
  BY <1>10 DEF LoadAndDelete, TakeEntry, subVars
<1>11. ASSUME NEW u \in Unsubscribers, CloseDone(u) PROVE AgentKnown' /\ EntryOpen'
  BY <1>11 DEF CloseDone, CloseChan, subVars
<1>12. CASE UNCHANGED <<clients, doneClosed, subVars, holding>>
  BY <1>12 DEF subVars
<1>13. QED
  BY <1>1, <1>2, <1>3, <1>4, <1>5, <1>6, <1>7, <1>8, <1>9, <1>9a, <1>10, <1>11, <1>12
     DEF Next, vars, subVars, NotifyAll, NotifyOne, LoadClient, Send

LEMMA NextClean ==
    TypeOK /\ AgentKnown /\ EntryOpen /\ Clean /\ [Next]_vars => Clean'
<1> SUFFICES ASSUME TypeOK, AgentKnown, EntryOpen, Clean, [Next]_vars PROVE Clean'
  OBVIOUS
<1> USE NotifierNoneAssumption DEF TypeOK, Clean, InLoop
<1>1. ASSUME NEW s \in Subs, NEW a \in Agents, Subscribe(s, a) PROVE Clean'
  BY <1>1 DEF Subscribe
<1>2. ASSUME NEW s \in Subs, NEW k \in Kinds, Deliver(s, k) PROVE Clean'
  BY <1>2 DEF Deliver
<1>3. ASSUME NEW s \in Subs, NEW k \in Kinds, MarshalFail(s, k) PROVE Clean'
  BY <1>3 DEF MarshalFail
<1>4. ASSUME NEW s \in Subs, SeeDone(s) PROVE Clean'
  BY <1>4 DEF SeeDone
<1>5. ASSUME NEW s \in Subs, DeferredDelete(s) PROVE Clean'
  BY <1>5 DEF DeferredDelete
<1>6. ASSUME NEW s \in Subs, DeferredCheck(s) PROVE Clean'
  BY <1>6 DEF DeferredCheck, CloseIfOpen
<1>7. ASSUME NEW s \in Subs, DeferredClose(s) PROVE Clean'
  BY <1>7 DEF DeferredClose
<1>8. ASSUME NEW s \in Subs, HandlerReturn(s) PROVE Clean'
  BY <1>8 DEF HandlerReturn
<1>9. ASSUME NEW s \in Subs, Stall(s) PROVE Clean'
  BY <1>9 DEF Stall
<1>9a. ASSUME NEW s \in Subs, Written(s) \/ Ping(s) PROVE Clean'
  <2>1. \A t \in Subs : pc'[t] = pc[t] \/ {pc[t], pc'[t]} \subseteq {"loop", "write"}
    BY <1>9a DEF Written, Ping
  <2>2. UNCHANGED <<doneClosed, failed, holding, closedTwice>>
    BY <1>9a DEF Written, Ping
  <2>3. QED BY <2>1, <2>2
<1>10. ASSUME NEW u \in Unsubscribers, NEW a \in Agents, LoadAndDelete(u, a) PROVE Clean'
  BY <1>10 DEF LoadAndDelete, TakeEntry, subVars, EntryOpen
<1>11. ASSUME NEW u \in Unsubscribers, CloseDone(u) PROVE Clean'
  BY <1>11 DEF CloseDone, CloseChan, subVars
<1>12. CASE UNCHANGED <<doneClosed, pc, failed, holding, closedTwice>>
  BY <1>12
<1>13. QED
  BY <1>1, <1>2, <1>3, <1>4, <1>5, <1>6, <1>7, <1>8, <1>9, <1>9a, <1>10, <1>11, <1>12
     DEF Next, vars, subVars, NotifyAll, NotifyOne, LoadClient, Send

(* Reuse of an ID is for ever, and a subscription never becomes active     *)
(* again, except by being made.                                            *)
LEMMA Stable ==
    ASSUME TypeOK, AgentKnown, [Next]_vars, NEW s \in Subs, pc[s] # "new"
    PROVE  /\ pc'[s] # "new" /\ agent'[s] = agent[s]
           /\ Reused(s) => Reused(s)'
           /\ Active(s)' => Active(s)
<1> USE NotifierNoneAssumption DEF TypeOK, AgentKnown, InLoop
<1>1. /\ pc'[s] # "new" /\ (InLoop(s)' => InLoop(s))
      /\ doneClosed \subseteq doneClosed'
      /\ \A t \in Subs : pc[t] # "new" => agent'[t] = agent[t]
  <2>1. ASSUME NEW t \in Subs, NEW a \in Agents, Subscribe(t, a) PROVE <1>1!:
    BY <2>1 DEF Subscribe
  <2>2. ASSUME NEW t \in Subs,
               \/ \E k \in Kinds : Deliver(t, k) \/ MarshalFail(t, k)
               \/ Written(t) \/ Ping(t)
               \/ SeeDone(t) \/ DeferredDelete(t) \/ DeferredCheck(t)
        PROVE <1>1!:
    BY <2>2 DEF Written, Ping, Deliver, Ready, MarshalFail, SeeDone, DeferredDelete,
       DeferredCheck, CloseIfOpen
  <2>3. ASSUME NEW t \in Subs, DeferredClose(t) \/ HandlerReturn(t) \/ Stall(t)
        PROVE <1>1!:
    BY <2>3 DEF DeferredClose, HandlerReturn, Stall
  <2>4. CASE UNCHANGED subVars /\ doneClosed \subseteq doneClosed'
    BY <2>4 DEF subVars
  <2>5. QED
    BY <2>1, <2>2, <2>3, <2>4 DEF Next, vars, subVars, LoadAndDelete, CloseDone,
       CloseChan, NotifyAll, NotifyOne, LoadClient, Send
<1>2. Reused(s) => Reused(s)'
  <2>1. ASSUME NEW t \in Subs \ {s}, agent[t] = agent[s] PROVE agent'[t] = agent'[s]
    BY <1>1, <2>1
  <2>2. QED BY <2>1 DEF Reused
<1>3. ASSUME NEW u \in Unsubscribers, holding[u] = s, holding'[u] # s
      PROVE s \in doneClosed'
  BY <1>3, ZenonT(40) DEF Next, vars, subVars, callVars, Subscribe, Written, Ping, Deliver, MarshalFail, SeeDone,
     DeferredDelete, DeferredCheck, DeferredClose, HandlerReturn, Stall,
     LoadAndDelete, CloseDone, CloseChan, NotifyAll, NotifyOne, LoadClient, Send
<1>4. Active(s)' => Active(s)
  BY <1>1, <1>3 DEF Active
<1>5. QED BY <1>1, <1>2, <1>4

LEMMA NextRegistered ==
    TypeOK /\ AgentKnown /\ Registered /\ [Next]_vars => Registered'
<1> SUFFICES ASSUME TypeOK, AgentKnown, Registered, [Next]_vars,
                    NEW s \in Subs, Active(s)', ~Reused(s)'
             PROVE clients'[agent'[s]] = s
  BY DEF Registered
<1> USE NotifierNoneAssumption DEF TypeOK, InLoop
<1>1. CASE pc[s] = "new"
  <2>1. InLoop(s)'
    BY DEF Active
  <2>2. ASSUME NEW t \in Subs, NEW a \in Agents, Subscribe(t, a)
        PROVE clients'[agent'[s]] = s
    BY <1>1, <2>1, <2>2 DEF Subscribe
  <2>3. ASSUME NEW t \in Subs,
               \/ \E k \in Kinds : Deliver(t, k) \/ MarshalFail(t, k)
               \/ Written(t) \/ Ping(t)
               \/ SeeDone(t) \/ DeferredDelete(t)
        PROVE FALSE
    BY <1>1, <2>1, <2>3, ZenonT(40) DEF Written, Ping, Deliver, Ready, MarshalFail, SeeDone, DeferredDelete
  <2>4. ASSUME NEW t \in Subs,
               \/ DeferredCheck(t) \/ DeferredClose(t)
               \/ HandlerReturn(t) \/ Stall(t)
        PROVE FALSE
    BY <1>1, <2>1, <2>4 DEF DeferredCheck, CloseIfOpen, DeferredClose, HandlerReturn,
       Stall
  <2>5. QED
    BY <1>1, <2>1, <2>2, <2>3, <2>4 DEF Next, vars, subVars, LoadAndDelete, CloseDone,
       NotifyAll, NotifyOne, LoadClient, Send
<1>2. CASE pc[s] # "new"
  <2>1. /\ Active(s) /\ ~Reused(s) /\ agent'[s] = agent[s]
        /\ clients[agent[s]] = s /\ agent[s] \in Agents
    BY <1>2, Stable DEF Registered, AgentKnown
  <2>2. ASSUME NEW t \in Subs, NEW a \in Agents, Subscribe(t, a)
        PROVE clients'[agent'[s]] = s
    BY <2>1, <2>2 DEF Subscribe, Reused, Active
  <2>3. ASSUME NEW t \in Subs, DeferredDelete(t) PROVE clients'[agent'[s]] = s
    BY <2>1, <2>3 DEF DeferredDelete, Reused, Active
  <2>4. ASSUME NEW u \in Unsubscribers, NEW a \in Agents, LoadAndDelete(u, a)
        PROVE clients'[agent'[s]] = s
    BY <2>1, <2>4 DEF LoadAndDelete, TakeEntry, Active
  <2>5. CASE UNCHANGED clients
    BY <2>1, <2>5
  <2>6. QED
    BY <2>2, <2>3, <2>4, <2>5 DEF Next, vars, Written, Ping, Deliver, MarshalFail, SeeDone,
       DeferredCheck, DeferredClose, HandlerReturn, Stall, CloseDone, NotifyAll,
       NotifyOne, LoadClient, Send
<1>3. QED BY <1>1, <1>2

(* A broadcast still has to visit whom it owes the event.                  *)
LEMMA NextOwed == IInv /\ [Next]_vars => OwedPending'
<1> SUFFICES ASSUME IInv, [Next]_vars, NEW c \in Calls, NEW s \in owed'[c]
             PROVE /\ pc'[s] # "new"
                   /\ Active(s)' /\ ~Reused(s)' => agent'[s] \in todo'[c] \/ target'[c] = s
  BY DEF OwedPending
<1> USE NotifierNoneAssumption DEF IInv, TypeOK
<1>0. owed'[c] \subseteq Subs
  BY NextTypeOK
<1>1. ASSUME s \notin owed[c]
      PROVE \E k \in Kinds, A \in SUBSET Agents : NotifyAll(c, k, A) /\ s \in Subscribed
  <2>1. ASSUME NEW d \in Calls, NEW k \in Kinds, NEW A \in SUBSET Agents, NotifyAll(d, k, A)
        PROVE d = c /\ s \in Subscribed
    BY <1>1, <2>1 DEF NotifyAll
  <2>2. ASSUME NEW d \in Calls, Send(d) PROVE FALSE
    BY <1>1, <2>2 DEF Send
  <2>3. owed' # owed
    BY <1>1
  <2>4. PICK d \in Calls, k \in Kinds, A \in SUBSET Agents : NotifyAll(d, k, A)
    BY <2>2, <2>3, CallSteps DEF callVars, NotifyOne, LoadClient
  <2>5. QED BY <2>1, <2>4
<1>2. s \in Subs /\ pc[s] # "new"
  BY <1>0, <1>1 DEF OwedPending, Subscribed, InLoop
<1>3. pc'[s] # "new" /\ agent'[s] = agent[s] /\ agent[s] \in Agents
  BY <1>2, Stable DEF AgentKnown
<1>4. ASSUME Active(s)', ~Reused(s)' PROVE agent'[s] \in todo'[c] \/ target'[c] = s
  <2>1. Active(s) /\ ~Reused(s) /\ clients[agent[s]] = s
    BY <1>2, <1>4, Stable DEF Registered
  <2>2. ASSUME NEW k \in Kinds, NEW A \in SUBSET Agents, NotifyAll(c, k, A)
        PROVE agent'[s] \in todo'[c]
    BY <1>2, <1>3, <2>1, <2>2 DEF NotifyAll
  <2>3. ASSUME s \in owed[c], agent[s] \in todo[c] \/ target[c] = s
        PROVE agent'[s] \in todo'[c] \/ target'[c] = s
    <3>1. ASSUME NEW d \in Calls, NEW k \in Kinds, NEW A \in SUBSET Agents,
                 NotifyAll(d, k, A), c # d
          PROVE agent'[s] \in todo'[c] \/ target'[c] = s
      BY <1>3, <2>3, <3>1 DEF NotifyAll
    <3>2. ASSUME NEW d \in Calls, NEW k \in Kinds, NEW a \in Agents, NotifyOne(d, k, a)
          PROVE agent'[s] \in todo'[c] \/ target'[c] = s
      BY <1>2, <1>3, <2>3, <3>2 DEF NotifyOne, CallStarted
    <3>3. ASSUME NEW d \in Calls, NEW a \in Agents, LoadClient(d, a)
          PROVE agent'[s] \in todo'[c] \/ target'[c] = s
      BY <1>2, <1>3, <2>1, <2>3, <3>3 DEF LoadClient
    <3>4. ASSUME NEW d \in Calls, Send(d)
          PROVE agent'[s] \in todo'[c] \/ target'[c] = s
      BY <1>3, <2>3, <3>4 DEF Send
    <3>5. CASE UNCHANGED callVars
      BY <1>3, <2>3, <3>5 DEF callVars
    <3>6. QED
      BY <2>2, <3>1, <3>2, <3>3, <3>4, <3>5, CallSteps
  <2>4. QED
    BY <1>1, <2>1, <2>2, <2>3 DEF OwedPending
<1>5. QED BY <1>3, <1>4

(* Nobody is passed over whose ID was not reused.                          *)
LEMMA NextMissed == IInv /\ [Next]_vars => MissedMade' /\ MissedOnlyIfIDReused'
<1> SUFFICES ASSUME IInv, [Next]_vars, NEW s \in missed'
             PROVE pc'[s] # "new" /\ Reused(s)'
  BY DEF MissedMade, MissedOnlyIfIDReused, Reused
<1> USE NotifierNoneAssumption DEF IInv, TypeOK
<1>1. s \in Subs
  BY NextTypeOK
<1>2. CASE s \in missed
  BY <1>1, <1>2, Stable DEF MissedMade, MissedOnlyIfIDReused, Reused
<1>3. CASE s \notin missed
  <2>1. ASSUME NEW c \in Calls, NEW k \in Kinds, NEW A \in SUBSET Agents, NotifyAll(c, k, A)
        PROVE Active(s) /\ Reused(s)
    <3>1. A = {} /\ Active(s)
      BY <1>1, <1>3, <2>1 DEF NotifyAll, Subscribed, Active
    <3>2. agent[s] \in Agents
      BY <1>1, <3>1 DEF Active, InLoop, AgentKnown
    <3>3. clients[agent[s]] = None
      BY <2>1, <3>1, <3>2 DEF NotifyAll
    <3>4. QED BY <1>1, <3>1, <3>3 DEF Registered
  <2>2. ASSUME NEW c \in Calls, NEW a \in Agents, LoadClient(c, a)
        PROVE Active(s) /\ Reused(s)
    <3>1. /\ clients[a] = None /\ todo[c] \ {a} = {} /\ target[c] = None
          /\ s \in owed[c] /\ Active(s)
      BY <1>1, <1>3, <2>2 DEF LoadClient, PassedOver, Subscribed, Active
    <3>2. agent[s] \in todo[c] => agent[s] = a
      BY <3>1
    <3>3. QED BY <1>1, <3>1, <3>2 DEF OwedPending, Registered
  <2>3. ASSUME NEW c \in Calls, Send(c) PROVE Active(s) /\ Reused(s)
    <3>1. todo[c] = {} /\ target[c] # s /\ s \in owed[c] /\ Active(s)
      BY <1>1, <1>3, <2>3 DEF Send, PassedOver, Subscribed, Active
    <3>2. QED BY <1>1, <3>1 DEF OwedPending
  <2>4. Active(s) /\ Reused(s)
    BY <1>3, <2>1, <2>2, <2>3, CallSteps DEF callVars, NotifyOne
  <2>5. pc[s] # "new"
    BY <2>4 DEF Active, InLoop
  <2>6. QED BY <1>1, <2>4, <2>5, Stable
<1>4. QED BY <1>2, <1>3

LEMMA InitIInv == Init => IInv
<1> SUFFICES ASSUME Init PROVE IInv
  OBVIOUS
<1>1. TypeOK
  BY InitTypeOK
<1>2. CallStarted /\ AgentKnown /\ EntryOpen
  BY NotifierNoneAssumption DEF Init, CallStarted, AgentKnown, EntryOpen
<1>3. Clean /\ Registered /\ OwedPending /\ MissedMade /\ MissedOnlyIfIDReused
  BY DEF Init, Clean, Registered, Active, InLoop, OwedPending, MissedMade, MissedOnlyIfIDReused
<1>4. QED BY <1>1, <1>2, <1>3 DEF IInv

(* The inductive invariant holds in every reachable state.                 *)
THEOREM Invariance == Spec => []IInv
<1>1. IInv /\ [Next]_vars => IInv'
  BY NextTypeOK, NextCallStarted, NextOwnership, NextClean, NextRegistered, NextOwed,
     NextMissed DEF IInv
<1>2. QED BY <1>1, InitIInv, PTL DEF Spec

(* Every variable keeps its type, and no channel exceeds its capacity.     *)
THEOREM TypeCorrect == Spec => []TypeOK
<1>1. IInv => TypeOK
  BY DEF IInv
<1>2. QED BY <1>1, Invariance, PTL

(* A client found in the map is alive, open, and held by no Unsubscribe.   *)
THEOREM EntriesAreOpen == Spec => []EntryOpen
<1>1. IInv => EntryOpen
  BY DEF IInv
<1>2. QED BY <1>1, Invariance, PTL

(* No Done is closed twice but that of a subscription that failed.         *)
THEOREM ClosedOnce == Spec => []DoneClosedOnce
<1>1. IInv => DoneClosedOnce
  BY DEF IInv, Clean, DoneClosedOnce
<1>2. QED BY <1>1, Invariance, PTL

(* A broadcast misses a subscribed client only if its ID was reused.       *)
THEOREM MissedShareTheirID == Spec => []MissedOnlyIfIDReused
<1>1. IInv => MissedOnlyIfIDReused
  BY DEF IInv
<1>2. QED BY <1>1, Invariance, PTL
=============================================================================

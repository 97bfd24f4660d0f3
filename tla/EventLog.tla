------------------------------ MODULE EventLog ------------------------------
(***************************************************************************)
(* What an agent's subscription promises: the controller's events are a    *)
(* log, and the agent is a reader with a position in it.  The reader may   *)
(* begin anywhere and only goes forward, so no event is handled twice or   *)
(* after a later one.  If the log is kept, it handles the next event and   *)
(* no other from then on.                                                  *)
(***************************************************************************)
EXTENDS Naturals, Sequences

VARIABLES
    kept,        \* events that were missed can be asked for
    published,   \* length of the log
    handled,     \* events handled, in this order
    position     \* the event handled last, 0 before the first

vars == <<kept, published, handled, position>>

Init == kept \in BOOLEAN /\ published = 0 /\ handled = <<>> /\ position = 0

Publish ==
    /\ published' = published + 1
    /\ UNCHANGED <<kept, handled, position>>

Handle(e) ==
    /\ e > position
    /\ kept /\ position # 0 => e = position + 1
    /\ handled' = Append(handled, e)
    /\ position' = e
    /\ UNCHANGED <<kept, published>>

Next == Publish \/ \E e \in 1 .. published : Handle(e)

Spec == Init /\ [][Next]_vars
=============================================================================

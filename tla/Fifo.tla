---------------------------------- MODULE Fifo ----------------------------------
(***************************************************************************)
(* What the thread-safe queue promises: values leave in the order they     *)
(* came, but for urgent ones, which come in at the front; pop never waits; *)
(* destruction discards the values that are left, in order, and a          *)
(* destroyed queue takes and gives nothing.                                *)
(***************************************************************************)
EXTENDS Sequences

CONSTANTS Threads, Vals, Nothing

VARIABLES
    queue,  \* the values
    phase,  \* "open", "closing" or "closed"
    taken   \* of a thread: what its last pop returned

vars == <<queue, phase, taken>>

Init ==
    /\ queue = << >>
    /\ phase = "open"
    /\ taken = [t \in Threads |-> Nothing]

Push(v) ==
    /\ phase = "open"
    /\ queue' = Append(queue, v)
    /\ UNCHANGED <<phase, taken>>

PushInFront(v) ==
    /\ phase = "open"
    /\ queue' = <<v>> \o queue
    /\ UNCHANGED <<phase, taken>>

Pop(t) ==
    /\ phase = "open"
    /\ queue # << >>
    /\ queue' = Tail(queue)
    /\ taken' = [taken EXCEPT ![t] = Head(queue)]
    /\ UNCHANGED phase

PopNothing(t) ==
    /\ phase = "closed" \/ (phase = "open" /\ queue = << >>)
    /\ taken' = [taken EXCEPT ![t] = Nothing]
    /\ UNCHANGED <<queue, phase>>

Close ==
    /\ phase = "open"
    /\ phase' = "closing"
    /\ UNCHANGED <<queue, taken>>

Discard ==
    /\ phase = "closing"
    /\ queue # << >>
    /\ queue' = Tail(queue)
    /\ UNCHANGED <<phase, taken>>

EndClose ==
    /\ phase = "closing"
    /\ queue = << >>
    /\ phase' = "closed"
    /\ UNCHANGED <<queue, taken>>

Next ==
    \/ \E v \in Vals : Push(v) \/ PushInFront(v)
    \/ \E t \in Threads : Pop(t) \/ PopNothing(t)
    \/ Close \/ Discard \/ EndClose

Spec == Init /\ [][Next]_vars

=============================================================================

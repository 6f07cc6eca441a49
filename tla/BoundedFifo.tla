----------------------------- MODULE BoundedFifo -----------------------------
(***************************************************************************)
(* What a queue of at most Capacity values promises: values leave in the   *)
(* order they entered, none is lost, none is invented.                     *)
(***************************************************************************)
EXTENDS Integers, Sequences

CONSTANTS Capacity, Values

VARIABLE q

Init == q = << >>

Enqueue(v) ==
    /\ Len(q) < Capacity
    /\ q' = Append(q, v)

Dequeue ==
    /\ q # << >>
    /\ q' = Tail(q)

Next == (\E v \in Values : Enqueue(v)) \/ Dequeue

Spec == Init /\ [][Next]_q
=============================================================================

----------------------------- MODULE LinkedQueue -----------------------------
(***************************************************************************)
(* util/queue.{c,h}: a circular doubly linked list with a head node, as a  *)
(* queue: queue_push puts nodes in front, queue_pop takes them from the    *)
(* back.                                                                   *)
(*                                                                         *)
(* A queue is a record q:                                                  *)
(*   q.prev[c]   prev of the head and of every node                        *)
(*   q.next      next of the head; that of a node is written, never read   *)
(*   q.data[n]   data of a node, which outlives free until malloc gives    *)
(*               the node out again                                        *)
(*   q.free      the nodes malloc may give out                             *)
(* queue_push and queue_pop take no lock, so each of their stores to what  *)
(* they share is an operator of its own, named after what it writes; the   *)
(* threads that call them are in ThreadPool.  The loads of an emptiness    *)
(* test, and those that lead to a store, count as one moment with it.      *)
(***************************************************************************)
EXTENDS Integers, Sequences, FiniteSets

CONSTANTS
    Nodes,      \* what malloc returns
    head,       \* the head node
    NULL

ASSUME NodeAssumption == head \notin Nodes /\ NULL \notin Nodes \cup {head}

Cells == Nodes \cup {head}

queue_create ==
    [prev |-> [c \in Cells \cup {NULL} |-> IF c = head THEN head ELSE NULL],
     next |-> head,
     data |-> [n \in Nodes |-> NULL],
     free |-> Nodes]

queue_is_empty(q) == q.prev[head] = q.next /\ q.next = head

\* A pointer to nothing that is allocated.
Dead(q, c) == c = NULL \/ c \in q.free

-----------------------------------------------------------------------------
(* queue_push, in the order of its stores.                                 *)

Alloc(q, n, data) ==
    [q EXCEPT !.free = @ \ {n}, !.prev[n] = NULL, !.data[n] = data]

\* The branch for the empty queue, which does not return.
HeadPrev(q, n) == [q EXCEPT !.prev[head] = n]
HeadNext(q, n) == [q EXCEPT !.next = n]

NodePrev(q, n) == [q EXCEPT !.prev[n] = head]

\* Mutation: the first node is not linked to the second.
NextPrev_Not(q, n) == q

\* (head->next)->prev; on the empty queue head->next is n itself by now.
NextPrev(q, n) == [q EXCEPT !.prev[q.next] = n]

-----------------------------------------------------------------------------
(* queue_pop.                                                              *)

Last(q) == q.prev[head]

Unlink(q, n) == [q EXCEPT !.prev[head] = q.prev[n]]

FixNext(q) == IF Last(q) = q.next /\ q.next # head THEN HeadNext(q, head) ELSE q

Free(q, n) == [q EXCEPT !.free = @ \cup {n}]

queue_first(q) == IF queue_is_empty(q) THEN NULL ELSE q.data[Last(q)]

-----------------------------------------------------------------------------
\* The i-th node from the back.
FromBack(q, i) ==
    LET walk[k \in 1 .. i] == IF k = 1 THEN Last(q) ELSE q.prev[walk[k - 1]]
    IN  walk[i]
=============================================================================

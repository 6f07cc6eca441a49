----------------------------- MODULE MinHeapTimer -----------------------------
(***************************************************************************)
(* util/minheap-timer.c: timers in a binary heap, the next to expire at    *)
(* list[0].                                                                *)
(*                                                                         *)
(* An entry is its expire.  `last` is the index of the last entry, and 0   *)
(* for an empty heap too.  UIntRange stands for 2^32.  In adjust_down the  *)
(* children are pos+1 and (pos+1)>>1, since >> binds less than -, and they *)
(* are read whatever last is: the entry just popped, still in its place,   *)
(* may come back, the loop may not end, and a NULL may be followed.  So    *)
(* the model takes the loop one turn at a time.  A read or write that is   *)
(* not an entry's ends the run ("crashed"): the push after the list is     *)
(* full is one, as reserve lets last+1 be amount.                          *)
(***************************************************************************)
EXTENDS Integers, Sequences, FiniteSets

CONSTANTS
    Expires,    \* expire values
    amount,     \* timer->amount, at least MINHEAP_TIMER_SIZE_MIN
    UIntRange,
    MaxPops,    \* bound: calls of nhp_timer_pop
    NULL

VARIABLES
    list, last,
    pos,        \* where adjust_down is
    pushed,     \* history: how many entries of each expire were pushed
    popped,     \* history: what nhp_timer_pop gave
    status      \* "up", "down" (in adjust_down), "crashed"

vars == <<list, last, pos, pushed, popped, status>>

Init ==
    /\ list = [i \in 0 .. amount - 1 |-> NULL]
    /\ last = 0 /\ pos = 0
    /\ pushed = [e \in Expires |-> 0]
    /\ popped = << >>
    /\ status = "up"

Entry(i) == i \in DOMAIN list /\ list[i] # NULL
Swapped(l, i, j) == [l EXCEPT ![i] = l[j], ![j] = l[i]]

-----------------------------------------------------------------------------
Parent(p) == (p - 1) \div 2

\* Mutation: parent is not computed again after the first swap.
adjust_up_Once(l, start) ==
    IF start > 0 /\ l[Parent(start)] > l[start] THEN Swapped(l, start, Parent(start)) ELSE l

\* Entry p moves up while its parent expires later.
adjust_up(l, start) ==
    LET up[p \in DOMAIN l] ==
            [k \in [DOMAIN l -> Expires \cup {NULL}] |->
                IF p > 0 /\ k[Parent(p)] > k[p] THEN up[Parent(p)][Swapped(k, p, Parent(p))] ELSE k]
    IN  up[start][l]

mhp_timer_push(e) ==
    /\ status = "up" /\ pushed[e] < amount
    /\ pushed' = [pushed EXCEPT ![e] = @ + 1]
    /\ LET n == (last + 1) % UIntRange IN
       IF list[0] = NULL
       THEN list' = [list EXCEPT ![0] = e] /\ UNCHANGED <<last, status>>
       ELSE IF n >= amount
       THEN status' = "crashed" /\ UNCHANGED <<list, last>>
       ELSE /\ list' = adjust_up([list EXCEPT ![n] = e], n)
            /\ last' = n
            /\ UNCHANGED status
    /\ UNCHANGED <<pos, popped>>

\* The swap with the last entry, and adjust_down begins.
nhp_timer_pop ==
    /\ status = "up"
    /\ Len(popped) < MaxPops
    /\ popped' = Append(popped, list[0])
    /\ IF last < amount
       THEN list' = Swapped(list, 0, last) /\ status' = "down"
       ELSE status' = "crashed" /\ UNCHANGED list
    /\ last' = (last - 1) % UIntRange
    /\ pos' = 0
    /\ UNCHANGED pushed

\* One test of the loop, and its turn if it passes.
adjust_down ==
    LET lchild == pos + 1
        rchild == (pos + 1) \div 2
        lower == IF list[lchild] > list[rchild] THEN rchild ELSE lchild
    IN  /\ status = "down"
        /\ IF ~ Entry(pos) \/ ~ Entry(lchild) \/ ~ Entry(rchild)
           THEN status' = "crashed" /\ UNCHANGED <<list, pos>>
           ELSE IF list[pos] > list[lower]
           THEN list' = Swapped(list, pos, lower) /\ pos' = lower /\ UNCHANGED status
           ELSE status' = "up" /\ UNCHANGED <<list, pos>>
        /\ UNCHANGED <<last, pushed, popped>>

Next ==
    \/ \E e \in Expires : mhp_timer_push(e)
    \/ nhp_timer_pop
    \/ adjust_down

Spec == Init /\ [][Next]_vars

-----------------------------------------------------------------------------
(* Properties.                                                             *)

\* mhp_timer_top.
Top == list[0]

\* Until the first pop the heap holds just what was pushed, no entry expires
\* before its parent, and the top, which the first pop gives, is the earliest of
\* all (c:26-35, c:95-136).
HeapOK ==
    /\ popped = << >> /\ status = "up" =>
        /\ \A e \in Expires :
               pushed[e] = Cardinality({i \in DOMAIN list : list[i] = e})
        /\ \A i \in 1 .. last : list[(i - 1) \div 2] <= list[i]
        /\ \A e \in Expires : pushed[e] > 0 => Top <= e
    /\ Len(popped) = 1 /\ popped[1] # NULL /\ status = "down" =>
        \A e \in Expires : pushed[e] > 0 => popped[1] <= e
=============================================================================

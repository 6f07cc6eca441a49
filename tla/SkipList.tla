-------------------------------- MODULE SkipList --------------------------------
(***************************************************************************)
(* util/skiplist.c: timers in a skip list, ordered by timestamp.           *)
(*                                                                         *)
(* Level 1 here is level[0] of the code.  A node has `height` levels, 0    *)
(* when it is not allocated; the head has all of them.  Any height may     *)
(* come out of random_leve.  skplist_remove keeps the timestamp it looks   *)
(* for in an int: Narrow is that conversion, IntRange the number of ints.  *)
(* The caller removes a node it inserted and has not removed.  The model   *)
(* stops where the code leaves defined behaviour ("crashed") and where a   *)
(* removal takes out another node than its own ("lost").                   *)
(***************************************************************************)
EXTENDS Integers, FiniteSets

CONSTANTS
    Nodes,              \* blocks calloc can return
    head, NULL,
    Times,              \* timestamps
    SKIPLIST_LEVEL_MAX,
    IntRange            \* the ints are taken modulo IntRange

VARIABLES
    height, timestamp,
    next,       \* next[n][i]: n->level[i].next
    level,      \* list->level
    length,     \* list->length
    stored,     \* history: the nodes inserted and not removed
    status      \* "up", "crashed", "lost", "destroyed"

list == <<height, timestamp, next, level, length, stored>>
vars == <<list, status>>

Levels == 1 .. SKIPLIST_LEVEL_MAX
Off == "off"            \* a pointer past the end of the node: not its memory

\* uint64_t to int, and back in the comparison with a uint64_t.
Narrow(ts) ==
    LET v == ts % IntRange
    IN  IF v < IntRange \div 2 THEN v ELSE IntRange * IntRange - IntRange + v

Init ==
    /\ height = [n \in Nodes |-> 0]
    /\ timestamp = [n \in Nodes |-> 0]
    /\ next = [n \in Nodes \cup {head} |-> [i \in Levels |-> IF n = head THEN NULL ELSE Off]]
    /\ level = 0 /\ length = 0
    /\ stored = {} /\ status = "up"

-----------------------------------------------------------------------------
(* The walk: at every level from the top, as far as the nodes are earlier  *)
(* than ts, starting from where the level above ended.                     *)

\* Mutation: the walk goes past the nodes that are not later, too.
Before_OrEqual(n, ts) == timestamp[n] <= ts
Before(n, ts) == timestamp[n] < ts

\* The nodes that have level i.
Reaching(i) == {n \in Nodes \cup {head} : next[n][i] # Off}

Along(i, from, ts) ==
    LET f[n \in Reaching(i)] ==
            LET m == next[n][i] IN IF m # NULL /\ Before(m, ts) THEN f[m] ELSE n
    IN  f[from]

Cursors(ts) ==
    LET c[i \in Levels] == IF i >= level THEN Along(i, head, ts) ELSE Along(i, c[i + 1], ts)
    IN  c

\* Level i is where n would be: its next node there has the timestamp ts.
Meets(ts, i) == LET m == next[Cursors(ts)[i]][i] IN m # NULL /\ timestamp[m] = ts
\* The node after the cursor is looked at without a test for NULL.
RunsOff(ts, i) == next[Cursors(ts)[i]][i] = NULL

-----------------------------------------------------------------------------
(* Operations.                                                             *)

Raise(h) == level' = IF h > level THEN h ELSE level

skplist_insert(n, ts, h) ==
    /\ status = "up" /\ height[n] = 0
    /\ Raise(h)
    /\ LET cur == [i \in Levels |-> IF i > level THEN head ELSE Cursors(ts)[i]] IN
       next' = [m \in Nodes \cup {head} |-> [i \in Levels |->
                   CASE m = n -> IF i <= h THEN next[cur[i]][i] ELSE Off
                     [] m # n /\ i <= h /\ m = cur[i] -> n
                     [] OTHER -> next[m][i]]]
    /\ height' = [height EXCEPT ![n] = h]
    /\ timestamp' = [timestamp EXCEPT ![n] = ts]
    /\ length' = length + 1
    /\ stored' = stored \cup {n}
    /\ UNCHANGED status

\* calloc fails once the level has been raised.
InsertFails(h) ==
    /\ status = "up"
    /\ Raise(h)
    /\ UNCHANGED <<height, timestamp, next, length, stored, status>>

\* Levels at which skplist_remove takes something out.
Cuts(ts) == {i \in 1 .. level : Meets(ts, i)}
RemoveCrashes(n) ==
    LET ts == Narrow(timestamp[n]) IN
    \/ \E i \in 1 .. level : RunsOff(ts, i)
    \/ \E i \in Cuts(ts) : i > height[n]

skplist_remove(n) ==
    /\ status = "up" /\ n \in stored /\ ~ RemoveCrashes(n)
    /\ LET cur == Cursors(Narrow(timestamp[n])) IN
       /\ next' = [m \in Nodes \cup {head} |-> [i \in Levels |->
                      CASE m = n -> Off
                        [] m # n /\ i \in Cuts(Narrow(timestamp[n])) /\ m = cur[i] -> next[n][i]
                        [] OTHER -> next[m][i]]]
       \* A node of that time in front of n goes with it; a timestamp that is
       \* no int leads past n, which is freed where it stands.
       /\ status' = IF \/ Narrow(timestamp[n]) # timestamp[n]
                       \/ \E i \in Cuts(timestamp[n]) : next[cur[i]][i] # n
                    THEN "lost" ELSE "up"
    /\ height' = [height EXCEPT ![n] = 0]
    /\ timestamp' = [timestamp EXCEPT ![n] = 0]
    /\ length' = length - 1
    /\ stored' = stored \ {n}
    /\ UNCHANGED level

\* skplist_find changes nothing: 0 and -1 are its answers.
Find(ts) ==
    LET stops == {i \in 1 .. level : Meets(ts, i) \/ RunsOff(ts, i)}
        first == CHOOSE i \in stops : \A j \in stops : j <= i
    IN  IF length = 0 \/ stops = {} THEN "-1"
        ELSE IF RunsOff(ts, first) THEN "crash" ELSE "0"

Crash ==
    /\ status = "up"
    /\ (\E n \in stored : RemoveCrashes(n)) \/ (\E ts \in Times : Find(ts) = "crash")
    /\ status' = "crashed"
    /\ UNCHANGED list

\* The nodes the bottom level leads to.
Chain(i) ==
    LET f[n \in Reaching(i)] ==
            LET m == next[n][i] IN IF m = NULL THEN {} ELSE {m} \cup f[m]
    IN  f[head]

\* Frees the nodes and the list, not the head; an empty list is left alone.
skplist_destroy ==
    /\ status = "up" /\ next[head][1] # NULL
    /\ height' = [n \in Nodes |-> IF n \in Chain(1) THEN 0 ELSE height[n]]
    /\ status' = "destroyed"
    /\ UNCHANGED <<timestamp, next, level, length, stored>>

Next ==
    \/ \E n \in Nodes, ts \in Times, h \in Levels : skplist_insert(n, ts, h)
    \/ \E h \in Levels : InsertFails(h)
    \/ \E n \in Nodes : skplist_remove(n)
    \/ Crash
    \/ skplist_destroy

Spec == Init /\ [][Next]_vars

-----------------------------------------------------------------------------
(* Properties.                                                             *)

\* While no removal met a twin or a timestamp too wide, every level goes through
\* the stored nodes that reach it, in the order of their timestamps, whatever
\* their heights and however the removals went; nothing leads to a freed node,
\* and a search that ends finds a timestamp just if it is stored (c:64-130).
\* skplist_destroy gives every one of these nodes back (c:44-60).
ListOK ==
    /\ status = "up" =>
        /\ length = Cardinality(stored)
        /\ \A i \in Levels :
               /\ Chain(i) = {n \in stored : height[n] >= i}
               /\ \A n \in Chain(i) :
                      next[n][i] # NULL => timestamp[n] <= timestamp[next[n][i]]
        /\ \A ts \in Times : Find(ts) # "crash" =>
               (Find(ts) = "0" <=> \E n \in stored : timestamp[n] = ts)
    /\ status = "destroyed" => \A n \in stored : height[n] = 0
=============================================================================

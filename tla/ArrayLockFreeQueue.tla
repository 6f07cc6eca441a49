-------------------------- MODULE ArrayLockFreeQueue --------------------------
(***************************************************************************)
(* util/ArrayLockFreeQueue.{h,cpp}: a ring of Q_SIZE slots shared by       *)
(* threads that claim a position with a compare-and-swap on m_writeIndex   *)
(* or m_readIndex and touch the slot afterwards.                           *)
(*                                                                         *)
(* Each access to shared memory is one step.  A call of push or pop goes   *)
(*    load -> (answer false | claim | load again) -> slot -> m_count       *)
(* and the two loads are separate steps: other threads run between them.   *)
(*                                                                         *)
(* The indexes are natural numbers: unsigned long has 64 bits and no run   *)
(* of the program performs 2^64 operations.  m_count does pass below zero, *)
(* so it keeps a width (WORD values).                                      *)
(***************************************************************************)
EXTENDS Integers, Sequences, FiniteSets

CONSTANTS
    Producers,      \* threads that call push
    Consumers,      \* threads that call pop (a thread may do both)
    Q_SIZE,         \* the template parameter
    Items,          \* values of T that are pushed
    Blank,          \* T{}: what the slots hold at first
    WORD,           \* number of values of QUEUE_INT, for m_count
    LoadsReorder,   \* TRUE: the two plain loads may be performed in either order
    MaxIndex        \* bound: calls start only while the indexes are below it

ASSUME QSizeAssumption == Q_SIZE \in Nat /\ Q_SIZE > 1
ASSUME WordAssumption  == WORD \in Nat /\ WORD > 0
ASSUME BoundAssumption == MaxIndex \in Nat
ASSUME OrderAssumption == LoadsReorder \in BOOLEAN

VARIABLES
    dataList, m_count, m_readIndex, m_writeIndex,   \* the object
    pc,             \* where each thread is in its call
    curReadIndex, curWriteIndex, item,              \* locals of push and pop
    tickets         \* history: tickets[k+1] is the item whose push claimed index k

shared == <<dataList, m_count, m_readIndex, m_writeIndex>>
locals == <<pc, curReadIndex, curWriteIndex, item>>
vars   == <<shared, locals, tickets>>

Threads == Producers \cup Consumers
NoIndex == -1       \* a local that has not been loaded yet

calIndex(index) == (index + Q_SIZE) % Q_SIZE

Loaded(t)   == curReadIndex[t] # NoIndex /\ curWriteIndex[t] # NoIndex

\* Mutation: no slot kept free.
SeesFull_NoGap(t) ==
    /\ calIndex(curReadIndex[t]) = calIndex(curWriteIndex[t])
    /\ curReadIndex[t] # curWriteIndex[t]

SeesFull(t) == calIndex(curReadIndex[t]) = calIndex(curWriteIndex[t] + 1)

\* Mutation: the last item counts as none.
SeesEmpty_LastItem(t) == calIndex(curReadIndex[t] + 1) = calIndex(curWriteIndex[t])

SeesEmpty(t) == calIndex(curReadIndex[t]) = calIndex(curWriteIndex[t])

Init ==
    /\ dataList = [i \in 0 .. Q_SIZE - 1 |-> Blank]
    /\ m_count = 0 /\ m_readIndex = 0 /\ m_writeIndex = 0
    /\ pc = [t \in Threads |-> "idle"]
    /\ curReadIndex = [t \in Threads |-> NoIndex]
    /\ curWriteIndex = [t \in Threads |-> NoIndex]
    /\ item = [t \in Threads |-> Blank]
    /\ tickets = << >>

-----------------------------------------------------------------------------
(* Steps that push and pop share.                                          *)

ForgetIndexes(t) ==
    /\ curReadIndex' = [curReadIndex EXCEPT ![t] = NoIndex]
    /\ curWriteIndex' = [curWriteIndex EXCEPT ![t] = NoIndex]

Return(t) ==
    /\ pc' = [pc EXCEPT ![t] = "idle"]
    /\ ForgetIndexes(t)

LoadReadIndex(t) ==
    /\ pc[t] \in {"push_load", "pop_load"}
    /\ curReadIndex[t] = NoIndex
    /\ curReadIndex' = [curReadIndex EXCEPT ![t] = m_readIndex]
    /\ UNCHANGED <<shared, pc, curWriteIndex, item, tickets>>

LoadWriteIndex(t) ==
    /\ pc[t] \in {"push_load", "pop_load"}
    /\ curWriteIndex[t] = NoIndex
    /\ LoadsReorder \/ curReadIndex[t] # NoIndex
    /\ curWriteIndex' = [curWriteIndex EXCEPT ![t] = m_writeIndex]
    /\ UNCHANGED <<shared, pc, curReadIndex, item, tickets>>

-----------------------------------------------------------------------------
(* push                                                                    *)

PushCall(p, x) ==
    /\ pc[p] = "idle"
    /\ m_writeIndex < MaxIndex
    /\ pc' = [pc EXCEPT ![p] = "push_load"]
    /\ item' = [item EXCEPT ![p] = x]
    /\ UNCHANGED <<shared, curReadIndex, curWriteIndex, tickets>>

PushFull(p) ==
    /\ pc[p] = "push_load" /\ Loaded(p) /\ SeesFull(p)
    /\ Return(p)
    /\ UNCHANGED <<shared, item, tickets>>

PushClaim(p) ==
    /\ pc[p] = "push_load" /\ Loaded(p) /\ ~SeesFull(p)
    /\ m_writeIndex = curWriteIndex[p]
    /\ m_writeIndex' = curWriteIndex[p] + 1
    /\ tickets' = Append(tickets, item[p])
    /\ pc' = [pc EXCEPT ![p] = "push_store"]
    /\ UNCHANGED <<dataList, m_count, m_readIndex, curReadIndex, curWriteIndex, item>>

PushRetry(p) ==
    /\ pc[p] = "push_load" /\ Loaded(p) /\ ~SeesFull(p)
    /\ m_writeIndex # curWriteIndex[p]
    /\ ForgetIndexes(p)
    /\ UNCHANGED <<shared, pc, item, tickets>>

\* Mutation: the item goes to the slot after the claimed one.
PushStore_NextSlot(p) ==
    /\ pc[p] = "push_store"
    /\ dataList' = [dataList EXCEPT ![calIndex(curWriteIndex[p] + 1)] = item[p]]
    /\ pc' = [pc EXCEPT ![p] = "push_count"]
    /\ UNCHANGED <<m_count, m_readIndex, m_writeIndex, curReadIndex, curWriteIndex, item, tickets>>

PushStore(p) ==
    /\ pc[p] = "push_store"
    /\ dataList' = [dataList EXCEPT ![calIndex(curWriteIndex[p])] = item[p]]
    /\ pc' = [pc EXCEPT ![p] = "push_count"]
    /\ UNCHANGED <<m_count, m_readIndex, m_writeIndex, curReadIndex, curWriteIndex, item, tickets>>

PushCount(p) ==
    /\ pc[p] = "push_count"
    /\ m_count' = (m_count + 1) % WORD
    /\ Return(p)
    /\ UNCHANGED <<dataList, m_readIndex, m_writeIndex, item, tickets>>

-----------------------------------------------------------------------------
(* pop                                                                     *)

PopCall(c) ==
    /\ pc[c] = "idle"
    /\ m_readIndex <= MaxIndex + Cardinality(Producers)
    /\ pc' = [pc EXCEPT ![c] = "pop_load"]
    /\ UNCHANGED <<shared, curReadIndex, curWriteIndex, item, tickets>>

PopEmpty(c) ==
    /\ pc[c] = "pop_load" /\ Loaded(c) /\ SeesEmpty(c)
    /\ Return(c)
    /\ UNCHANGED <<shared, item, tickets>>

\* Mutation: fetch-and-add in place of the compare-and-swap.
PopClaim_FetchAdd(c) ==
    /\ pc[c] = "pop_load" /\ Loaded(c) /\ ~SeesEmpty(c)
    /\ m_readIndex' = m_readIndex + 1
    /\ pc' = [pc EXCEPT ![c] = "pop_read"]
    /\ UNCHANGED <<dataList, m_count, m_writeIndex, curReadIndex, curWriteIndex, item, tickets>>

PopClaim(c) ==
    /\ pc[c] = "pop_load" /\ Loaded(c) /\ ~SeesEmpty(c)
    /\ m_readIndex = curReadIndex[c]
    /\ m_readIndex' = curReadIndex[c] + 1
    /\ pc' = [pc EXCEPT ![c] = "pop_read"]
    /\ UNCHANGED <<dataList, m_count, m_writeIndex, curReadIndex, curWriteIndex, item, tickets>>

PopRetry(c) ==
    /\ pc[c] = "pop_load" /\ Loaded(c) /\ ~SeesEmpty(c)
    /\ m_readIndex # curReadIndex[c]
    /\ ForgetIndexes(c)
    /\ UNCHANGED <<shared, pc, item, tickets>>

PopRead(c) ==
    /\ pc[c] = "pop_read"
    /\ item' = [item EXCEPT ![c] = dataList[calIndex(curReadIndex[c])]]
    /\ pc' = [pc EXCEPT ![c] = "pop_count"]
    /\ UNCHANGED <<shared, curReadIndex, curWriteIndex, tickets>>

\* Mutations: a counter without a width; the decrement is missing.
PopCount_Signed(c) ==
    /\ pc[c] = "pop_count"
    /\ m_count' = m_count - 1
    /\ Return(c)
    /\ UNCHANGED <<dataList, m_readIndex, m_writeIndex, item, tickets>>
PopCount_Missing(c) ==
    /\ pc[c] = "pop_count"
    /\ Return(c)
    /\ UNCHANGED <<shared, item, tickets>>

PopCount(c) ==
    /\ pc[c] = "pop_count"
    /\ m_count' = (m_count - 1) % WORD
    /\ Return(c)
    /\ UNCHANGED <<dataList, m_readIndex, m_writeIndex, item, tickets>>

-----------------------------------------------------------------------------
Load(t) == LoadReadIndex(t) \/ LoadWriteIndex(t)

PushStep(p) ==
    PushFull(p) \/ PushClaim(p) \/ PushRetry(p) \/ PushStore(p) \/ PushCount(p)

PopStep(c) ==
    PopEmpty(c) \/ PopClaim(c) \/ PopRetry(c) \/ PopRead(c) \/ PopCount(c)

Next ==
    \/ \E t \in Threads : Load(t)
    \/ \E p \in Producers : (\E x \in Items : PushCall(p, x)) \/ PushStep(p)
    \/ \E c \in Consumers : PopCall(c) \/ PopStep(c)

Spec == Init /\ [][Next]_vars

(* The scheduler runs every thread that is inside a call, and each consumer
   keeps calling pop; nobody has to call push. *)
Fairness ==
    /\ \A t \in Threads : WF_vars(Load(t))
    /\ \A p \in Producers : WF_vars(PushStep(p))
    /\ \A c \in Consumers : WF_vars(PopCall(c) \/ PopStep(c))

LiveSpec == Spec /\ Fairness

-----------------------------------------------------------------------------
(* Properties.                                                             *)

\* The item of index k has reached its slot: its claimer has left push_store.
Stored(k) ==
    /\ k < m_writeIndex
    /\ \A p \in Producers : ~(pc[p] = "push_store" /\ curWriteIndex[p] = k)

\* Slot of index k holds what the push that claimed k stored.
Holds(k) == dataList[calIndex(k)] = tickets[k + 1]

\* Every variable has its type and every local is loaded when the code uses it.
TypeOK ==
    /\ dataList \in [0 .. Q_SIZE - 1 -> Items \cup {Blank}]
    /\ m_count \in 0 .. WORD - 1
    /\ m_readIndex \in Nat /\ m_writeIndex \in Nat
    /\ pc \in [Threads -> {"idle", "push_load", "push_store", "push_count",
                           "pop_load", "pop_read", "pop_count"}]
    /\ curReadIndex \in [Threads -> Nat \cup {NoIndex}]
    /\ curWriteIndex \in [Threads -> Nat \cup {NoIndex}]
    /\ item \in [Threads -> Items \cup {Blank}]
    /\ tickets \in Seq(Items \cup {Blank}) /\ Len(tickets) = m_writeIndex
    /\ \A t \in Threads :
          pc[t] \in {"push_store", "push_count", "pop_read", "pop_count"} => Loaded(t)

\* The full and the empty test (cpp:37, cpp:56), made on two indexes that were
\* loaded at different moments, never let the writers get Q_SIZE ahead of the
\* readers nor the readers overtake the writers.
IndexBound ==
    /\ m_readIndex <= m_writeIndex
    /\ m_writeIndex - m_readIndex < Q_SIZE

\* No push overwrites an item that was stored and that no pop has claimed (cpp:42).
UnclaimedItemsIntact ==
    \A k \in m_readIndex .. m_writeIndex - 1 : Stored(k) => Holds(k)

\* The slot that the full test keeps free (cpp:37) protects the pop that claimed
\* last: the writer does not reuse its slot between cpp:59 and cpp:61, however
\* many consumers there are.  An older claim of another consumer may be lapped.
ClaimedItemsIntact ==
    \A c \in Consumers :
        /\ pc[c] = "pop_read" /\ curReadIndex[c] = m_readIndex - 1
        /\ Stored(curReadIndex[c])
        => Holds(curReadIndex[c])

Inside(pcs) == Cardinality({t \in Threads : pc[t] \in pcs})

\* size() (cpp:69) counts the claimed indexes, less the calls that have claimed
\* and not yet counted; it is exact whenever no call is in progress.
CountAccounting ==
    m_count = (m_writeIndex - Inside({"push_store", "push_count"})
               - m_readIndex + Inside({"pop_read", "pop_count"})) % WORD

\* A consumer that keeps calling pop takes every item in the end, however the
\* stale loads and the failed CASes of cpp:53-59 fall.
EveryItemTaken ==
    \A k \in 0 .. MaxIndex - 1 : (m_writeIndex > k) ~> (m_readIndex > k)

-----------------------------------------------------------------------------
(* The indexes claimed and not yet taken are a bounded FIFO queue.         *)

Fifo == INSTANCE BoundedFifo WITH
            Capacity <- Q_SIZE - 1,
            Values   <- Items \cup {Blank},
            q        <- SubSeq(tickets, m_readIndex + 1, m_writeIndex)

\* Every claim is one Enqueue or one Dequeue of a bounded FIFO, everything else
\* leaves it alone: push and pop take effect at their CAS (cpp:40, cpp:59).
ImplementsFifo == Fifo!Spec
=============================================================================

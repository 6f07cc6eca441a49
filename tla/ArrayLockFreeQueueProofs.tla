---------------------- MODULE ArrayLockFreeQueueProofs ----------------------
(***************************************************************************)
(* Theorems about ArrayLockFreeQueue, for every ring size, every set of    *)
(* items and threads (one producer where the assumption OneProducer is     *)
(* stated) and every bound MaxIndex.                                       *)
(***************************************************************************)
EXTENDS ArrayLockFreeQueue, SequenceTheorems, FiniteSetTheorems, TLAPS

(***************************************************************************)
(* Slot arithmetic: a position is a remainder modulo Q_SIZE.               *)
(***************************************************************************)

\* The division theorem, stated for the prover.
LEMMA DivMod ==
  ASSUME NEW Q \in Nat \ {0}, NEW k \in Nat
  PROVE  /\ k % Q \in 0 .. Q - 1
         /\ k \div Q \in Nat
         /\ k = Q * (k \div Q) + (k % Q)
OBVIOUS

LEMMA DivModInt ==
  ASSUME NEW Q \in Nat \ {0}, NEW k \in Int
  PROVE  /\ k % Q \in 0 .. Q - 1
         /\ k \div Q \in Int
         /\ k = Q * (k \div Q) + (k % Q)
OBVIOUS

\* Quotient and remainder are unique.
LEMMA DivisionUnique ==
  ASSUME NEW Q \in Nat \ {0}, NEW a \in Int, NEW b \in Int,
         NEW r \in 0 .. Q - 1, NEW s \in 0 .. Q - 1,
         Q * a + r = Q * b + s
  PROVE  a = b /\ r = s
<1>1. a < b => Q * (b - a) >= Q
  OBVIOUS
<1>2. b < a => Q * (a - b) >= Q
  OBVIOUS
<1>3. Q * (b - a) = r - s /\ Q * (a - b) = s - r
  OBVIOUS
<1> QED
  BY <1>1, <1>2, <1>3

\* Going once round the ring leads to the same slot.
LEMMA ModShift ==
  ASSUME NEW Q \in Nat \ {0}, NEW k \in Nat
  PROVE  (k + Q) % Q = k % Q
<1> DEFINE r == k % Q
           d == k \div Q
           s == (k + Q) % Q
           e == (k + Q) \div Q
<1>1. r \in 0 .. Q - 1 /\ d \in Nat /\ k = Q * d + r
  BY DivMod
<1>2. s \in 0 .. Q - 1 /\ e \in Nat /\ k + Q = Q * e + s
  BY DivMod, k + Q \in Nat
<1> HIDE DEF r, d, s, e
<1>3. Q * (d + 1) + r = Q * e + s
  BY <1>1, <1>2
<1>4. r = s
  BY <1>1, <1>2, <1>3, DivisionUnique, d + 1 \in Int
<1> QED
  BY <1>4 DEF r, s

\* Two positions less than a ring apart have different slots.
LEMMA ModInjective ==
  ASSUME NEW Q \in Nat \ {0}, NEW j \in Nat, NEW k \in Nat,
         j <= k, k - j < Q, j % Q = k % Q
  PROVE  j = k
<1> DEFINE r == k % Q
           d == k \div Q
           e == j \div Q
<1>1. r \in 0 .. Q - 1 /\ d \in Nat /\ k = Q * d + r
  BY DivMod
<1>2. e \in Nat /\ j = Q * e + r
  BY DivMod
<1> HIDE DEF r, d, e
<1>3. Q * (d - e) = k - j
  BY <1>1, <1>2
<1>4. d > e => Q * (d - e) >= Q
  BY <1>1, <1>2
<1>5. d < e => Q * (d - e) < 0
  BY <1>1, <1>2
<1>6. d = e
  BY <1>1, <1>2, <1>3, <1>4, <1>5
<1> QED
  BY <1>1, <1>2, <1>6

\* What the proofs use of calIndex (cpp:17-19).
LEMMA CalIndex ==
  ASSUME NEW k \in Nat
  PROVE  /\ calIndex(k) \in 0 .. Q_SIZE - 1
         /\ calIndex(k + Q_SIZE) = calIndex(k)
<1>1. Q_SIZE \in Nat \ {0} /\ k + Q_SIZE \in Nat
  BY QSizeAssumption
<1>2. calIndex(k) = k % Q_SIZE /\ calIndex(k + Q_SIZE) = (k + Q_SIZE) % Q_SIZE
  BY <1>1, ModShift DEF calIndex
<1> QED
  BY <1>1, <1>2, ModShift, DivMod

LEMMA CalIndexInjective ==
  ASSUME NEW j \in Nat, NEW k \in Nat,
         j - k < Q_SIZE, k - j < Q_SIZE, calIndex(j) = calIndex(k)
  PROVE  j = k
<1>1. Q_SIZE \in Nat \ {0}
  BY QSizeAssumption
<1>2. j % Q_SIZE = k % Q_SIZE
  BY <1>1, ModShift DEF calIndex
<1>3. CASE j <= k
  BY <1>1, <1>2, <1>3, ModInjective
<1>4. CASE k <= j
  BY <1>1, <1>2, <1>4, ModInjective
<1> QED
  BY <1>3, <1>4

-----------------------------------------------------------------------------
(* Types.                                                                  *)

\* Every variable keeps its type, with any number of producers and consumers.
THEOREM TypeCorrect == Spec => []TypeOK
<1> USE DEF Threads, NoIndex, Loaded
<1>1. Init => TypeOK
  BY QSizeAssumption, WordAssumption DEF Init, TypeOK
<1>2. TypeOK /\ [Next]_vars => TypeOK'
  <2> SUFFICES ASSUME TypeOK, [Next]_vars
               PROVE  TypeOK'
    OBVIOUS
  <2> USE DEF TypeOK
  <2>1. ASSUME NEW t \in Threads, LoadReadIndex(t)
        PROVE  TypeOK'
    BY <2>1 DEF LoadReadIndex, shared
  <2>2. ASSUME NEW t \in Threads, LoadWriteIndex(t)
        PROVE  TypeOK'
    BY <2>2 DEF LoadWriteIndex, shared
  <2>3. ASSUME NEW p \in Producers, NEW x \in Items, PushCall(p, x)
        PROVE  TypeOK'
    BY <2>3 DEF PushCall, shared
  <2>4. ASSUME NEW t \in Threads, PushFull(t) \/ PopEmpty(t)
        PROVE  TypeOK'
    BY <2>4 DEF PushFull, PopEmpty, Return, ForgetIndexes, shared
  <2>5. ASSUME NEW p \in Producers, PushClaim(p)
        PROVE  TypeOK'
    BY <2>5 DEF PushClaim
  <2>6. ASSUME NEW t \in Threads, PushRetry(t) \/ PopRetry(t)
        PROVE  TypeOK'
    BY <2>6 DEF PushRetry, PopRetry, ForgetIndexes, shared
  <2>7. ASSUME NEW p \in Producers, PushStore(p)
        PROVE  TypeOK'
    BY <2>7, CalIndex DEF PushStore
  <2>8. ASSUME NEW t \in Threads, PushCount(t) \/ PopCount(t)
        PROVE  TypeOK'
    <3>1. m_count' \in 0 .. WORD - 1
      BY <2>8, WordAssumption DEF PushCount, PopCount
    <3> QED
      BY <2>8, <3>1 DEF PushCount, PopCount, Return, ForgetIndexes
  <2>9. ASSUME NEW c \in Consumers, PopCall(c)
        PROVE  TypeOK'
    BY <2>9 DEF PopCall, shared
  <2>10. ASSUME NEW c \in Consumers, PopClaim(c)
         PROVE  TypeOK'
    BY <2>10 DEF PopClaim
  <2>11. ASSUME NEW c \in Consumers, PopRead(c)
         PROVE  TypeOK'
    <3>1. dataList[calIndex(curReadIndex[c])] \in Items \cup {Blank}
      BY <2>11, CalIndex DEF PopRead
    <3> QED
      BY <2>11, <3>1 DEF PopRead, shared
  <2>12. CASE UNCHANGED vars
    BY <2>12 DEF vars, shared, locals
  <2> QED
    BY <2>1, <2>2, <2>3, <2>4, <2>5, <2>6, <2>7, <2>8, <2>9, <2>10, <2>11, <2>12
       DEF Next, Load, PushStep, PopStep
<1> QED
  BY <1>1, <1>2, PTL DEF Spec

-----------------------------------------------------------------------------
(* One producer: the indexes stay within a ring of each other.             *)

\* At most one thread pushes.
OneProducer == \A p, q \in Producers : p = q

\* What the locals of a call say about the indexes.  The bound of IndexBound
\* alone is not inductive: it needs that the read index a push loaded is no
\* newer than m_readIndex, and its write index is m_writeIndex itself.
LocalsLag ==
    \A t \in Threads :
        /\ curReadIndex[t] <= m_readIndex
        /\ curWriteIndex[t] <= m_writeIndex
        /\ pc[t] = "idle" => curReadIndex[t] = NoIndex /\ curWriteIndex[t] = NoIndex
        /\ pc[t] \in {"push_load", "pop_load"} /\ curWriteIndex[t] # NoIndex
              => curReadIndex[t] # NoIndex /\ curReadIndex[t] <= curWriteIndex[t]

PushSeesOwnIndex ==
    \A p \in Producers :
        pc[p] = "push_load" =>
            /\ curWriteIndex[p] \in {NoIndex, m_writeIndex}
            /\ curReadIndex[p] # NoIndex => m_writeIndex - curReadIndex[p] < Q_SIZE

IndexInv == IndexBound /\ LocalsLag /\ PushSeesOwnIndex

\* The tests of cpp:37 and cpp:56, made on stale indexes, are safe with one
\* producer and any number of consumers when the loads keep program order.
THEOREM IndexInvariant ==
  ASSUME OneProducer, LoadsReorder = FALSE
  PROVE  Spec => []IndexInv
<1> USE DEF Threads, NoIndex, Loaded, IndexInv, IndexBound, LocalsLag, PushSeesOwnIndex
<1>1. Init => IndexInv
  BY QSizeAssumption DEF Init
<1>2. TypeOK /\ IndexInv /\ [Next]_vars => IndexInv'
  <2> SUFFICES ASSUME TypeOK, IndexInv, [Next]_vars
               PROVE  IndexInv'
    OBVIOUS
  <2> USE QSizeAssumption DEF TypeOK
  <2>1. ASSUME NEW t \in Threads, LoadReadIndex(t)
        PROVE  IndexInv'
    BY <2>1 DEF LoadReadIndex, shared
  <2>2. ASSUME NEW t \in Threads, LoadWriteIndex(t)
        PROVE  IndexInv'
    BY <2>2 DEF LoadWriteIndex, shared
  <2>3. ASSUME NEW p \in Producers, NEW x \in Items, PushCall(p, x)
        PROVE  IndexInv'
    BY <2>3 DEF PushCall, shared
  <2>4. ASSUME NEW t \in Threads,
               PushFull(t) \/ PopEmpty(t) \/ PushCount(t) \/ PopCount(t)
        PROVE  IndexInv'
    <3>1. /\ pc' = [pc EXCEPT ![t] = "idle"]
          /\ ForgetIndexes(t)
          /\ m_readIndex' = m_readIndex /\ m_writeIndex' = m_writeIndex
      BY <2>4 DEF PushFull, PopEmpty, PushCount, PopCount, Return, shared
    <3>2. LocalsLag'
      BY <3>1 DEF ForgetIndexes
    <3>3. PushSeesOwnIndex'
      BY <3>1 DEF ForgetIndexes
    <3> QED
      BY <3>1, <3>2, <3>3
  <2>5. ASSUME NEW p \in Producers, PushClaim(p)
        PROVE  IndexInv'
    <3>1. m_writeIndex + 1 - curReadIndex[p] < Q_SIZE
      <4>1. m_writeIndex - curReadIndex[p] < Q_SIZE /\ curReadIndex[p] \in Nat
        BY <2>5 DEF PushClaim
      <4>2. m_writeIndex + 1 # curReadIndex[p] + Q_SIZE
        BY <2>5, <4>1, CalIndex DEF PushClaim, SeesFull
      <4> QED
        BY <4>1, <4>2
    <3>2. \A q \in Producers : pc'[q] # "push_load"
      BY <2>5 DEF PushClaim, OneProducer
    <3>3. curReadIndex[p] <= m_readIndex
      OBVIOUS
    <3>4. IndexBound'
      BY <2>5, <3>1, <3>3 DEF PushClaim
    <3>5. LocalsLag'
      BY <2>5 DEF PushClaim
    <3>6. PushSeesOwnIndex'
      BY <3>2
    <3> QED
      BY <3>4, <3>5, <3>6
  <2>6. ASSUME NEW t \in Threads, PushRetry(t) \/ PopRetry(t)
        PROVE  IndexInv'
    <3>1. pc' = pc /\ ForgetIndexes(t)
          /\ m_readIndex' = m_readIndex /\ m_writeIndex' = m_writeIndex
      BY <2>6 DEF PushRetry, PopRetry, shared
    <3>2. pc[t] # "idle"
      BY <2>6 DEF PushRetry, PopRetry
    <3>3. LocalsLag'
      BY <3>1, <3>2 DEF ForgetIndexes
    <3>4. PushSeesOwnIndex'
      BY <3>1 DEF ForgetIndexes
    <3> QED
      BY <3>1, <3>3, <3>4
  <2>7. ASSUME NEW p \in Producers, PushStore(p)
        PROVE  IndexInv'
    BY <2>7 DEF PushStore
  <2>8. ASSUME NEW c \in Consumers, PopCall(c)
        PROVE  IndexInv'
    BY <2>8 DEF PopCall, shared
  <2>9. ASSUME NEW c \in Consumers, PopClaim(c)
         PROVE  IndexInv'
    <3>1. m_readIndex < m_writeIndex
      BY <2>9 DEF PopClaim, SeesEmpty
    <3> QED
      BY <2>9, <3>1 DEF PopClaim
  <2>10. ASSUME NEW c \in Consumers, PopRead(c)
         PROVE  IndexInv'
    BY <2>10 DEF PopRead, shared
  <2>11. CASE UNCHANGED vars
    BY <2>11 DEF vars, shared, locals
  <2> QED
    BY <2>1, <2>2, <2>3, <2>4, <2>5, <2>6, <2>7, <2>8, <2>9, <2>10, <2>11
       DEF Next, Load, PushStep, PopStep
<1> QED
  BY <1>1, <1>2, TypeCorrect, PTL DEF Spec

\* With one producer a full ring is never overrun and an empty one never popped.
THEOREM OneProducerIndexBound ==
  ASSUME OneProducer, LoadsReorder = FALSE
  PROVE  Spec => []IndexBound
<1>1. IndexInv => IndexBound
  BY DEF IndexInv
<1> QED
  BY <1>1, IndexInvariant, PTL

-----------------------------------------------------------------------------
(* One producer: slots.                                                    *)

\* The producer is still at the index it claimed last.
PushHoldsNewest ==
    \A p \in Producers :
        pc[p] = "push_store" =>
            /\ curWriteIndex[p] = m_writeIndex - 1
            /\ item[p] = tickets[m_writeIndex]

SlotInv == PushHoldsNewest /\ UnclaimedItemsIntact

\* A store never destroys an item that waits in the ring (cpp:42).
THEOREM SlotInvariant ==
  ASSUME OneProducer, LoadsReorder = FALSE
  PROVE  Spec => []SlotInv
<1> USE DEF Threads, SlotInv, PushHoldsNewest, UnclaimedItemsIntact, Stored, Holds
<1>1. Init => SlotInv
  BY DEF Init
<1>2. TypeOK /\ IndexInv /\ SlotInv /\ [Next]_vars => SlotInv'
  <2> SUFFICES ASSUME TypeOK, IndexInv, SlotInv, [Next]_vars
               PROVE  SlotInv'
    OBVIOUS
  <2>0. /\ m_readIndex \in Nat /\ m_writeIndex \in Nat
        /\ m_readIndex <= m_writeIndex /\ m_writeIndex - m_readIndex < Q_SIZE
    BY DEF TypeOK, IndexInv, IndexBound
  <2>1. ASSUME NEW p \in Producers, PushClaim(p)
        PROVE  SlotInv'
    <3>1. /\ m_writeIndex' = m_writeIndex + 1 /\ m_readIndex' = m_readIndex
          /\ dataList' = dataList /\ item' = item /\ curWriteIndex' = curWriteIndex
          /\ pc' = [pc EXCEPT ![p] = "push_store"]
          /\ curWriteIndex[p] = m_writeIndex
          /\ pc[p] = "push_load"
      BY <2>1 DEF PushClaim, TypeOK
    <3>2. /\ \A k \in 1 .. m_writeIndex : tickets'[k] = tickets[k]
          /\ tickets'[m_writeIndex + 1] = item[p]
      BY <2>1 DEF PushClaim, TypeOK
    <3>3. pc'[p] = "push_store" /\ \A q \in Producers : q = p
      BY <3>1 DEF TypeOK, OneProducer
    <3>4. PushHoldsNewest'
      BY <2>0, <3>1, <3>2, <3>3
    <3>5. UnclaimedItemsIntact'
      <4> SUFFICES ASSUME NEW k \in m_readIndex .. m_writeIndex, Stored(k)'
                   PROVE  dataList[calIndex(k)] = tickets'[k + 1]
        BY <2>0, <3>1
      <4>1. k # m_writeIndex
        BY <3>1, <3>3
      <4>2. k \in m_readIndex .. m_writeIndex - 1 /\ k + 1 \in 1 .. m_writeIndex
        BY <2>0, <4>1
      <4>3. Stored(k)
        BY <3>1, <3>3, <4>2, <2>0
      <4> QED
        BY <3>2, <4>2, <4>3
    <3> QED
      BY <3>4, <3>5
  <2>2. ASSUME NEW p \in Producers, PushStore(p)
        PROVE  SlotInv'
    <3>1. /\ m_writeIndex' = m_writeIndex /\ m_readIndex' = m_readIndex
          /\ tickets' = tickets /\ item' = item /\ curWriteIndex' = curWriteIndex
          /\ pc' = [pc EXCEPT ![p] = "push_count"]
          /\ curWriteIndex[p] = m_writeIndex - 1 /\ curWriteIndex[p] \in Nat
          /\ item[p] = tickets[m_writeIndex]
      BY <2>2 DEF PushStore, TypeOK, Loaded
    <3>2. dataList' = [dataList EXCEPT ![calIndex(m_writeIndex - 1)] = tickets[m_writeIndex]]
      BY <2>2, <3>1 DEF PushStore
    <3>3. \A q \in Producers : q = p
      BY DEF OneProducer
    <3>4. PushHoldsNewest'
      BY <3>1, <3>3 DEF TypeOK
    <3>5. UnclaimedItemsIntact'
      <4> SUFFICES ASSUME NEW k \in m_readIndex .. m_writeIndex - 1
                   PROVE  dataList'[calIndex(k)] = tickets[k + 1]
        BY <3>1
      <4>0. k \in Nat /\ calIndex(k) \in 0 .. Q_SIZE - 1
        BY <2>0, CalIndex
      <4>1. CASE k = m_writeIndex - 1
        <5>1. dataList'[calIndex(k)] = tickets[m_writeIndex]
          BY <3>2, <4>0, <4>1 DEF TypeOK
        <5>2. k + 1 = m_writeIndex
          BY <2>0, <4>1
        <5> QED
          BY <5>1, <5>2
      <4>2. CASE k # m_writeIndex - 1
        <5>1. Stored(k)
          BY <2>0, <3>1, <3>3, <4>2
        <5>2. calIndex(k) # calIndex(m_writeIndex - 1)
          <6>1. /\ m_writeIndex - 1 \in Nat
                /\ k - (m_writeIndex - 1) < Q_SIZE /\ (m_writeIndex - 1) - k < Q_SIZE
            BY <2>0, <3>1, <4>0, QSizeAssumption
          <6> QED
            BY <4>0, <4>2, <6>1, CalIndexInjective
        <5>3. dataList'[calIndex(k)] = dataList[calIndex(k)]
          BY <3>2, <4>0, <5>2 DEF TypeOK
        <5> QED
          BY <5>1, <5>3
      <4> QED
        BY <4>1, <4>2
    <3> QED
      BY <3>4, <3>5
  <2>3. ASSUME NEW t \in Threads,
               \/ \E x \in Items : PushCall(t, x)
               \/ PushFull(t) \/ PushRetry(t) \/ PushCount(t)
               \/ Load(t) \/ PopCall(t) \/ PopEmpty(t) \/ PopRetry(t) \/ PopRead(t) \/ PopCount(t)
        PROVE  SlotInv'
    <3>1. /\ m_writeIndex' = m_writeIndex /\ m_readIndex' = m_readIndex
          /\ tickets' = tickets /\ dataList' = dataList
      BY <2>3 DEF PushCall, PushFull, PushRetry, PushCount, Load, LoadReadIndex, LoadWriteIndex,
                  PopCall, PopEmpty, PopRetry, PopRead, PopCount, shared
    <3>2. \A u \in Threads : pc[u] = "push_store" <=> pc'[u] = "push_store"
      BY <2>3 DEF PushCall, PushFull, PushRetry, PushCount, Load, LoadReadIndex, LoadWriteIndex,
                  PopCall, PopEmpty, PopRetry, PopRead, PopCount, Return, TypeOK
    <3>3. \A u \in Threads : pc[u] = "push_store" =>
              curWriteIndex'[u] = curWriteIndex[u] /\ item'[u] = item[u]
      BY <2>3 DEF PushCall, PushFull, PushRetry, PushCount, Load, LoadReadIndex, LoadWriteIndex,
                  PopCall, PopEmpty, PopRetry, PopRead, PopCount, Return, ForgetIndexes, TypeOK
    <3> QED
      BY <3>1, <3>2, <3>3
  <2>4. ASSUME NEW c \in Consumers, PopClaim(c)
        PROVE  SlotInv'
    <3>1. /\ m_writeIndex' = m_writeIndex /\ m_readIndex' = m_readIndex + 1
          /\ tickets' = tickets /\ dataList' = dataList
          /\ item' = item /\ curWriteIndex' = curWriteIndex
      BY <2>4 DEF PopClaim
    <3>2. \A u \in Threads : pc[u] = "push_store" <=> pc'[u] = "push_store"
      BY <2>4 DEF PopClaim, TypeOK
    <3> QED
      BY <2>0, <3>1, <3>2
  <2>5. CASE UNCHANGED vars
    BY <2>5 DEF vars, shared, locals
  <2> QED
    BY <2>1, <2>2, <2>3, <2>4, <2>5 DEF Next, PushStep, PopStep
<1> QED
  BY <1>1, <1>2, TypeCorrect, IndexInvariant, PTL DEF Spec

\* One producer: no stored item is overwritten before a pop claims it (cpp:42).
THEOREM OneProducerItemsIntact ==
  ASSUME OneProducer, LoadsReorder = FALSE
  PROVE  Spec => []UnclaimedItemsIntact
<1>1. SlotInv => UnclaimedItemsIntact
  BY DEF SlotInv
<1> QED
  BY <1>1, SlotInvariant, PTL

-----------------------------------------------------------------------------
(* One producer: the slot claimed last is not reused.                      *)

\* The newest claimed index, whose slot is the one that the full test keeps free.
\* The consumer that claimed it does not appear: if it is slow, the slot is as
\* safe as before.
GapIntact == m_readIndex > 0 /\ Stored(m_readIndex - 1) => Holds(m_readIndex - 1)

\* Claiming an index takes the oldest waiting item, which is intact, into the
\* gap; the next push but one would be the first to reach it, and sees a full ring.
THEOREM GapInvariant ==
  ASSUME OneProducer, LoadsReorder = FALSE
  PROVE  Spec => []GapIntact
<1> USE DEF Threads, GapIntact, Stored, Holds
<1>1. Init => GapIntact
  BY DEF Init
<1>2. TypeOK /\ IndexInv /\ SlotInv /\ GapIntact /\ [Next]_vars => GapIntact'
  <2> SUFFICES ASSUME TypeOK, IndexInv, SlotInv, GapIntact, [Next]_vars
               PROVE  GapIntact'
    OBVIOUS
  <2>0. /\ m_readIndex \in Nat /\ m_writeIndex \in Nat
        /\ m_readIndex <= m_writeIndex /\ m_writeIndex - m_readIndex < Q_SIZE
    BY DEF TypeOK, IndexInv, IndexBound
  <2>1. ASSUME NEW c \in Consumers, PopClaim(c)
        PROVE  GapIntact'
    <3>1. /\ m_writeIndex' = m_writeIndex /\ m_readIndex' = m_readIndex + 1
          /\ tickets' = tickets /\ dataList' = dataList
          /\ curWriteIndex' = curWriteIndex
          /\ pc' = [pc EXCEPT ![c] = "pop_read"] /\ pc[c] = "pop_load"
      BY <2>1 DEF PopClaim
    <3>2. m_readIndex < m_writeIndex
      BY <2>1, <2>0 DEF PopClaim, SeesEmpty, IndexInv, LocalsLag, Loaded, TypeOK, NoIndex
    <3>3. ASSUME Stored(m_readIndex - 1)'
          PROVE  Holds(m_readIndex)
      <4>1. ASSUME NEW p \in Producers, pc[p] = "push_store", curWriteIndex[p] = m_readIndex
            PROVE  FALSE
        <5>1. pc'[p] = "push_store"
          BY <3>1, <4>1 DEF TypeOK
        <5>2. curWriteIndex'[p] = m_readIndex'- 1
          BY <2>0, <3>1, <4>1
        <5> QED
          BY <2>0, <3>1, <3>3, <5>1, <5>2
      <4> QED
        BY <2>0, <3>2, <4>1 DEF SlotInv, UnclaimedItemsIntact
    <3>4. m_readIndex' - 1 = m_readIndex
      BY <2>0, <3>1
    <3> QED
      BY <2>0, <3>1, <3>2, <3>3, <3>4
  <2>2. ASSUME NEW p \in Producers, PushClaim(p)
        PROVE  GapIntact'
    <3>1. /\ m_writeIndex' = m_writeIndex + 1 /\ m_readIndex' = m_readIndex
          /\ dataList' = dataList
          /\ curWriteIndex' = curWriteIndex /\ curWriteIndex[p] = m_writeIndex
          /\ pc' = [pc EXCEPT ![p] = "push_store"] /\ pc[p] = "push_load"
      BY <2>2 DEF PushClaim
    <3>2. \A k \in 1 .. m_writeIndex : tickets'[k] = tickets[k]
      BY <2>2 DEF PushClaim, TypeOK
    <3>3. \A q \in Producers : q = p
      BY DEF OneProducer
    <3>4. m_readIndex > 0 /\ Stored(m_readIndex - 1)' => Stored(m_readIndex - 1)
      BY <2>0, <3>1, <3>3
    <3> QED
      BY <2>0, <3>1, <3>2, <3>4
  <2>3. ASSUME NEW p \in Producers, PushStore(p)
        PROVE  GapIntact'
    <3>1. /\ m_writeIndex' = m_writeIndex /\ m_readIndex' = m_readIndex
          /\ tickets' = tickets /\ curWriteIndex' = curWriteIndex
          /\ pc' = [pc EXCEPT ![p] = "push_count"]
          /\ curWriteIndex[p] = m_writeIndex - 1 /\ curWriteIndex[p] \in Nat
          /\ item[p] = tickets[m_writeIndex]
      BY <2>3 DEF PushStore, TypeOK, Loaded, NoIndex, SlotInv, PushHoldsNewest
    <3>2. dataList' = [dataList EXCEPT ![calIndex(m_writeIndex - 1)] = tickets[m_writeIndex]]
      BY <2>3, <3>1 DEF PushStore
    <3>3. \A q \in Producers : q = p
      BY DEF OneProducer
    <3> DEFINE k == m_readIndex - 1
    <3> SUFFICES ASSUME m_readIndex > 0
                 PROVE  dataList'[calIndex(k)] = tickets[k + 1]
      BY <3>1
    <3>4. k \in Nat /\ calIndex(k) \in 0 .. Q_SIZE - 1
      BY <2>0, CalIndex
    <3>5. CASE k = m_writeIndex - 1
      <4>1. dataList'[calIndex(k)] = tickets[m_writeIndex]
        BY <3>2, <3>4, <3>5 DEF TypeOK
      <4> QED
        BY <2>0, <3>5, <4>1
    <3>6. CASE k # m_writeIndex - 1
      <4>1. Stored(k)
        BY <2>0, <3>1, <3>3, <3>6
      <4>2. calIndex(k) # calIndex(m_writeIndex - 1)
        <5>1. /\ m_writeIndex - 1 \in Nat
              /\ k - (m_writeIndex - 1) < Q_SIZE /\ (m_writeIndex - 1) - k < Q_SIZE
          BY <2>0, <3>1, <3>4, QSizeAssumption
        <5> QED
          BY <3>4, <3>6, <5>1, CalIndexInjective
      <4>3. dataList'[calIndex(k)] = dataList[calIndex(k)]
        BY <3>2, <3>4, <4>2 DEF TypeOK
      <4> QED
        BY <4>1, <4>3
    <3> QED
      BY <3>5, <3>6
  <2>4. ASSUME NEW t \in Threads,
               \/ \E x \in Items : PushCall(t, x)
               \/ PushFull(t) \/ PushRetry(t) \/ PushCount(t)
               \/ Load(t) \/ PopCall(t) \/ PopEmpty(t) \/ PopRetry(t) \/ PopRead(t) \/ PopCount(t)
        PROVE  GapIntact'
    <3>1. /\ m_writeIndex' = m_writeIndex /\ m_readIndex' = m_readIndex
          /\ tickets' = tickets /\ dataList' = dataList
      BY <2>4 DEF PushCall, PushFull, PushRetry, PushCount, Load, LoadReadIndex, LoadWriteIndex,
                  PopCall, PopEmpty, PopRetry, PopRead, PopCount, shared
    <3>2. \A u \in Threads : pc[u] = "push_store" <=> pc'[u] = "push_store"
      BY <2>4 DEF PushCall, PushFull, PushRetry, PushCount, Load, LoadReadIndex, LoadWriteIndex,
                  PopCall, PopEmpty, PopRetry, PopRead, PopCount, Return, TypeOK
    <3>3. \A u \in Threads : pc[u] = "push_store" => curWriteIndex'[u] = curWriteIndex[u]
      BY <2>4 DEF PushCall, PushFull, PushRetry, PushCount, Load, LoadReadIndex, LoadWriteIndex,
                  PopCall, PopEmpty, PopRetry, PopRead, PopCount, Return, ForgetIndexes, TypeOK
    <3> QED
      BY <3>1, <3>2, <3>3
  <2>5. CASE UNCHANGED vars
    BY <2>5 DEF vars, shared, locals
  <2> QED
    BY <2>1, <2>2, <2>3, <2>4, <2>5 DEF Next, PushStep, PopStep
<1> QED
  BY <1>1, <1>2, TypeCorrect, IndexInvariant, SlotInvariant, PTL DEF Spec

\* One producer, any number of consumers: the item claimed last survives until
\* its pop has read it (cpp:59-61).
THEOREM LastClaimIntact ==
  ASSUME OneProducer, LoadsReorder = FALSE
  PROVE  Spec => []ClaimedItemsIntact
<1>1. TypeOK /\ GapIntact => ClaimedItemsIntact
  <2> SUFFICES ASSUME TypeOK, GapIntact, NEW c \in Consumers, pc[c] = "pop_read",
                      curReadIndex[c] = m_readIndex - 1, Stored(curReadIndex[c])
               PROVE  Holds(curReadIndex[c])
    BY DEF ClaimedItemsIntact
  <2>1. m_readIndex \in Nat /\ curReadIndex[c] \in Nat
    BY DEF TypeOK, Loaded, Threads, NoIndex
  <2>2. m_readIndex > 0
    BY <2>1
  <2> QED
    BY <2>2 DEF GapIntact
<1> QED
  BY <1>1, TypeCorrect, GapInvariant, PTL

OneConsumer == \A c, d \in Consumers : c = d

\* The consumer still reads the index it claimed last.
PopHoldsNewest ==
    \A c \in Consumers : pc[c] = "pop_read" => curReadIndex[c] = m_readIndex - 1

\* With one consumer every claim is the last one, so that every stored item
\* survives until its pop has read it.
THEOREM SpscItemsIntact ==
  ASSUME OneProducer, OneConsumer, LoadsReorder = FALSE
  PROVE  Spec => [](\A c \in Consumers :
                        pc[c] = "pop_read" /\ Stored(curReadIndex[c]) => Holds(curReadIndex[c]))
<1> USE DEF Threads, PopHoldsNewest
<1>1. Init => PopHoldsNewest
  BY DEF Init
<1>2. TypeOK /\ PopHoldsNewest /\ [Next]_vars => PopHoldsNewest'
  <2> SUFFICES ASSUME TypeOK, PopHoldsNewest, [Next]_vars
               PROVE  PopHoldsNewest'
    OBVIOUS
  <2>1. ASSUME NEW c \in Consumers, PopClaim(c)
        PROVE  PopHoldsNewest'
    <3>1. /\ m_readIndex' = m_readIndex + 1 /\ curReadIndex' = curReadIndex
          /\ curReadIndex[c] = m_readIndex /\ m_readIndex \in Nat
      BY <2>1 DEF PopClaim, TypeOK
    <3>2. \A d \in Consumers : d = c
      BY DEF OneConsumer
    <3> QED
      BY <3>1, <3>2
  <2>2. ASSUME m_readIndex' = m_readIndex,
               \A u \in Threads : pc'[u] = "pop_read" =>
                   pc[u] = "pop_read" /\ curReadIndex'[u] = curReadIndex[u]
        PROVE  PopHoldsNewest'
    BY <2>2
  <2>3. ASSUME NEW t \in Threads,
               \/ \E x \in Items : PushCall(t, x)
               \/ PushFull(t) \/ PushClaim(t) \/ PushRetry(t) \/ PushStore(t) \/ PushCount(t)
               \/ Load(t) \/ PopCall(t) \/ PopEmpty(t) \/ PopRetry(t) \/ PopRead(t) \/ PopCount(t)
        PROVE  PopHoldsNewest'
    <3>1. m_readIndex' = m_readIndex
      BY <2>3 DEF PushCall, PushFull, PushClaim, PushRetry, PushStore, PushCount, Load, LoadReadIndex,
                  LoadWriteIndex, PopCall, PopEmpty, PopRetry, PopRead, PopCount, shared
    <3>2. \A u \in Threads : pc'[u] = "pop_read" =>
              pc[u] = "pop_read" /\ curReadIndex'[u] = curReadIndex[u]
      BY <2>3 DEF PushCall, PushFull, PushClaim, PushRetry, PushStore, PushCount, Load, LoadReadIndex,
                  LoadWriteIndex, PopCall, PopEmpty, PopRetry, PopRead, PopCount, Return, ForgetIndexes, TypeOK
    <3> QED
      BY <2>2, <3>1, <3>2
  <2>4. CASE UNCHANGED vars
    BY <2>4 DEF vars, shared, locals
  <2> QED
    BY <2>1, <2>3, <2>4 DEF Next, PushStep, PopStep
<1>3. PopHoldsNewest /\ ClaimedItemsIntact =>
          \A c \in Consumers :
              pc[c] = "pop_read" /\ Stored(curReadIndex[c]) => Holds(curReadIndex[c])
  BY DEF ClaimedItemsIntact
<1> QED
  BY <1>1, <1>2, <1>3, TypeCorrect, LastClaimIntact, PTL DEF Spec

-----------------------------------------------------------------------------
(* One producer: the claims refine a bounded FIFO queue.                   *)

\* Appending to a sequence appends to its suffixes.
LEMMA SuffixOfAppend ==
  ASSUME NEW S, NEW s \in Seq(S), NEW x \in S, NEW m \in 1 .. Len(s) + 1
  PROVE  SubSeq(Append(s, x), m, Len(s) + 1) = Append(SubSeq(s, m, Len(s)), x)
<1> DEFINE n == Len(s)
           l == SubSeq(Append(s, x), m, n + 1)
           r == SubSeq(s, m, n)
<1>1. /\ n \in Nat /\ m \in 1 .. n + 1
      /\ \A i \in 1 .. n : Append(s, x)[i] = s[i] /\ s[i] \in S
      /\ Append(s, x)[n + 1] = x
  BY AppendProperties, ElementOfSeq, LenProperties
<1>2. \A i \in m .. n + 1 : Append(s, x)[i] \in S
  BY <1>1
<1>3. /\ l \in Seq(S) /\ Len(l) = n + 2 - m
      /\ \A i \in 1 .. n + 2 - m : l[i] = Append(s, x)[m + i - 1]
  BY <1>1, <1>2, SubSeqProperties, n + 1 \in Int
<1>4. /\ r \in Seq(S) /\ Len(r) = n + 1 - m
      /\ \A i \in 1 .. n + 1 - m : r[i] = s[m + i - 1]
  BY <1>1, SubSeqProperties, \A i \in m .. n : s[i] \in S
<1>5. /\ Append(r, x) \in Seq(S) /\ Len(Append(r, x)) = n + 2 - m
      /\ \A i \in 1 .. n + 1 - m : Append(r, x)[i] = r[i]
      /\ Append(r, x)[n + 2 - m] = x
  BY <1>1, <1>4, AppendProperties
<1> HIDE DEF n, l, r
<1>6. ASSUME NEW i \in 1 .. n + 2 - m
      PROVE  l[i] = Append(r, x)[i]
  <2>0. n \in Nat /\ m \in 1 .. n + 1 /\ i \in 1 .. n + 2 - m
    BY <1>1
  <2>1. CASE i = n + 2 - m
    <3>1. m + i - 1 = n + 1
      BY <2>0, <2>1
    <3> QED
      BY <1>1, <1>3, <1>5, <2>1, <3>1
  <2>2. CASE i # n + 2 - m
    <3>1. i \in 1 .. n + 1 - m /\ m + i - 1 \in 1 .. n
      BY <2>0, <2>2
    <3> QED
      BY <1>1, <1>3, <1>4, <1>5, <3>1
  <2> QED
    BY <2>1, <2>2
<1>7. l = Append(r, x)
  BY <1>3, <1>5, <1>6, SeqEqual
<1> QED
  BY <1>7 DEF n, l, r

\* push and pop take effect at their CAS, in the order of the claims.
THEOREM OneProducerFifo ==
  ASSUME OneProducer, LoadsReorder = FALSE
  PROVE  Spec => ImplementsFifo
<1> DEFINE q == SubSeq(tickets, m_readIndex + 1, m_writeIndex)
           T == Items \cup {Blank}
<1>1. Init => Fifo!Init
  BY SubSeqEmpty DEF Init, Fifo!Init
<1>2. TypeOK /\ IndexInv /\ IndexInv' /\ [Next]_vars => [Fifo!Next]_q
  <2> SUFFICES ASSUME TypeOK, IndexInv, IndexInv', [Next]_vars
               PROVE  [Fifo!Next]_q
    OBVIOUS
  <2>0. /\ m_readIndex \in Nat /\ m_writeIndex \in Nat
        /\ m_readIndex <= m_writeIndex /\ m_writeIndex - m_readIndex < Q_SIZE
        /\ tickets \in Seq(T) /\ Len(tickets) = m_writeIndex
        /\ m_writeIndex' - m_readIndex' < Q_SIZE
        /\ m_readIndex' <= m_writeIndex'
    BY DEF TypeOK, IndexInv, IndexBound
  <2>00. Q_SIZE \in Nat
    BY QSizeAssumption
  <2>01. q \in Seq(T) /\ Len(q) = m_writeIndex - m_readIndex
    <3>1. \A i \in m_readIndex + 1 .. m_writeIndex : tickets[i] \in T
      BY <2>0, ElementOfSeq
    <3>2. /\ q \in Seq(T)
          /\ Len(q) = IF m_readIndex + 1 <= m_writeIndex THEN m_writeIndex - (m_readIndex + 1) + 1 ELSE 0
      BY <2>0, <3>1, SubSeqProperties, m_readIndex + 1 \in Int, m_writeIndex \in Int
    <3> HIDE DEF q
    <3> QED
      BY <2>0, <3>2
  <2>1. ASSUME NEW p \in Producers, PushClaim(p)
        PROVE  Fifo!Next
    <3>1. /\ m_writeIndex' = m_writeIndex + 1 /\ m_readIndex' = m_readIndex
          /\ tickets' = Append(tickets, item[p]) /\ item[p] \in T
      BY <2>1 DEF PushClaim, TypeOK, Threads
    <3>2. q' = Append(q, item[p])
      BY <2>0, <3>1, SuffixOfAppend, m_readIndex + 1 \in 1 .. Len(tickets) + 1
    <3>3. Len(q) < Q_SIZE - 1
      BY <2>0, <2>00, <2>01, <3>1
    <3> QED
      BY <3>1, <3>2, <3>3 DEF Fifo!Next, Fifo!Enqueue
  <2>2. ASSUME NEW c \in Consumers, PopClaim(c)
        PROVE  Fifo!Next
    <3>1. /\ m_writeIndex' = m_writeIndex /\ m_readIndex' = m_readIndex + 1
          /\ tickets' = tickets
      BY <2>2 DEF PopClaim, TypeOK
    <3>2. m_readIndex + 1 \in 1 .. Len(tickets) /\ m_writeIndex \in m_readIndex + 1 .. Len(tickets)
      BY <2>0, <3>1
    <3>3. Tail(q) = SubSeq(tickets, m_readIndex + 1 + 1, m_writeIndex)
      BY <2>0, <3>2, HeadTailOfSubSeq
    <3>4. q' = Tail(q)
      BY <3>1, <3>3
    <3>5. q # << >>
      BY <2>0, <2>01, <3>2
    <3> QED
      BY <3>4, <3>5 DEF Fifo!Next, Fifo!Dequeue
  <2>3. ASSUME NEW t \in Threads,
               \/ \E x \in Items : PushCall(t, x)
               \/ PushFull(t) \/ PushRetry(t) \/ PushStore(t) \/ PushCount(t)
               \/ Load(t) \/ PopCall(t) \/ PopEmpty(t) \/ PopRetry(t) \/ PopRead(t) \/ PopCount(t)
        PROVE  q' = q
    BY <2>3 DEF PushCall, PushFull, PushRetry, PushStore, PushCount, Load, LoadReadIndex,
                LoadWriteIndex, PopCall, PopEmpty, PopRetry, PopRead, PopCount, shared
  <2>4. CASE UNCHANGED vars
    BY <2>4 DEF vars, shared
  <2> QED
    BY <2>1, <2>2, <2>3, <2>4 DEF Next, PushStep, PopStep, Threads
<1> QED
  BY <1>1, <1>2, TypeCorrect, IndexInvariant, PTL DEF Spec, ImplementsFifo, Fifo!Spec
-----------------------------------------------------------------------------
(* Any producers and consumers: the counter.                               *)

\* A remainder may be taken before or after something is added.
LEMMA ModAdd ==
  ASSUME NEW W \in Nat \ {0}, NEW a \in Int, NEW b \in Int
  PROVE  ((a % W) + b) % W = (a + b) % W
<1> DEFINE r == a % W
           d == a \div W
           s == (r + b) % W
           e == (r + b) \div W
           u == (a + b) % W
           f == (a + b) \div W
<1>1. r \in 0 .. W - 1 /\ d \in Int /\ a = W * d + r
  BY DivModInt
<1>2. s \in 0 .. W - 1 /\ e \in Int /\ r + b = W * e + s
  BY <1>1, DivModInt, r + b \in Int
<1>3. u \in 0 .. W - 1 /\ f \in Int /\ a + b = W * f + u
  BY DivModInt, a + b \in Int
<1> HIDE DEF r, d, s, e, u, f
<1> DEFINE g == d + e
<1>4. g \in Int /\ W * g + s = W * f + u
  BY <1>1, <1>2, <1>3
<1> HIDE DEF g
<1>5. s = u
  BY <1>2, <1>3, <1>4, DivisionUnique
<1> QED
  BY <1>5 DEF r, s, u

At(pcs) == {t \in Threads : pc[t] \in pcs}

\* One thread moves: how many are in a part of their calls.
LEMMA InsideMoves ==
  ASSUME IsFiniteSet(Threads), TypeOK, NEW t \in Threads, NEW v, NEW pcs,
         pc' = [pc EXCEPT ![t] = v]
  PROVE  /\ Inside(pcs) \in Nat
         /\ pc[t] \in pcs /\ v \in pcs => Inside(pcs)' = Inside(pcs)
         /\ pc[t] \notin pcs /\ v \notin pcs => Inside(pcs)' = Inside(pcs)
         /\ pc[t] \notin pcs /\ v \in pcs => Inside(pcs)' = Inside(pcs) + 1
         /\ pc[t] \in pcs /\ v \notin pcs => Inside(pcs)' = Inside(pcs) - 1
<1>1. IsFiniteSet(At(pcs)) /\ Inside(pcs) = Cardinality(At(pcs))
  <2>1. At(pcs) \subseteq Threads
    BY DEF At
  <2> QED
    BY <2>1, FS_Subset DEF At, Inside
<1>2. Inside(pcs) \in Nat
  BY <1>1, FS_CardinalityType
<1>3. Inside(pcs)' = Cardinality(At(pcs)')
  BY DEF At, Inside
<1>4. \A u \in Threads : pc'[u] = IF u = t THEN v ELSE pc[u]
  BY DEF TypeOK
<1>5. pc[t] \in pcs <=> t \in At(pcs)
  BY DEF At
<1>6. v \in pcs => At(pcs)' = At(pcs) \cup {t}
  BY <1>4 DEF At
<1>7. v \notin pcs => At(pcs)' = At(pcs) \ {t}
  BY <1>4 DEF At
<1>8. CASE v \in pcs
  <2>1. Inside(pcs)' = Cardinality(At(pcs) \cup {t})
    BY <1>3, <1>6, <1>8
  <2>2. Cardinality(At(pcs) \cup {t}) = IF t \in At(pcs) THEN Cardinality(At(pcs)) ELSE Cardinality(At(pcs)) + 1
    BY <1>1, FS_AddElement
  <2> QED
    BY <1>1, <1>2, <1>5, <1>8, <2>1, <2>2
<1>9. CASE v \notin pcs
  <2>1. Inside(pcs)' = Cardinality(At(pcs) \ {t})
    BY <1>3, <1>7, <1>9
  <2>2. Cardinality(At(pcs) \ {t}) = IF t \in At(pcs) THEN Cardinality(At(pcs)) - 1 ELSE Cardinality(At(pcs))
    BY <1>1, FS_RemoveElement
  <2> QED
    BY <1>1, <1>2, <1>5, <1>9, <2>1, <2>2
<1> QED
  BY <1>2, <1>8, <1>9

InPush == Inside({"push_store", "push_count"})
InPop  == Inside({"pop_read", "pop_count"})

Places == {"idle", "push_load", "push_store", "push_count", "pop_load", "pop_read", "pop_count"}

\* What the counter stands for, before it is cut to its width.
Balance == m_writeIndex - InPush - m_readIndex + InPop

\* Whatever threads push and pop, and in whatever order their two loads are
\* performed, size() is the number of claimed indexes, less the calls between
\* their CAS and their AtomicAdd or AtomicSub (cpp:40-45, 59-62, 69), modulo
\* the width of m_count, which passes below zero.
THEOREM CountIsAccounted ==
  ASSUME IsFiniteSet(Threads)
  PROVE  Spec => []CountAccounting
<1>1. Init => CountAccounting
  <2> SUFFICES ASSUME Init PROVE CountAccounting
    OBVIOUS
  <2>1. /\ {t \in Threads : pc[t] \in {"push_store", "push_count"}} = {}
        /\ {t \in Threads : pc[t] \in {"pop_read", "pop_count"}} = {}
    BY DEF Init
  <2>2. Inside({"push_store", "push_count"}) = 0 /\ Inside({"pop_read", "pop_count"}) = 0
    BY <2>1, FS_EmptySet DEF Inside
  <2>3. 0 % WORD = 0
    BY WordAssumption
  <2> QED
    BY <2>2, <2>3 DEF Init, CountAccounting
<1>2. TypeOK /\ CountAccounting /\ [Next]_vars => CountAccounting'
  <2> SUFFICES ASSUME TypeOK, CountAccounting, [Next]_vars
               PROVE  CountAccounting'
    OBVIOUS
  <2>1. /\ m_count = Balance % WORD
        /\ (m_count' = Balance' % WORD => CountAccounting')
    BY DEF CountAccounting, Balance, InPush, InPop
  <2>2. m_writeIndex \in Nat /\ m_readIndex \in Nat /\ WORD \in Nat \ {0}
    BY WordAssumption DEF TypeOK
  <2>3. InPush \in Nat /\ InPop \in Nat /\ Balance \in Int
    <3>1. ASSUME NEW pcs PROVE Inside(pcs) \in Nat
      <4>1. {t \in Threads : pc[t] \in pcs} \subseteq Threads
        OBVIOUS
      <4>2. IsFiniteSet({t \in Threads : pc[t] \in pcs})
        BY <4>1, FS_Subset
      <4> QED
        BY <4>2, FS_CardinalityType DEF Inside
    <3>2. InPush \in Nat /\ InPop \in Nat
      BY <3>1 DEF InPush, InPop
    <3> QED
      BY <2>2, <3>2 DEF Balance
  <2>4. ASSUME NEW t \in Threads, NEW v \in Places, pc' = [pc EXCEPT ![t] = v]
        PROVE  /\ pc[t] \in {"push_store", "push_count"} <=> v \in {"push_store", "push_count"}
                     => InPush' = InPush
               /\ pc[t] \in {"pop_read", "pop_count"} <=> v \in {"pop_read", "pop_count"}
                     => InPop' = InPop
               /\ pc[t] = "push_load" /\ v = "push_store" => InPush' = InPush + 1
               /\ pc[t] = "push_count" /\ v = "idle" => InPush' = InPush - 1
               /\ pc[t] = "pop_load" /\ v = "pop_read" => InPop' = InPop + 1
               /\ pc[t] = "pop_count" /\ v = "idle" => InPop' = InPop - 1
    BY <2>4, InsideMoves DEF InPush, InPop
  <2>5. ASSUME NEW p \in Producers, PushClaim(p)
        PROVE  m_count' = Balance' % WORD
    <3>0. pc[p] = "push_load" /\ pc' = [pc EXCEPT ![p] = "push_store"] /\ p \in Threads /\ "push_store" \in Places
      BY <2>5 DEF PushClaim, Threads, Places
    <3>1. InPush' = InPush + 1 /\ InPop' = InPop
      BY <2>4, <3>0
    <3>2. m_writeIndex' = m_writeIndex + 1 /\ m_readIndex' = m_readIndex /\ m_count' = m_count
      BY <2>5 DEF PushClaim
    <3>3. Balance' = Balance
      BY <2>2, <2>3, <3>1, <3>2 DEF Balance
    <3> QED
      BY <2>1, <3>2, <3>3
  <2>6. ASSUME NEW p \in Producers, PushCount(p)
        PROVE  m_count' = Balance' % WORD
    <3>0. pc[p] = "push_count" /\ pc' = [pc EXCEPT ![p] = "idle"] /\ p \in Threads /\ "idle" \in Places
      BY <2>6 DEF PushCount, Return, Threads, Places
    <3>1. InPush' = InPush - 1 /\ InPop' = InPop
      BY <2>4, <3>0
    <3>2. m_writeIndex' = m_writeIndex /\ m_readIndex' = m_readIndex /\ m_count' = (m_count + 1) % WORD
      BY <2>6 DEF PushCount
    <3>3. Balance' = Balance + 1
      BY <2>2, <2>3, <3>1, <3>2 DEF Balance
    <3>4. ((Balance % WORD) + 1) % WORD = (Balance + 1) % WORD
      BY <2>2, <2>3, ModAdd, 1 \in Int
    <3> HIDE DEF Balance
    <3> QED
      BY <2>1, <3>2, <3>3, <3>4
  <2>7. ASSUME NEW c \in Consumers, PopClaim(c)
        PROVE  m_count' = Balance' % WORD
    <3>0. pc[c] = "pop_load" /\ pc' = [pc EXCEPT ![c] = "pop_read"] /\ c \in Threads /\ "pop_read" \in Places
      BY <2>7 DEF PopClaim, Threads, Places
    <3>1. InPush' = InPush /\ InPop' = InPop + 1
      BY <2>4, <3>0
    <3>2. m_writeIndex' = m_writeIndex /\ m_readIndex' = m_readIndex + 1 /\ m_count' = m_count
      BY <2>7 DEF PopClaim
    <3>3. Balance' = Balance
      BY <2>2, <2>3, <3>1, <3>2 DEF Balance
    <3> QED
      BY <2>1, <3>2, <3>3
  <2>8. ASSUME NEW c \in Consumers, PopCount(c)
        PROVE  m_count' = Balance' % WORD
    <3>0. pc[c] = "pop_count" /\ pc' = [pc EXCEPT ![c] = "idle"] /\ c \in Threads /\ "idle" \in Places
      BY <2>8 DEF PopCount, Return, Threads, Places
    <3>1. InPush' = InPush /\ InPop' = InPop - 1
      BY <2>4, <3>0
    <3>2. m_writeIndex' = m_writeIndex /\ m_readIndex' = m_readIndex /\ m_count' = (m_count - 1) % WORD
      BY <2>8 DEF PopCount
    <3>3. Balance' = Balance + (-1) /\ m_count' = (m_count + (-1)) % WORD
      <4>1. m_count \in Int
        BY DEF TypeOK
      <4> QED
        BY <2>2, <2>3, <3>1, <3>2, <4>1 DEF Balance
    <3>4. ((Balance % WORD) + (-1)) % WORD = (Balance + (-1)) % WORD
      BY <2>2, <2>3, ModAdd, -1 \in Int
    <3> HIDE DEF Balance
    <3> QED
      BY <2>1, <3>3, <3>4
  <2>9. ASSUME NEW t \in Threads,
               \/ \E x \in Items : PushCall(t, x)
               \/ PushFull(t) \/ PushStore(t) \/ PopCall(t) \/ PopEmpty(t) \/ PopRead(t)
        PROVE  m_count' = Balance' % WORD
    <3>1. m_writeIndex' = m_writeIndex /\ m_readIndex' = m_readIndex /\ m_count' = m_count
      BY <2>9 DEF PushCall, PushFull, PushStore, PopCall, PopEmpty, PopRead, shared
    <3>2. InPush' = InPush /\ InPop' = InPop
      <4>1. CASE \E x \in Items : PushCall(t, x)
        <5>1. pc[t] = "idle" /\ pc' = [pc EXCEPT ![t] = "push_load"] /\ "push_load" \in Places
          BY <4>1 DEF PushCall, Places
        <5> QED
          BY <2>4, <5>1
      <4>2. CASE PopCall(t)
        <5>1. pc[t] = "idle" /\ pc' = [pc EXCEPT ![t] = "pop_load"] /\ "pop_load" \in Places
          BY <4>2 DEF PopCall, Places
        <5> QED
          BY <2>4, <5>1
      <4>3. CASE PushFull(t) \/ PopEmpty(t)
        <5>1. /\ pc[t] \in {"push_load", "pop_load"}
              /\ pc' = [pc EXCEPT ![t] = "idle"] /\ "idle" \in Places
          BY <4>3 DEF PushFull, PopEmpty, Return, Places
        <5> QED
          BY <2>4, <5>1
      <4>4. CASE PushStore(t)
        <5>1. pc[t] = "push_store" /\ pc' = [pc EXCEPT ![t] = "push_count"] /\ "push_count" \in Places
          BY <4>4 DEF PushStore, Places
        <5> QED
          BY <2>4, <5>1
      <4>5. CASE PopRead(t)
        <5>1. pc[t] = "pop_read" /\ pc' = [pc EXCEPT ![t] = "pop_count"] /\ "pop_count" \in Places
          BY <4>5 DEF PopRead, Places
        <5> QED
          BY <2>4, <5>1
      <4> QED
        BY <2>9, <4>1, <4>2, <4>3, <4>4, <4>5
    <3> QED
      BY <2>1, <3>1, <3>2 DEF Balance
  <2>10. CASE \/ \E t \in Threads : Load(t) \/ PushRetry(t) \/ PopRetry(t)
              \/ UNCHANGED vars
    <3>1. pc' = pc /\ m_writeIndex' = m_writeIndex /\ m_readIndex' = m_readIndex /\ m_count' = m_count
      BY <2>10
      DEF Load, LoadReadIndex, LoadWriteIndex, PushRetry, PopRetry, vars, shared, locals
    <3>2. InPush' = InPush /\ InPop' = InPop
      BY <3>1 DEF InPush, InPop, Inside
    <3> QED
      BY <2>1, <3>1, <3>2 DEF Balance
  <2> HIDE DEF Balance
  <2> QED
    BY <2>1, <2>5, <2>6, <2>7, <2>8, <2>9, <2>10 DEF Next, PushStep, PopStep, Threads
<1> QED
  BY <1>1, <1>2, TypeCorrect, PTL DEF Spec
=============================================================================

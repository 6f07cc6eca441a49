------------------------------- MODULE MemPool -------------------------------
(***************************************************************************)
(* pool/mmpool.{c,h}: a memory pool.  Small requests are cut off the front *)
(* of a list of blocks; large ones are malloc'd and remembered in a list   *)
(* whose nodes are small allocations of the same pool.                     *)
(*                                                                         *)
(* Addresses are offsets from the start of their block, which is aligned   *)
(* to MP_ALIGNMENT.  The head node follows the pool header in the first    *)
(* block; its next, which mp_create_pool does not assign, is taken to be   *)
(* NULL.  When malloc or posix_memalign fails nothing changes: the failure *)
(* is a stuttering step.                                                   *)
(***************************************************************************)
EXTENDS Integers, Sequences, FiniteSets

CONSTANTS
    MP_ALIGNMENT,
    POOL, NODE, LARGE,  \* sizes of struct mp_pool_s, mp_node_s and mp_large_s
    MAX_FAILED,         \* failures after which a block is passed over (4)
    MaxFromPool,        \* MP_MAX_ALLOC_FROM_POOL
    PoolSize,           \* argument of mp_create_pool
    Sizes,              \* arguments of mp_alloc and mp_nalloc up to pool->max
    Chunks,             \* blocks that malloc hands out for large requests
    NoChunk,            \* NULL
    MaxBlocks,          \* bound: blocks in the list
    MaxAllocs           \* bound: small allocations between two resets

max == IF PoolSize < MaxFromPool THEN PoolSize ELSE MaxFromPool

\* What the constants must satisfy; MCStandalone assumes it.  With a smaller max,
\* mp_alloc_large and mp_alloc call each other for ever.
Parameters ==
    /\ MP_ALIGNMENT \in Nat \ {0} /\ POOL \in Nat /\ NODE \in Nat /\ PoolSize \in Nat
    /\ MaxFromPool \in Nat /\ LARGE \in Nat \ {0} /\ MAX_FAILED \in Nat /\ MaxBlocks \in Nat \ {0}
    /\ MaxAllocs \in Nat
    /\ LARGE <= max
    /\ Sizes \subseteq 1 .. max /\ NoChunk \notin Chunks

VARIABLES
    blocks,         \* the list of nodes: last, end and failed; empty when there is no pool
    current,        \* pool->current, as a position in the list
    large,          \* pool->large, first node first: the chunk and where the node lies
    spans,          \* history: small allocations since the last reset
    heap            \* chunks that were malloc'd and not freed

vars == <<blocks, current, large, spans, heap>>

Align(n) == ((n + MP_ALIGNMENT - 1) \div MP_ALIGNMENT) * MP_ALIGNMENT

\* Where the memory of a block starts.
Start(i) == IF i = 1 THEN POOL + NODE ELSE NODE

Span(i, from, size) == [block |-> i, from |-> from, to |-> from + size]

Init ==
    /\ blocks = << >> /\ current = 1 /\ large = << >>
    /\ spans = {} /\ heap = {}

-----------------------------------------------------------------------------
CreatePool ==
    /\ blocks = << >>
    /\ blocks' = <<[last |-> POOL + NODE, end |-> POOL + NODE + PoolSize, failed |-> 0]>>
    /\ current' = 1
    /\ UNCHANGED <<large, spans, heap>>

\* Mutation: the reset leaves the list of large nodes.
Emptied_KeepsLarge == large

Emptied == << >>

\* Large chunks are freed, every block starts afresh; current and failed stay.
ResetPool ==
    /\ blocks # << >>
    /\ heap' = heap \ {large[i].alloc : i \in 1 .. Len(large)}
    /\ large' = Emptied
    /\ blocks' = [i \in 1 .. Len(blocks) |-> [blocks[i] EXCEPT !.last = Start(i)]]
    /\ spans' = {}
    /\ UNCHANGED current

DestroyPool ==
    /\ blocks # << >>
    /\ heap' = heap \ {large[i].alloc : i \in 1 .. Len(large)}
    /\ large' = << >> /\ blocks' = << >> /\ spans' = {} /\ current' = 1

-----------------------------------------------------------------------------
(* Small requests.                                                         *)

\* mp_alloc aligns the front of the block, mp_nalloc does not.
Front(i, aligned) == IF aligned THEN Align(blocks[i].last) ELSE blocks[i].last

Fits(i, size, aligned) ==
    LET m == Front(i, aligned) IN m > blocks[i].end \/ blocks[i].end - m >= size

Fitting(size, aligned) == {i \in current .. Len(blocks) : Fits(i, size, aligned)}

First(S) == CHOOSE i \in S : \A j \in S : i <= j

\* The memory of this request is cut off a block that has room.
FromBlock(size, aligned) ==
    LET i == First(Fitting(size, aligned))
        m == Front(i, aligned)
    IN  /\ blocks' = [blocks EXCEPT ![i].last = m + size]
        /\ spans' = spans \cup {Span(i, m, size)}
        /\ UNCHANGED current

\* Blocks that have failed often enough to be passed over.
Passed == {i \in current .. Len(blocks) - 1 : blocks[i].failed > MAX_FAILED}

\* The size of every further block: that of the first, counted from its node.
psize == blocks[1].end - POOL

\* mp_alloc_block: every block from current on but the last one has failed once more.
FromNewBlock(size) ==
    LET m == Align(NODE) IN
    /\ Len(blocks) < MaxBlocks
    /\ blocks' = Append(
           [i \in 1 .. Len(blocks) |->
               IF i \in current .. Len(blocks) - 1 THEN [blocks[i] EXCEPT !.failed = @ + 1] ELSE blocks[i]],
           [last |-> m + size, end |-> psize, failed |-> 0])
    /\ current' = IF Passed = {} THEN current
                  ELSE 1 + CHOOSE i \in Passed : \A j \in Passed : j <= i
    /\ spans' = spans \cup {Span(Len(blocks) + 1, m, size)}

\* Where mp_alloc will put a request.
Place(size) ==
    IF Fitting(size, TRUE) # {}
    THEN LET i == First(Fitting(size, TRUE)) IN Span(i, Front(i, TRUE), size)
    ELSE Span(Len(blocks) + 1, Align(NODE), size)

SmallAlloc(size, aligned) ==
    /\ Cardinality(spans) < MaxAllocs
    /\ IF Fitting(size, aligned) # {} THEN FromBlock(size, aligned) ELSE FromNewBlock(size)

\* mp_alloc, mp_calloc (aligned) and mp_nalloc.
Alloc(size, aligned) ==
    /\ blocks # << >>
    /\ SmallAlloc(size, aligned)
    /\ UNCHANGED <<large, heap>>

-----------------------------------------------------------------------------
(* Large requests.                                                         *)

\* A node whose chunk was freed, among the first five of the list.
Reusable ==
    {i \in 1 .. Len(large) : i <= 5 /\ large[i].alloc = NoChunk}

WithNewNode(x) ==
    /\ large' = <<[alloc |-> x, at |-> Place(LARGE)]>> \o large
    /\ SmallAlloc(LARGE, TRUE)

AllocLarge(x) ==
    /\ blocks # << >> /\ x \notin heap
    /\ heap' = heap \cup {x}
    /\ \/ /\ Reusable # {}
          /\ large' = [large EXCEPT ![First(Reusable)].alloc = x]
          /\ UNCHANGED <<blocks, current, spans>>
       \/ Reusable = {} /\ WithNewNode(x)

Memalign(x) ==
    /\ blocks # << >> /\ x \notin heap
    /\ heap' = heap \cup {x}
    /\ WithNewNode(x)

Cleared(i) == [large EXCEPT ![i].alloc = NoChunk]

\* mp_free: a pointer that is no large chunk of the pool is ignored.
Free(x) ==
    LET nodes == {i \in 1 .. Len(large) : large[i].alloc = x} IN
    /\ nodes # {}
    /\ heap' = heap \ {x}
    /\ large' = Cleared(First(nodes))
    /\ UNCHANGED <<blocks, current, spans>>

-----------------------------------------------------------------------------
Next ==
    \/ CreatePool \/ ResetPool \/ DestroyPool
    \/ \E size \in Sizes, aligned \in BOOLEAN : Alloc(size, aligned)
    \/ \E x \in Chunks : AllocLarge(x) \/ Memalign(x) \/ Free(x)

Spec == Init /\ [][Next]_vars

-----------------------------------------------------------------------------
(* Properties.                                                             *)

\* Every variable has its type, every block has PoolSize bytes behind its node
\* (c:41, c:95-104), and current is a block of the list.
TypeOK ==
    /\ blocks \in Seq([last : Nat, end : Nat, failed : Nat])
    /\ \A i \in 1 .. Len(blocks) : blocks[i].end = Start(i) + PoolSize
    /\ current \in Nat \ {0} /\ (blocks # << >> => current <= Len(blocks))
    /\ large \in Seq([alloc : Chunks \cup {NoChunk}, at : [block : Nat, from : Nat, to : Nat]])
    /\ spans \subseteq [block : Nat, from : Nat, to : Nat]
    /\ heap \subseteq Chunks

\* Allocations do not overlap, whichever of mp_alloc, mp_nalloc and the large
\* list they serve.  They lie behind the node of their block and within it,
\* unless aligning the front went past its end: then they lie outside
\* completely (c:97-110, c:188-206).
Disjoint ==
    /\ \A a \in spans :
           /\ a.from >= Start(a.block)
           /\ a.to <= blocks[a.block].end \/ a.from > blocks[a.block].end
    /\ \A a, b \in spans :
           a # b /\ a.block = b.block => a.to <= b.from \/ b.to <= a.from

\* Every large chunk is in the list exactly once while it is allocated: reset
\* and destroy free each once, and nothing twice (c:54-58, c:77-83, c:132-151).
LargeOnce ==
    /\ \A x \in Chunks : Cardinality({i \in 1 .. Len(large) : large[i].alloc = x})
                             = IF x \in heap THEN 1 ELSE 0
    /\ blocks = << >> => heap = {}

\* The nodes of the large list are live small allocations of their own.
NodesIntact ==
    /\ \A i \in 1 .. Len(large) : large[i].at \in spans
    /\ \A i, j \in 1 .. Len(large) : large[i].at = large[j].at => i = j

PoolOK == TypeOK /\ Disjoint /\ LargeOnce /\ NodesIntact
=============================================================================

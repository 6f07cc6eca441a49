# A verification of simple_basic_components

The repository is a collection of C and C++ components: containers, pools, timers and small
servers. They share no code and call each other only in one place (`pool/thread_pool.c` takes
its tasks from `util/queue.c`), so the specification has one family of modules per component.
Each component has its own kind of difficulty: stale loads and compare-and-swap in the lock-free
queue, condition variables in the thread pools, a wrapping clock in the timing wheel, reused
descriptors in the event loops, long sequences of calls in the containers.

All paths below are relative to `src/`; TLC runs and proofs are started in `tla/`:

    tlc -workers 2 -config queue_spmc.cfg MCArrayLockFreeQueue.tla
    tlapm ArrayLockFreeQueueProofs.tla     # and the other *Proofs modules

## 1. The system

| Component | State | Operations | What is hard | What makes it correct |
|---|---|---|---|---|
| `util/ArrayLockFreeQueue` | ring of slots, read index, write index, counter | `push`, `pop`, `size` from any thread | two plain loads at different moments, CAS on one index only, slot access after the claim | the indexes never cross or lap; an item survives until its pop has read it; claims are a FIFO queue; every item is taken |
| `pool/ZeroThreadPool` | task queue, flag, one mutex, one condition variable | `exec`, worker loop, `get_task`, `wait_for_all_done`, `stop` | wakeups (lost, spurious, stolen by waiters), a flag read without the lock | order and single ownership of tasks; nothing taken after stop; the queue drains; a timed wait returns |
| `src/timewheel` | 256 + 4 x 64 lists, 32-bit time, spinlock | `add_timer`, `del_timer`, `expire_timer`, `clear_timer` | cascading lists, wrap of the time, callbacks with the lock released | a node is in one list; dispatched exactly when due; every timer is dispatched |
| `src/webserver.c` | blocks of event slots, epoll interest list, sockets | event loop, accept, HTTP request and answer | descriptors and slots that are reused, clients that act between any two calls | registrations agree with the table; an answer belongs to its request; nobody is forgotten |
| `src/reactor_single.c` | one table of event slots with `last_active` | event loop, accept, echo, idle scan | the scan closes slots in another order than the callbacks | as above; idle slots are found, served ones stay open |
| `src/reactor.c` | event items by descriptor, epoll interest list | event loop, accept, receive, send | registers with `EPOLL_CTL_ADD` only; the read length outlives the connection | every open connection is watched; input stays in its buffer |
| `pool/mmpool` | list of blocks, list of large chunks | create, reset, destroy, alloc, nalloc, calloc, memalign, free | bookkeeping over long sequences; the list nodes live in the pool | allocations are apart and inside blocks; chunks are freed once |
| `util/rbtree` | nodes with parent pointers, sentinel | insert, delete, find, free | fixups that climb; successors that are children | search order, red-black rules, exact contents, loops that end |
| `pool/thread_pool.c` | workers, task list from `util/queue.c`, mutex, condition | setup, push, worker loop, destroy | the task is pushed without the lock and signalled under it | the workers never all sleep over a task; tasks in order |
| `util/queue.c` | circular doubly linked list with a head node | create, push, pop, first, empty, destroy | stores without a lock; the turn at one node; a freed node is read | FIFO, no access to freed nodes |
| `pool/asyn_dns_client.c` | one epoll set, two threads, requests in flight | init, two commits, callback thread | the request is sent before its descriptor is registered; answers get lost, doubled and late; ports are used again | no use of what was given back; each request gets one answer and ends |
| `src/timer.cpp` | ordered set of timers | add, delete, check | callback while the set is iterated | each timer once, in order, none early |
| `src/trycatch.c` | a stack of frames per thread | try, throw, catch, finally | nested and rethrown exceptions | the innermost handler gets the exception, the stack is the bodies under way |
| `src/deadlock.c` | three mutexes, three threads | a demonstration | crossed lock orders | it is meant to deadlock |
| `util/ringbuf` | buffer, head, tail | write, read, readline, clear | wrap, full against empty | bytes come out in order |
| `util/skiplist`, `util/minheap-timer` | towers; heap array | insert, remove, find; push, pop, remove | boundary cases | contents and order |
| `src/memleak.c`, `src/net_family.c`, `util/blk_list.c`, `util/btree.c`, build files | | | | not program logic, see section 7 |

The hazards that follow from this are listed in `PROJECT.json` with the line where each bites. Where the code simply gives way, the
property of its component ends there, and the hazard names no property but says which variable or clause excuses it.

## 2. The modules and the code

### ArrayLockFreeQueue, BoundedFifo

`ArrayLockFreeQueue` models `push` and `pop` of `util/ArrayLockFreeQueue.cpp` at the grain of shared
accesses: the two loads (lines 33-36 and 53-55), the answer "full" or "empty", the CAS, the slot
access, the atomic update of `m_count`. `pc[t]` says where thread `t` is; `curReadIndex`,
`curWriteIndex` and `item` are the locals. A failed CAS (`PushRetry`, `PopRetry`) goes back to the
loads. `LoadsReorder` lets the two plain loads happen in either order, as the compiler may arrange.
`m_count` has `WORD` values and wraps; the indexes do not, since no run performs 2^64 operations.
`tickets` is a history: the item whose push claimed each index.
The constants `Producers` and `Consumers` may overlap: a thread may do both.

`BoundedFifo` is the abstract queue of `Q_SIZE - 1` places. The refinement mapping takes the
queue's contents to be the tickets of the indexes that are claimed by a push and not yet by a pop.

### ZeroThreadPool

One action per critical section of `pool/ZeroThreadPool.{h,cpp}`: everything a thread does from
locking the mutex until it unlocks or waits is one step. The loop test of `thread_routine` reads
`_bTerminate` outside the lock and is a step of its own. `waitSet` is the set of threads asleep on the
condition; `SpuriousWake` removes any of them. `exec` pushes the task *before* it tests whether
the queue is empty, and the model keeps that order: its `NotifyOne` branch is never
taken. `stop` sets the flag and notifies everybody, then walks `_threads`, whose first entries
are the null pointers left by `resize`: the process ends there (`stopper = "crashed"`).

### TimeWheel

`src/timewheel.c` with the shifts as parameters: near list, four levels, `add_node`, `timer_shift` with
`move_list`, the two `timer_execute` of each `timer_update`, `dispatch_list` with the lock released,
catching up with the clock (`todo`, `lag`). The time has as many bits as the wheel, as in the code
(8 + 4 x 6 = 32), so it wraps when the outer level has gone round. `clear_timer` takes no lock and keeps nothing but its
loop index, so the body of its loops, `ClearSlot`, may come for any slot at any time, between the steps of the timer
thread too; this has more behaviours than the order of its loops. What is assumed of the callers is that `clear_timer` is not
inside one list while another thread is changing lists: nothing in the code prevents that, and it would be a race on freed nodes. `left` is a history: the ticks until
a timer is due. `cancel` of a freed block survives, because `add_timer` does not assign it. A callback
that calls `add_timer` under the lock blocks for ever (`lock = "stuck"`).

### EpollReactor, WebServer, ReactorSingle

`EpollReactor` holds what the two servers share: the slot fields, `nty_event_set`, `nty_event_add`,
`nty_event_del` with the add-or-modify decision on `status`, the kernel's tables (`file`, `watch`)
and the sockets and clients, marked external in the map. A reactor is a record, the table operations are
functions from reactors to reactors, and each callback is their composition in the order of the
calls. `WebServer` adds the block table, the resource of a slot, and the answer in two parts
(header, then body, between which clients act). `ReactorSingle` adds buffers, ages and the idle scan.

Choices: `recv` returns all that has arrived; a send either takes everything or leaves the socket
full; the document root holds regular files and directories; writing to a reset connection may end the
process with SIGPIPE (`pc = "dead"`), since the signal is not ignored; `fcntl` does not fail. In
`ReactorSingle` the descriptor limit is within the table size, as the unchecked index requires, and the table starts zeroed:
`malloc` (`reactor_single.c:234`) does not promise that, but the block is large enough to come fresh from the system.

### MemPool

`pool/mmpool.c`: addresses are offsets in their block, blocks are aligned; `last`, `end` and
`failed` of every block, `current`, the list of large nodes with the address of each node, and the
chunks on the heap. `spans` is a history of the small allocations since the last reset. A failing
`malloc` leaves everything unchanged and is a stuttering step. `mp_calloc` is `mp_alloc` and a `memset`.

### RbTree

`util/rbtree.c`: a node is named by its key, so the exchange of keys in `rbtree_delete` exchanges the
names of two nodes. The fixups are loops and one round is one step (`pc`, `node`, `victim`); left
and right versions are written once with a side as parameter. `climbed` is a history: `delete_fixup`
has gone up a level since the tree was last empty. `stored` is a history of the contents; it starts
again when `delete_fixup` sets `T->root` to `nil` above other nodes (`DeleteAtRoot`), which loses them.
Dereferencing NULL ends the process (`pc = "crashed"`). Nodes that no pointer
reaches have blank fields.

### LinkedQueue, ThreadPool

`LinkedQueue` holds the queue of `util/queue.c` as a record of pointers and one operator per load or
store of `queue_push` and `queue_pop`; `ThreadPool` composes it with `pool/thread_pool.c`. The workers test and
pop under `pool->mutex`, `add_task` pushes without it, so each store of a push is a step (`PushStore`), and so
is each of a pop; the loads of an emptiness test are taken together. `malloc` may give a freed node out again at once. Using a dead pointer ends the
model (`crashed`). `disturbed` is a history: a push has met a pop, or the queue was pushed on or popped at
one node after the other call (`Turn`), which its links do not bear. The C file does not
compile; the module says with which names it is read.

### DnsClient

`pool/asyn_dns_client.c`: the main thread (`main`) sends queries, the second thread takes batches of events
(`batch`), calls back and closes (`closing`). A socket is named by the port bound to it, so `Socks` are given out
again; `owner` is the request an open socket belongs to, `arg` the life of each `ep_arg`. The network is a
set of datagrams that may be lost, doubled, delayed past the close of their socket, or refused;
it is external. Which answer belongs to which request is the datagram's `of`; the code never looks.
A commit that fails after `socket` leaves the socket open (`AddFails`). Domain names and the records are left out.

### TryCatch, Timer, Reactor

`TryCatch` gives each thread its nested statements (`code`, innermost last) and the index of the top frame
(`ExceptionStack`). A statement remembers the body it is in and the flag; `goal` is a history: the statement
whose `Catch` was the innermost one in force when the exception was thrown. `Timer` has the ordered set as a set with `Less`,
ids from a counter, and the loop of `main`: `time_to_sleep` reads the clock, `Sleeps` then sleeps that long, in whole seconds, from
when it is called; callbacks add and delete tasks, and the clock advances between any two steps, these two included (`slip` counts
the ticks between them). `Reactor` is `src/reactor.c`: the interest
list, the read handler of an item, and `buf_r_len`, which nothing resets. `handle_write` is never called, since
`EPOLL_CTL_ADD` on a registered descriptor fails. A failed `recv` adds `(size_t)-1`; the next one starts
before the buffer and ends the model.

### RingBuf, SkipList, MinHeapTimer

Each follows its file call by call. `RingBuf` copies to and from `head`, as the code does; `unread` is a history of
what was written and not read, `sound` says that only calls were made that keep it (a write to an
empty buffer, not filling it). `SkipList` has the towers with every random
height, removal with the timestamp narrowed to `int`, and the NULL dereferences (`Crash`). `MinHeapTimer`
counts `last` modulo the range of `uint32_t`, follows `(pos + 1) >> 1 - 1` as `pos + 1`, and ends where an entry is stored
outside the list or NULL is dereferenced.

### MC modules

`MCArrayLockFreeQueue`, `MCZeroThreadPool`, `MCTimeWheel`, `MCWebServer`, `MCReactorSingle`, `MCDnsClient` and `MCRbTree` add
a symmetry or the constants a cfg cannot write. `MCStandalone` puts the components that interact with no other side by side: `runs`, chosen in the initial
state, says which one takes steps. `ThreadPool` is extended there, the others are instances.


## 3. The runs

| Run | Bounds | What it shows |
|---|---|---|
| `queue_spmc` | 1 producer, 2 consumers, ring of 3, 2 items, indexes up to 4 | `IndexBound`, `UnclaimedItemsIntact`, `ClaimedItemsIntact`, `ImplementsFifo`, and under fairness `EveryItemTaken` |
| `queue_mpmc` | 2 threads that do both, ring of 2, reordered loads, counter of 4 values, indexes up to 3 | `CountAccounting` holds even while the ring is overrun |
| `queue_overfull` (violation) | 2 producers, 1 consumer | `IndexBound` fails: a stale read index lets a push into a full ring |
| `pool` | 2 workers, 3 tasks, 4 timeouts, 1 waiter | under fairness the queue drains and a timed wait returns |
| `pool_lost_wakeup` (violation) | 2 workers, 1 task | `EveryTaskTaken` fails: `exec` never notifies |
| `wheel_batch` | 2 timers, 2-slot levels (32 ticks round) | `NodesOK` (one place for each node), `FiresOnTime` for two timers, in one list or several |
| `wheel_levels` | 1 timer, 4-slot levels (512 ticks round) | all levels and the wrap; `OverdueOnlyInZeroSlots`, `PlacedTimerEnds` |
| `webserver` | 2 clients, 5 descriptors, blocks of 3 | `SlotsOK` (registration), stale events, answers, progress |
| `reactor_single` | 2 clients, table of 4, scan of 2, timeout of 1 tick | `SlotsOK`, echo, both directions of the idle scan |
| `rbtree` | 10 keys, every sequence of calls | `KeysOK` (order, pointers, contents), `RulesUntilClimb`, `RoundsEnd` |
| `dns` | 2 callbacks, 1 blocking request, 2 ports | `ResourcesOK`, `AnswerOrigin`, and under fairness `EndsUnlessLost` |
| `standalone`: `ThreadPool` | 1 adder, 2 workers, 4 tasks, 3 nodes | `QueueOK`, `NobodySleepsOverWork` |
| `standalone`: `ZeroThreadPool` | 2 workers, 3 tasks, expired or not, 1 waiter | `TasksTakenOnce`: types, order, ownership |
| `standalone`: `MemPool` | pool of 96 bytes, requests of 20 and 72 bytes, 2 chunks, 4 blocks, 6 requests | `PoolOK` (apart, freed once, nodes intact) |
| `standalone`: `TryCatch` | 2 exceptions, 3 nested statements | `FramesOK` |
| `standalone`: `SkipList` | 3 nodes, 3 levels, timestamps within and beyond `int` | `ListOK` |
| `standalone`: `RingBuf` | 3 bytes of 3 values | `RingOK` |
| `standalone`: `MinHeapTimer` | 5 places, 3 expiries, 2 pops | `HeapOK` |
| `standalone`: `Timer` | 3 tasks, 3 timeouts, 5 ticks | `TimerOK` |
| `standalone`: `Reactor` | 3 clients, 2 items, buffer of 2 | `ReadsFit` |

Why the bounds suffice:

- *Queue.* Indexes beyond 3 take the ring round, so slots are reused and the
  comparisons are made on both sides of the wrap. What depends on more threads is covered by the proofs.
- *Pool.* Two workers and a waiter are the smallest set in which a wakeup can go to the wrong thread;
  three tasks let the queue be empty, then hold more than the workers can take.
- *Wheel.* With 2-slot levels the slots of the inner levels are 0 and 1, which is where the boundary
  tests differ; the 4-slot wheel has slots that are neither first nor last, starts a timer at every time of
  the 512 and so crosses the wrap. The code's constants only widen the slots.
- *Servers.* Descriptors run out with two clients, every descriptor is reused, and the table needs its
  second block while the first is in use.
- *MemPool.* 96 bytes, with the real header sizes and alignment, make a pool in
  which 72-byte requests need a new block and 20-byte requests push the aligned front beyond the end.
  The failure limit is 0 in place of 4, which four blocks reach.
- *ThreadPool.* Four tasks on three nodes: a node is used again, and the queue drains to one and fills again, which
  is where its links turn.
- *DnsClient.* Three requests on two ports: a port is closed and used again while datagrams for it are under way, and
  the process can run out of sockets.
- *The small components.* Three statements make an exception pass a whole one on its way; a skip list needs three nodes
  for twins with one more behind; a ring of 3 is no power of two; six entries
  overrun the heap; two items and three clients use a descriptor again and a descriptor without item.
- *RbTree.* Ten is the smallest number of keys with which a deletion climbs below the root: with nine, every deletion
  that climbs reaches the root. The run meets unbalanced
  trees and the NULL dereference.

`CHECK_DEADLOCK FALSE` stands where the program may stop: no producer has to push (the bound ends the
queue runs), the pool ends in `crashed`, the servers in `dead`, the wheel in `stuck`, the tree
in `crashed`, and the bounds of the other components end their calls.

## 4. Fairness

- *Queue*: a thread inside a call is scheduled, and each consumer keeps calling `pop`; weak fairness of
  each thread's steps. Nobody is obliged to push. `pop` is a poll: a
  consumer that stops calling takes nothing, whatever the queue does.
- *Pool*: workers and waiters that are awake are scheduled (weak fairness). `WaitTimeout` has strong
  fairness: the deadline of `wait_for` is computed once per wait, and a thread woken in between
  finds it expired at last. A condition variable owes nothing to a thread that nobody notifies.
- *Wheel*: the clock advances, and the timer thread polls. The spinlock is held within one
  step by others, so weak fairness gets it.
- *Web server*: the server thread is scheduled; `malloc` succeeds in the end (the allocation loop repeats);
  `accept` does not fail for ever, hence strong fairness of `Accept`. Clients owe nothing, which
  is why the progress properties except a client that takes no output.

- *DNS client*: both threads are scheduled (weak fairness of `MainStep` and `ProcStep`), and a datagram that is not lost arrives.
  Nobody has to send a request.

`AwakeWorkerDrains` and `PlacedTimerEnds` state progress under the condition the code really
meets: a worker that is awake, a timer outside the zero slots.

## 5. What is proved

TLAPS checks these for every value of the constants. Each argument is in the form: the property, the
invariant that implies it, why the property alone is not inductive. No theorem is about a bounded instance, and the
assumptions named are the `ASSUME`s of the modules or hypotheses of the theorem, all true of the
constants the runs use (`standalone.cfg` for the components of `MCStandalone`).

`ArrayLockFreeQueueProofs` (the ring has at least two slots; where stated,
one producer, or one producer and one consumer; loads in program order):

- `TypeCorrect`: the types, for any threads and either load order.
- `OneProducerIndexBound`: `IndexBound`. The property is not inductive: it says nothing of what a thread
  has loaded. `IndexInv` adds that a loaded read index is never ahead of `m_readIndex`, that a
  loaded write index is never ahead of `m_writeIndex`, and that the only producer's loaded write index
  is exact until it claims. A push that passes the full test on an old read index is then safe, because
  the true one is only larger; a pop that passes the empty test claims below an old write
  index. Two indexes less than a ring apart have equal slots only if equal (a lemma on `%`).
- `OneProducerItemsIntact`: `UnclaimedItemsIntact`, from `IndexInv` and `SlotInv`, which ties each
  stored index of the current window to its ticket.
- `LastClaimIntact`: `ClaimedItemsIntact`, for any number of consumers, from `GapIntact`: the slot before `m_readIndex` is the one
  that the full test keeps free, and holds its item until the next claim. The property is not inductive, since it is about a pop that is at
  its read; the slot must be safe before anybody looks. `SpscItemsIntact`: with one consumer each claim is the last, so every item survives
  until it is read. With several, an older claim may be lapped before its pop has read it (section 6).
- `OneProducerFifo`: `ImplementsFifo`, the refinement of `BoundedFifo`: `PushClaim` maps to
  `Enqueue`, `PopClaim` to `Dequeue`, and every other step stutters.
- `CountIsAccounted`: `CountAccounting`, for any number of producers and consumers and also while the ring is
  overrun; the only hypothesis is that the threads are finitely many, which the sum over them needs. Each claim
  adds its thread to a set of calls that have not counted yet, each count takes it out.

`TimeWheelProofs` (positive shifts, delays in half the range of `T->time`):

- `NodesStayLinkedOnce` (`NodesOK`), `TimersFireOnTime` (`FiresOnTime`), `OthersAreNotOverdue`
  (`OverdueOnlyInZeroSlots`), all from `WheelInv`. It says what a slot knows about its nodes (`Fits`): in
  the near list the slot is the low part of the expiry and less than a round is left; in an
  outer level the slot is the digit of the expiry for that level and more is left than the part of the expiry below
  the level's span; outside the zero slots what is left is the distance from `T->time` to the expiry. From
  this, `timer_shift` empties a slot exactly at the tick that leaves the part below the span (`ShiftComes`), at
  most one slot shifts in a tick and never a zero slot (`OneSlotShifts`), `add_node` then finds a place that fits again
  (`PlacedFits`), and the near slot of the tick holds the nodes that are due (`DueNow`).
  `MoveKeeps` is the lemma on `move_list`, whose loop over a list is a fold. The laws of powers of two are stated
  as `PowerAssumption` in `TimeWheel`: they hold of all shifts, but powers are beyond the SMT backend and the laws would
  take an induction; TLC evaluates them for the shifts of both runs.

`EpollReactorProofs` holds what the two servers share: `InSync`, in which every descriptor is registered for the direction its
callback expects and every event of a batch belongs to an open descriptor whose slot still waits for it; the lemmas on
`nty_event_set/add/del` that preserve it; and `ConnInv`, one descriptor or one place in the backlog for each connection.

- `WebServerProofs` (at least three descriptors, blocks of any positive size): `TableCorrect` (`SlotsOK`), `EventsStayCurrent`
  (`EventsCurrent`), `AnswerIsOwn` (`AnswersOwnRequest`). `BlocksInv` adds that the block of every open descriptor
  is there, `AskedInv` that a request is remembered only while its connection has a descriptor, so
  that the resource left in a slot by another connection is never the one sent.
- `ReactorSingleProofs` (the table has a slot for every descriptor, `SCAN` at most the table): `TableCorrect`
  (`SlotsOK`), `EchoIsOwn` (`EchoesOwnInput`), `ScanFindsIdle` (`IdleIsFound`) and the action property `ServedIsKept`
  (`ServedStaysOpen`). `ScanInv` is a measure: the rounds that missed an idle slot, times the length of a
  scan, plus the way from `checkpos` to the slot, stay below the size of the table. `AgeInv` ties `last_active`
  of a slot to the time its connection was served.

`DnsClientProofs` (the assumptions of `DnsClient`; any requests, sockets and events per `epoll_wait`):

- `ResourcesSafe`: `ResourcesOK`, by the invariant `DnsInv`. `Alive` alone is not inductive. `CommitInv` adds that
  between `sendto` and `EPOLL_CTL_ADD` no thread but main knows of the request, `SocketInv` that a socket is
  owned by and watched for the request it was given to last, so that closing one takes nothing from another;
  `UnansweredInv` that the callback of a pending request has not run, and that the one being closed was
  not reported a second time.
- `AnswersKnown`: `AnswerOrigin`. `OriginInv` follows the datagrams: whatever waits at a port or is under way to
  it was asked for by a request that has, or had, a socket with this port; a socket is only given
  back when its request was answered.

`StandaloneProofs`: a step of the composition is a step of one component and leaves the others' variables
alone, so each theorem is about one component and names its own constants.

- `ReadsAlwaysFit` (`ReadsFit` of `Reactor`; `ReactorConstants`: the first descriptors exist, the buffer is smaller than
  `size_t`): the reads that have not failed leave `buf_r_len` within the buffer.
- `ExceptionsReachTheirCatch` (`FramesOK` of `TryCatch`, no hypothesis): with a goal that lies below the statement
  and no body between them that catches the exception, throwing to the next frame is inductive.
- `TimersInOrder` (`TimerOK` of `Timer`; a second has a tick, no timeout is negative): ids are given out once, so two timers
  never compare equal, and what waits is greater than all that was called (`TimerAhead`). What sleep may pass is bounded by
  `TimerSleeps`, which follows the clock from its reading in `time_to_sleep` to the sleep.
- `MessagesAreKept` (`RingOK` of `RingBuf`; a size of at least 1): up to the first write that the indexes do not bear,
  `tail` is where the unread bytes end, counted round the buffer, and they lie from `head` in order.
- `AllocationsDisjoint` (`PoolOK` of `MemPool`; `Parameters`, and a node of the large list is a multiple of the
  alignment, 32 bytes in the code): every allocation ends at or below the front of its block and starts at its data or
  beyond; one that lies outside starts past the end (`Lies`, see section 6). The list of large chunks is then
  made of nodes that nothing overwrites.
- `TopExpiresFirst` (`HeapOK` of `MinHeapTimer`; the list fits in the index type, `NULL` is no expiry): the heap order, that
  the list is filled without gaps up to `last`, and that each expiry stands in as many places as it was pushed. `adjust_up` is
  a recursive function; that it is defined along the way to the root follows from a least counterexample.
- `LevelsInOrder` (`ListOK` of `SkipList`; the head is no node, `NULL` and memory behind a node are none): there is one
  ranking of the nodes that serves all levels (`Ranked`), and on each level a node leads to the next lower rank among those that
  reach it (`InRows`). A walk then ends at the last node before the time, from wherever it starts (`AlongEnds`), so
  that the cursor of each level does not depend on the levels above (`CursorsEnd`). An insertion
  takes its rank between those before its time and the others; a removal is that of the node itself on each of its levels, as long as
  the list is `"up"`.
- `NobodySleeps` (at least one worker): `NobodySleepsOverWork` of `ThreadPool`, whatever the stores of a push
  and a pop that met have left of the list. With the places the threads may be at it is inductive: only the mutex's
  holder goes to sleep, over a queue it has just seen empty, and a push that fills the queue outside the mutex
  is counted by `Pushing` until its signal, which wakes somebody.
- `TasksInOrder` (no hypothesis): `QueueOK` of `ThreadPool`, for any workers, tasks and nodes. `CallsInv` says that there
  is a chain of nodes whose links are in the state the last call leaves them in (push and pop leave the two ends
  differently, and neither makes a proper circle), that it holds the tasks that were pushed and not taken, and that the one
  call in progress has done the stores before its place; each store of a push or a pop moves this on. `disturbed` is
  where the argument ends, and where the code breaks.

- `OneHolderInOrder` (`TasksTakenOnce` of `ZeroThreadPool`; `Nobody` is no task, workers are no waiters) and the action property
  `StopTakesNothing`. `ZeroInv` holds the order of the queue and the two histories, that no task is submitted twice, and
  that exactly the tasks handed out have a holder or an outcome. Ownership alone is not inductive: it needs that the
  head of the queue was not handed out before, which follows from the order and the absence of duplicates in `submitted`.

`RbTreeProofs` (any set of integers as keys, finite or not):

- `KeysKept`: `KeysOK`, from the invariant `TreeInv`, whatever deletions did to the balance. `TreeOK(t, S, sub, v)` gives every
  node of the tree the set `sub[n]` of the nodes below it: the node and its children's sets, which are disjoint; the root has
  all of `S`; the nodes are in order but for `v`; parent pointers are the inverses of child pointers; and nodes outside `S` are blank.
  The order alone is not inductive: while `delete_fixup` climbs, the tree still holds the key that is going (`Deleting`),
  which after the exchange in `rbtree_delete` is out of its place, a leaf below `node`; so no rotation of the fixup
  moves it, and what is left after it was unlinked is in order. For every function of the code that changes pointers
  one lemma gives the new `sub`: `HangKeeps`, `RotateKeeps`, `ExchangeKeeps`, `UnlinkKeeps`.
  What the recursive walks compute is not taken from an induction theorem: the sizes of the `sub[n]` bound the depth, a least
  bound at which no partial function exists is contradictory (`Computed`), and a least counterexample among the sizes
  (`BottomUp`) shows that `InOrder` lists `S` in order, `Find` finds what is stored, `LastBefore` ends where the key
  may be hung (`LastHangs`) and `Successor` is the next key (`SuccessorNext`).
- `RulesKept`: `RulesUntilClimb`, from `TreeInv /\ BalanceInv`. `Balanced(t, S)` says that there is a height for every node, the
  black nodes from it down to nil, that both its children agree on; `NoRed(t, S, x)` that no red node but `x` has a red parent.
  The rules are not inductive, since they are about the tree at rest: in `insert_fixup` only the cursor may be red under red and the
  heights agree throughout; in `delete_fixup` the key that is going is still in the tree, black, and the heights
  agree as long as it is counted, so that it is a leaf of height 1 whose brother cannot be nil (`BesideLeaf`, and from it that nothing
  dereferences NULL). Each rotation of a fixup keeps the heights of all nodes but the two it turns
  (`RotateHeights` and the lemmas built on it); the borrowing ones leave the leaf one black too many
  until `logic_delete` unlinks it (`RemovedBalance`). That no red node has a red parent stays true after a climb; the heights do not, as
  section 6 says, and the invariant claims them only before it.
- `RoundsKept`: `RoundsEnd`, from the same invariant, climbed or not. The depth of a node is a walk along the parent pointers, which
  `LevelsExist` reads as the child pointers of another tree so that the argument for `InOrder` serves again, and `DepthIs` shows to be what
  `CHOOSE` picks. Recolouring leaves the parent pointers alone and the cursor goes up; `DepthRotate` says that a rotation keeps the
  depth of what lies outside the turned subtree and gives its new root that of the old. That a red brother's rotation leaves a black one
  needs `NoRed`, thus `BalanceInv`.

Only model-checked:

- what needs fairness (`EveryItemTaken`, `AwakeWorkerDrains`, `TimedWaitReturns`, `PlacedTimerEnds`,
  `EndsUnlessLost`, `RequestsServed`, `ClientIsAccepted`): liveness and `ENABLED` are out of the prover's reach.

## 6. Where code and comments part

With a run: the overfull ring and the lost wakeup of section 3.

Visible in a passing property as its exception, or in a choice of the model:

- Deleting from a red-black tree: when `delete_fixup` climbs to the root, `T->root` becomes
  `nil` and all keys are lost (`rbtree.c:305-306`; `DeleteAtRoot`). When it climbs below the root, the brother's
  black children are taken for red (`rbtree.c:315`), the tree loses its balance and a later
  deletion may dereference NULL, although the comment at line 308 says that a black node
  always has a brother (`climbed`).
- A timer that `add_node` puts into slot 0 of `t[0]`, `t[1]` or `t[2]` is never moved again and never runs
  (`timewheel.c:59-66, 111`; `ZeroSlots`).
- `add_timer` counts from `T->time`, which is behind the clock while `expire_timer` catches up: such a timer is
  early by the lag. A recycled node keeps the cancel flag of its predecessor.
- `wait_for_all_done` returns while tasks are running, is not notified when the last ends, and
  compares timeouts in different units; `stop` dereferences a null `unique_ptr`.
- Two consumers of the lock-free queue may be told "empty" by a pair of stale loads; a `pop` may read a
  slot that its push has claimed and not yet stored, or, if another consumer has claimed after it, one that the producer has
  filled again.
- Aligning the front of a nearly full block in `mp_alloc` may pass its end; the room is then computed as a
  huge `size_t` and the allocation lies outside the block (`mmpool.c:194-199`; the second case of `Disjoint`).
  A pool smaller than a large node makes `mp_alloc` and `mp_alloc_large` call each other without end.
  `head->next` is not initialised.
- `reactor_single` closes its own listener after `TIMEOUT`, since `last_active` of the listener is set once. A
  connection beyond the limit is accepted and not closed. `webserver` answers only the first of
  several requests received together; the rest of a partial `send` or `sendfile` is dropped.

- The linked queue: the first node is linked to itself, so a pop after one push, or a push after popping down to
  one, breaks it (`Turn`); `queue_pop` reads a freed node, and the push of `add_task` is not under the mutex (`disturbed`).
- The DNS client never compares ids: a late answer on a port used again goes to the wrong callback (`AnswerOrigin` says that
  this is the only way). A lost answer is never asked for again and keeps its socket; without sockets
  the process exits. A refused query calls back with what an empty buffer parses to; `dns_client_commit` never closes its socket.
- Exceptions: a handler that throws leaves its own statement without running its `Finally`. A `return` out of a
  `Try` body would leave a dangling frame; the model leaves bodies at their end or by `Throw`.
- `Timer`: the loop sleeps from a later moment than that of the clock reading, so that it may oversleep its first task
  (`slip`). A callback that deletes its own task makes `check_task` erase a dead iterator; `time_to_sleep` reads the first
  task of an empty set.
- `RingBuf` writes at `head` instead of `tail` and never turns round at the end; a full buffer looks empty (`sound`).
- `SkipList` dereferences NULL when a removal or a search runs off a level, cuts off a twin instead of the
  node, compares narrowed timestamps, and `skplist_destroy` leaves an empty list alone.
- `MinHeapTimer`: `reserve` is one entry short and passes a number of entries as bytes, the precedence error in
  `adjust_down` picks the wrong children, `last` passes below zero.
- `Reactor`: the read length of a descriptor outlives the connection, so a full buffer closes connections that
  are alive; a failed `recv` is added to it; descriptors beyond the items have none.

## 7. Not modelled

`src/memleak.c` (allocation hooks that write files, mostly switched off), `src/net_family.c`
and `util/blk_list.c` (they do not compile), `util/btree.c` (only node creation exists), build files.
`src/deadlock.c` demonstrates a deadlock it is made to reach, with an unfinished detector. Inside the modelled parts:
texts, dates, DNS records and file contents, printing, test mains, the failure of `malloc` where it changes
nothing, and `rb_node_create`, which has no return statement and is used as if it had one. Not in the models because they use freed
or unowned memory, which has no defined next state: `del_timer` on a dispatched timer, `clear_timer` inside a list that another
thread is changing, `thread_pool_destroy` under
live workers, a `return` out of `Try`. `ringbuff_destroy`
writes to the structure it has freed (`ringbuf.c:35`); `mhp_timer_destroy` stops one entry short, since `cnt` is compared with the index of
the last entry, and meets popped entries that still stand in the list (`minheap-timer.c:80-87`). Amounts are abstracted in the servers: a partial `send` or `sendfile` (`webserver.c:275`) drops the rest, and
a file that vanishes before the body is sent (`webserver.c:280`) leaves a header alone.

## 8. Plan

Order of the work, most important behaviour first; all are done.

1. `ArrayLockFreeQueue`, with the abstract `BoundedFifo` and its proofs.
2. `ZeroThreadPool` and its proofs.
3. `TimeWheel`.
4. `EpollReactor`, with `WebServer` and `ReactorSingle` composed on it.
5. `MemPool`, `RbTree`.
6. `ThreadPool`, composed with `LinkedQueue`.
7. `DnsClient`.
8. `TryCatch`, `Timer`, `Reactor`, `RingBuf`, `SkipList`, `MinHeapTimer`.

Proved: every safety invariant and action property of the passing runs.

Worth doing next: the refinement of abstract
specifications, a set of pending timers for the wheel (each `timer_execute` that reaches a node takes it out at
its time) and a set of keys for the tree, whose operations `TreeInv` now gives one by one.

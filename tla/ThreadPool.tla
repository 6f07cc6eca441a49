------------------------------ MODULE ThreadPool ------------------------------
(***************************************************************************)
(* pool/thread_pool.c: workers that take tasks from the queue of           *)
(* util/queue.c.  The workers hold pool->mutex when they test and pop it;  *)
(* add_task pushes without the mutex, and takes it only for the signal.    *)
(*                                                                         *)
(* The file does not compile as it stands.  It is read with the names it   *)
(* plainly means: pool->taskq for pool->task (c:82), thread_task_cycle for *)
(* thread_task_cycyle (c:110), *pool for pool in thread_pool_setup, which  *)
(* initialises the mutex and the condition (c:164-175).                    *)
(*                                                                         *)
(* One thread, the adder, calls add_task.  Its stores and those of a       *)
(* worker happen in program order and in any interleaving; the two or      *)
(* three loads of an emptiness test happen at one moment.  A load,         *)
(* a store or a free through a dead pointer ends the model: what happens   *)
(* afterwards is undefined.                                                *)
(***************************************************************************)
EXTENDS LinkedQueue

CONSTANTS
    Workers,    \* the threads of thread_pool_setup
    Tasks,      \* the tasks that are added, numbered in the order of their calls
    adder       \* the thread that adds them

ASSUME ThreadAssumption == adder \notin Workers /\ NULL \notin Workers /\ Tasks \subseteq Nat /\ NULL \notin Tasks

VARIABLES
    taskq,      \* pool->taskq
    pc,         \* where every thread is
    node,       \* _node of queue_push and queue_pop
    task,       \* the task a worker runs, or the adder adds
    mutex,      \* the worker that holds pool->mutex, or NULL
    pushed, taken,  \* histories: tasks in the order of the calls of queue_push and queue_pop
    last,       \* history: the later of the calls, "push" or "pop"
    disturbed   \* history: see below

vars == <<taskq, pc, node, task, mutex, pushed, taken, last, disturbed>>

Threads == Workers \cup {adder}

Init ==
    /\ taskq = queue_create
    /\ pc = [t \in Threads |-> IF t = adder THEN "add" ELSE "loop"]
    /\ node = [t \in Threads |-> NULL] /\ task = [t \in Threads |-> NULL]
    /\ mutex = NULL
    /\ pushed = << >> /\ taken = << >> /\ last = "pop" /\ disturbed = FALSE

Running == \A t \in Threads : pc[t] # "crashed"

At(t, where) == Running /\ pc[t] = where

Goto(t, where) == pc' = [pc EXCEPT ![t] = where]

Waiting == Len(pushed) - Len(taken)
Asleep == {w \in Workers : pc[w] = "asleep"}
Popping == \E w \in Workers : pc[w] \in {"unlink", "fix", "free", "data"}
Pushing == pc[adder] \in {"test", "head prev", "head next", "node prev", "next prev", "front"}

(* What the queue does not bear: a push during a pop or the other way round,
   and to turn round at one node.  The first node pushed is linked to itself,
   so it may be pushed on but not popped; of the last node but one popped
   nothing but the way back is left, so the last may be popped but not pushed
   on. *)
Turn(call) == Waiting = 1 /\ last # call

-----------------------------------------------------------------------------
(* add_task.                                                               *)

AddTask(t, n) ==
    /\ At(adder, "add")
    /\ t = Len(pushed) + 1
    /\ n \in taskq.free
    /\ taskq' = Alloc(taskq, n, t)
    /\ node' = [node EXCEPT ![adder] = n] /\ task' = [task EXCEPT ![adder] = t]
    /\ pushed' = Append(pushed, t) /\ last' = "push"
    /\ disturbed' = (disturbed \/ Popping \/ Turn("push"))
    /\ Goto(adder, "test")
    /\ UNCHANGED <<mutex, taken>>

PushTest ==
    /\ At(adder, "test")
    /\ Goto(adder, IF queue_is_empty(taskq) THEN "head prev" ELSE "node prev")
    /\ UNCHANGED <<taskq, node, task, mutex, pushed, taken, last, disturbed>>

\* One store of queue_push.
Store(from, to, q) ==
    /\ At(adder, from)
    /\ taskq' = q
    /\ Goto(adder, to)
    /\ UNCHANGED <<node, task, mutex, pushed, taken, last, disturbed>>

PushStore ==
    LET n == node[adder] IN
    \/ Store("head prev", "head next", HeadPrev(taskq, n))
    \/ Store("head next", "node prev", HeadNext(taskq, n))
    \/ Store("node prev", "next prev", NodePrev(taskq, n))
    \/ Dead(taskq, taskq.next) /\ Store("next prev", "crashed", taskq)
    \/ ~Dead(taskq, taskq.next) /\ Store("next prev", "front", NextPrev(taskq, n))
    \/ Store("front", "signal", HeadNext(taskq, n))

\* Mutation: the signal is forgotten.
Signal_Not ==
    /\ At(adder, "signal") /\ mutex = NULL
    /\ Goto(adder, "add")
    /\ UNCHANGED <<taskq, node, task, mutex, pushed, taken, last, disturbed>>

Signal ==
    /\ At(adder, "signal") /\ mutex = NULL
    /\ \/ /\ Asleep = {}
          /\ Goto(adder, "add")
       \/ \E w \in Asleep : pc' = [pc EXCEPT ![adder] = "add", ![w] = "loop"]
    /\ UNCHANGED <<taskq, node, task, mutex, pushed, taken, last, disturbed>>

-----------------------------------------------------------------------------
(* thread_task_cycle.  Nothing sets thread->shutdown.                      *)

\* The queue is empty: pthread_cond_wait gives the mutex up again.
Sleep(w) ==
    /\ At(w, "loop") /\ mutex = NULL
    /\ queue_is_empty(taskq)
    /\ Goto(w, "asleep")
    /\ UNCHANGED <<taskq, node, task, mutex, pushed, taken, last, disturbed>>

SpuriousWake(w) ==
    /\ At(w, "asleep")
    /\ Goto(w, "loop")
    /\ UNCHANGED <<taskq, node, task, mutex, pushed, taken, last, disturbed>>

Take(w) ==
    /\ At(w, "loop") /\ mutex = NULL
    /\ ~queue_is_empty(taskq)
    /\ mutex' = w
    /\ node' = [node EXCEPT ![w] = Last(taskq)]
    /\ last' = "pop"
    /\ disturbed' = (disturbed \/ Pushing \/ Turn("pop"))
    /\ Goto(w, "unlink")
    /\ UNCHANGED <<taskq, task, pushed, taken>>

PopUnlink(w) ==
    /\ At(w, "unlink")
    /\ IF node[w] = head \/ Dead(taskq, node[w])
       THEN Goto(w, "crashed") /\ UNCHANGED taskq
       ELSE Goto(w, "fix") /\ taskq' = Unlink(taskq, node[w])
    /\ UNCHANGED <<node, task, mutex, pushed, taken, last, disturbed>>

PopFix(w) ==
    /\ At(w, "fix")
    /\ taskq' = FixNext(taskq)
    /\ Goto(w, "free")
    /\ UNCHANGED <<node, task, mutex, pushed, taken, last, disturbed>>

PopFree(w) ==
    /\ At(w, "free")
    /\ taskq' = Free(taskq, node[w])
    /\ Goto(w, "data")
    /\ UNCHANGED <<node, task, mutex, pushed, taken, last, disturbed>>

\* queue_pop reads the data after the free; then the mutex is unlocked.
PopData(w) ==
    /\ At(w, "data")
    /\ task' = [task EXCEPT ![w] = taskq.data[node[w]]]
    /\ taken' = Append(taken, taskq.data[node[w]])
    /\ mutex' = NULL
    /\ Goto(w, "run")
    /\ UNCHANGED <<taskq, node, pushed, last, disturbed>>

\* The handler, and del_task.
Run(w) ==
    /\ At(w, "run")
    /\ task' = [task EXCEPT ![w] = NULL] /\ node' = [node EXCEPT ![w] = NULL]
    /\ Goto(w, "loop")
    /\ UNCHANGED <<taskq, mutex, pushed, taken, last, disturbed>>

-----------------------------------------------------------------------------
Next ==
    \/ \E t \in Tasks, n \in Nodes : AddTask(t, n)
    \/ PushTest \/ PushStore \/ Signal
    \/ \E w \in Workers :
        \/ Sleep(w) \/ SpuriousWake(w) \/ Take(w)
        \/ PopUnlink(w) \/ PopFix(w) \/ PopFree(w) \/ PopData(w) \/ Run(w)

Spec == Init /\ [][Next]_vars

-----------------------------------------------------------------------------
(* Properties.                                                             *)

TypeOK ==
    /\ taskq \in [prev : [Cells \cup {NULL} -> Cells \cup {NULL}], next : Cells,
                  data : [Nodes -> Tasks \cup {NULL}], free : SUBSET Nodes]
    /\ pc \in [Threads -> {"add", "test", "head prev", "head next", "node prev", "next prev", "front",
                           "signal", "loop", "asleep", "unlink", "fix", "free", "data", "run", "crashed"}]
    /\ node \in [Threads -> Cells \cup {NULL}] /\ task \in [Threads -> Tasks \cup {NULL}]
    /\ mutex \in Workers \cup {NULL}
    /\ pushed \in Seq(Tasks) /\ taken \in Seq(Tasks \cup {NULL})
    /\ last \in {"push", "pop"} /\ disturbed \in BOOLEAN

\* add_task pushes outside the mutex (c:64) and signals inside it (c:66-68).
\* All the same the workers never all sleep on a queue that is not empty,
\* unless the adder still owes its signal.
NobodySleepsOverWork ==
    Asleep = Workers /\ ~queue_is_empty(taskq) => Pushing \/ pc[adder] \in {"signal", "crashed"}

\* Until it is disturbed the queue hands out every task, once and in order
\* (queue.c:36-71), and what is left of it is where the next pop and
\* queue_first look; nothing goes through a dead pointer.
InOrderUntilDisturbed ==
    ~disturbed =>
        /\ Running
        /\ taken = SubSeq(pushed, 1, Len(taken))
        /\ ~Pushing /\ ~Popping =>
              /\ queue_is_empty(taskq) <=> Waiting = 0
              /\ \A i \in 1 .. Waiting :
                     /\ FromBack(taskq, i) \in Nodes
                     /\ taskq.data[FromBack(taskq, i)] = pushed[Len(taken) + i]
              /\ Waiting > 0 => queue_first(taskq) = pushed[Len(taken) + 1]

QueueOK == TypeOK /\ InOrderUntilDisturbed
=============================================================================

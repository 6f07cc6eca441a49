---------------------------- MODULE ZeroThreadPool ----------------------------
(***************************************************************************)
(* pool/ZeroThreadPool.{h,cpp}: workers that take tasks from a queue under *)
(* one mutex and sleep on one condition variable, which wait_for_all_done  *)
(* sleeps on too.                                                          *)
(*                                                                         *)
(* What a thread does while it holds _mutex is one step: it releases the   *)
(* mutex at the end of the step, or by waiting.  The test of _bTerminate   *)
(* in thread_routine holds no lock and is a step of its own.               *)
(***************************************************************************)
EXTENDS Integers, Sequences

CONSTANTS
    Workers,        \* the threads the constructor starts
    Tasks,          \* the tasks that may be submitted, each at most once
    Timeouts,       \* values of exec's timeout
    Waiters,        \* threads that call wait_for_all_done
    Nobody          \* a worker that holds no task

ASSUME TimeoutAssumption == Timeouts \subseteq Int
ASSUME NobodyAssumption == Nobody \notin Tasks
ASSUME ThreadAssumption == Workers \cap Waiters = {}

NOW == 1            \* ZeroThreadPool.h:22

VARIABLES
    taskQ,          \* _taskQ
    expire,         \* _expire of every task submitted so far
    bTerminate,     \* _bTerminate
    waitSet,        \* threads asleep on _condition
    pc,             \* where every worker and waiter is
    task,           \* the task each worker holds
    timed,          \* whether a waiter passed a non-negative time
    stopper,        \* how far the thread that calls stop() has come
    submitted, taken,   \* histories: tasks in the order of exec and of get_task
    outcome         \* what became of a task: "none", "ran" or "expired"

vars == <<taskQ, expire, bTerminate, waitSet, pc, task, timed, stopper, submitted, taken, outcome>>

Threads == Workers \cup Waiters

(* The constructor: its num null entries precede the num threads in
   _threads, which stop() walks from the front. *)
Init ==
    /\ taskQ = << >> /\ submitted = << >> /\ taken = << >>
    /\ expire = [t \in Tasks |-> 0]
    /\ bTerminate = FALSE
    /\ waitSet = {}
    /\ pc = [t \in Threads |-> IF t \in Workers THEN "loop" ELSE "caller"]
    /\ task = [w \in Workers |-> Nobody]
    /\ timed = [v \in Waiters |-> FALSE]
    /\ stopper = "none"
    /\ outcome = [t \in Tasks |-> "none"]

Running == stopper # "crashed"

\* notify_one on a set of sleepers: any one of them leaves it.
NotifyOne(S) == IF S = {} THEN {S} ELSE {S \ {t} : t \in S}

-----------------------------------------------------------------------------
(* exec                                                                    *)

Exec(t, timeout) ==
    /\ Running
    /\ \A i \in 1 .. Len(submitted) : submitted[i] # t
    /\ expire' = [expire EXCEPT ![t] = IF timeout = 0 THEN 0 ELSE NOW + timeout]
    /\ taskQ' = Append(taskQ, t)
    /\ submitted' = Append(submitted, t)
    /\ waitSet' \in IF taskQ' = << >> THEN NotifyOne(waitSet) ELSE {waitSet}
    /\ UNCHANGED <<bTerminate, pc, task, timed, stopper, taken, outcome>>

-----------------------------------------------------------------------------
(* thread_routine and get_task                                             *)

LoopTest(w) ==
    /\ Running /\ pc[w] = "loop"
    /\ pc' = [pc EXCEPT ![w] = IF bTerminate THEN "exited" ELSE "get"]
    /\ UNCHANGED <<taskQ, expire, bTerminate, waitSet, task, timed, stopper, submitted, taken, outcome>>

\* The three ends of the critical section of get_task; a woken worker tests
\* the wait predicate again and so starts over.
\* Mutation: sleeps without testing the predicate.
GetWait_Untested(w) ==
    /\ Running /\ pc[w] = "get" /\ w \notin waitSet
    /\ ~bTerminate
    /\ waitSet' = waitSet \cup {w}
    /\ UNCHANGED <<taskQ, expire, bTerminate, pc, task, timed, stopper, submitted, taken, outcome>>

GetWait(w) ==
    /\ Running /\ pc[w] = "get" /\ w \notin waitSet
    /\ taskQ = << >> /\ ~bTerminate
    /\ waitSet' = waitSet \cup {w}
    /\ UNCHANGED <<taskQ, expire, bTerminate, pc, task, timed, stopper, submitted, taken, outcome>>

GetTerminated(w) ==
    /\ Running /\ pc[w] = "get" /\ w \notin waitSet
    /\ bTerminate
    /\ pc' = [pc EXCEPT ![w] = "loop"]
    /\ UNCHANGED <<taskQ, expire, bTerminate, waitSet, task, timed, stopper, submitted, taken, outcome>>

\* Mutation: front() without pop().
GetTake_NoPop(w) ==
    /\ Running /\ pc[w] = "get" /\ w \notin waitSet
    /\ taskQ # << >> /\ ~bTerminate
    /\ task' = [task EXCEPT ![w] = Head(taskQ)]
    /\ taken' = Append(taken, Head(taskQ))
    /\ pc' = [pc EXCEPT ![w] = "run"]
    /\ UNCHANGED <<taskQ, expire, bTerminate, waitSet, timed, stopper, submitted, outcome>>

GetTake(w) ==
    /\ Running /\ pc[w] = "get" /\ w \notin waitSet
    /\ taskQ # << >> /\ ~bTerminate
    /\ task' = [task EXCEPT ![w] = Head(taskQ)]
    /\ taskQ' = Tail(taskQ)
    /\ taken' = Append(taken, Head(taskQ))
    /\ pc' = [pc EXCEPT ![w] = "run"]
    /\ UNCHANGED <<expire, bTerminate, waitSet, timed, stopper, submitted, outcome>>

Run(w) ==
    /\ Running /\ pc[w] = "run"
    /\ outcome' = [outcome EXCEPT ![task[w]] =
                      IF expire[task[w]] # 0 /\ expire[task[w]] <= NOW THEN "expired" ELSE "ran"]
    /\ task' = [task EXCEPT ![w] = Nobody]
    /\ pc' = [pc EXCEPT ![w] = "loop"]
    /\ UNCHANGED <<taskQ, expire, bTerminate, waitSet, timed, stopper, submitted, taken>>

\* A condition variable may wake a sleeper that nobody notified.
SpuriousWake(t) ==
    /\ Running /\ t \in waitSet
    /\ waitSet' = waitSet \ {t}
    /\ UNCHANGED <<taskQ, expire, bTerminate, pc, task, timed, stopper, submitted, taken, outcome>>

-----------------------------------------------------------------------------
(* wait_for_all_done: with a negative argument it sleeps without a limit.  *)

WaitCall(v, isTimed) ==
    /\ Running /\ pc[v] = "caller"
    /\ timed' = [timed EXCEPT ![v] = isTimed]
    /\ pc' = [pc EXCEPT ![v] = "waiting"]
    /\ UNCHANGED <<taskQ, expire, bTerminate, waitSet, task, stopper, submitted, taken, outcome>>

WaitSleep(v) ==
    /\ Running /\ pc[v] = "waiting" /\ v \notin waitSet
    /\ taskQ # << >>
    /\ waitSet' = waitSet \cup {v}
    /\ UNCHANGED <<taskQ, expire, bTerminate, pc, task, timed, stopper, submitted, taken, outcome>>

WaitReturn(v) ==
    /\ Running /\ pc[v] = "waiting" /\ v \notin waitSet
    /\ taskQ = << >>
    /\ pc' = [pc EXCEPT ![v] = "returned"]
    /\ UNCHANGED <<taskQ, expire, bTerminate, waitSet, task, timed, stopper, submitted, taken, outcome>>

\* Mutation: the time limit counts only once the queue is empty.
WaitTimeout_NeedsEmpty(v) ==
    /\ Running /\ pc[v] = "waiting" /\ v \in waitSet /\ timed[v] /\ taskQ = << >>
    /\ waitSet' = waitSet \ {v}
    /\ pc' = [pc EXCEPT ![v] = "returned"]
    /\ UNCHANGED <<taskQ, expire, bTerminate, task, timed, stopper, submitted, taken, outcome>>

\* wait_for gives up; the function answers true all the same.
WaitTimeout(v) ==
    /\ Running /\ pc[v] = "waiting" /\ v \in waitSet /\ timed[v]
    /\ waitSet' = waitSet \ {v}
    /\ pc' = [pc EXCEPT ![v] = "returned"]
    /\ UNCHANGED <<taskQ, expire, bTerminate, task, timed, stopper, submitted, taken, outcome>>

-----------------------------------------------------------------------------
(* stop                                                                    *)

StopSignal ==
    /\ stopper = "none"
    /\ bTerminate' = TRUE
    /\ waitSet' = {}
    /\ stopper' = "joining"
    /\ UNCHANGED <<taskQ, expire, pc, task, timed, submitted, taken, outcome>>

\* _threads[0] is one of the null entries that resize() left: calling
\* joinable() on it ends the process.
StopJoin ==
    /\ stopper = "joining"
    /\ stopper' = "crashed"
    /\ UNCHANGED <<taskQ, expire, bTerminate, waitSet, pc, task, timed, submitted, taken, outcome>>

-----------------------------------------------------------------------------
WorkerStep(w) == LoopTest(w) \/ GetWait(w) \/ GetTerminated(w) \/ GetTake(w) \/ Run(w)

WaiterStep(v) == WaitSleep(v) \/ WaitReturn(v)

Next ==
    \/ \E t \in Tasks, timeout \in Timeouts : Exec(t, timeout)
    \/ \E w \in Workers : WorkerStep(w)
    \/ \E v \in Waiters : (\E isTimed \in BOOLEAN : WaitCall(v, isTimed)) \/ WaiterStep(v) \/ WaitTimeout(v)
    \/ \E t \in Threads : SpuriousWake(t)
    \/ StopSignal \/ StopJoin

Spec == Init /\ [][Next]_vars

(* Threads that are awake are scheduled.  The deadline of wait_for is fixed
   when it is called, so wakeups in between cannot postpone it for ever: strong
   fairness.  Nothing obliges a condition variable to wake a thread that nobody
   notified, nor anyone to submit a task or to call stop. *)
Fairness ==
    /\ \A w \in Workers : WF_vars(WorkerStep(w))
    /\ \A v \in Waiters : WF_vars(WaiterStep(v)) /\ SF_vars(WaitTimeout(v))

LiveSpec == Spec /\ Fairness

-----------------------------------------------------------------------------
(* Properties.                                                             *)

\* Every variable has its type; a worker holds a task exactly while it runs one.
TypeOK ==
    /\ taskQ \in Seq(Tasks) /\ submitted \in Seq(Tasks) /\ taken \in Seq(Tasks)
    /\ expire \in [Tasks -> Int]
    /\ bTerminate \in BOOLEAN
    /\ waitSet \subseteq Threads
    /\ pc \in [Threads -> {"loop", "get", "run", "exited", "caller", "waiting", "returned"}]
    /\ task \in [Workers -> Tasks \cup {Nobody}]
    /\ timed \in [Waiters -> BOOLEAN]
    /\ stopper \in {"none", "joining", "crashed"}
    /\ outcome \in [Tasks -> {"none", "ran", "expired"}]
    /\ \A w \in Workers : (pc[w] = "run") <=> (task[w] # Nobody)

\* get_task hands out the tasks in the order exec took them (h:71, cpp:47-48):
\* none is skipped, none is handed out twice, the rest is still queued.
TakenInOrder == taken \o taskQ = submitted

Holders(t) == {w \in Workers : task[w] = t}
IsTaken(t) == \E i \in 1 .. Len(taken) : taken[i] = t

\* A task that was handed out is with exactly one worker until it has an
\* outcome, and no task that is still queued is with a worker or has one
\* (cpp:22-30, cpp:46-49).
OneHolder ==
    \A t \in Tasks :
        /\ \A v, w \in Holders(t) : v = w
        /\ IsTaken(t) <=> (Holders(t) # {} \/ outcome[t] # "none")
        /\ Holders(t) = {} \/ outcome[t] = "none"

\* After stop has set _bTerminate no further task is handed out (cpp:44).
NothingTakenAfterStop == [][bTerminate => taken' = taken]_vars

\* Only sleeping workers lose wakeups: while one worker is awake the queue is
\* drained, unless the pool is stopped (cpp:19-32, cpp:40-50).
AwakeWorkerDrains ==
    (taskQ # << >> /\ \E w \in Workers : pc[w] \in {"loop", "get", "run"} /\ w \notin waitSet)
        ~> (taskQ = << >> \/ bTerminate)

\* A call with a time limit comes back (cpp:91), whoever else sleeps.
TimedWaitReturns ==
    \A v \in Waiters :
        (pc[v] = "waiting" /\ timed[v]) ~> (pc[v] = "returned" \/ stopper = "crashed")

-----------------------------------------------------------------------------
(* What the comments, the test and the names say, and the code does not do. *)

\* exec wakes a worker when the queue was empty (h:72): a submitted task is
\* taken, unless the pool is stopped.
EveryTaskTaken ==
    \A t \in Tasks :
        (\E i \in 1 .. Len(submitted) : submitted[i] = t)
            ~> (IsTaken(t) \/ bTerminate)

=============================================================================

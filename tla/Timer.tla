--------------------------------- MODULE Timer ---------------------------------
(***************************************************************************)
(* src/timer.cpp: timers in a std::set ordered by timeout, then id, served *)
(* by main's loop: sleep until the first is due, run all that are due.     *)
(*                                                                         *)
(* The clock may move between any two steps, also after time_to_sleep has  *)
(* read it and before sleep starts, which then lasts as long from a later  *)
(* moment: main may wake up after its first task is due.                   *)
(*                                                                         *)
(* A callback may add tasks and delete tasks, the one it was called for    *)
(* included; check_task erases that one afterwards by its iterator, which  *)
(* is then no longer valid.  time_to_sleep follows begin() of an empty     *)
(* set.  Both end the run ("crashed").  A second is Second ticks.          *)
(***************************************************************************)
EXTENDS Integers, Sequences, FiniteSets

CONSTANTS
    Second,
    Timeouts,   \* arguments of add_task
    MaxTasks,   \* bound: tasks
    MaxTime     \* bound: the clock

VARIABLES
    task_sets,
    id,         \* the next id
    now,        \* get_tick()
    time,       \* main's local: what time_to_sleep returned
    until,      \* when sleep returns
    running,    \* the task whose callback runs, as a set of at most one
    pc,         \* "setup", "loop", "sleep", "asleep", "check", "callback", "crashed"
    fired,      \* history: the tasks whose callback was called, in order
    deleted,    \* history: the tasks del_task returned true for
    slip        \* history: ticks between the last time_to_sleep and its sleep

vars == <<task_sets, id, now, time, until, running, pc, fired, deleted, slip>>
sleepVars == <<time, until, slip>>

Task == [id : 0 .. MaxTasks - 1, timeout : Nat]

\* Mutation: the order looks at the timeouts alone.
Less_ByTimeout(a, b) == a.timeout < b.timeout
Less(a, b) == a.timeout < b.timeout \/ (a.timeout = b.timeout /\ a.id < b.id)

\* A std::set takes an element unless it holds one that is neither less nor greater.
Inserted(s, t) == IF \E x \in s : ~ Less(x, t) /\ ~ Less(t, x) THEN s ELSE s \cup {t}
IsBegin(t) == t \in task_sets /\ \A x \in task_sets : ~ Less(x, t)

Init ==
    /\ task_sets = {} /\ id = 0
    /\ now = 0 /\ time = 0 /\ until = 0 /\ slip = 0
    /\ running = {} /\ pc = "setup"
    /\ fired = << >> /\ deleted = {}

-----------------------------------------------------------------------------
(* Operations: main adds its tasks before the loop, callbacks in it.       *)

add_task(timeout) ==
    /\ pc \in {"setup", "callback"} /\ id < MaxTasks
    /\ task_sets' = Inserted(task_sets, [id |-> id, timeout |-> timeout + now])
    /\ id' = id + 1
    /\ UNCHANGED <<now, sleepVars, running, pc, fired, deleted>>

\* Of a task that is there; of another it returns false and changes nothing.
del_task(t) ==
    /\ pc = "callback" /\ t \in task_sets
    /\ task_sets' = task_sets \ {t}
    /\ deleted' = deleted \cup {t}
    /\ UNCHANGED <<id, now, sleepVars, running, pc, fired>>

SetUp ==
    /\ pc = "setup" /\ pc' = "loop"
    /\ UNCHANGED <<task_sets, id, now, sleepVars, running, fired, deleted>>

\* The clock is read here, and a task that is overdue has -1 ticks.
time_to_sleep ==
    /\ pc = "loop"
    /\ IF task_sets = {} THEN pc' = "crashed" /\ UNCHANGED <<time, slip>>
       ELSE /\ \E t \in task_sets :
                   IsBegin(t) /\ time' = IF t.timeout < now THEN -1 ELSE t.timeout - now
            /\ slip' = 0 /\ pc' = "sleep"
    /\ UNCHANGED <<task_sets, id, now, until, running, fired, deleted>>

\* sleep(time/1000): whole seconds, rounded to zero, from now on.
Sleeps ==
    /\ pc = "sleep"
    /\ until' = IF time < 0 THEN now ELSE now + (time \div Second) * Second
    /\ pc' = "asleep"
    /\ UNCHANGED <<task_sets, id, now, time, slip, running, fired, deleted>>

Wakes ==
    /\ pc = "asleep" /\ now >= until
    /\ pc' = "check"
    /\ UNCHANGED <<task_sets, id, now, sleepVars, running, fired, deleted>>

check_task ==
    /\ pc = "check"
    /\ \/ \E t \in task_sets :
              /\ IsBegin(t) /\ t.timeout <= now
              /\ running' = {t} /\ fired' = Append(fired, t) /\ pc' = "callback"
       \/ /\ \A t \in task_sets : IsBegin(t) => t.timeout > now
          /\ pc' = "loop" /\ UNCHANGED <<running, fired>>
    /\ UNCHANGED <<task_sets, id, now, sleepVars, deleted>>

Returns ==
    /\ pc = "callback"
    /\ pc' = IF running \subseteq task_sets THEN "check" ELSE "crashed"
    /\ task_sets' = task_sets \ running
    /\ running' = {}
    /\ UNCHANGED <<id, now, sleepVars, fired, deleted>>

Tick ==
    /\ pc # "crashed" /\ now < MaxTime
    /\ now' = now + 1
    /\ slip' = IF pc = "sleep" THEN slip + 1 ELSE slip
    /\ UNCHANGED <<task_sets, id, time, until, running, pc, fired, deleted>>

Next ==
    \/ \E timeout \in Timeouts : add_task(timeout)
    \/ \E t \in task_sets : del_task(t)
    \/ SetUp \/ time_to_sleep \/ Sleeps \/ Wakes \/ check_task \/ Returns
    \/ Tick

Spec == Init /\ [][Next]_vars

-----------------------------------------------------------------------------
(* Properties.                                                             *)

Fired == {fired[i] : i \in DOMAIN fired}

\* Whatever the callbacks add and delete and however late they run, tasks are
\* called in the order of their timeouts, those of one timeout in the order they
\* were added, each once, none before its time and none after it was deleted; a
\* task that is neither is still in the set, and sleep passes the first of them
\* by no more than the clock moved since time_to_sleep read it (cpp:46-81,
\* cpp:100-105).
TimerOK ==
    /\ \A i, j \in DOMAIN fired :
           i < j => \/ fired[i].timeout < fired[j].timeout
                    \/ fired[i].timeout = fired[j].timeout /\ fired[i].id < fired[j].id
    /\ \A t \in Fired : t.timeout <= now
    /\ pc # "crashed" => Cardinality(task_sets \cup deleted \cup Fired) = id
    /\ pc # "crashed" => (Fired \ running) \cap (task_sets \cup deleted) = {}
    /\ pc = "asleep" => \A t \in task_sets : until - slip <= t.timeout \/ until <= now
=============================================================================

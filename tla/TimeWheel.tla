------------------------------ MODULE TimeWheel ------------------------------
(***************************************************************************)
(* src/timewheel.{h,c}: a hierarchical timing wheel.  Timers due within    *)
(* TIME_NEAR ticks hang in near[], later ones in one of four coarser       *)
(* levels t[0..3], whose lists timer_shift moves inwards as time passes.   *)
(*                                                                         *)
(* One thread calls expire_timer and runs the callbacks with the spinlock  *)
(* released; any thread may add or cancel timers meanwhile.  Everything a  *)
(* thread does between taking and releasing the lock is exclusive.         *)
(*                                                                         *)
(* clear_timer takes no lock.  It empties one list after the other, each   *)
(* in a step of its own, at any time.  What is assumed of its caller is    *)
(* that it is not inside a list while another thread works on the lists;   *)
(* the code does not see to that, and such a race would have no defined    *)
(* outcome.                                                                *)
(*                                                                         *)
(* TIME_NEAR_SHIFT and TIME_LEVEL_SHIFT are parameters.  T->time has as    *)
(* many bits as the wheel has (8 + 4*6 = 32 in the code), so it wraps just *)
(* when the outermost level has gone round.                                *)
(***************************************************************************)
EXTENDS Integers, Sequences, SequencesExt

CONSTANTS
    TIME_NEAR_SHIFT, TIME_LEVEL_SHIFT,
    Nodes,          \* memory blocks that malloc hands out for timer nodes
    Delays,         \* arguments of add_timer
    MaxLag          \* bound: ticks the wall clock may run ahead of the last reading

ASSUME ShiftAssumption == TIME_NEAR_SHIFT \in Nat \ {0} /\ TIME_LEVEL_SHIFT \in Nat \ {0}
ASSUME LagAssumption == MaxLag \in Nat \ {0}

TIME_NEAR  == 2 ^ TIME_NEAR_SHIFT
TIME_LEVEL == 2 ^ TIME_LEVEL_SHIFT
Span(level) == 2 ^ (TIME_NEAR_SHIFT + level * TIME_LEVEL_SHIFT)     \* ticks per slot of t[level]
UINT == Span(4)                                                     \* values of T->time

\* The laws of powers of two that the wheel rests on.  They hold of all shifts;
\* TLC evaluates them and the proofs cite them.
ASSUME PowerAssumption ==
    /\ TIME_LEVEL \in Nat \ {0, 1}
    /\ \A level \in 0 .. 4 : Span(level) \in Nat \ {0}
    /\ \A level \in 0 .. 3 : Span(level + 1) = Span(level) * TIME_LEVEL

\* add_timer takes a signed int: half of the range of T->time.
ASSUME DelayAssumption == Delays \subseteq -1 .. UINT \div 2 - 1

Near  == -1                         \* near[] as the level below t[0]
Slots == ({Near} \X (0 .. TIME_NEAR - 1)) \cup ((0 .. 3) \X (0 .. TIME_LEVEL - 1))

VARIABLES
    wheel,          \* the list of nodes of every slot
    time,           \* T->time
    lock,           \* the spinlock: "free", "timer" or "stuck"
    expire, cancel, \* fields of the nodes; a freed block keeps its cancel flag
    pc, pass,       \* where expire_timer is; which timer_execute of timer_update
    todo,           \* calls of timer_update that expire_timer still has to make
    batch,          \* nodes taken off a list and not yet dispatched
    lag,            \* wall clock less current_point
    left            \* history: ticks until the timer is due, -1 when overdue

vars == <<wheel, time, lock, expire, cancel, pc, pass, todo, batch, lag, left>>
nodeVars == <<expire, cancel, left>>

InSlot(n, s) == \E i \in 1 .. Len(wheel[s]) : wheel[s][i] = n
InBatch(n)   == \E i \in 1 .. Len(batch) : batch[i] = n
Pending(n)   == \E s \in Slots : InSlot(n, s)
Free(n)      == ~Pending(n) /\ ~InBatch(n)

\* free(): what the block and the histories held is not read again, except
\* for cancel, which the next add_timer that gets the block does not assign.
Forget(S) ==
    /\ expire' = [n \in Nodes |-> IF n \in S THEN 0 ELSE expire[n]]
    /\ left' = [n \in Nodes |-> IF n \in S THEN 0 ELSE left[n]]

\* The slots of t[0..2] that timer_shift never empties.
ZeroSlots == (0 .. 2) \X {0}

-----------------------------------------------------------------------------
(* add_node: the level depends on how far away the expiry is, the slot of  *)
(* the level on bits of the expiry itself.                                 *)

IndexOf(e, level) ==
    IF level = Near THEN e % TIME_NEAR ELSE (e \div Span(level)) % TIME_LEVEL

\* Mutation: <= in place of < at the first level (c:56).
LevelOf_OffByOne(msec) ==
    CASE msec <= TIME_NEAR -> Near
      [] TIME_NEAR < msec /\ msec < Span(1) -> 0
      [] Span(1) <= msec /\ msec < Span(2) -> 1
      [] Span(2) <= msec /\ msec < Span(3) -> 2
      [] OTHER -> 3

LevelOf(msec) ==
    CASE msec < TIME_NEAR -> Near
      [] TIME_NEAR <= msec /\ msec < Span(1) -> 0
      [] Span(1) <= msec /\ msec < Span(2) -> 1
      [] Span(2) <= msec /\ msec < Span(3) -> 2
      [] OTHER -> 3

AddNode(w, e, now, n) ==
    LET level == LevelOf((e - now) % UINT)
    IN  [w EXCEPT ![<<level, IndexOf(e, level)>>] = Append(@, n)]

\* Mutation: the wrap of T->time shifts nothing.
ShiftedSlots_NoWrap(ct) ==
    IF ct = 0 THEN {}
    ELSE {<<i, IndexOf(ct, i)>> : i \in {j \in 0 .. 3 : ct % Span(j) = 0 /\ IndexOf(ct, j) # 0}}

\* timer_shift at the new time ct: the slot that move_list empties, if any.
ShiftedSlots(ct) ==
    IF ct = 0 THEN {<<3, 0>>}
    ELSE {<<i, IndexOf(ct, i)>> : i \in {j \in 0 .. 3 : ct % Span(j) = 0 /\ IndexOf(ct, j) # 0}}

\* Mutation: link_clear is missing.
MoveList_NoClear(w, s, ct) ==
    FoldLeft(LAMBDA acc, n : AddNode(acc, expire[n], ct, n), w, w[s])

MoveList(w, s, ct) ==
    FoldLeft(LAMBDA acc, n : AddNode(acc, expire[n], ct, n), [w EXCEPT ![s] = << >>], w[s])

-----------------------------------------------------------------------------
Init ==
    /\ wheel = [s \in Slots |-> << >>]
    /\ time = 0 /\ lag = 0 /\ todo = 0
    /\ lock = "free"
    /\ expire = [n \in Nodes |-> 0] /\ cancel = [n \in Nodes |-> FALSE]
    /\ pc = "idle" /\ pass = 1 /\ batch = << >>
    /\ left = [n \in Nodes |-> 0]

(* Any thread.                                                             *)

\* add_timer with a positive time: cancel is not assigned.
AddTimer(n, t) ==
    /\ lock = "free" /\ Free(n) /\ t > 0
    /\ expire' = [expire EXCEPT ![n] = (t + time) % UINT]
    /\ wheel' = AddNode(wheel, (t + time) % UINT, time, n)
    /\ left' = [left EXCEPT ![n] = t]
    /\ UNCHANGED <<time, lock, cancel, pc, pass, todo, batch, lag>>

\* add_timer with time <= 0: the callback runs at once, under the lock, and
\* the node is freed.  A callback that adds a timer itself never gets the lock.
AddTimerNow(n, t, reenters) ==
    /\ lock = "free" /\ Free(n) /\ t <= 0
    /\ lock' = IF reenters THEN "stuck" ELSE "free"
    /\ UNCHANGED <<wheel, time, nodeVars, pc, pass, todo, batch, lag>>

\* del_timer on a timer whose callback has not started; no lock is taken.
DelTimer(n) ==
    /\ ~Free(n)
    /\ cancel' = [cancel EXCEPT ![n] = TRUE]
    /\ UNCHANGED <<wheel, time, lock, expire, pc, pass, todo, batch, lag, left>>

\* The body of the loops of clear_timer, for the list of one slot.  No lock is
\* taken and the loops keep no more than their index, so that it may come at any
\* time and for any slot; the order the loops have is one of those.
ClearSlot(s) ==
    /\ wheel[s] # << >>
    /\ wheel' = [wheel EXCEPT ![s] = << >>]
    /\ Forget({n \in Nodes : InSlot(n, s)})
    /\ UNCHANGED <<time, lock, cancel, pc, pass, todo, batch, lag>>

ClockTick ==
    /\ lag + todo < MaxLag
    /\ lag' = lag + 1
    /\ UNCHANGED <<wheel, time, lock, nodeVars, pc, pass, todo, batch>>

-----------------------------------------------------------------------------
(* expire_timer and timer_update, in the timer thread.                     *)

here == <<Near, time % TIME_NEAR>>      \* the slot timer_execute looks at

ExpireTimer ==
    /\ pc = "idle" /\ lag > 0
    /\ todo' = lag /\ lag' = 0
    /\ pc' = "update"
    /\ UNCHANGED <<wheel, time, lock, nodeVars, pass, batch>>

UpdateLock ==
    /\ pc = "update" /\ lock = "free"
    /\ lock' = "timer" /\ pc' = "execute" /\ pass' = 1
    /\ UNCHANGED <<wheel, time, nodeVars, todo, batch, lag>>

\* timer_execute takes the list of the slot and lets go of the lock.
ExecuteTake ==
    /\ pc = "execute" /\ wheel[here] # << >>
    /\ batch' = wheel[here]
    /\ wheel' = [wheel EXCEPT ![here] = << >>]
    /\ lock' = "free" /\ pc' = "dispatch"
    /\ UNCHANGED <<time, nodeVars, pass, todo, lag>>

\* dispatch_list: the callback of a node that is not cancelled, then free.
Dispatch ==
    /\ pc = "dispatch" /\ batch # << >>
    /\ batch' = Tail(batch)
    /\ Forget({Head(batch)})
    /\ UNCHANGED <<wheel, time, lock, cancel, pc, pass, todo, lag>>

DispatchEnd ==
    /\ pc = "dispatch" /\ batch = << >> /\ lock = "free"
    /\ lock' = "timer" /\ pc' = "execute"
    /\ UNCHANGED <<wheel, time, nodeVars, pass, todo, batch, lag>>

\* Mutation: the increment is missing.
Advanced_Not == time

\* ++T->time
Advanced == (time + 1) % UINT

TimerShift ==
    /\ pc = "execute" /\ pass = 1 /\ wheel[here] = << >>
    /\ LET ct == Advanced IN
       /\ time' = ct
       /\ wheel' = IF ShiftedSlots(ct) = {} THEN wheel
                   ELSE MoveList(wheel, CHOOSE s \in ShiftedSlots(ct) : TRUE, ct)
    /\ left' = [n \in Nodes |-> IF Pending(n) /\ left[n] >= 0 THEN left[n] - 1 ELSE left[n]]
    /\ pass' = 2
    /\ UNCHANGED <<lock, expire, cancel, pc, todo, batch, lag>>

UpdateUnlock ==
    /\ pc = "execute" /\ pass = 2 /\ wheel[here] = << >>
    /\ lock' = "free"
    /\ todo' = todo - 1
    /\ pc' = IF todo = 1 THEN "idle" ELSE "update"
    /\ UNCHANGED <<wheel, time, nodeVars, pass, batch, lag>>

-----------------------------------------------------------------------------
TimerThread ==
    ExpireTimer \/ UpdateLock \/ ExecuteTake \/ Dispatch \/ DispatchEnd \/ TimerShift \/ UpdateUnlock

Next ==
    \/ \E n \in Nodes, t \in Delays : AddTimer(n, t)
    \/ \E n \in Nodes, t \in Delays, reenters \in BOOLEAN : AddTimerNow(n, t, reenters)
    \/ \E n \in Nodes : DelTimer(n)
    \/ \E s \in Slots : ClearSlot(s)
    \/ ClockTick
    \/ TimerThread

Spec == Init /\ [][Next]_vars

(* The clock advances and the timer thread polls it in a loop; rivals for the
   lock hold it within one step, so weak fairness is enough to get it. *)
LiveSpec == Spec /\ WF_vars(ClockTick) /\ WF_vars(TimerThread)

-----------------------------------------------------------------------------
(* Properties.                                                             *)

\* Every variable has its type; the timer thread holds the lock exactly in timer_execute.
TypeOK ==
    /\ wheel \in [Slots -> Seq(Nodes)]
    /\ time \in 0 .. UINT - 1
    /\ lock \in {"free", "timer", "stuck"}
    /\ expire \in [Nodes -> 0 .. UINT - 1] /\ cancel \in [Nodes -> BOOLEAN]
    /\ pc \in {"idle", "update", "execute", "dispatch"} /\ pass \in {1, 2}
    /\ todo \in 0 .. MaxLag /\ lag \in 0 .. MaxLag
    /\ batch \in Seq(Nodes)
    /\ left \in [Nodes -> Int]
    /\ (pc = "execute") <=> (lock = "timer")

\* A node is linked once: in one slot, or in the batch being dispatched (the
\* list surgery of move_list and link_clear, c:36-49, c:89-96), however the lists
\* are filled, moved and cleared between the locked sections and in them (c:216-241).
OnePlace ==
    \A n \in Nodes :
        /\ \A s, r \in Slots : \A i \in 1 .. Len(wheel[s]), j \in 1 .. Len(wheel[r]) :
               wheel[s][i] = n /\ wheel[r][j] = n => s = r /\ i = j
        /\ \A i, j \in 1 .. Len(batch) : batch[i] = n /\ batch[j] = n => i = j
        /\ Pending(n) => ~InBatch(n)

\* A timer that is dispatched is due exactly now by the wheel's own clock,
\* however often it was cascaded and however T->time wrapped (c:52-67, c:99-120).
FiresOnTime == \A n \in Nodes : InBatch(n) => left[n] = 0

\* A timer that timer_shift has passed by lies in slot 0 of t[0], t[1] or t[2].
OverdueOnlyInZeroSlots ==
    \A n \in Nodes, s \in Slots : InSlot(n, s) /\ left[n] < 0 => s \in ZeroSlots

\* Every timer that add_timer put into any other slot is dispatched (or
\* cleared) in the end, unless a callback has blocked the lock.
PlacedTimerEnds ==
    \A n \in Nodes :
        (\E s \in Slots \ ZeroSlots : InSlot(n, s)) ~> (Free(n) \/ lock = "stuck")

\* The nodes and their places, as one invariant of the runs.
NodesOK == TypeOK /\ OnePlace
=============================================================================

---------------------------- MODULE MCStandalone ----------------------------
(***************************************************************************)
(* The components that interact with no other, side by side for TLC: Init  *)
(* chooses the one that runs, the variables of the others keep their       *)
(* initial values.  The thread pool with its queue is the module extended, *)
(* the others are instances; their constants and variables carry a prefix. *)
(* The C++ thread pool runs for what needs no fairness, which the run of   *)
(* MCZeroThreadPool adds.                                                  *)
(***************************************************************************)
EXTENDS ThreadPool

CONSTANTS
    tc_Threads, tc_Exceptions, tc_None, tc_MaxDepth,
    sl_Nodes, sl_head, sl_NULL, sl_Times, sl_SKIPLIST_LEVEL_MAX, sl_IntRange,
    rb_Size, rb_Bytes, rb_NewLine,
    mh_Expires, mh_amount, mh_UIntRange, mh_MaxPops, mh_NULL,
    tm_Second, tm_Timeouts, tm_MaxTasks, tm_MaxTime,
    rx_Conns, rx_NOFILE, rx_MAX_ITEMS_SIZE, rx_BUFFER_SIZE, rx_SizeRange,
    rx_MaxUnread,
    mp_MP_ALIGNMENT, mp_POOL, mp_NODE, mp_LARGE, mp_MAX_FAILED, mp_MaxFromPool,
    mp_PoolSize, mp_Sizes, mp_Chunks, mp_NoChunk, mp_MaxBlocks, mp_MaxAllocs,
    zp_Workers, zp_Tasks, zp_Timeouts, zp_Waiters, zp_Nobody

VARIABLES
    runs,   \* the component that runs
    tc_code, tc_ExceptionStack,
    sl_height, sl_timestamp, sl_next, sl_level, sl_length, sl_stored,
    sl_status,
    rb_buff, rb_head, rb_tail, rb_unread, rb_sound, rb_ran,
    mh_list, mh_last, mh_pos, mh_pushed, mh_popped, mh_status,
    tm_task_sets, tm_id, tm_now, tm_time, tm_until, tm_running, tm_pc, tm_fired,
    tm_deleted, tm_slip,
    rx_file, rx_watch, rx_readable, rx_buf_r_len, rx_net, rx_unread, rx_taken,
    rx_failed, rx_status,
    mp_blocks, mp_current, mp_large, mp_spans, mp_heap,
    zp_taskQ, zp_expire, zp_bTerminate, zp_waitSet, zp_pc, zp_task, zp_timed,
    zp_stopper, zp_submitted, zp_taken, zp_outcome

tcVars == <<tc_code, tc_ExceptionStack>>
slVars == <<sl_height, sl_timestamp, sl_next, sl_level, sl_length, sl_stored,
            sl_status>>
rbVars == <<rb_buff, rb_head, rb_tail, rb_unread, rb_sound, rb_ran>>
mhVars == <<mh_list, mh_last, mh_pos, mh_pushed, mh_popped, mh_status>>
tmVars == <<tm_task_sets, tm_id, tm_now, tm_time, tm_until, tm_running, tm_pc, tm_fired,
            tm_deleted, tm_slip>>
rxVars == <<rx_file, rx_watch, rx_readable, rx_buf_r_len, rx_net, rx_unread, rx_taken,
            rx_failed, rx_status>>
mpVars == <<mp_blocks, mp_current, mp_large, mp_spans, mp_heap>>
zpVars == <<zp_taskQ, zp_expire, zp_bTerminate, zp_waitSet, zp_pc, zp_task, zp_timed,
            zp_stopper, zp_submitted, zp_taken, zp_outcome>>

TC == INSTANCE TryCatch WITH
          Threads <- tc_Threads, Exceptions <- tc_Exceptions, None <- tc_None,
          MaxDepth <- tc_MaxDepth, code <- tc_code, ExceptionStack <- tc_ExceptionStack

SL == INSTANCE SkipList WITH
          Nodes <- sl_Nodes, head <- sl_head, NULL <- sl_NULL, Times <- sl_Times,
          SKIPLIST_LEVEL_MAX <- sl_SKIPLIST_LEVEL_MAX, IntRange <- sl_IntRange,
          height <- sl_height, timestamp <- sl_timestamp, next <- sl_next, level <- sl_level,
          length <- sl_length, stored <- sl_stored, status <- sl_status

RB == INSTANCE RingBuf WITH
          Size <- rb_Size, Bytes <- rb_Bytes, NewLine <- rb_NewLine, buff <- rb_buff,
          head <- rb_head, tail <- rb_tail, unread <- rb_unread, sound <- rb_sound, ran <- rb_ran

MH == INSTANCE MinHeapTimer WITH
          Expires <- mh_Expires, amount <- mh_amount, UIntRange <- mh_UIntRange,
          MaxPops <- mh_MaxPops, NULL <- mh_NULL, list <- mh_list, last <- mh_last, pos <- mh_pos,
          pushed <- mh_pushed, popped <- mh_popped, status <- mh_status

TM == INSTANCE Timer WITH
          Second <- tm_Second, Timeouts <- tm_Timeouts, MaxTasks <- tm_MaxTasks,
          MaxTime <- tm_MaxTime, task_sets <- tm_task_sets, id <- tm_id, now <- tm_now,
          time <- tm_time, until <- tm_until, running <- tm_running, pc <- tm_pc,
          fired <- tm_fired, deleted <- tm_deleted, slip <- tm_slip

RX == INSTANCE Reactor WITH
          Conns <- rx_Conns, NOFILE <- rx_NOFILE, MAX_ITEMS_SIZE <- rx_MAX_ITEMS_SIZE,
          BUFFER_SIZE <- rx_BUFFER_SIZE, SizeRange <- rx_SizeRange,
          MaxUnread <- rx_MaxUnread, file <- rx_file, watch <- rx_watch,
          readable <- rx_readable, buf_r_len <- rx_buf_r_len, net <- rx_net,
          unread <- rx_unread, taken <- rx_taken, failed <- rx_failed, status <- rx_status

MP == INSTANCE MemPool WITH
          MP_ALIGNMENT <- mp_MP_ALIGNMENT, POOL <- mp_POOL, NODE <- mp_NODE, LARGE <- mp_LARGE,
          MAX_FAILED <- mp_MAX_FAILED, MaxFromPool <- mp_MaxFromPool, PoolSize <- mp_PoolSize,
          Sizes <- mp_Sizes, Chunks <- mp_Chunks, NoChunk <- mp_NoChunk,
          MaxBlocks <- mp_MaxBlocks, MaxAllocs <- mp_MaxAllocs, blocks <- mp_blocks,
          current <- mp_current, large <- mp_large, spans <- mp_spans, heap <- mp_heap

ASSUME MP!Parameters

ZP == INSTANCE ZeroThreadPool WITH
          Workers <- zp_Workers, Tasks <- zp_Tasks, Timeouts <- zp_Timeouts,
          Waiters <- zp_Waiters, Nobody <- zp_Nobody, taskQ <- zp_taskQ, expire <- zp_expire,
          bTerminate <- zp_bTerminate, waitSet <- zp_waitSet, pc <- zp_pc, task <- zp_task,
          timed <- zp_timed, stopper <- zp_stopper, submitted <- zp_submitted,
          taken <- zp_taken, outcome <- zp_outcome

ExpiredOrNot == {-2, 5}

StandaloneInit ==
    /\ runs \in {"tp", "mp", "tc", "sl", "rb", "mh", "tm", "rx", "zp"}
    /\ Init
    /\ MP!Init /\ TC!Init /\ SL!Init /\ RB!Init /\ MH!Init /\ TM!Init /\ RX!Init
    /\ ZP!Init

StandaloneNext ==
    \/ runs = "tp" /\ Next
       /\ UNCHANGED <<runs, mpVars, tcVars, slVars, rbVars, mhVars, tmVars, rxVars, zpVars>>
    \/ runs = "mp" /\ MP!Next
       /\ UNCHANGED <<runs, vars, tcVars, slVars, rbVars, mhVars, tmVars, rxVars, zpVars>>
    \/ runs = "tc" /\ TC!Next
       /\ UNCHANGED <<runs, vars, mpVars, slVars, rbVars, mhVars, tmVars, rxVars, zpVars>>
    \/ runs = "sl" /\ SL!Next
       /\ UNCHANGED <<runs, vars, mpVars, tcVars, rbVars, mhVars, tmVars, rxVars, zpVars>>
    \/ runs = "rb" /\ RB!Next
       /\ UNCHANGED <<runs, vars, mpVars, tcVars, slVars, mhVars, tmVars, rxVars, zpVars>>
    \/ runs = "mh" /\ MH!Next
       /\ UNCHANGED <<runs, vars, mpVars, tcVars, slVars, rbVars, tmVars, rxVars, zpVars>>
    \/ runs = "tm" /\ TM!Next
       /\ UNCHANGED <<runs, vars, mpVars, tcVars, slVars, rbVars, mhVars, rxVars, zpVars>>
    \/ runs = "rx" /\ RX!Next
       /\ UNCHANGED <<runs, vars, mpVars, tcVars, slVars, rbVars, mhVars, tmVars, zpVars>>
    \/ runs = "zp" /\ ZP!Next
       /\ UNCHANGED <<runs, vars, mpVars, tcVars, slVars, rbVars, mhVars, tmVars, rxVars>>

allVars == <<runs, vars, mpVars, tcVars, slVars, rbVars, mhVars, tmVars, rxVars, zpVars>>

StandaloneSpec == StandaloneInit /\ [][StandaloneNext]_allVars

-----------------------------------------------------------------------------
(* The properties are those of the components, and those of ThreadPool.    *)

\* Small and large allocations, and the list of large ones: MemPool.
PoolOK == MP!PoolOK

\* Try, Throw and Finally: TryCatch.
FramesOK == TC!FramesOK

\* The lists of the skip list: SkipList.
ListOK == SL!ListOK

\* What was written and not yet read: RingBuf.
RingOK == RB!RingOK

\* The heap order and the places: MinHeapTimer.
HeapOK == MH!HeapOK

\* When the callbacks run: Timer.
TimerOK == TM!TimerOK

\* Where recv writes, and what reaches the handler: Reactor.
ReadsFit == RX!ReadsFit

\* The tasks in the order of exec, each with one worker: ZeroThreadPool.
TasksTakenOnce == ZP!TypeOK /\ ZP!TakenInOrder /\ ZP!OneHolder
=============================================================================

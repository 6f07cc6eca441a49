\* The bounds are those with which each component shows its hard cases; see README.
SPECIFICATION StandaloneSpec
CONSTANTS
    \* Four tasks on three nodes: a node is used again, and the queue drains below two and fills again.
    Nodes = {n1, n2, n3}
    head = head
    NULL = NULL
    Workers = {w1, w2}
    Tasks = {1, 2, 3, 4}
    adder = adder
    \* The layout of the code on 64 bits, a pool of 96 bytes, up to four blocks, six requests.
    mp_MP_ALIGNMENT = 32
    mp_POOL = 24
    mp_NODE = 32
    mp_LARGE = 16
    mp_MAX_FAILED = 0
    mp_MaxFromPool = 4095
    mp_PoolSize = 96
    mp_Sizes = {20, 72}
    mp_Chunks = {x, y}
    mp_NoChunk = null
    mp_MaxBlocks = 4
    mp_MaxAllocs = 6
    \* Two exceptions, Try statements three deep.
    tc_Threads = {t}
    tc_Exceptions = {A, B}
    tc_None = none
    tc_MaxDepth = 3
    \* Three nodes and levels; ints wrap at 4 (IntRange / 2), so 5 and 9 do not fit.
    sl_Nodes = {n1, n2, n3}
    sl_head = head
    sl_NULL = null
    sl_Times = {1, 2, 5, 9}
    sl_SKIPLIST_LEVEL_MAX = 3
    sl_IntRange = 8
    \* No power of two: a difference that wraps shows.
    rb_Size = 3
    rb_Bytes = {nl, a, b}
    rb_NewLine = nl
    \* Six entries are one too many.
    mh_Expires = {1, 2, 3}
    mh_amount = 5
    mh_UIntRange = 16
    mh_MaxPops = 2
    mh_NULL = null
    \* Three tasks and callbacks that run up to five ticks late.
    tm_Second = 2
    tm_Timeouts = {0, 1, 3}
    tm_MaxTasks = 3
    tm_MaxTime = 5
    \* Three clients on two items, and one descriptor without.
    rx_Conns = {c1, c2, c3}
    rx_NOFILE = 8
    rx_MAX_ITEMS_SIZE = 7
    rx_BUFFER_SIZE = 2
    rx_SizeRange = 16
    rx_MaxUnread = 2
    \* Three tasks, expired or not, for two workers.
    zp_Workers = {w1, w2}
    zp_Tasks = {t1, t2, t3}
    zp_Timeouts <- ExpiredOrNot
    zp_Waiters = {v1}
    zp_Nobody = nobody
INVARIANTS PoolOK FramesOK ListOK RingOK HeapOK TimerOK ReadsFit QueueOK NobodySleepsOverWork TasksTakenOnce
CHECK_DEADLOCK FALSE

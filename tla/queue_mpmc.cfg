\* Two threads that both push and pop, loads in either order: the counter.
SPECIFICATION Spec
CONSTANTS
    Producers = {t1, t2}
    Consumers = {t1, t2}
    Q_SIZE = 2
    Items = {a}
    Blank = blank
    WORD = 4
    LoadsReorder = TRUE
    MaxIndex = 3
INVARIANTS CountAccounting
CHECK_DEADLOCK FALSE

\* Two clients on a table that the scan goes through in two rounds.
SPECIFICATION Spec
CONSTANTS
    MAX_EPOLL_EVENTS = 4
    FIRST_FD = 0
    NOFILE = 4
    Conns = {c1, c2}
    Msgs = {a}
    MaxUnread = 2
    SCAN = 2
    TIMEOUT = 1
    Nothing = nothing
INVARIANTS SlotsOK EchoesOwnInput IdleIsFound
PROPERTIES ServedStaysOpen
CHECK_DEADLOCK FALSE

\* Two clients; their descriptors lie in the second block of the table.
SPECIFICATION LiveSpec
CONSTANTS
    MAX_EPOLL_EVENTS = 3
    FIRST_FD = 1
    NOFILE = 5
    Conns = {c1, c2}
    Resources = {a}
    Other = other
    NoRes = none
    Msgs = {a, other}
    MaxUnread = 1
INVARIANTS SlotsOK EventsCurrent AnswersOwnRequest
PROPERTIES RequestsServed ClientIsAccepted
CHECK_DEADLOCK FALSE

\* Two callbacks, a blocking request and two sockets, so that a port is used again.
SPECIFICATION LiveSpec
CONSTANTS
    Async = {1, 2}
    Blocking = {3}
    Socks = {s1, s2}
    ASYNC_CLIENT_NUM = 2
    MaxUnread = 2
    Refused = refused
    None = none
INVARIANTS ResourcesOK AnswerOrigin
PROPERTIES EndsUnlessLost
CHECK_DEADLOCK FALSE

\* exec never notifies: a task submitted while every worker sleeps stays queued.
SPECIFICATION LiveSpec
CONSTANTS
    Workers = {w1, w2}
    Tasks = {t1}
    Timeouts <- OnlyZero
    Waiters = {v1}
    Nobody = nobody
PROPERTIES EveryTaskTaken
CHECK_DEADLOCK FALSE

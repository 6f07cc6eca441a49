\* Two workers, three tasks, one waiter and stop.
SPECIFICATION LiveSpec
CONSTANTS
    Workers = {w1, w2}
    Tasks = {t1, t2, t3}
    Timeouts <- AllTimeouts
    Waiters = {v1}
    Nobody = nobody
PROPERTIES AwakeWorkerDrains TimedWaitReturns
CHECK_DEADLOCK FALSE

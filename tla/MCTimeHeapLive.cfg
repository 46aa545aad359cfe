CONSTANTS
    Timers = {t1, t2, t3}
    Delays = {0, 1}
    Capacities = {1, 3}
    MaxTime = 2
    NULL = NULL
SPECIFICATION FairSpec
PROPERTY TickReturns
CHECK_DEADLOCK FALSE

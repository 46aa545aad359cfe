CONSTANTS
    Timers = {t1, t2, t3}
    Timeouts = {0, 2, 3, 5}
    N = 3
    TI = 1
    MaxTicks = 9
    NULL = NULL
SPECIFICATION Spec
INVARIANT TakesEffectOnTime
CHECK_DEADLOCK FALSE

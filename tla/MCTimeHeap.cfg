CONSTANTS
    Timers = {t1, t2, t3, t4}
    Delays = {0, 1, 2}
    Capacities = {1, 4}
    MaxTime = 2
    NULL = NULL
SPECIFICATION Spec
SYMMETRY TimerSymmetry
INVARIANTS
    HeapOrder
    HoldsAliveTimers
    RunningIsEarliest
    FiredInOrder
PROPERTIES
    ImplementsTimerQueue
    FireOrder
CHECK_DEADLOCK FALSE

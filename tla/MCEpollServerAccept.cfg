CONSTANTS
    Clients = {c1, c2}
    MaxData = 2
    MaxInput = 2
    MaxEvents = 10
    Programs = {"epoll_et"}
SPECIFICATION Spec
INVARIANT SleepsOnlyWhenDrained
CHECK_DEADLOCK FALSE

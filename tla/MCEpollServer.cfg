CONSTANTS
    Clients = {c1, c2}
    MaxData = 2
    MaxInput = 1
    MaxEvents = 2
    Programs = {"epoll_et", "tcp_udp", "do_two_thing", "epollhup"}
SPECIFICATION Spec
INVARIANTS
    ConnectionsDrained
    ClosedAfterLastByte
PROPERTIES
    DisconnectsNoticed
    StdinEndsServer
CHECK_DEADLOCK FALSE

CONSTANT AIO_EVENTS = 4
SPECIFICATION Spec
INVARIANT WaitsForAllRequests
CHECK_DEADLOCK FALSE

CONSTANT AIO_EVENTS = 4
SPECIFICATION FairSpec
INVARIANTS
    NoLeak
    FreesWhatIsAllocated
    NothingInFlightAfterReturn
PROPERTY FullBatchReturns
CHECK_DEADLOCK FALSE

CONSTANT Size = 3
SPECIFICATION Spec
INVARIANTS
    NoLeak
    OnlyHeldIsUsed
    BufferOutlivesRequest
    SuccessIsDurable
CHECK_DEADLOCK FALSE

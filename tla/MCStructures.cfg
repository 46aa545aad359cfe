CONSTANTS
    Keys = {k1, k2, k3}
    Values = {v1, v2}
    NULL = NULL
    Size = 2
    MaxEntries = 4
    Items = {x, y}
    MaxNodes = 5
    LenRange = 4
    Numbers = {1, 2, 3}
    MaxLen = 5
SPECIFICATION Spec
INVARIANTS
    ListHoldsContent
    SortsTheInput
PROPERTY DictImplementsMap
CHECK_DEADLOCK FALSE

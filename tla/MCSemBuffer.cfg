CONSTANTS
    Items = {i1, i2}
    BUFFER_SIZE = 5
SPECIFICATION FairSpec
INVARIANTS
    MutualExclusion
    SlotsConserved
    PositionsAgree
    NoLostItem
PROPERTIES
    ImplementsQueue
    BothMakeProgress

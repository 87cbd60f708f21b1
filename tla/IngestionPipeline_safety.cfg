SPECIFICATION Spec
CONSTANTS
    Keys = {k1, k2}
    MaxSize = 1
    BatchSize = 2
    RetryLimit = 2
    MaxCritical = 2
    MaxBooks = 2
    MaxFaults = 2
SYMMETRY MCSymmetry
INVARIANTS
    Coalesced
    DrainLosesNothing
    NothingStuck
    BookOrder
PROPERTIES
    InOrder
CHECK_DEADLOCK FALSE

SPECIFICATION FairSpec
CONSTANTS
    Venues = {"a", "b"}
    Buckets = {0, 1, 2}
    Kinds = {"bar"}
    Olds = {FALSE}
    Window = 0
    MaxBarAge = 1
    PendingIdle = 1
    ReadCount = 2
    ReplayCount = 2
    TrimEvery = 1
    Maxlen = 2
    MaxEntries = 3
    MaxRestarts = 1
INVARIANTS
    CountsOnce
    NothingSkipped
    RowsComplete
PROPERTIES
    SealsInOrder
    EventuallyAcked

SPECIFICATION Spec
CONSTANTS
    Venues = {"a"}
    Configured = {"a"}
    Interval = 2
    AllowedLateness = 1
    History = 2
    ReplayMaxAge = 1
    PendingIdle = 1
    ReadCount = 2
    Timestamps <- MCThreeTimes
    BookTimes <- MCThreeTimes
    BookDelays = {0}
    Kinds = {"trade"}
    MaxEntries = 3
    MaxBooks = 1
    MaxRestarts = 1
INVARIANTS
    OutputOrdered
    FoldedOnce
    BarsFrozen
    NoSilentLoss
PROPERTIES
    FinalizedIsFinal

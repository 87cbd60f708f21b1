SPECIFICATION Spec
CONSTANTS
    Venues = {"a", "x"}
    Configured = {"a"}
    Interval = 2
    AllowedLateness = 1
    History = 2
    ReplayMaxAge = 0
    PendingIdle = 1
    ReadCount = 2
    Timestamps <- MCThreeTimes
    BookTimes <- MCZero
    BookDelays <- MCZero
    Kinds = {"trade", "bad", "poison"}
    MaxEntries = 1
    MaxBooks = 1
    MaxRestarts = 1
INVARIANTS
    RestartAcksOnlyPersisted

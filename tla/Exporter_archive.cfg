SPECIFICATION FairSpec
CONSTANTS
    Workers = {w1}
    Partitions = {"p", "q"}
    Kinds = {"row", "malformed", "excluded"}
    Times = {1, 3}
    FlushSize = 2
    FlushInterval = 1
    ReadCount = 2
    ReclaimInterval = 1
    PendingIdle = 2
    Retention = 1
    ResetsReclaim = TRUE
    Trims = TRUE
    MaxEntries = 2
    MaxFaults = 2
INVARIANTS
    RetentionKept
PROPERTIES
    StoresBeforeAck
    EventuallyStored

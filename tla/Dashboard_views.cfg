SPECIFICATION CacheSpec
CONSTANTS
    Callbacks = {c1, c2}
    EventTicker <- MCEventTicker
    Strike <- MCStrike
    Name <- MCName
    Feeds <- MCFeeds
    WindowSize = 3
    Ttl = 1
    DefaultMaxAge = 2
    Spots <- MCSpots
    Reach = 0
    Began = 2
    MaxNow = 4
SYMMETRY MCSymmetry
INVARIANTS
    FreshWithinTtl
    
CHECK_DEADLOCK FALSE

SPECIFICATION FairSpec
CONSTANTS
    Last = 3
    Strikes = {"s"}
    CHANNELS = {"ticker", "orderbook_delta"}
    MaxQty = 1
    MaxWire = 2
    MaxTraffic = 1
    MaxFaults = 1
INVARIANTS
    SubscriptionsMatch
    BookCurrent
PROPERTIES
    RotatesOnArrival
    FollowsNearest
CHECK_DEADLOCK FALSE

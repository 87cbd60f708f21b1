SPECIFICATION FairSpec
CONSTANTS
    Markets = {"m", "n"}
    EventOf <- MCEventOf
    Inputs = {"features"}
    MaxAge <- MCMaxAge
    TickerMaxAge = 1
    Skew = 1
    TTL = 2
    Refresh = 1
    PendingIdle = 1
    MaxLag = 1
    MaxEntries = 2
    MaxFaults = 1

    
    
PROPERTIES
    Withdrawn
    Recovers

SPECIFICATION ViewsSpec
CONSTANTS
    Trades <- MCTrades
    Interval = 2
    CandleInterval = 4
    Lateness = 1
    Legacy <- MCLegacy
    Quotes <- MCQuotes
    Hour = 4
    PriceTick = 2
    Fee <- MCFee
    MaxReloads = 1
CHECK_DEADLOCK FALSE
CONSTRAINT TradesOrBooks
INVARIANTS
    BarsExact
    CandlesExact
    NetsCrossed
    

SPECIFICATION FairSpec
CONSTANTS
    Venues = {"binance", "gemini", "crypto_com", "bitstamp", "deribit", "coinbase", "kraken", "bybit"}
    Prices = {1, 2, 3}
    Books <- MCBooks
    MaxWire = 2
    MaxChanges = 2
    MaxTrades = 1
    MaxFaults = 2
INVARIANTS
    ShowsLatest
    IdsDistinct
    BooksSpareTrades
PROPERTIES
    Synchronizes
CHECK_DEADLOCK FALSE

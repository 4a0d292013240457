SPECIFICATION SilentSpec
CONSTANTS
    r1 = r1
    r2 = r2
    sber = sber
    gazp = gazp
    Robots = {r1, r2}
    Tickers = {sber, gazp}
    Ticker <- OwnTicker
    Limit <- OwnLimit
    Prices <- BothMC
    NoPrice = NoPrice
    InitPlans = {"after"}
    MaxPrices = 1
    MaxDeals = 1
INVARIANTS
    Pipeline
PROPERTIES
    StallsOnlyOnFeedOrBroadcast

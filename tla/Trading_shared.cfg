SPECIFICATION FairSpec
CONSTANTS
    r1 = r1
    r2 = r2
    sber = sber
    gazp = gazp
    Robots = {r1, r2}
    Tickers = {sber}
    Ticker <- SharedTicker
    Limit <- SharedLimit
    Prices <- BothMC
    NoPrice = NoPrice
    InitPlans = {"after"}
    MaxPrices = 2
    MaxDeals = 1
INVARIANTS
    FanOut
    CopyExtendsRow
    DeadlineBinds
PROPERTIES
    CycleEnds

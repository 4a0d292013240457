SPECIFICATION FairSpec
CONSTANTS
    r1 = r1
    sber = sber
    Robots = {r1}
    Tickers = {sber}
    Ticker <- TickerMC
    Limit <- HolderMC
    Prices <- PricesMC
    NoPrice = NoPrice
    InitPlans = {"after"}
    MaxPrices = 1
    MaxDeals = 1
    Conns = {c1}
    Requests = {}
    NoRobot = NoRobot
    Free = Free
    MaxVersion = 1
INVARIANTS
    ShownBeforeNext
    NoDeadlock
PROPERTIES
    HangsOnFeedOrHub

SPECIFICATION Spec
CONSTANTS
    r1 = r1
    sber = sber
    Robots = {r1}
    Tickers = {sber}
    Ticker <- TickerMC
    Limit <- TraderMC
    Prices <- PricesMC
    NoPrice = NoPrice
    InitPlans = {"inside"}
    MaxPrices = 2
    MaxDeals = 1
    Conns = {}
    Requests = {q1}
    NoRobot = NoRobot
    Free = Free
    MaxVersion = 2
PROPERTIES
    TradingSpec

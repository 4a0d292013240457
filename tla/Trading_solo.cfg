SPECIFICATION Spec
CONSTANTS
    r1 = r1
    r2 = r2
    sber = sber
    gazp = gazp
    Robots = {r1}
    Tickers = {sber}
    Ticker <- SoloTicker
    Limit <- SoloLimit
    Prices <- QuotesMC
    NoPrice = NoPrice
    InitPlans = {"before"}
    MaxPrices = 2
    MaxDeals = 2
INVARIANTS
    TypeOK
PROPERTIES
    LedgerSpec
    TradesOnlySelected

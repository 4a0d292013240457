SPECIFICATION Spec
CONSTANTS
    ann = ann
    bob = bob
    sber = sber
    gazp = gazp
    absent = absent
    null = null
    Requests = {q1}
    Users = {ann}
    Tickers = {sber, gazp}
    Routes <- AllRoutes
    Bodies <- TickersMC
    Absent = absent
    JsonNull = null
    Null = Null
    Nothing = Nothing
    MaxRobots = 2
    MaxOps = 0
    MaxTime = 1
SYMMETRY Symmetry
INVARIANTS
    FindsActiveRobots

SPECIFICATION Spec
CONSTANTS
    ann = ann
    bob = bob
    sber = sber
    gazp = gazp
    absent = absent
    null = null
    Requests = {q1, q2}
    Users = {ann, bob}
    Tickers = {sber}
    Routes <- AllRoutes
    Bodies <- PlansMC
    Absent = absent
    JsonNull = null
    Null = Null
    Nothing = Nothing
    MaxRobots = 1
    MaxOps = 2
    MaxTime = 3
SYMMETRY Symmetry
INVARIANTS
    PlannedOnly
PROPERTIES
    DeletedStaysGone
    OwnerActs
    TableSpec

SPECIFICATION Spec
CONSTANTS
    ann = ann
    bob = bob
    sber = sber
    gazp = gazp
    absent = absent
    null = null
    Requests = {q1, q2}
    Users = {ann}
    Tickers = {sber}
    Routes <- WriteRoutes
    Bodies <- SpansMC
    Absent = absent
    JsonNull = null
    Null = Null
    Nothing = Nothing
    MaxRobots = 2
    MaxOps = 1
    MaxTime = 1
SYMMETRY Symmetry
INVARIANTS
    TypeOK
    Lineage
PROPERTIES
    FreshRows

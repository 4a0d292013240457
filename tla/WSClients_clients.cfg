SPECIFICATION Spec
CONSTANTS
    Conns = {c1, c2}
    Traders = {trade}
    Requests = {}
    Robots = {r1}
    NoRobot = NoRobot
    Free = Free
    MaxVersion = 2
SYMMETRY Symmetry
INVARIANTS
    NoMissedChange
    ListedUntilClosed
PROPERTIES
    ClosesOnlyBroken
CHECK_DEADLOCK FALSE

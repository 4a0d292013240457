SPECIFICATION FairSpec
CONSTANTS
    Conns = {c1}
    Traders = {trade}
    Requests = {req}
    Robots = {r1}
    NoRobot = NoRobot
    Free = Free
    MaxVersion = 1
INVARIANTS
    TypeOK
    MutexOwner
    JamCause
    NoHubDeadlock
PROPERTIES
    BroadcastReturns
    AllInformed
CHECK_DEADLOCK FALSE

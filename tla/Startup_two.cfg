SPECIFICATION FairSpec
CONSTANTS
    Processes = {p1, p2}
    Free = Free
INVARIANTS
    TypeOK
    ReadyBeforeWork
    OverlapOnlyAtStart
PROPERTIES
    StartEnds

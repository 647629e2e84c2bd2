SPECIFICATION Spec
CONSTANTS
    r1 = r1
    r2 = r2
    s1 = s1
    n1 = n1
    n2 = n2
    Earlier = Earlier
    Requests = {r1, r2}
    Stops = {}
    Nodes = {n1, n2}
    Home <- SpreadOverNodes
    Fragile = {n1}
    Entries = {"message"}
    Questions = {"ask"}
INVARIANTS
    TypeOK
    NoOrphanedQuestion
PROPERTIES
    OnlyNewestCommits
    CheckpointMonotone
    StaleResultDiscarded
    TurnsNeverLost
CHECK_DEADLOCK FALSE

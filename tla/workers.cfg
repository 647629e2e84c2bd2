SPECIFICATION FairSpec
CONSTANTS
    c1 = c1
    c2 = c2
    c3 = c3
    Callers = {c1, c2, c3}
    RequestId <- TwoRequests
    MaxRestarts = 2
    Nobody = Nobody
    Quit = Quit
INVARIANTS
    TypeOK
    OwnResponse
    NoAbandonedWork
    NoWorkerLeft
PROPERTIES
    EveryCallEnds
CHECK_DEADLOCK FALSE

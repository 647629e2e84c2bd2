SPECIFICATION FairSpec
CONSTANTS
    r1 = r1
    r2 = r2
    s1 = s1
    q1 = q1
    q2 = q2
    t1 = t1
    t2 = t2
    k1 = k1
    None = None
    Foreign = Foreign
    Runs = {r1, r2}
    Sessions = {s1}
    SessionOf <- OneSession
    Questions = {q1, q2}
    Asks <- Requests
    Trips = {t1}
    Keys = {k1}
    PlanKey <- SameDeparture
    Fragile = {r1}
    Slow = {r2}
    MaxAttempts = 2
    MaxRepairs = 1
INVARIANTS
    NotebookAgrees
    ReviewsOwnPlan
PROPERTIES
    DurableProgress
    EveryRunEnds
CHECK_DEADLOCK FALSE

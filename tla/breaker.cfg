SPECIFICATION FairBreakerSpec
CONSTANTS
    c1 = c1
    c2 = c2
    c3 = c3
    c4 = c4
    Monitored = {c1, c2, c3, c4}
    Threshold = 2
    Initial = 1
    Multiplier = 2
    Ceiling = 3
    Lease = 2
    Free = Free
INVARIANTS
    BreakerTypeOK
    OneProbe
    ClosedBelowThreshold
PROPERTIES
    FreedByHolder
    SlotComesFree
CHECK_DEADLOCK FALSE

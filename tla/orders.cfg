SPECIFICATION Spec
CONSTANTS
    p1 = p1
    p2 = p2
    p3 = p3
    p4 = p4
    t1 = t1
    t2 = t2
    Ops = {p1, p2, p3}
    Kinds = {"submit", "cancel", "modify", "decide"}
    Trips = {t1, t2}
SYMMETRY CallsAndTrips
INVARIANTS
    ApprovedByDecision
    ApprovedAsFiled
    OneOpenApproval
    AgreeAtRest
PROPERTIES
    CancelWithdraws
    CancelledStays
    DecisionStands
CHECK_DEADLOCK FALSE

SPECIFICATION Spec
CONSTANTS
    PruningTrigger = 2
    KeepPercent = 50
    MaxCombinations = 1000
    PenaltyPercent = 30
    Trips <- SmallTrips
    Markets <- SmallMarkets
    MaxCaptures = 2
    Assessments = {{"pass"}, {"fail", "pass"}, {"none"}}
    Verdicts = {"pass", "fail"}
    ItemKinds <- SmallItems
    MaxRepairs = 2
    TransportIds = {1, 2, 3, 4, 5, 6, 7, 20, 21, 22, 23, 24, 25}
    HotelIds = {11, 12, 13}
INVARIANTS
    AnyFailFails
CHECK_DEADLOCK FALSE

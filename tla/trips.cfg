SPECIFICATION Spec
CONSTANTS
    Calls = {p1, p2, p3}
    Names = {"bj", "bjshi", "sh", "ur"}
    Days = {3, 4, 5, 6}
    Purposes = {"visit", "audit"}
    CityOf <- MCCityOf
    Tier <- MCTier
    Configured <- MCConfigured
    Requests <- MCRequests
    Changes <- MCChanges
SYMMETRY AnyCall
INVARIANTS
    NoUnseenConflict
    SubmittedOnce
CHECK_DEADLOCK FALSE

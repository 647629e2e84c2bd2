---------------------------- MODULE MCTripGate ----------------------------
(* Three cities, one of them written in two ways; a pair of them is ten    *)
(* hours apart and another one more than a day.                            *)
EXTENDS TripGate

MCCityOf == [n \in {"bj", "bjshi", "sh", "ur"} |-> IF n = "bjshi" THEN "bj" ELSE n]
MCTier == [c \in {"bj", "sh", "ur"} |-> IF c = "ur" THEN 2 ELSE 0]
MCConfigured == [pair \in {{"bj", "ur"}, {"sh", "ur"}} |-> IF "bj" \in pair THEN 600 ELSE 1500]

Visit(from, to, dep, ret, purpose) ==
    [from |-> from, to |-> to, dep |-> dep, ret |-> ret, purpose |-> purpose]

MCRequests == {Visit("bjshi", "sh", 3, 4, "visit"), Visit("sh", "ur", 5, 5, "visit")}
MCChanges == {[dep |-> 5, ret |-> 6], [to |-> "ur"], [from |-> "bj", dep |-> 5]}
AnyCall == Permutations(Calls)
===========================================================================

--------------------------- MODULE MCTravelOrders ---------------------------
(* Instances of TravelOrders for TLC: calls and trips are interchangeable. *)
EXTENDS TravelOrders, TLC

CONSTANTS p1, p2, p3, p4, t1, t2

CallsAndTrips == Permutations(Ops) \cup Permutations(Trips)
=============================================================================

----------------------------- MODULE MCBookings -----------------------------
EXTENDS Bookings, TLC

CONSTANTS flight1, hotel1

FlightAndHotel == [n \in {flight1, hotel1} |-> IF n = flight1 THEN "FLIGHT" ELSE "HOTEL"]
AnyCall == Permutations(Calls)
=============================================================================

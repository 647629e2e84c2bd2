SPECIFICATION Spec
CONSTANTS
    Calls = {p1, p2, p3, p4}
    flight1 = flight1
    hotel1 = hotel1
    Numbers = {flight1, hotel1}
    TypeOf <- FlightAndHotel
SYMMETRY AnyCall
INVARIANTS
    CancelledOnPlatform
    OneRecord
CHECK_DEADLOCK FALSE

SPECIFICATION FairSpec
CONSTANTS
    r1 = r1
    r2 = r2
    s1 = s1
    n1 = n1
    n2 = n2
    Earlier = Earlier
    Requests = {r1}
    Stops = {s1}
    Nodes = {n1, n2}
    Home <- SpreadOverNodes
    Fragile = {n1}
    Entries = {"message", "continuation", "answer"}
    Questions = {"ask", "confirm"}
PROPERTIES
    EventuallyIdle
CHECK_DEADLOCK FALSE

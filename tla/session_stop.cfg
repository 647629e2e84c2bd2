SPECIFICATION Spec
CONSTANTS
    r1 = r1
    r2 = r2
    s1 = s1
    n1 = n1
    n2 = n2
    Earlier = Earlier
    Requests = {r1}
    Stops = {s1}
    Nodes = {n1}
    Home <- OneNode
    Fragile = {n1}
    Entries = {"message"}
    Questions = {"ask"}
PROPERTIES
    TurnsNeverLost
CHECK_DEADLOCK FALSE

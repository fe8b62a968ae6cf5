SPECIFICATION Spec
CONSTANTS
    c1 = c1
    c2 = c2
    p1 = p1
    p2 = p2
    p3 = p3
    Client = {c1}
    Backend = "file"
    Password = {p1, p2}
    MaxInits = 1
    MaxCommands = 4
    MaxFaults = 0
SYMMETRY Symmetry
INVARIANTS KeysAtRest
CHECK_DEADLOCK FALSE

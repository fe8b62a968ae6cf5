SPECIFICATION Spec
CONSTANTS
    c1 = c1
    c2 = c2
    p1 = p1
    p2 = p2
    p3 = p3
    Client = {c1, c2}
    Backend = "s3"
    Password = {p1, p2, p3}
    MaxInits = 1
    MaxCommands = 4
    MaxFaults = 2
SYMMETRY Symmetry
INVARIANTS SafeKeys DataHasItsKeys
PROPERTIES KeysStay ChangedMeansOpens
CHECK_DEADLOCK FALSE

SPECIFICATION Spec
CONSTANTS
    Path = {"x", "y"}
    Data <- MCData
    Present <- MCPresent
    MaxCalls = 2
    MaxFaults = 1
INVARIANTS PutWrites
CHECK_DEADLOCK FALSE

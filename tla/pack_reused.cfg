SPECIFICATION Spec
CONSTANTS
    c1 = c1
    c2 = c2
    n1 = n1
    n2 = n2
    Client = {c1}
    Backend = "file"
    Name = {n1, n2}
    Job <- PackJobs
    Garbage = {0, 1, 2, 3}
    MaxBackups = 2
    MaxFaults = 0
SYMMETRY Symmetry
INVARIANTS PackRangeIsObject
CHECK_DEADLOCK FALSE

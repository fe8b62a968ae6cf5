SPECIFICATION Spec
CONSTANTS
    c1 = c1
    c2 = c2
    n1 = n1
    n2 = n2
    Client = {c1, c2}
    Backend = "file"
    Name = {n1, n2}
    Job <- BlockJobs
    Garbage = {0}
    MaxBackups = 2
    MaxFaults = 1
SYMMETRY Symmetry
INVARIANTS ExistingObjectComplete
CHECK_DEADLOCK FALSE

SPECIFICATION Spec
CONSTANTS
    c1 = c1
    c2 = c2
    n1 = n1
    n2 = n2
    Client = {c1, c2}
    Backend = "s3"
    Name = {n1, n2}
    Job <- TypeJobs
    Garbage = {0, 2}
    MaxBackups = 3
    MaxFaults = 1
SYMMETRY Symmetry
INVARIANTS SafeReferences
PROPERTIES CompleteStaysComplete SnapshotsStay
CHECK_DEADLOCK FALSE

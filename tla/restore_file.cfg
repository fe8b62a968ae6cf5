SPECIFICATION FairRestoreSpec
CONSTANTS
    c1 = c1
    c2 = c2
    n1 = n1
    n2 = n2
    Client = {c1, c2}
    Backend = "file"
    Name = {n1}
    Job <- SharedJobs
    Garbage = {0}
    MaxBackups = 2
    MaxFaults = 1
    Reader = {"r"}
    Existing = {}
    MaxRestores = 1
INVARIANTS AsRecorded
PROPERTIES RestoresEnd
CHECK_DEADLOCK FALSE

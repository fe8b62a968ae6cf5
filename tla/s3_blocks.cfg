SPECIFICATION RestoreSpec
CONSTANTS
    c1 = c1
    c2 = c2
    n1 = n1
    n2 = n2
    Client = {c1, c2}
    Backend = "s3"
    Name = {n1}
    Job <- BlockJobs
    Garbage = {0}
    MaxBackups = 2
    MaxFaults = 1
    Reader = {"r"}
    Existing = {"z"}
    MaxRestores = 1
SYMMETRY Symmetry
INVARIANTS TypeOK SafeBlocks Restorable SafeRestores SafeRequests RestoreSucceeds
PROPERTIES IdDeterminesData RefinesCatalog
CHECK_DEADLOCK FALSE

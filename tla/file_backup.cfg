SPECIFICATION FairSpec
CONSTANTS
    c1 = c1
    c2 = c2
    n1 = n1
    n2 = n2
    Client = {c1}
    Backend = "file"
    Name = {n1}
    Job <- CancelJobs
    Garbage = {0, 1}
    MaxBackups = 2
    MaxFaults = 2
INVARIANTS CompleteWithoutFaults ReferencesExist FirstRestorable
PROPERTIES BackupsEnd BackupsCommit
CHECK_DEADLOCK FALSE

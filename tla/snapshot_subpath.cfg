SPECIFICATION SnapSpec
CONSTANTS
    Path <- Siblings
    Owner <- OneOwner
    Ids <- OneIdList
    MaxObjects = 2
    MaxAdds = 3
    MaxSaves = 1
INVARIANTS SubpathComplete
CHECK_DEADLOCK FALSE

SPECIFICATION Spec
CONSTANTS
    Client = {"c1", "c2"}
    Path = {"x"}
    Payload <- MCPayload
    BufferSize = 2
    MaxCalls = 2
    MaxFaults = 2
INVARIANTS PositionsAgree GetDelivers
PROPERTIES RefinesStore CallsEnd
CHECK_DEADLOCK FALSE

SPECIFICATION Spec
CONSTANTS
    Cap = 3
    MsgLens <- MCMsgLens
    DropThreshold = 2
    MaxAppends = 7
    Null = Null
INVARIANTS
    TypeOK
    BackendAssertsHold
    RecordsAccountedFor
PROPERTIES
    RecordLeavesMemory
    ImplementsLogSink
CHECK_DEADLOCK FALSE

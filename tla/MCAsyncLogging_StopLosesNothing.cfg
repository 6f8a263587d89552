SPECIFICATION Spec
CONSTANTS
    Cap = 3
    MsgLens <- MCMsgLens
    DropThreshold = 2
    MaxAppends = 7
    Null = Null
INVARIANT StopLosesNothing
CHECK_DEADLOCK FALSE

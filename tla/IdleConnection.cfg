SPECIFICATION Spec
CONSTANTS
    Conns = {c1, c2}
    IdleSeconds = 2
    Period = 2
    MaxTime = 6
    MaxOutput = 2
INVARIANTS
    TypeOK
    WheelTracksIdleness
    ContextIsSet
    HalfCloseAfterDrain
PROPERTIES
    DeadEntriesLeave
    TransitionsFollowTable
    SilentBeforeShutdown

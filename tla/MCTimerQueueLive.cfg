SPECIFICATION Spec
CONSTANTS
    Addr <- MCAddr
    Callers = {c1}
    Delays <- MCDelays
    Intervals <- MCIntervals
    MaxTimers = 2
    MaxTime = 2
    MaxPending = 1
    MinArm = 1
PROPERTIES
    DueTimerFires
    QueuedFunctorRuns
CHECK_DEADLOCK FALSE

SPECIFICATION Spec
CONSTANTS
    Addr <- MCAddr
    Callers = {c1}
    Delays <- MCDelays
    Intervals <- MCIntervals
    MaxTimers = 3
    MaxTime = 3
    MaxPending = 1
    MinArm = 1
INVARIANT
    CancelledIsNotActive
CHECK_DEADLOCK FALSE

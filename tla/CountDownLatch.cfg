SPECIFICATION Spec
CONSTANTS
    Threads = {t1, t2, t3, t4}
    Count = 2
    MaxCountDowns = 3
INVARIANTS
    TypeOK
    NoLostWakeup
PROPERTY ImplementsGate
CHECK_DEADLOCK FALSE

SPECIFICATION Spec
CONSTANTS
    Base = 2
    HeaderLen = 3
    MaxLen = 2
    Msgs <- MCMsgs
    MaxSent = 3
INVARIANTS
    TypeOK
    DeliveredIsFraming
    RoundTrip
    InputBoundedWhileOpen
PROPERTY ShutdownIsFinal
CHECK_DEADLOCK FALSE

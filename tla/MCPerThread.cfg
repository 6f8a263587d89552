SPECIFICATION Spec
CONSTANTS
    Threads = {t1, t2}
    Objs = {o1, o2}
    Tids = {1, 2}
    MaxFrames = 2
    Null = Null
INVARIANTS
    TypeOK
    ObjectsDieWithTheirThread
    TidIsOwn
    TraceShowsEveryFrame

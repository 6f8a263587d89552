SPECIFICATION Spec
CONSTANTS
    MaxThreads = 3
    Conns = {c1, c2, c3}
    Lists <- MCLists
    Null = Null
SYMMETRY Symmetry
INVARIANTS
    TypeOK
    WriterIsAlone
    ReadersSeeFrozenList
    ListIsMembership
    LoopsArePublished
    RoundRobinIsEven

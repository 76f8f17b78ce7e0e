SPECIFICATION Spec
CONSTANTS
    p1 = p1
    p2 = p2
    t1 = t1
    t2 = t2
    t3 = t3
    i1 = i1
    i2 = i2
    Process = {p1, p2}
    Thread = {t1, t2, t3}
    Home <- Several
    Id = {i1, i2}
    NoObject = NoObject
    Options = {"read", "write", "clear", "preload"}
    MayCrash = TRUE
INVARIANTS
    TypeOK
    RunsRealCode
    TornIsWritten
PROPERTY HandedOver
SYMMETRY Symmetry
CHECK_DEADLOCK FALSE

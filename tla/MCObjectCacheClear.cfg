SPECIFICATION FairSpec
CONSTANTS
    p1 = p1
    p2 = p2
    t1 = t1
    t2 = t2
    t3 = t3
    i1 = i1
    i2 = i2
    Process = {p1, p2}
    Thread = {t1, t3}
    Home <- Several
    Id = {i1}
    NoObject = NoObject
    Options = {"clear"}
    MayCrash = FALSE
PROPERTY ClearEnds
CHECK_DEADLOCK FALSE

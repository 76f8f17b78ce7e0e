SPECIFICATION Spec
CONSTANTS
    t1 = t1
    t2 = t2
    c1 = c1
    c2 = c2
    Thread = {t1, t2}
    NoThread = NoThread
    Id = {c1, c2}
    HitThresholds = {0, 1}
    MemoryLimit = 1
    MaxExecutions = 3
    MaxDepth = 2
INVARIANTS
    TypeOK
    OwnCode
    DuplicatesBounded
    RejectedAtMost
    AliveUnlessReset
    OneAtATimeIsSafe
PROPERTY ExecutionsEnd
CHECK_DEADLOCK FALSE

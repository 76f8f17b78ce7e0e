SPECIFICATION Spec
CONSTANTS
    a1 = a1
    a2 = a2
    c1 = c1
    c2 = c2
    d1 = d1
    d2 = d2
    Addr = {a1, a2}
    Code = {c1, c2}
    NoCode = NoCode
    Data = {d1, d2}
    NoData = NoData
    DepthLimit = 2
    MaxDepth = 3
    Thresholds = {1}
    MaxThreshold = 1
    MemoryLimit = 9
    CompileMayFail = FALSE
    MaxFrames = 3
    MaxWrites = 0
INVARIANT CurrentMsgIsCurrent

SPECIFICATION Spec
CONSTANTS
    a1 = a1
    a2 = a2
    c1 = c1
    c2 = c2
    d1 = d1
    d2 = d2
    Addr = {a1}
    Code = {c1}
    NoCode = NoCode
    Data = {d1}
    NoData = NoData
    DepthLimit = 1
    MaxDepth = 2
    Thresholds = {0, 1}
    MaxThreshold = 1
    MemoryLimit = 9
    CompileMayFail = TRUE
    MaxFrames = 3
    MaxWrites = 0
INVARIANTS
    RunsOwnCode
    ReturnDataFresh

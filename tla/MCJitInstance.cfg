SPECIFICATION Spec
CONSTANTS
    a1 = a1
    a2 = a2
    c1 = c1
    c2 = c2
    d1 = d1
    d2 = d2
    Addr = {a1, a2}
    Code = {c1, c2}
    NoCode = NoCode
    Data = {d1, d2}
    NoData = NoData
    DepthLimit = 2
    MaxDepth = 3
    Thresholds = {0}
    MaxThreshold = 0
    MemoryLimit = 1
    CompileMayFail = FALSE
    MaxFrames = 5
    MaxWrites = 1
INVARIANTS
    TypeOK
    FunctionsAlive
    RunsOwnCode
    CompiledOnce
    ReturnDataFresh
    CurrentMsgIsCurrent
PROPERTIES
    StaticChangesNothing
    ImplementsEvmCalls

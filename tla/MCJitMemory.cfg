SPECIFICATION Spec
CONSTANTS
    WordTop = 191
    MaxGas = 23
    InputMax = 10
    WordBytes = 2
    QuadDiv = 2
    MemoryGas = 2
    CopyGas = 3
    StepCost = 3
    Words <- MCWords
    Byte = {1, 2}
    Sources <- MCSources
    Ranges <- MCRanges
    StartGas = {12, 23}
INVARIANT TypeOK
PROPERTIES RangeCovered ImplementsEvmMemory
CHECK_DEADLOCK FALSE

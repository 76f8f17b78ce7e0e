SPECIFICATION Spec
CONSTANTS
    WordTop = 255
    MaxGas = 31
    InputMax = 4
    WordBytes = 2
    QuadDiv = 2
    MemoryGas = 2
    CopyGas = 3
    StepCost = 3
    Words <- MCLargeWords
    Byte = {1, 2}
    Sources <- MCSources
    Ranges <- MCRanges
    StartGas = {31}
PROPERTIES RangeCovered
CHECK_DEADLOCK FALSE

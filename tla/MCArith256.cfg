SPECIFICATION Spec
CONSTANTS
    Bytes = 2
    ByteBits = 2
    CtlzOfZero <- SomeCounts
    None = None
INVARIANTS
    TypeOK
    DivisionKeeps
    PowerKeeps
PROPERTIES
    ImplementsEvmArith
    EveryInstructionEnds
CHECK_DEADLOCK FALSE

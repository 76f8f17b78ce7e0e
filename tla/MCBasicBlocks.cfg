SPECIFICATION Spec
CONSTANTS
    STOP = 0
    JUMPI = 1
    JUMPDEST = 2
    JUMP = 3
    PUSH1 = 4
    PUSH32 = 5
    POP = 6
    ByteMod = 8
    MaxLength = 5
    Any = Any
    Codes <- MCCodes
INVARIANTS TypeOK JumpDestIsFirst
PROPERTY ImplementsEvmControl
CHECK_DEADLOCK FALSE

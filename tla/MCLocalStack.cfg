SPECIFICATION Spec
CONSTANTS
    Word = {w1, w2}
    StackLimit = 3
    Reach = 2
    MaxItems = 3
SYMMETRY Symmetry
INVARIANTS TypeOK AccessInBounds Bookkeeping
PROPERTIES ImplementsEvmStack OperationsAgree
CHECK_DEADLOCK FALSE

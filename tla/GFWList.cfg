SPECIFICATION Spec
CONSTANTS
    MaxHandlers = 2
    MaxVersion = 3
    Nil = Nil
    Broken = Broken
CHECK_DEADLOCK FALSE
INVARIANTS
    TypeOK
PROPERTIES
    NewerOnly
    StopReturns
    ListCatchesUp

SPECIFICATION Spec
CONSTANTS
    MaxHandlers = 2
    MaxVersion = 2
    Nil = Nil
    Broken = Broken
CHECK_DEADLOCK FALSE
INVARIANTS
    EmptyFetchedAtOnce

SPECIFICATION Spec
CONSTANTS
    Scenarios <- MCScenarios
    MaxEdits = 2
INVARIANTS
    CleanExit
    ExitCodeHonest
PROPERTIES
    EndsAsAWhole
    ComesUp
    SignalsHeeded
CHECK_DEADLOCK FALSE

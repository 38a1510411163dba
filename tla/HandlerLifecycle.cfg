SPECIFICATION Spec
CONSTANTS
    c1 = c1
    c2 = c2
    p1 = p1
    p2 = p2
    i1 = i1
    NoHandler = NoHandler
    Nobody = Nobody
    QueueCap = 1
    Clients <- MCClients
    Controllers <- MCControllers
    Internals <- MCInternals
    Handlers <- MCHandlers
INVARIANTS
    TypeOK
    NoQueryOnRetired
    NothingLeaks
    ClientTasksDrained
PROPERTIES
    StoppedForGood
    ImplementsService
    ControllersReturn
    QueriesAnswered

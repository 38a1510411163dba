SPECIFICATION Spec
SYMMETRY MCSymmetry
CONSTANTS
    r1 = r1
    r2 = r2
    h1 = h1
    h2 = h2
    a = a
    b = b
    NoCaller = NoCaller
    NoEntry = NoEntry
    Reselect = 2
    TTL = 3
    CleanupEvery = 1
    Requests <- MCRequests
    Hosts <- MCOneHost
    Callers <- MCCallers
INVARIANTS
    TypeOK
    EnoughResultsComing
    NothingOnlyIfAllFailed
    ActiveHasWon
PROPERTIES
    FallenNotAskedAlone
    RecentHostsKept

SPECIFICATION Spec
CONSTANTS
    c1 = c1
    c2 = c2
    Clients <- MCClients
    Requests <- MCRequests
    NoECS = "none"
    Local = {"local"}
    Groups <- MCGroups
    Fallback = 2
    ListGroup = 1
    NoGroup = NoGroup
    Rules <- MCRules
    Lists <- MCLists
    CacheSize = 1
    Disabled <- MCDisabled
    OwnECS <- MCOwnECS
    Redirectors <- MCRedirectors
    IPSets = {1}
    Addresses <- MCAddresses
    Answers <- MCAnswers
    MinTTL = 1
    MaxTTL = 2
    MaxTime = 1
    None = None
SYMMETRY Symmetry
INVARIANTS
    TypeOK
    AnswersOwnRequest
    OwnSubnetSent
    RedirectRespected
    RulesBeforeList
PROPERTIES
    ServedTTLHonest

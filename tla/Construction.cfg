SPECIFICATION Spec
CONSTANTS
    BadIP = BadIP
    NoFile = NoFile
    Unreadable = Unreadable
    DefaultMinTTL = 2
    DefaultMaxTTL = 2
    Names <- MCNames
    Bare <- MCBare
    Patterns <- MCPatterns
    Covers <- MCCovers
    Length <- MCLength
    Place <- MCPlace
    Address <- MCAddress
    TypeOf <- MCTypeOf
    Writable <- MCWritable
    Confs <- MCConfs
    Labels <- MCLabels
    Domains <- MCDomains
INVARIANTS
    TypeOK
    VerdictAsConfigured
    HostsAnswer
    MostSpecificRuleWins
CHECK_DEADLOCK FALSE

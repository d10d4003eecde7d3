SPECIFICATION DispatchSpec
CONSTANTS
    Callers = {c1, c2}
    Names <- MCNames
    MaxEntries = 1
    MaxVersion = 1
    Failed = Failed
    None = None
    Literal = Literal
    Servers = {d1, d2}
    Canonical <- MCCanonical
    Ports = {80, 443}
    RawConfigs <- MCRawConfigs
    MaxPoolSize = 3
    ClientHash <- MCClientHash
INVARIANTS
    EgressFollowsPolicy
    AllFailedMeansAll
    AnswersNeverGoBack

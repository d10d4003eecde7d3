SPECIFICATION FairSpec
CONSTANTS
    Conns = {c1, c2}
    AlwaysReconnect = FALSE
    MaxReconnectAttempts = 0
    AttemptCap = 1
    MaxCrashes = 1
INVARIANTS
    NoFlowOutlivesItsSession
    WaitsOnlyWithGateDown
    StateFileTellsTheGate
PROPERTIES
    DemandKeptWhileDown
    FlowsRefined
    RefusalLeadsToAttempt
    StrandedClientsAreReset

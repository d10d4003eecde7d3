SPECIFICATION RelaySpec
CONSTANTS
    Idle = 4
    HalfOpen = 2
    MaxMoves = 2
\* The relay returns.
CHECK_DEADLOCK FALSE
INVARIANTS
    ReturnedMeansReclaimed
PROPERTIES
    TimeoutMeansQuiet
    HardFailureEndsRelay
    SilentRelayEnds

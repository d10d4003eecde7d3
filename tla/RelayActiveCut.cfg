SPECIFICATION RelaySpec
CONSTANTS
    Idle = 4
    HalfOpen = 0
    MaxMoves = 3
PROPERTY ActiveFlowNeverCut
\* The relay returns.
CHECK_DEADLOCK FALSE

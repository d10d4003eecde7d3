SPECIFICATION Spec
CONSTANTS
    Conns = {c1}
    Keepalive = TRUE
    Window = 2
    MaxBackoff = 2
    MaxMoves = 1
\* The server may stop.
CHECK_DEADLOCK FALSE
INVARIANTS
    GateFollowsWatchdog
    NoFlowDuringOutage
    NoLateRecovery
PROPERTIES
    WedgeHeals
    ShutdownJoinsWatchdog

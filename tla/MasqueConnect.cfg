SPECIFICATION FairSpec
CONSTANTS
    AlwaysReconnect = FALSE
    MaxReconnectAttempts = 3
    AttemptCap = 3
\* A cancelled loop stops.
CHECK_DEADLOCK FALSE
INVARIANTS
    NothingHeldBetweenAttempts
    PausesOnlyAfterFailuresInARow
PROPERTIES
    AttemptRefined
    CancelEndsTheAttempt

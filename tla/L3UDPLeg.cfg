SPECIFICATION LegFairSpec
CONSTANTS
    Flows = {f1, f2}
    AlwaysReconnect = FALSE
    MaxReconnectAttempts = 0
    AttemptCap = 1
\* A cancelled leg whose clients have gone stops.
CHECK_DEADLOCK FALSE
PROPERTIES
    CleanupStopsTheLoop
    SenderGetsLegBack

SPECIFICATION Spec
CONSTANTS
    Sessions = {s1, s2}
    None = None
    IcmpDepth = 1
CHECK_DEADLOCK FALSE
PROPERTIES
    HealthySessionIsKept

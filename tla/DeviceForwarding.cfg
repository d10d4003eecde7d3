SPECIFICATION DevFairSpec
CONSTANTS
    Sessions = {s1}
    None = None
    IcmpDepth = 1
    QueueDepth = 1
    BatchSize = 1
    Injector = Injector
    Stack = {t1}
CHECK_DEADLOCK FALSE
PROPERTIES
    DeathEndsForwarding
    ShutdownEndsOrPanics
    SendersAreServed

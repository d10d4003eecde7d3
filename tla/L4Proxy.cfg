SPECIFICATION FairSpec
CONSTANTS
    Dialers = {d1, d2}
    Conns = {c1, c2}
    None = None
INVARIANTS
    NoConnectionLeak
    SingleConnection
PROPERTIES
    OnlyOwnConnectionTornDown
    WedgeIsDetected

SPECIFICATION FairSpec
CONSTANTS
    Assocs = {a1, a2}
    Dsts = {d1}
    Ups = {u1, u2}
    None = None
    MaxUpstreams = 1
INVARIANTS
    SlotsAreAccountedFor
    NoOrphanSocket
PROPERTIES
    LeavingFreesEverything

SPECIFICATION Spec
CONSTANTS
    Devices = {d1, d2}
    NoDevice = NoDevice
    Commands <- MCCommands
SYMMETRY Symmetry
INVARIANTS
    SavedIdentityIsReal
    DiskCarriesTheAccount
PROPERTIES
    PaidAccountIsLeftAlone
    WGSparesKey

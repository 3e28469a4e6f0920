SPECIFICATION FairSpec
CONSTANTS
    Applies = {a1, a2}
    Writes = {w1}
    Bodyless = {w1}
    Reads = {}
    Callbacks = {c1}
    Request = {a1, a2, w1, c1}
    User = {u1}
    NoRequest = NoRequest
INVARIANTS
    GateHasOneOwner
    OnlyTheHolesOverlap
    IntrudersAreTheHoles
    SyncIsSilent
PROPERTIES
    GateReopens
    SyncComesBack

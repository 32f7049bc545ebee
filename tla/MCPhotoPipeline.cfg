SPECIFICATION Spec
CHECK_DEADLOCK FALSE
CONSTANTS
    p1 = p1
    p2 = p2
    s1 = s1
    s2 = s2
    None = None
    Photos = {p1}
    Slots = {s1, s2}
    MaxGen = 2
    MaxRetries = 1
    BatchSize = 1
    Tombstones = {"delete"}
    MaxFaults = 1
SYMMETRY MCSymmetry
INVARIANTS
    TypeOK
    ReadyIsComplete
    WorkIsVisible
PROPERTIES
    ImplementsLifecycle
    ServesPublicAccess
    PurgesLast

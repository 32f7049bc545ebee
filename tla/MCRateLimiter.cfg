SPECIFICATION Spec
CONSTANTS
    r1 = r1
    r2 = r2
    r3 = r3
    k1 = k1
    k2 = k2
    None = None
    Requests = {r1, r2}
    Keys = {k1, k2}
    Limit = 2
    Window = 2
    MaxLag = 1
    MaxTime = 6
SYMMETRY MCSymmetry
INVARIANTS
    BurstBounded
    RefusalIsEarned
PROPERTIES
    MapIsPruned

SPECIFICATION Spec
CONSTANTS
    r1 = r1
    r2 = r2
    r3 = r3
    u1 = u1
    u2 = u2
    u3 = u3
    None = None
    MinimumPartSize = 1
    MaxByteSize = 4
    PartSize = 2
    MaxParts = 2
    ByteSize = 2
    Manifests <- MCManifests
    Requests = {r1, r2}
    Uploads = {u1, u2}
    MissIsError = TRUE
    MaxFaults = 0
SYMMETRY MCSymmetry
INVARIANTS
    MissIsNoError

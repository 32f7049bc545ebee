SPECIFICATION Spec
CHECK_DEADLOCK FALSE
CONSTANTS
    p1 = p1
    p2 = p2
    s1 = s1
    s2 = s2
    None = None
    Photos = {p1}
    Slots = {s1, s2}
    MaxGen = 1
    MaxRetries = 2
    BatchSize = 2
    Tombstones = {"delete", "archive"}
    MaxFaults = 0
SYMMETRY MCSymmetry
PROPERTIES
    NoWorkEnqueuedAfterTombstone

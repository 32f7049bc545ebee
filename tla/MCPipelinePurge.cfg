SPECIFICATION FairSpec
CHECK_DEADLOCK FALSE
CONSTANTS
    p1 = p1
    p2 = p2
    s1 = s1
    s2 = s2
    None = None
    Photos = {p1}
    Slots = {s1}
    MaxGen = 1
    MaxRetries = 2
    BatchSize = 2
    Tombstones = {"delete"}
    MaxFaults = 0
PROPERTIES
    PurgeRetriesUntilItSucceeds

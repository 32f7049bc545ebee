SPECIFICATION FairSpec
CONSTANTS
    a1 = a1
    a2 = a2
    p1g1 = p1g1
    p1del = p1del
    None = None
    Publishers = {a1, a2}
    Work = {p1g1}
    Purge = {p1del}
    Covers <- MCCovers
    BatchSize = 2
    MaxFaults = 2
INVARIANTS
    TypeOK
    NoDuplicateEnqueue
    PublishedMeansHandedOver
PROPERTIES
    PublishedIsFinal
    ImplementsHandoff
    EventuallySettled

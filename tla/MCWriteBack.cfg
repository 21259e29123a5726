SPECIFICATION Spec
CONSTANTS
    Keys = {k1, k2}
    Workers = {w1, w2}
    MaxWrites = 3
    MaxReads = 1
    None = None
    Faults = {"cache", "db", "evict"}
SYMMETRY Symmetric
INVARIANTS
    TypeOK
    NothingLost
    OneFlushAtATime
    DBCallsBounded
    CacheAccountedFor
PROPERTIES
    DBMonotone
    KeepsPromise

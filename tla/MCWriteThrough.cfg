SPECIFICATION Spec
CONSTANTS
    Keys = {k1, k2}
    Workers = {w1, w2, w3}
    MaxWrites = 3
    MaxReads = 3
    None = None
    Faults = {"cache", "db", "evict"}
SYMMETRY Symmetric
INVARIANTS
    TypeOK
    StaleOnlyIfOvertaken
    NeverAheadOfDB
    DBCallsExplained

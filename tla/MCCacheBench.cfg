SPECIFICATION BenchSpec
CONSTANTS
    Keys = {k1}
    Workers = {w1, w2}
    MaxWrites = 2
    MaxReads = 1
    None = None
    Faults = {"cache", "db", "evict"}
    Runs = 4
SYMMETRY Symmetric
INVARIANTS
    InheritedOnly
    WinnersHonest
PROPERTIES
    ReportsExplained

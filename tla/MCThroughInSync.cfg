SPECIFICATION Spec
CONSTANTS
    Keys = {k1, k2}
    Workers = {w1, w2}
    MaxWrites = 2
    MaxReads = 1
    None = None
    Faults = {}
INVARIANT
    InSyncAtRest

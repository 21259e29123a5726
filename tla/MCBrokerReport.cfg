CONSTANTS
    Rates = 3
    Results <- MCResults
    OldResult <- MCOldResult
    MaxLosses = 2
    Glob <- MCGlob
    None = None
SPECIFICATION Spec
INVARIANTS TypeOK RowsFaithful DegradationFound PercentilesCover

SPECIFICATION FairSpec
CONSTANTS
    Consumers = {c1, c2}
    BatchSize = 2
    MaxMessages = 3
    MaxFailures = 2
    None = None
INVARIANTS
    TypeOK
    SendsRecorded
    LossBounded
    DuplicatesBounded
PROPERTY
    RunEnds

SPECIFICATION Spec
CONSTANTS
    Consumers = {c1, c2}
    BatchSize = 2
    MaxMessages = 3
    MaxFailures = 0
    None = None
INVARIANT
    LossIsLost

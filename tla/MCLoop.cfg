\* Retries, a FIFO group, and a publisher that raises for the youngest row.
SPECIFICATION FairSpec

CONSTANTS
    Rows = {1, 2, 3, 4}
    g = g
    NoGroup = NoGroup
    Group <- MCGroup
    Raising = {4}
    BatchSize = 1
    MaxAttempts = 3
    InitialInterval = 1
    MaxInterval = 2
    Multiplier = 2

INVARIANTS
    SettledInOrder

PROPERTIES
    EveryRowSettles

\* A row leased to two workers at once.
SPECIFICATION Spec

CONSTANTS
    m1 = m1
    m2 = m2
    g = g
    NoGroup = NoGroup
    NoRow = NoRow
    Messages = {m1}
    Group <- MCGroup
    MaxAttempts = 2
    InitialInterval = 1
    MaxInterval = 2
    Multiplier = 2
    LeaseDuration = 1
    BatchSize = 2
    MaxClock = 3
    Workers = {w1, w2}
    Routable = {m1}

SYMMETRY WorkerSymmetry

INVARIANTS
    LeasedToOneWorker

\* One FIFO and one unordered worker on two messages of one group.
SPECIFICATION Spec

CONSTANTS
    m1 = m1
    m2 = m2
    g = g
    w1 = w1
    w2 = w2
    NoGroup = NoGroup
    NoRow = NoRow
    Messages = {m1, m2}
    Group <- MCGroup
    MaxAttempts = 2
    InitialInterval = 1
    MaxInterval = 2
    Multiplier = 2
    LeaseDuration = 1
    BatchSize = 2
    MaxClock = 1
    Workers = {w1, w2}
    Unordered = {w2}
    ExactHook = {m1, m2}

INVARIANTS
    FifoPerGroup
    IInv

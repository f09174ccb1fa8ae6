\* One FIFO and one unordered worker, one message with an exact hook.
SPECIFICATION FairSpec

CONSTANTS
    m1 = m1
    m2 = m2
    g = g
    w1 = w1
    w2 = w2
    NoGroup = NoGroup
    NoRow = NoRow
    Messages = {m1}
    Group <- MCGroup
    MaxAttempts = 2
    InitialInterval = 1
    MaxInterval = 2
    Multiplier = 2
    LeaseDuration = 0
    BatchSize = 2
    MaxClock = 2
    Workers = {w1, w2}
    Unordered = {w2}
    ExactHook = {m1}

INVARIANTS
    EffectAtMostOnce
    ProcessedIsJustified
    FailedIsJustified
    NothingStranded
    IInv

PROPERTIES
    ImplementsLeaseQueue
    PassTerminates

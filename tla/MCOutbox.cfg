\* Two workers, two messages of one group: every interleaving, crash and expired lease.
SPECIFICATION Spec

CONSTANTS
    m1 = m1
    m2 = m2
    g = g
    NoGroup = NoGroup
    NoRow = NoRow
    Messages = {m1, m2}
    Group <- MCGroup
    MaxAttempts = 2
    InitialInterval = 1
    MaxInterval = 2
    Multiplier = 2
    LeaseDuration = 1
    BatchSize = 2
    MaxClock = 2
    Workers = {w1, w2}
    Routable = {m1, m2}

SYMMETRY WorkerSymmetry

INVARIANTS
    TypeOK
    NoDoubleClaim
    FifoPerGroup
    AttemptsWithinCeiling
    BackoffRespected
    PublishedWasDelivered
    FailedIsJustified
    NothingStranded
    IInv

PROPERTIES
    SettledIsFinal

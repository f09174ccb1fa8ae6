\* Passes end under strong fairness of the workers, and implement the lease queue.
SPECIFICATION FairSpec

CONSTANTS
    m1 = m1
    m2 = m2
    g = g
    NoGroup = NoGroup
    NoRow = NoRow
    Messages = {m1, m2}
    Group <- MCGroup
    MaxAttempts = 1
    InitialInterval = 1
    MaxInterval = 2
    Multiplier = 2
    LeaseDuration = 0
    BatchSize = 2
    MaxClock = 1
    Workers = {w1, w2}
    Routable = {m1}

PROPERTIES
    PassTerminates
    ImplementsLeaseQueue

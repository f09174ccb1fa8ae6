\* A publisher that raises next to a healthy one of another event type.
SPECIFICATION FairSpec

CONSTANTS
    Rows = {1, 2}
    g = g
    NoGroup = NoGroup
    Group <- MCUngrouped
    Raising = {1}
    BatchSize = 2
    MaxAttempts = 3
    InitialInterval = 1
    MaxInterval = 2
    Multiplier = 2

PROPERTIES
    EveryRowSettles

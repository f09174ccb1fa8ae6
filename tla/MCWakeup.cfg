\* Two rows, retries, coalesced notifications and drains that reach the cap.
SPECIFICATION FairSpec

CONSTANTS
    Rows = {r1, r2}
    MaxAttempts = 2
    BatchSize = 1
    MaxPasses = 2
    NotifyMode = "coalesced"
    HasLocal = TRUE
    FallbackInitial = 1
    FallbackMax = 3
    FallbackMultiplier = 2

\* A cancelled loop with nothing left to claim may stop for good.
CHECK_DEADLOCK FALSE

INVARIANTS
    TypeOK
    SignalsAreHonoured

PROPERTIES
    EveryRowIsClaimed

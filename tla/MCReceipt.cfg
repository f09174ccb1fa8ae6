\* Three receivers and two messages on MySQL at its default isolation level.
SPECIFICATION ReceiptSpec

CONSTANTS
    Keys = {k1, k2}
    Receivers = {r1, r2, r3}
    Alone = {r1}
    Dialect = "mysql"
    Isolation = "repeatable read"
    Entry <- MCDistinct
    TooLong = {}

INVARIANTS
    ReceiptTypeOK
    InsertedExactlyOnce
    DuplicateIsDurable
    ReadBackFindsRow

\* Two processes around a rebalance, with crashes and an id too long for MySQL.
SPECIFICATION FairSpec

CONSTANTS
    k1 = k1
    k2 = k2
    t1 = t1
    t2 = t2
    p1 = p1
    p2 = p2
    NoId = NoId
    Invalid = Invalid
    Keys <- MCKeys
    Receivers = {t1, t2}
    Alone = {t1, t2}
    Processes = {p1, p2}
    Owner <- MCLoop
    Log <- MCLog
    Dialect = "mysql"
    Isolation = "repeatable read"
    Entry <- MCDistinct
    TooLong = {k2}
    MaxStops = 3

\* At the end of the log a consumer waits for messages.
CHECK_DEADLOCK FALSE

INVARIANTS
    TypeOK
    CommittedIsStored
    InsertedExactlyOnce

PROPERTIES
    StorablePrefixIsStored

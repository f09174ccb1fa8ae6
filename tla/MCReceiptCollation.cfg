\* Two ids that MySQL takes for one.
SPECIFICATION ReceiptSpec

CONSTANTS
    Keys = {"Order-1", "order-1"}
    Receivers = {r1, r2}
    Alone = {r1}
    Dialect = "mysql"
    Isolation = "read committed"
    Entry <- MCCaseInsensitive
    TooLong = {}

INVARIANTS
    DuplicateIsDurable

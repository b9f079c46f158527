SPECIFICATION SerialSpec
CONSTANTS
    Member = {m1, m2}
    Req = {r1, r2}
    None = None
    Limits = {1, 2}
    Award = 2
    Price = 1
    MaxClaim = 2
    MaxTx = 3
SYMMETRY Symmetry
INVARIANTS ApprovedIsPaid NeverOverdrawn
PROPERTIES SerialBooksKept
CHECK_DEADLOCK FALSE

SPECIFICATION SerialSpec
CONSTANTS
    Member = {m1}
    Req = {r1, r2}
    None = None
    Limits = {1}
    Award = 2
    Price = 1
    MaxClaim = 2
    MaxTx = 3
INVARIANTS PaidOnce
CHECK_DEADLOCK FALSE

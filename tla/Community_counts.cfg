SPECIFICATION MCSpec
CONSTANTS
    User = {u1, u2}
    Moderator = {u2}
    Post = {p1}
    Comment = {c1, c2}
    Category = {k1}
    Req = {r1, r2}
    None = None
SYMMETRY Symmetry
INVARIANTS CountsCovered SerialCountersExact
CHECK_DEADLOCK FALSE

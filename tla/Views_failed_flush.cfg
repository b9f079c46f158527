SPECIFICATION MCSpec
CONSTANTS
    Worker = {w1, w2}
    View = {1, 2, 3}
    Post = {p1, p2}
    Viewer = {u1}
    Redis = Redis
    None = None
INVARIANTS FailedFlushLosesNothing
CHECK_DEADLOCK FALSE

SPECIFICATION OutageSpec
CONSTANTS
    Scenes = {"blacklist", "limiter"}
    w1 = w1
    Process = {w1}
    HasRedis = TRUE
    Call = {c1, c2}
    Home <- MCHome
    Token = {t1, t2, t3}
    NoToken = NoToken
    BlacklistFallback = "memory"
    Capacity = 2
    Second = 1
    BlacklistRetry = 1
    BlacklistTime = 2
    Key = {k1}
    Asker = {q1, q2}
    AskedAt <- MCAskedAt
    LimiterFallback = "memory"
    Limit = 2
    Period = 3
    LimiterRetry = 2
    MaxDelay = 1
    LimiterTime = 3
SYMMETRY Symmetry
INVARIANTS OwnRevocationsHoldWithRoom WindowsRespected
CHECK_DEADLOCK FALSE

SPECIFICATION SceneSpec
CONSTANTS
    Scenes = {"roles"}
    w1 = w1
    w2 = w2
    r1 = r1
    ro1 = ro1
    Home <- MCHome
    User = {u1}
    Role = {ro1, ro2}
    Perm = {p1}
    Worker = {w1}
    Req = {r1, r2}
    HasRedis = TRUE
    CanFail = TRUE
    Fallback = "memory"
    TTL = 2
    MaxMiss = 1
SYMMETRY Symmetry
INVARIANTS FreshWhenQuiet

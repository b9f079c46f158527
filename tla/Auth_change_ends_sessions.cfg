SPECIFICATION SceneSpec
CONSTANTS
    User = {u1}
    Token = {t1, t2, t3}
    Req = {r1, r2}
    t1 = t1
    t2 = t2
    t3 = t3
    r1 = r1
    r2 = r2
    None = None
    Scenes = {"change"}
    Ops <- AnyOps
    Leeway = 1
    RefreshTTL = 2
    MaxTime = 2
    MaxPwd = 2
INVARIANTS SessionsEndWithPassword
CHECK_DEADLOCK FALSE

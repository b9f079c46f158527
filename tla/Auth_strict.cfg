SPECIFICATION SignInSpec
CONSTANTS
    User = {u1}
    Token = {t1, t2, t3}
    Req = {r1, r2}
    t1 = t1
    t2 = t2
    t3 = t3
    r1 = r1
    r2 = r2
    None = None
    Scenes = {"strict"}
    Ops <- AnyOps
    Leeway = 0
    RefreshTTL = 2
    MaxTime = 1
    MaxPwd = 1
    Ticket = {k1}
    MaxGen = 2
    Email = {"alice@x", "alice@y"}
    State = {s1}
    MaxCode = 2
    BaseName <- OneName
    Worker = {"w1", "w2"}
    Suffixes = 1
INVARIANTS StrictRotation SignInSound
PROPERTIES RequestsEnd

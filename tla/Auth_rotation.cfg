SPECIFICATION SceneSpec
CONSTANTS
    User = {u1}
    Token = {t1, t2, t3}
    Req = {r1, r2}
    t1 = t1
    t2 = t2
    t3 = t3
    r1 = r1
    r2 = r2
    None = None
    Scenes = {"rotation", "account"}
    Ops <- AnyOps
    Leeway = 1
    RefreshTTL = 2
    MaxTime = 3
    MaxPwd = 2
SYMMETRY Symmetry
INVARIANTS RotatedIsRevoked StaleAccessRefused
PROPERTIES DeadFamilyStaysDead LeewayNotProlonged RevocationReachesSnapshot ReplayEvidenceKept
CHECK_DEADLOCK FALSE

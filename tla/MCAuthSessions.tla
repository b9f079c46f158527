--------------------------- MODULE MCAuthSessions ---------------------------
(* Small instances of AuthSessions for TLC.  A behaviour is one of the        *)
(* scenes, which says what the two requests may do and how it begins.         *)
EXTENDS AuthSessions, TLC

CONSTANTS r1, r2, t1, t2, t3, Scenes
VARIABLE scene

\* What a scene lets request r do.
SceneOps(sc, r) ==
    CASE sc = "rotation" ->  \* rotation against rotation, logout, revocations and the purge
           {"refresh"} \cup IF r = r1 THEN {}
                            ELSE {"logout", "revokeSession", "revokeAll", "purge"}
      [] sc = "account" ->   \* login and rotation against the account operations
           IF r = r1 THEN {"login", "refresh"}
           ELSE {"changePassword", "disable", "enable", "suspend", "delete", "erase"}
      [] sc = "strict" ->    \* rotations of the same tokens and revocations of all sessions,
                             \* which may lock the tokens of two families in opposite orders
           {"refresh", "revokeAll"} \cup IF r = r1 THEN {"login"} ELSE {}
      \* The scenes in which the code departs from its documents.
      [] sc = "change" -> IF r = r1 THEN {"login", "refresh"} ELSE {"changePassword"}
      [] sc = "twoChanges" -> {"changePassword"} \cup IF r = r1 THEN {"login"} ELSE {}
      [] sc = "tabs" -> {"refresh", "logout"}

AnyOps == [r \in Req |-> UNION {SceneOps(sc, r) : sc \in Scenes}]

\* A family with its first token t1, opened one tick before the run begins.
OpenedInit ==
    \E u \in User :
      InitWith([t \in Token |->
                  IF t = t1 THEN [FreeRow EXCEPT !.st = "live", !.user = u, !.family = t1,
                                                 !.expiresAt = RefreshTTL,
                                                 !.pwdAt = 1, !.authAt = 1]
                  ELSE FreeRow])

Sibling(u) == [FreeRow EXCEPT !.st = "live", !.user = u, !.family = t1, !.parent = t1,
                              !.expiresAt = 1 + RefreshTTL, !.pwdAt = 1, !.authAt = 1]

\* A family after two tabs rotated its first token t1 within the leeway.
TwoTabsInit ==
    \E u \in User :
      InitWith([t \in Token |->
                  CASE t = t1 -> [Sibling(u) EXCEPT !.parent = None, !.revokedAt = 1,
                                                    !.by = "rotation"]
                    [] t \in {t2, t3} -> Sibling(u)
                    [] OTHER -> FreeRow])

SceneInit ==
    /\ scene \in Scenes
    /\ CASE scene = "rotation" -> OpenedInit
         [] scene = "tabs" -> TwoTabsInit
         [] OTHER -> Init

\* Where passwords change, time stops one tick earlier and there are two tokens.
SceneNext ==
    /\ Next /\ scene' = scene
    /\ \A r \in Req : txn'[r].op \in {"none", "reuse"} \cup SceneOps(scene, r)
    /\ scene = "account" => now' <= RefreshTTL /\ row'[t1].st = "free"

SceneSpec == SceneInit /\ [][SceneNext]_<<vars, scene>>
SceneFairSpec == SceneSpec /\ Fairness

\* t1 is named by the scenes, the other tokens by nothing.
Symmetry == Permutations(Token \ {t1})
=============================================================================

-------------------------- MODULE MCPermissionCache --------------------------
(* Small instances of PermissionCache for TLC.  A behaviour is one of the      *)
(* scenes: in "serial" requests come one at a time, Redis answers, two roles   *)
(* change and nobody sets a user's role as an administrator; in "failing" any  *)
(* call may fail and requests overlap, and only one role changes.  The other   *)
(* scenes are for the departures of the code from its documents: "overlap" is  *)
(* "serial" with requests that overlap, and "roles" is "serial" with           *)
(* administrators who set roles.                                               *)
EXTENDS PermissionCache, TLC

CONSTANTS w1, w2, r1, ro1, Scenes
VARIABLE scene

\* r1 runs in w1, the other requests in w2, if there is one.
MCHome == [r \in Req |-> IF r = r1 \/ w2 \notin Worker THEN w1 ELSE w2]

SceneInit ==
    /\ Init
    /\ scene \in Scenes
    /\ scene = "failing" => \A ro \in Role \ {ro1} : db.role[ro] = "absent"

SceneNext ==
    /\ Next /\ scene' = scene
    /\ \A r \in Req : LET c == req[r].change' IN
         IF scene = "failing"
           THEN c.kind \notin {"none", "remove_permission"} => c.ro = ro1
           ELSE /\ healthy' = healthy
                /\ scene # "overlap" /\ r # r1 => Idle(r)'
                /\ scene # "roles" => c.kind # "set_user_role"

SceneSpec == SceneInit /\ [][SceneNext]_<<vars, scene>>

\* Every change but set_user_role deletes the keys of all the users it touches, so
\* as long as requests come one at a time, none is such a change and Redis answers,
\* whatever a check finds between them is what the database holds: "the delay of a
\* revocation is covered by active invalidation" (PermissionChecker).
SerialFreshWhenQuiet == scene = "serial" => FreshWhenQuiet

\* The inductive invariant behind it, with IInv.  Only r1 stores and deletes, in
\* Redis or, without one, in the memory of its worker; ...
OneStore ==
    /\ \A w \in Worker : healthy[w] = HasRedis
    /\ \A r \in Req \ {r1} : Idle(r)
    /\ \A u \in User : ~HasRedis => redis[u].left = 0
    /\ \A w \in Worker, u \in User : HasRedis \/ w # Home[r1] => mem[w][u].left = 0

Fresh(e, u) == e.left > 0 => e.perms = Permissions(db, u)

EntriesFresh ==
    /\ \A u \in User : Fresh(redis[u], u)
    /\ \A w \in Worker, u \in User : Fresh(mem[w][u], u)

\* ... and a change that is about to commit has deleted what it will make stale.
RequestFresh ==
    \A r \in Req :
      LET q == req[r] IN
      /\ q.pc = "read" => \A u \in q.who : q.seen = Permissions(db, u)
      /\ q.pc \in {"planned", "cleared"} =>
           q.change \in Change /\ q.change.kind # "set_user_role" /\ q.who = Touched(db, q.change)
      /\ q.pc = "cleared" =>
           \A u \in q.who : redis[u].left = 0 /\ \A w \in Worker : mem[w][u].left = 0

SerialInv == scene = "serial" => OneStore /\ EntriesFresh /\ RequestFresh

\* w1 and w2 are told apart by MCHome, roles by the scenes; users and permissions
\* by nothing.
Symmetry == Permutations(User) \cup Permutations(Perm)
=============================================================================

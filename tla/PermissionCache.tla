--------------------------- MODULE PermissionCache ---------------------------
(***************************************************************************)
(* Permission checks and the cache they trust: RBACService of               *)
(* app/services/rbac/, RBACRepository, PermissionChecker of                 *)
(* app/middleware/rbac.py, and DegradableCache of app/core/cache/.          *)
(*                                                                          *)
(* A check asks the cache for the user's permissions and, on a miss, reads  *)
(* the database and stores what it read.  A change of roles or permissions  *)
(* finds the users it touches, deletes their keys and commits: every route  *)
(* commits last, most of them in AuditService.record_atomic.  Each of these *)
(* is an await, and requests interleave there.  The cool-down after a       *)
(* failed Redis call is a choice: a worker that is not healthy uses its     *)
(* memory or tries Redis again.                                             *)
(***************************************************************************)
EXTENDS Integers, FiniteSets

CONSTANTS
    User, Role,
    Perm,     \* resource:action strings
    Worker,   \* processes, each with a memory cache of its own
    Req,      \* requests
    Home,     \* Home[r]: the worker that request r runs in
    HasRedis, \* a Redis client is configured
    CanFail,  \* Redis calls may fail
    Fallback, \* CACHE_FALLBACK
    TTL,      \* RBAC_USER_PERMISSION_CACHE_TTL_SECONDS, in ticks
    MaxMiss   \* the longest a request takes from its read to its store, in ticks

ASSUME HomeAssumption == Home \in [Req -> Worker]
ASSUME SettingsAssumption ==
    /\ HasRedis \in BOOLEAN /\ CanFail \in BOOLEAN
    /\ Fallback \in {"memory", "off"}
    /\ TTL \in Nat \ {0} /\ MaxMiss \in Nat

VARIABLES
    db,      \* the committed rows of user_roles, role_permissions and roles
    redis,   \* the entry of each user's key in Redis
    mem,     \* the entry of each user's key in each worker's memory
    healthy, \* _healthy of each worker
    req,     \* the requests under way
    flip     \* history: ticks since the user last gained or lost the permission

vars == <<db, redis, mem, healthy, req, flip>>

Db == [holds: SUBSET (User \X Role), grants: SUBSET (Role \X Perm),
       role: [Role -> {"absent", "active", "inactive"}]]

Entry == [perms: SUBSET Perm, left: 0..TTL]

\* A key that is not there, or whose time is over.
NoEntry == [perms |-> {}, left |-> 0]

Change ==
    [kind: {"grant_role", "revoke_role", "set_user_role"}, u: User, ro: Role]
      \cup [kind: {"grant_permission", "revoke_permission"}, ro: Role, p: Perm]
      \cup [kind: {"activate", "deactivate", "delete_role"}, ro: Role]
      \cup [kind: {"remove_permission"}, p: Perm]
      \cup [kind: {"create_role", "replace_permissions"}, ro: Role, ps: SUBSET Perm]

NoChange == [kind |-> "none"]

ReqRec == [pc: {"idle", "missed", "read", "planned", "cleared"},
           who: SUBSET User,      \* the user checked, or the users a change touches
           seen: SUBSET Perm,     \* what a miss read
           wait: 0..MaxMiss,      \* ticks since it did
           change: Change \cup {NoChange},
           failed: BOOLEAN]       \* a deletion did not reach Redis

IdleReq == [pc |-> "idle", who |-> {}, seen |-> {}, wait |-> 0, change |-> NoChange,
            failed |-> FALSE]

\* Ages beyond this one tell nothing.
MaxAge == TTL + MaxMiss + 1

Init ==
    /\ db \in [holds: {{}}, grants: {{}}, role: [Role -> {"absent", "active"}]]
    /\ redis = [u \in User |-> NoEntry]
    /\ mem = [w \in Worker |-> [u \in User |-> NoEntry]]
    /\ healthy = [w \in Worker |-> HasRedis]
    /\ req = [r \in Req |-> IdleReq]
    /\ flip = [u \in User |-> [p \in Perm |-> MaxAge]]

-----------------------------------------------------------------------------
(* get_authorization_permissions *)
Permissions(d, u) ==
    {p \in Perm : \E ro \in Role : /\ <<u, ro>> \in d.holds
                                   /\ d.role[ro] = "active"
                                   /\ <<ro, p>> \in d.grants}

(* DegradableCache *)

\* _fallback_get and _fallback_set use the memory; "off" turns them off.
HasMemory == ~HasRedis \/ Fallback = "memory"

\* What a worker's memory answers.
Fallen(w, u) == IF HasMemory THEN mem[w][u] ELSE NoEntry

\* The worker need not ask Redis: there is none, or the cool-down is on.
MayStayLocal(w) == ~HasRedis \/ ~healthy[w]

\* get: Redis answers, or its failure or the cool-down sends the call to memory.
Answers(w, u, e, well) ==
    \/ HasRedis /\ e = redis[u] /\ well
    \/ HasRedis /\ CanFail /\ e = Fallen(w, u) /\ ~well
    \/ MayStayLocal(w) /\ e = Fallen(w, u) /\ well = healthy[w]

Remembered(e, w, u) == IF HasMemory THEN [mem EXCEPT ![w][u] = e] ELSE mem

\* set: a call that fails may still have reached Redis.
Stored(e, w, u) ==
    \/ /\ HasRedis /\ redis' = [redis EXCEPT ![u] = e]
       /\ healthy' = [healthy EXCEPT ![w] = TRUE] /\ mem' = mem
    \/ /\ HasRedis /\ CanFail /\ redis' \in {redis, [redis EXCEPT ![u] = e]}
       /\ healthy' = [healthy EXCEPT ![w] = FALSE] /\ mem' = Remembered(e, w, u)
    \/ /\ MayStayLocal(w) /\ mem' = Remembered(e, w, u) /\ UNCHANGED <<redis, healthy>>

Without(c, us) == [u \in User |-> IF u \in us THEN NoEntry ELSE c[u]]

\* delete and delete_many: no error ever leaves them, and only delete keeps the
\* cool-down.  lost: Redis has not confirmed.
Deleted(us, w, single, lost) ==
    /\ mem' = [mem EXCEPT ![w] = Without(mem[w], us)]
    /\ \/ /\ HasRedis /\ ~lost
          /\ redis' = Without(redis, us) /\ healthy' = [healthy EXCEPT ![w] = TRUE]
       \/ /\ HasRedis /\ CanFail /\ lost /\ redis' \in {redis, Without(redis, us)}
          /\ healthy' = [healthy EXCEPT ![w] = FALSE]
       \/ /\ MayStayLocal(w) /\ (single \/ ~HasRedis) /\ lost = HasRedis
          /\ UNCHANGED <<redis, healthy>>

-----------------------------------------------------------------------------
(* PermissionChecker and get_user_permissions *)

Idle(r) == req[r].pc = "idle"

\* Mistake: a hit in memory starts the entry's time to live afresh.
LookUpSliding(r, u) ==
    /\ Idle(r)
    /\ \E e \in {redis[u], Fallen(Home[r], u)}, well \in BOOLEAN :
         /\ Answers(Home[r], u, e, well)
         /\ healthy' = [healthy EXCEPT ![Home[r]] = well]
         /\ mem' = IF e.left > 0 /\ e = mem[Home[r]][u]
                     THEN [mem EXCEPT ![Home[r]][u].left = TTL] ELSE mem
         /\ req' = IF e.left > 0 THEN req
                   ELSE [req EXCEPT ![r] = [IdleReq EXCEPT !.pc = "missed", !.who = {u}]]
    /\ UNCHANGED <<db, redis, flip>>

\* A check decides on what it finds.  An empty set of permissions is found too.
LookUp(r, u) ==
    /\ Idle(r)
    /\ \E e \in {redis[u], Fallen(Home[r], u)}, well \in BOOLEAN :
         /\ Answers(Home[r], u, e, well)
         /\ healthy' = [healthy EXCEPT ![Home[r]] = well]
         /\ req' = IF e.left > 0 THEN req
                   ELSE [req EXCEPT ![r] = [IdleReq EXCEPT !.pc = "missed", !.who = {u}]]
    /\ UNCHANGED <<db, redis, mem, flip>>

ReadPermissions(r) ==
    /\ req[r].pc = "missed"
    /\ \E u \in req[r].who :
         req' = [req EXCEPT ![r].pc = "read", ![r].seen = Permissions(db, u)]
    /\ UNCHANGED <<db, redis, mem, healthy, flip>>

Store(r) ==
    /\ req[r].pc = "read"
    /\ \E u \in req[r].who : Stored([perms |-> req[r].seen, left |-> TTL], Home[r], u)
    /\ req' = [req EXCEPT ![r] = IdleReq]
    /\ UNCHANGED <<db, flip>>

-----------------------------------------------------------------------------
(* RBACService: the changes *)

Holders(d, ro) == {u \in User : <<u, ro>> \in d.holds}

\* The rows the change names are there, and it changes them.
Applicable(d, c) ==
    CASE c.kind = "grant_role" -> d.role[c.ro] # "absent" /\ <<c.u, c.ro>> \notin d.holds
      [] c.kind = "revoke_role" -> <<c.u, c.ro>> \in d.holds
      [] c.kind = "set_user_role" -> d.role[c.ro] # "absent"
      [] c.kind = "grant_permission" ->
           d.role[c.ro] # "absent" /\ <<c.ro, c.p>> \notin d.grants
      [] c.kind = "revoke_permission" -> <<c.ro, c.p>> \in d.grants
      [] c.kind = "activate" -> d.role[c.ro] = "inactive"
      [] c.kind = "deactivate" -> d.role[c.ro] = "active"
      [] c.kind = "create_role" -> d.role[c.ro] = "absent"
      [] c.kind \in {"delete_role", "replace_permissions"} -> d.role[c.ro] # "absent"
      [] c.kind = "remove_permission" -> TRUE
      [] OTHER -> FALSE

\* What the change leaves.  update_permission gives the permission another
\* resource:action: to those who had it, the old one is removed.
Applied(d, c) ==
    CASE c.kind = "grant_role" -> [d EXCEPT !.holds = @ \cup {<<c.u, c.ro>>}]
      [] c.kind = "revoke_role" -> [d EXCEPT !.holds = @ \ {<<c.u, c.ro>>}]
      [] c.kind = "set_user_role" ->
           [d EXCEPT !.holds = (@ \ ({c.u} \X Role)) \cup {<<c.u, c.ro>>}]
      [] c.kind = "grant_permission" -> [d EXCEPT !.grants = @ \cup {<<c.ro, c.p>>}]
      [] c.kind = "revoke_permission" -> [d EXCEPT !.grants = @ \ {<<c.ro, c.p>>}]
      [] c.kind = "activate" -> [d EXCEPT !.role[c.ro] = "active"]
      [] c.kind = "deactivate" -> [d EXCEPT !.role[c.ro] = "inactive"]
      [] c.kind = "delete_role" ->
           [holds |-> d.holds \ (User \X {c.ro}), grants |-> d.grants \ ({c.ro} \X Perm),
            role |-> [d.role EXCEPT ![c.ro] = "absent"]]
      [] c.kind = "create_role" ->
           [d EXCEPT !.grants = (@ \ ({c.ro} \X Perm)) \cup ({c.ro} \X c.ps),
                     !.role[c.ro] = "active"]
      [] c.kind = "replace_permissions" ->
           [d EXCEPT !.grants = (@ \ ({c.ro} \X Perm)) \cup ({c.ro} \X c.ps)]
      [] c.kind = "remove_permission" -> [d EXCEPT !.grants = @ \ (Role \X {c.p})]

\* Mistake: the holders of an inactive role have nothing to lose, so they are skipped.
TouchedIfActive(d, c) ==
    CASE c.kind \in {"grant_role", "revoke_role"} -> {c.u}
      [] c.kind = "set_user_role" -> {}
      [] c.kind = "remove_permission" ->
           UNION {Holders(d, ro) : ro \in {x \in Role : <<x, c.p>> \in d.grants}}
      [] OTHER -> IF d.role[c.ro] = "active" THEN Holders(d, c.ro) ELSE {}

\* The users whose keys the change deletes, read before it: get_user_ids_by_role
\* and get_user_ids_by_roles.  _set_user_role of UserService deletes none.
Touched(d, c) ==
    CASE c.kind \in {"grant_role", "revoke_role"} -> {c.u}
      [] c.kind = "set_user_role" -> {}
      [] c.kind = "remove_permission" ->
           UNION {Holders(d, ro) : ro \in {x \in Role : <<x, c.p>> \in d.grants}}
      [] OTHER -> Holders(d, c.ro)

Single(c) == c.kind \in {"grant_role", "revoke_role"}

\* raise_on_failure=True
FailsClosed(c) == c.kind \in {"delete_role", "remove_permission", "replace_permissions"}

Plan(r, c) ==
    /\ Idle(r) /\ Applicable(db, c)
    /\ req' = [req EXCEPT ![r] =
                 [IdleReq EXCEPT !.pc = IF Touched(db, c) = {} THEN "cleared" ELSE "planned",
                                 !.who = Touched(db, c), !.change = c]]
    /\ UNCHANGED <<db, redis, mem, healthy, flip>>

Invalidate(r) ==
    /\ req[r].pc = "planned"
    /\ \E lost \in BOOLEAN :
         /\ Deleted(req[r].who, Home[r], Single(req[r].change), lost)
         /\ req' = [req EXCEPT ![r].pc = "cleared", ![r].failed = lost]
    /\ UNCHANGED <<db, flip>>

\* Who gains or loses what.
Flipped(d, e) ==
    [u \in User |-> [p \in Perm |->
       IF (p \in Permissions(d, u)) = (p \in Permissions(e, u)) THEN flip[u][p] ELSE 0]]

Commit(r) ==
    /\ req[r].pc = "cleared" /\ Applicable(db, req[r].change)
    /\ db' = Applied(db, req[r].change)
    /\ flip' = Flipped(db, db')
    /\ req' = [req EXCEPT ![r] = IdleReq]
    /\ UNCHANGED <<redis, mem, healthy>>

\* The audit record, or a row another request has changed, fails the change.
Abort(r) ==
    /\ req[r].pc \in {"planned", "cleared"}
    /\ req' = [req EXCEPT ![r] = IdleReq]
    /\ UNCHANGED <<db, redis, mem, healthy, flip>>

-----------------------------------------------------------------------------
(* Time *)

Older(e) == IF e.left > 1 THEN [e EXCEPT !.left = e.left - 1] ELSE NoEntry

Tick ==
    /\ \A r \in Req : req[r].pc = "read" => req[r].wait < MaxMiss
    /\ redis' = [u \in User |-> Older(redis[u])]
    /\ mem' = [w \in Worker |-> [u \in User |-> Older(mem[w][u])]]
    /\ flip' = [u \in User |-> [p \in Perm |->
                 IF flip[u][p] < MaxAge THEN flip[u][p] + 1 ELSE MaxAge]]
    /\ req' = [r \in Req |-> IF req[r].pc = "read" THEN [req[r] EXCEPT !.wait = @ + 1]
                             ELSE req[r]]
    /\ UNCHANGED <<db, healthy>>

Check(r) == (\E u \in User : LookUp(r, u)) \/ ReadPermissions(r) \/ Store(r)

Alter(r) == Invalidate(r) \/ Commit(r) \/ Abort(r)

Next ==
    \/ \E r \in Req : Check(r) \/ Alter(r) \/ (\E c \in Change : Plan(r, c))
    \/ Tick

Spec == Init /\ [][Next]_vars

\* Without UserService._set_user_role.
AnnouncedNext ==
    \/ \E r \in Req :
         \/ Check(r) \/ Alter(r)
         \/ \E c \in {x \in Change : x.kind # "set_user_role"} : Plan(r, c)
    \/ Tick

AnnouncedSpec == Init /\ [][AnnouncedNext]_vars

-----------------------------------------------------------------------------
(* Properties *)

TypeOK ==
    /\ db \in Db
    /\ redis \in [User -> Entry]
    /\ mem \in [Worker -> [User -> Entry]]
    /\ healthy \in [Worker -> BOOLEAN]
    /\ req \in [Req -> ReqRec]
    /\ flip \in [User -> [Perm -> 0..MaxAge]]

\* The committed rows contradict what was seen of the user's permission.
Contradicted(seen, u, p) == (p \in seen) # (p \in Permissions(db, u))

\* Whatever interleaves and fails, a check never decides on permissions that
\* changed more than TTL plus the length of one miss ago: an entry that
\* contradicts the database is as young as the change, and so is what a miss is
\* about to store.
EntryNoStaler(e, u) ==
    \A p \in Perm : e.left > 0 /\ Contradicted(e.perms, u, p)
                      => flip[u][p] + e.left <= TTL + MaxMiss

StalenessBounded ==
    /\ \A u \in User : EntryNoStaler(redis[u], u)
    /\ \A w \in Worker, u \in User : EntryNoStaler(mem[w][u], u)
    /\ \A r \in Req : \A u \in req[r].who, p \in Perm :
         req[r].pc = "read" /\ Contradicted(req[r].seen, u, p)
           => flip[u][p] <= req[r].wait

\* A check is about one user.
OneChecked == \A r \in Req : req[r].pc \in {"missed", "read"} => \E u \in User : req[r].who = {u}

IInv == TypeOK /\ OneChecked /\ StalenessBounded

\* Every change deletes the keys of all the users it touches, so between changes
\* whatever a check finds is what the database holds: "the delay of a revocation
\* is covered by active invalidation" (PermissionChecker).
FreshWhenQuiet ==
    (\A r \in Req : req[r].pc \notin {"planned", "cleared"}) =>
      \A w \in Worker, u \in User, e \in Entry :
        (\E well \in BOOLEAN : Answers(w, u, e, well)) /\ e.left > 0
          => e.perms = Permissions(db, u)

\* A high-risk change whose deletion failed is given up, not committed
\* (raise_on_failure of _invalidate_user_perm_cache).
FailedInvalidationAborts ==
    [][\A r \in Req : req[r].pc = "cleared" /\ FailsClosed(req[r].change) /\ req[r].failed
         => db' = db]_vars
=============================================================================

-------------------------------- MODULE Startup --------------------------------
(***************************************************************************)
(* Workers that start, serve and stop on one database: the critical tasks   *)
(* of app/core/lifecycle/registry.py in their order, which are              *)
(* startup_database (app/database.py), startup_rbac_seed                    *)
(* (app/services/rbac/rbac_init.py) and startup_redis_probe                 *)
(* (app/core/redis_client.py).  The other tasks may fail and stop nothing.  *)
(*                                                                          *)
(* The schema is guarded by a session advisory lock, the seed by an         *)
(* advisory lock of its transaction.  PostgreSQL keeps advisory locks per   *)
(* database, so the schema has one lock in the maintenance database and     *)
(* another in the target database.                                          *)
(***************************************************************************)
EXTENDS Integers, FiniteSets

CONSTANTS
    Worker,
    CodeHead,   \* of each worker: the last migration its code knows, a number > 0
    Row,    \* permissions, roles and their grants, and the default administrator
    Admin,  \* the default administrator
    Seed,   \* of each worker: the rows its code seeds, a subset of Row
    None

\* What the codes of the workers are.
Deployment ==
    /\ CodeHead \in [Worker -> Nat \ {0}]
    /\ Seed \in [Worker -> SUBSET Row]
    /\ None \notin Worker

Site == {"maintenance", "target"}

\* DB_AUTO_CREATE_DATABASE, DB_AUTO_MIGRATE, ADMIN_PASSWORD is set,
\* REQUIRE_REDIS_FOR_SECURITY.
Setting == [create: BOOLEAN, migrate: BOOLEAN, password: BOOLEAN, redis: BOOLEAN]

VARIABLES
    setting,    \* of each worker
    exists,     \* the target database exists
    version,    \* alembic_version, 0 in an empty database
    table,      \* the seeded rows
    schemaLock, \* the worker that holds each site's schema lock
    seedLock,   \* the worker that holds the seed lock
    redis,      \* Redis answers
    worker,
    taken       \* history: seeded rows an administrator took away

vars == <<setting, exists, version, table, schemaLock, seedLock, redis, worker, taken>>

\* `saw` and `missing` are what the migration and the seed have read; `why` is
\* why the last start was refused.
WorkerState ==
    [pc: {"off", "lock", "create", "schema", "migrate", "unlock", "seed lock", "read seed",
          "write seed", "probe", "serving"},
     saw: Nat, missing: SUBSET Row,
     why: {"none", "database", "version", "conflict", "password", "redis"}]

Off(why) == [pc |-> "off", saw |-> 0, missing |-> {}, why |-> why]

\* A new deployment, or one that some code version has run on.
Init ==
    /\ setting \in [Worker -> Setting]
    /\ \/ exists \in BOOLEAN /\ version = 0 /\ table = {}
       \/ exists = TRUE /\ \E w \in Worker : version = CodeHead[w] /\ table = Seed[w]
    /\ schemaLock = [s \in Site |-> None]
    /\ seedLock = None
    /\ redis \in BOOLEAN
    /\ worker = [w \in Worker |-> Off("none")]
    /\ taken = {}

-----------------------------------------------------------------------------

At(w, pc) == worker[w].pc = pc

Goto(w, pc) == worker' = [worker EXCEPT ![w].pc = pc, ![w].why = "none"]

\* The connection that holds a session's or a transaction's locks is closed.
FreesLocks(w) ==
    /\ schemaLock' = [s \in Site |-> IF schemaLock[s] = w THEN None ELSE schemaLock[s]]
    /\ seedLock' = IF seedLock = w THEN None ELSE seedLock

\* A critical task raises: the process ends.
Refuse(w, why) == worker' = [worker EXCEPT ![w] = Off(why)] /\ FreesLocks(w)

-----------------------------------------------------------------------------
(* startup_database *)

\* A worker that only checks the version takes no lock.
Start(w) ==
    /\ At(w, "off")
    /\ Goto(w, IF setting[w].create \/ setting[w].migrate THEN "lock" ELSE "schema")
    /\ UNCHANGED <<setting, exists, version, table, schemaLock, seedLock, redis, taken>>

LockSite(w) == IF setting[w].create THEN "maintenance" ELSE "target"

\* Mistake: the result of pg_try_advisory_lock is not looked at.
TriedOnly(s) == TRUE

Free(s) == schemaLock[s] = None

LockSchema(w) ==
    /\ At(w, "lock")
    /\ UNCHANGED <<setting, exists, version, table, redis, taken>>
    /\ IF LockSite(w) = "target" /\ ~exists THEN Refuse(w, "database")
       ELSE /\ Free(LockSite(w))
            /\ schemaLock' = [schemaLock EXCEPT ![LockSite(w)] = w]
            /\ Goto(w, IF setting[w].create THEN "create" ELSE "schema")
            /\ UNCHANGED seedLock

\* A database that another worker created meanwhile is no error.
CreateDatabase(w) ==
    /\ At(w, "create")
    /\ exists' = TRUE
    /\ Goto(w, "schema")
    /\ UNCHANGED <<setting, version, table, schemaLock, seedLock, redis, taken>>

\* `current in heads`, and what alembic needs to find its way to its head.
Verified(w) == version = CodeHead[w]

Known(w) == version <= CodeHead[w]

\* The version is read.  alembic knows no revision newer than its own head.
InitSchema(w) ==
    /\ At(w, "schema")
    /\ UNCHANGED <<setting, exists, version, table, redis, taken>>
    /\ LET ok == IF setting[w].migrate THEN Known(w) ELSE Verified(w) IN
         CASE ~exists -> Refuse(w, "database")
           [] exists /\ ~ok -> Refuse(w, "version")
           [] OTHER ->
                /\ worker' = [worker EXCEPT ![w].saw = version,
                     ![w].pc = IF setting[w].migrate THEN "migrate" ELSE "unlock"]
                /\ UNCHANGED <<schemaLock, seedLock>>

\* The migrations that were missing run in one transaction; what another
\* upgrade has done meanwhile they find done already, and fail.
Migrate(w) ==
    /\ At(w, "migrate")
    /\ UNCHANGED <<setting, exists, table, redis, taken>>
    /\ IF worker[w].saw \in {CodeHead[w], version}
       THEN /\ version' = IF worker[w].saw = CodeHead[w] THEN version ELSE CodeHead[w]
            /\ Goto(w, "unlock")
            /\ UNCHANGED <<schemaLock, seedLock>>
       ELSE Refuse(w, "conflict") /\ UNCHANGED version

Unlock(w) ==
    /\ At(w, "unlock")
    /\ FreesLocks(w)
    /\ Goto(w, "seed lock")
    /\ UNCHANGED <<setting, exists, version, table, redis, taken>>

-----------------------------------------------------------------------------
(* startup_rbac_seed *)

LockSeed(w) ==
    /\ At(w, "seed lock") /\ seedLock = None
    /\ seedLock' = w
    /\ Goto(w, "read seed")
    /\ UNCHANGED <<setting, exists, version, table, schemaLock, redis, taken>>

\* Without the administrator a password must be set.
ReadSeed(w) ==
    LET m == Seed[w] \ table IN
    /\ At(w, "read seed")
    /\ UNCHANGED <<setting, exists, version, table, redis, taken>>
    /\ IF Admin \in m /\ ~setting[w].password THEN Refuse(w, "password")
       ELSE /\ worker' = [worker EXCEPT ![w].pc = "write seed", ![w].missing = m]
            /\ UNCHANGED <<schemaLock, seedLock>>

\* Mistake: the transaction is left without a commit.
SeededUncommitted(w) == table

Seeded(w) == table \cup worker[w].missing

\* A row that is there by now violates a unique constraint.
WriteSeed(w) ==
    /\ At(w, "write seed")
    /\ UNCHANGED <<setting, exists, version, redis, taken>>
    /\ IF worker[w].missing \cap table = {}
       THEN /\ table' = Seeded(w)
            /\ worker' = [worker EXCEPT ![w].pc = "probe", ![w].missing = {}]
            /\ FreesLocks(w)
       ELSE Refuse(w, "conflict") /\ UNCHANGED table

-----------------------------------------------------------------------------
(* startup_redis_probe, serving, and what else happens. *)

Probe(w) ==
    /\ At(w, "probe")
    /\ UNCHANGED <<setting, exists, version, table, redis, taken>>
    /\ IF setting[w].redis /\ ~redis THEN Refuse(w, "redis")
       ELSE Goto(w, "serving") /\ UNCHANGED <<schemaLock, seedLock>>

\* Mistake: the connections of a process that ends are kept, locks and all.
KeepsLocks(w) == UNCHANGED <<schemaLock, seedLock>>

Closed(w) == FreesLocks(w)

\* The process dies, stops, or a statement of a critical task fails.
End(w) ==
    /\ ~At(w, "off")
    /\ worker' = [worker EXCEPT ![w] = Off("none")]
    /\ Closed(w)
    /\ UNCHANGED <<setting, exists, version, table, redis, taken>>

\* The deployment's own `alembic upgrade head`, where workers do not migrate.
Upgrade(w) ==
    /\ exists /\ version < CodeHead[w]
    /\ \A x \in Worker : ~setting[x].migrate
    /\ version' = CodeHead[w]
    /\ UNCHANGED <<setting, exists, table, schemaLock, seedLock, redis, worker, taken>>

RedisTurns ==
    /\ redis' = ~redis
    /\ UNCHANGED <<setting, exists, version, table, schemaLock, seedLock, worker, taken>>

\* An administrator revokes a default grant, deletes a default permission or
\* renames the default administrator.
TakeAway(r) ==
    /\ \E w \in Worker : At(w, "serving")
    /\ r \in table
    /\ table' = table \ {r} /\ taken' = taken \cup {r}
    /\ UNCHANGED <<setting, exists, version, schemaLock, seedLock, redis, worker>>

Step(w) ==
    \/ LockSchema(w) \/ CreateDatabase(w) \/ InitSchema(w) \/ Migrate(w) \/ Unlock(w)
    \/ LockSeed(w) \/ ReadSeed(w) \/ WriteSeed(w) \/ Probe(w)

Next ==
    \/ \E w \in Worker : Start(w) \/ Step(w) \/ End(w) \/ Upgrade(w)
    \/ RedisTurns
    \/ \E r \in Row : TakeAway(r)

\* The workers of a deployment have one environment.
DeploymentInit == Init /\ \A w, x \in Worker : setting[w] = setting[x]

\* A worker that starts goes on, and PostgreSQL serves waiters for a lock in turn.
Fairness == \A w \in Worker : SF_vars(Step(w))

Spec == DeploymentInit /\ [][Next]_vars /\ Fairness

-----------------------------------------------------------------------------

\* No start fails because another worker started at the same time: each refusal
\* has a reason in the worker's own settings or surroundings.
NoConflicts == \A w \in Worker : worker[w].why # "conflict"

\* A worker that serves finds at least the schema of its code and everything its
\* code seeds, but for what an administrator took away.
ServesWhatItNeeds ==
    \A w \in Worker : At(w, "serving") =>
      exists /\ version >= CodeHead[w] /\ Seed[w] \subseteq table \cup taken

\* Every start ends: the worker serves, or is refused or dies.
StartEnds == \A w \in Worker : ~At(w, "off") ~> At(w, "serving") \/ At(w, "off")

\* What a comment in _verify_alembic_version says: a start is refused only when
\* the database is behind the code.
RefusedWhenBehind ==
    \A w \in Worker : worker[w].why = "version" => version < CodeHead[w]

\* What the docstring of _create_default_roles says of the seed: it overwrites
\* no configuration, so what an administrator took away stays away.
SeedOverwritesNothing == taken \cap table = {}
=============================================================================

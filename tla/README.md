# Verification of CS-Web-Backend

TLA+ specifications, TLC model-checking runs and TLAPS proofs for the back end of
the computer-science society's web site (FastAPI, SQLAlchemy, PostgreSQL, an
optional Redis). Paths below are relative to `app/` unless they begin with
another directory of the repository.

## 1. The system

The back end is a set of stateless workers over one PostgreSQL database. A
request gets one session (`database.get_db`), runs in it as one READ COMMITTED
transaction and commits once, usually in the service or in
`AuditService.record_atomic`. Nearly all the interesting state is therefore in
the tables, and nearly all the interesting behaviour is what two such
transactions do to each other: which rows they lock, what they read before
somebody else committed, what a bulk UPDATE sees. Beside the tables there is
state in the processes (memory fallbacks of the cache, the blacklist and the
limiter, the OAuth states, the list of posts to flush) and in Redis, which may
fail at any call. A chat is the exception: one request, many transactions.

### Inventory

| Part | Code | State | Operations | Hard behaviour | What makes it correct |
|---|---|---|---|---|---|
| Sessions | `services/auth/auth_service.py`, `repositories/refresh_token_repo.py`, `services/token_gc.py` | `refresh_tokens`, `users.password_changed_at`, row locks | login, refresh (rotation with leeway and replay detection), logout, revoke one, revoke all, purge | rotation against rotation and revocation, snapshots of bulk UPDATEs, wait cycles, purge | old and new token are not both usable; without leeway a family is a chain; an ended family stays ended; a revocation reaches what it saw; replay evidence is kept; requests end |
| Second factor | `services/totp_service.py` | `two_factor_auth`, pre-auth tickets | set up, confirm, verify, disable, regenerate | one code presented twice | a recovery code and a ticket work once; only a secret that was confirmed is asked for |
| New accounts | `services/verification_service.py`, `services/oauth_service.py`, `services/auth/auth_service.py` | mailed codes, OAuth states of a process, `users` | send a code, register, sign in with GitHub | two requests for one address or user name | an address has one account, and its owner opened it |
| Accounts | `services/user/user_service.py` | `users` | change and reset password, disable, demote, delete, erase | order of time stamps and commits, two administrators against each other | access tokens of an old password are refused; an administrator remains |
| Access-token blacklist | `core/security_blacklist.py` | memory of each worker, Redis keys, cool-down | add, contains, eviction, restart | Redis fails and recovers during calls, full memory, rounding | a revoked token is refused until it expires |
| Rate limiter | `core/rate_limit/`, `middleware/rate_limit.py` | sliding logs in Redis and in memory, cool-down | a request is let through or not | Redis outage, requests that overtake each other on the way to Redis | no more than the limit in a window of one store |
| Permissions | `services/rbac/`, `repositories/rbac_repo.py`, `middleware/rbac.py` | roles, grants, cached permission sets | check, grant, revoke, (de)activate, delete, replace | a miss that overlaps a change, deletion before the commit, unreachable Redis, memories of other workers | a decision is never staler than the time to live plus one miss; without overlap it is exact |
| Degradable cache | `core/cache/` | memory of each worker, Redis, `_healthy` | get, set, delete, incr, getset, expire | fallback and recovery | as its users need it |
| Tasks and points | `services/task_service.py`, `services/points_service.py` | tasks, claims, ledger | publish, claim, cancel, submit, review, deduct | count then insert, read then write, review twice | the limit holds; the ledger adds up; a claim is paid once |
| Events | `services/event/event_service.py`, `repositories/event_repo.py` | events, registrations, check-ins | register, cancel, add, override, edit, archive, generate codes, check in | last seat, stale ORM object, double generation, archive job | no seat is promised twice; codes that were handed out stay |
| Community | `services/community/`, `repositories/community_repo.py` | posts, comments, marks, categories and the counters beside them | write, mark, moderate, delete, erase | counters that are read and written back, marks taken back twice, cascades | counters match the rows |
| View counter | `services/view_count.py` | two keys per post in Redis or memory, `_pending` of each worker, `posts.view_count` | record, flush, stop | GETSET before a write that may fail, several workers, expiry of the window | a view is counted once, and counted views arrive |
| Exams and learning | `services/exam_service.py`, `services/auxilio_service.py` | exams, attempts, mistakes, plan items | answer, review, plan, edit | double submission, a review against an answer, a second plan | mistakes count wrong answers; a wrong answer is due again; a plan fits its day |
| Study assistant | `api/v1/auxilio.py`, `services/auxilio_service.py`, `services/auxilio_agent.py` | conversations, messages, runs | chat, stream, branch, rename, archive, delete | a stream that is cut, a write that fails after the answer was sent, branches of what is being deleted | a run ends and tells the truth; questions before answers |
| Automation agents | `services/agent_*.py` | rules, inbox items | scan, sweep, answer, edit | a scan on stale rules, an answer against the sweep | suggestions are spaced; a postponed one returns; a final answer stays |
| Start-up | `database.py`, `main.py`, `core/lifecycle/registry.py`, `services/rbac/rbac_init.py` | schema, its version, seeded rows, advisory locks | create, migrate, seed, probe, serve, stop | workers of two releases at once, a worker dies | nobody fails on what another creates; who serves has what it needs; every start ends |
| Migrations | `alembic/env.py`, `alembic/versions/` | the schema, its version, the rows a revision reads | upgrade, downgrade, by a start or an operator | rows that a restored key refuses, runs that overlap, a server without the Chinese parser, deletions that rely on cascades | no statement of a run fails; the schema depends on the version alone; what the code deletes can be deleted |
| Event bus, notifications, queue | `core/events.py`, `core/queue/`, `services/notification_*.py`, `services/email_service.py` | listeners, jobs, `notifications` | emit, enqueue, take, perform, write, read | an event before its commit, a listener or a process that dies, a job that is repeated, users who are deleted meanwhile | users are told of what was committed, and of all of it when nothing fails; a mail whose job is done went out |
| Records and I/O | `services/audit_service.py`, `services/exception_service.py`, `core/observability.py`, `services/llm_client.py` | logs | write | external services | out of scope, see section 8 |

### How the parts interact

* The routes (`api/v1/`) call one service each. `dependencies.get_current_user`
  checks an access token: signature and expiry, blacklist, account state, and the
  `pwd_at` claim against `users.password_changed_at`. The session module supplies
  the `pwd_at` of every token it issues, the account operations change the other
  side of the comparison.
* Account operations call `RefreshTokenRepository.revoke_all_for_user` inside
  their own transaction. They are therefore actions of `AuthSessions`; who may
  perform them on whom is `AdminAccounts`.
* A password login of a user with a second factor yields a ticket (`TwoFactor`)
  instead of tokens; the ticket's jti goes on the same blacklist as access tokens.
* `PermissionChecker` asks `RBACService.get_user_permissions`, which asks the
  degradable cache. Changes of roles are made by `RBACService`, by
  `rbac_assignments` and by `UserService._set_user_role`.
* A review of a task claim calls `PointsService.add_points`, which commits for
  both. That is why claims and ledger are one module.
* The archive job of `agent_automation_service` updates events that
  registrations have locked.
* `PostService.increment_view` calls `record_view`, which shares the degradable
  cache with the permissions.
* `submit_answer` writes the attempt and the mistake in one transaction;
  reviews and plans of the assistant read and write the same mistakes, so
  exams and learning are one module (`LearningLoop`) although the code is in two
  services.
* Erasing a user removes refresh tokens (`AuthSessions`), marks and posts
  (`Community`) by cascade.

## 2. Modules

| Module | Models | Kind |
|---|---|---|
| `AuthSessions`, `AuthSessions_proofs` | refresh tokens, users' passwords and states, row locks, open transactions | component, theorems |
| `TwoFactor` | one user's second factor and pre-auth tickets | component, theorem in `AuthSessions_proofs` |
| `SignUp` | mailed codes, registration, GitHub sign-in | component, theorem in `AuthSessions_proofs` |
| `AdminAccounts` | what administrators do to accounts | component, theorem in `PermissionCache_proofs` |
| `PermissionCache`, `PermissionCache_proofs` | permission tables, cache in Redis and in each worker, checks and changes | component composed with the degradable cache, theorems |
| `TaskPoints`, `TaskPoints_proofs` | one task, its claims, the ledger | component, theorems |
| `EventRegistration`, `EventRegistration_proofs` | one event with its registrations and check-in codes | component, theorems |
| `SeatBooking` | what registration promises: seats, a capacity | abstract specification |
| `TokenBlacklist` | blacklist in Redis and in each worker | component, theorems in `RedisOutage_proofs` |
| `RateLimiter` | sliding logs in Redis and in each worker | component, theorems in `RedisOutage_proofs` |
| `ViewCount` | the view counter in Redis, workers and table | component, theorems in `RedisOutage_proofs` |
| `RedisOutage_proofs` | what works on without Redis: view counter, blacklist, limiter | theorems |
| `Community`, `Community_proofs` | posts, comments, marks, categories, counters | component, theorems |
| `LearningLoop`, `LearningLoop_proofs` | one student, one exam: answers, mistakes, reviews, plan | component, theorems |
| `StudyTurns`, `StudyTurns_proofs` | one user's conversations and the turns of the assistant | component, theorems |
| `AgentInbox` | automation rules, the scan, the inbox | component, theorems in `StudyTurns_proofs` |
| `Startup` | workers that start on one database | component, theorems in `PermissionCache_proofs` |
| `Revisions` | the 34 revisions of the schema, statement by statement | constants of `Migrations` |
| `Migrations` | the runs that upgrade and downgrade the schema by them | component |
| `Notices` | events, their listeners, jobs of the queue, notifications, mail | component, theorem in `EventRegistration_proofs` |
| `MC...` | instances for TLC: scenes, bounds, history variables, symmetry | instances |

Six MC modules hold several components. `MCSignIn` (`AuthSessions`, `TwoFactor`,
`SignUp`), `MCAdministration` (`PermissionCache`, `AdminAccounts`),
`MCRedisOutage` (`TokenBlacklist`, `RateLimiter`), `MCAssistant`
(`StudyTurns`, `AgentInbox`), `MCStartup` (`Startup`, `Migrations`) and
`MCEventRegistration` (`EventRegistration`, `Notices`) each have one run; a behaviour
chooses at its start which component it is about and leaves the others as they
are, because these share no state. Within a component a *scene* chooses what the
requests may do and what the bounds are, so that each kind of race gets the depth
it needs without the product of all of them. Where a property is stated over such an
instance, with its scenes and history variables, the proof module extends the MC
module, which then has two specifications: one with scenes and histories and nothing
else (`ServiceSpec`, `SerialSpec`, `LearnSpec`, `ServeSpec`), which the theorem is about for every
value of the constants, and the run's, which adds the bounds to it and therefore
has the same invariants.

`PROJECT.json` maps every definition to the lines it stands for.

### How code becomes actions

*Transactions.* A request slot runs one request at a time and keeps its program
counter and its local variables (`txn[r]`, `request[r]`, `req[r]`). Every
statement that reads something another request may change is an action. Writes
are published by the action that commits, which also releases the locks;
`Rollback` drops both, and `Abort` (an exception, a client that went away, a
worker that died) may do so at every point. Statements that cannot be told apart
from outside are joined: what follows the last read of others' data and ends in
the commit is one action.

*Row locks.* `SELECT ... FOR UPDATE` is enabled when the lock is free and takes
it. In `AuthSessions` a bulk UPDATE or DELETE is three kinds of action: `Snapshot`
fixes the rows its WHERE clause matches, `VisitRow` waits for one of them, locks it
and evaluates the clause again on the version it finds (PostgreSQL's behaviour
under READ COMMITTED), and the last one goes on. A row inserted meanwhile is not
visited. `Deadlocked` finds the wait cycles PostgreSQL breaks, `DeadlockVictim`
rolls one request of the cycle back. In `LearningLoop` a flushed row is locked
until its transaction ends, and an insert waits for the unique key of another.

*Erased accounts.* A request of `Community` goes on when the account it acts for is
erased meanwhile, but for one that inserts a row of its user: its foreign key makes it
fail whenever it gets there, which the model has it do before (`Inserts`).

*Loads.* What a request of `AdminAccounts` decides on is what it loaded; a demotion
loads the roles again before it takes them away (`Refresh`). A branch of `StudyTurns`
is made from the conversation that was loaded and from the messages that are there
when they are copied (`BeginFork`, `CommitFork`).

*Counters.* `Community` tells `SET n = n + 1`, computed from the row as it is at
the write, from a value computed in Python from a loaded row.

*ORM flush.* In `EventRegistration` and `Community` a request keeps the row it
loaded and `Flushed` writes only the columns it changed relative to that, so a
stale object overwrites exactly what SQLAlchemy would overwrite.

*Redis.* A call is answered, refused, or fails after it took effect. The cool-down
of blacklist and limiter is modelled with its clock; that of the permission cache
and of the view counter is a choice between the memory and another attempt, a
superset of what the interval allows. A request of the limiter carries the clock
of its worker to Redis and may arrive after younger ones.

*Advisory locks.* A lock goes with its connection: an ended process frees what it
held (`Closed`). PostgreSQL keeps advisory locks per database, so `Startup` has a
schema lock in the maintenance database and another in the target database, and
which one a worker takes depends on its settings (`LockSite`).

*Listeners and jobs.* An event of `Notices` starts a listener in the process that
emits it and, with `MULTI_INSTANCE`, one for each try of its job. Each notification
of a listener is a transaction, a broadcast is one for all; what an administrator
sends to named users or to everyone does not go through the queue. The process of the
requests and the workers die separately, at any time, and arq, as far as the code
relies on it, gives a job whose worker died to another and may repeat one that raised.
The liked comment has no title, so its event fails before it is emitted and the like
commits unannounced (`services/community/community_interaction.py:96`).

*Streams.* A turn of `StudyTurns` is a generator: the events it yields, the
client's departure at any of them, an exception before or at any of them, and after the loop
the three transactions of its `finally` (usage, answer, run), each of which may
fail by itself.

*Schema.* A revision is two lists of statements, and the schema a set of tables,
columns, indexes and foreign keys. `Fits` says what PostgreSQL needs to execute a
statement: the object is not there yet, the parent table is, no other table refers
to the one that is dropped, the rows obey a new key. A run of Alembic is one
transaction, so its revisions are one action (`Migrate`), which changes nothing when
a statement fails; what a run knows from before is the version it read (`Plan`).

*Time* is a counter. `AuthSessions` counts in ticks of the leeway,
`TokenBlacklist` in fractions of a second, so that rounding can be seen (a tick is
a second in `Redis_outage`), `AgentInbox` in hours of a short day.
`PermissionCache` has no clock but ages, which keeps its state space finite
without a bound on time; in `ViewCount` and `TwoFactor` a key or a ticket may end
at any moment after it was made.

*Data.* Tokens, users, roles, members and codes are model values, and a view
counter is the set of views it holds. Hashes, texts, pages, names and log
records are left out.

History variables and fields, which the code does not have: `by`, `authAt` and
`parent` in a refresh-token row and `snap` in a transaction of `AuthSessions`;
`told` in `TokenBlacklist`; `admitted` in `RateLimiter`; `flip` in
`PermissionCache`; `bypass` in `AdminAccounts`; `opened`, `accepted` and `proven` in
`TwoFactor`; `consumed` and `misled` in `SignUp`; `uses` in a check-in; `claim` in a
ledger entry and `id` in a claim (the code's primary key); `erased` in
`Community`; `first`, `doubled`, `raced` and `outages` in `ViewCount`; `passes` in
`AgentInbox`; `taken` in `Startup`; `hurt` in `Notices`; and those the MC modules name as history.

## 3. Properties and runs

Every passing property is also run against a mutation of one definition, an
error somebody could make there (the operators marked *Mistake* in the modules),
and is violated by it.

| Run | What holds | Bounds |
|---|---|---|
| `Auth_rotation` | `RotatedIsRevoked`, `StaleAccessRefused`, `DeadFamilyStaysDead`, `LeewayNotProlonged`, `RevocationReachesSnapshot`, `ReplayEvidenceKept` | 2 requests, 3 tokens, leeway 1, life of a token 2, time 3, so that tokens expire and are purged during requests. Scene *rotation*: one family, rotation against rotation, logout, revocation of one or all, purge. Scene *account*: login and rotation against one change of the password, disabling, deletion, erasure |
| `Auth_strict` | `StrictRotation`, `SignInSound`, `RequestsEnd` | 2 requests. Sessions without leeway under fairness: the same token presented twice, wait cycles between two revocations of two families. Second factor: one ticket, two secrets and sets of two codes. Accounts: two addresses that want the same user name, two mailed codes, two workers, one OAuth state |
| `Task_points` | `ApprovedIsPaid`, `NeverOverdrawn`, and while nothing has overlapped `SerialBooksKept` (the balance is the sum of the ledger, a claim is paid once, the limit holds) | 2 members, 2 requests, a limit of 1 or 2 that may be edited, 2 claims of a member, 3 ledger entries |
| `Event_booking` | `SeatsPromised` (registration implements `SeatBooking`), `NoneAfterEnd`, `CodesStay`, `CancelledHasTimeByMembers`, `NoticesSound` (`ToldTruly`, `AllTold`, `MailsTried`) | Bookings: 2 members, 2 requests, 2 codes, no limit or one seat, so that the last seat is contested, the capacity drops below the seats taken, and two requests generate codes at once. Notices: 2 users, one event or one mail, 3 tries, a page of one user, so that the first page leaves one out; one user is deleted, and notifications are read while no listener works |
| `Redis_outage` | `OwnRevocationsHoldWithRoom`, `WindowsRespected` | Blacklist: 1 worker, 2 calls, 3 tokens of which one expires first, capacity 2, cool-down 1, time 2, fallback to memory. Limiter: 1 worker, 1 key, 2 requests on their way at a time, limit 2 in 3 ticks, cool-down 2, delay 1, time 3, fallback to memory |
| `Perm_staleness` | `IInv` (the bound on staleness), `SerialFreshWhenQuiet`, `AdminRemains` | Permissions: 2 requests, 2 roles, 1 worker, time to live 2, a miss may take 1, every Redis call may fail; or one request at a time and every kind of change but the new user role. Administrators: 3 members one of whom may be gone, 2 requests that take rights away if there is a superuser, one at a time if not |
| `Community_counts` | `CountsCovered`, and while nothing has overlapped `SerialCountersExact` | 2 users of whom one moderates, 1 post, 2 comments, 1 category, 2 requests; overlap in the scenes of likes and of favourites |
| `Views_flush` | `CountedOnce`, `OncePerWindow`, `CountedLands` | 2 workers, 1 viewer, and 3 views of 2 posts without failures, 3 views of one post around the end of a window, or 2 views with 2 failures |
| `Study_assistant` | `RunsHonest`, `QuestionsFirst`, `RunsEnd`, `SerialTreeKept`, `SuggestionsSpaced`, `SnoozedReturns`, `SerialFinalStays` | Turns: 2 turns in 2 conversations, 2 rounds, one fault anywhere. Branches: 1 turn, 3 conversations, 2 other requests. Tree: 4 conversations, 3 other requests. Rules: 1 rule, a day of 2 hours, time 5, a crash anywhere. Inbox: suggestions of one or two days and 2 answers |
| `Learning_loop` | `MistakesExact`, `SerialReviewsCount`, `SerialPlanFits` | 2 requests of which 3 are begun; 2 questions, a time limit of one tick; two days, 40 minutes each, and items of 10 to 20. In the scene of plans nothing is reviewed, and a second mistake is due at once or put off |
| `Startup_workers` | `StartsSound` (`NoConflicts`, `ServesWhatItNeeds`), `StartsEnd`, `MigrationsSound` (`StatementsFit`, the schema of the version, `TriggersConfigured`, `DeletesGoThrough`) | Start: 2 workers, the second of a release with one more migration and one more seeded row; every setting; crashes, restarts, the migration container and an administrator who takes rows away at any moment. Migrations: all 34 revisions, to the head, to the base, one up or one down, with or without the parser; two runs that overlap when the second begins at the version the first has read; two runs of the assistant that number three events of one conversation, while their table is there or one step away |
| `Task_paid_twice` | violates `PaidOnce`, see section 7 | 1 member, 2 requests |

*Why two requests.* Each lock and each conflict named is between two of them; a
third would repeat one of the two. Three tokens let a rotation of a rotation and a
concurrent sibling happen, three members two administrators who act on each other
with a third to remain or not. One permission, one post and one rule suffice where
the property is stated for each by itself. Larger instances are covered by the
theorems where there are any.

*While nothing overlaps.* A property whose name begins with `Serial`, and parts of
`SignInSound` and `AdminRemains`, hold as long as requests came one at a time; a
history variable of the MC module says so. They are about the long sequences of
operations that no test writes down. What happens to them with overlap is in
section 7.

*Conditions the properties name.* `CancelledHasTimeByMembers` holds until an
administrator sets a status by hand (`byHand`), a path that writes no
`cancelled_at`. `OwnRevocationsHold` is about one worker, since during an outage a
worker's revocations are in its own memory, the documented meaning of
`fallback="memory"`; `crowded` says that the worker has promised to refuse more
tokens at a time than its memory holds, and with `fallback="open"` every token
passes during an outage by intent. `WindowsRespected` is about each store by
itself, since an outage gives a client a fresh window, and for Redis the window is
shorter by the longest delay. `CountedLands` leaves out views counted while their
worker's flush was between GETSET and the end of its round, which forgets the post
until it is viewed again (`raced`). `AdminRemains` leaves out the routes without
such a check (`bypass`). `SuggestionsSpaced` leaves out a suggestion whose firing a
crash kept from being stored. `ServesWhatItNeeds` leaves out what an administrator
took away. `NoConflicts` is about workers of one environment.

Deadlock is checked except where a bound stops the system: a ledger, a table of
tokens or of plan items is full, the clock is at its end, the event was deleted,
the account was erased. `MaxTime`, `MaxNow`, `MaxPwd`, `MaxClaim`, `MaxTx`,
`MaxUse`, `MaxGen`, `MaxCode`, `MaxTries`, `Page`, `Items`, `Days`, `Conversations` and the sizes of the
sets of identifiers are bounds; `TTL`, `MaxMiss`, `Leeway`, `RefreshTTL`,
`Capacity`, `Retry`, `MaxDelay`, `MaxRounds`, `Budget`, `Limit`, `DailyBudget`,
`Suffixes` and `SnoozeCap` are settings of the program in small values. Values of
one kind are symmetric where no initial state or scene names one; runs with a
liveness property use no symmetry.

## 4. Fairness

| Property | Assumed | Why the code justifies it |
|---|---|---|
| `RequestsEnd` | strong fairness of `Proceed` and weak fairness of `DeadlockVictim`, for each request slot | asyncio runs every task that is ready, and PostgreSQL queues waiters for a row lock, so a request that is enabled again and again, with others taking the lock in between, gets its turn. `deadlock_timeout` makes PostgreSQL look for cycles and break each; a cycle stands until it is broken. |
| `RunsEnd` | weak fairness of each turn's own steps | asyncio goes on with a generator that is read, and the model client has timeouts, so each round of the model ends. |
| `CountedLands` | weak fairness of each worker's flush and of the steps of a view under way | `_flush_loop` wakes up for ever and catches every exception. |
| `SnoozedReturns` | weak fairness of the clock and of the sweep | arq's cron runs the sweep every few minutes, provided that an arq worker runs beside the web workers and `AGENT_SWEEPS_ENABLED` is on, its default (`services/agent_cron.py`). Without either, what is due returns only when its user opens the inbox (`services/agent_inbox_service.py:113`). Time up to the bound must pass for anything to be due. |
| `StartsEnd` | strong fairness of each worker's steps | a start-up task has its timeout or its answer; PostgreSQL serves the waiters of an advisory lock in order. |

Nothing is assumed of arrivals, of crashes, of Redis or of what users do, so the
properties do not rely on any of them.

## 5. Theorems

TLAPS proves these for every value of the constants that satisfies the modules'
named assumptions.

`AuthSessions_proofs`. `SpecInv`: `IInv` is invariant. `IInv` says more than its
consequences `RotatedIsRevoked` and `StrictRotation`, neither of which is
inductive. That the token a rotation leaves behind is revoked follows because the
commit writes a row that was locked since it was read: `PresentedHeld` says that
the lock is held and the row in the table until then, `HitsHeld` says the same of
rows a bulk statement is about to change, so that nobody else removes or rewrites
them, `NewReserved` that two requests do not create the same token, `RowsShaped`
that a row's parent was inserted before it, `StrictPending` that without a leeway
only an unrevoked token is being rotated, and `TxnsShaped`, `StampsPast` and
`TypeOK` what a transaction knows at each program counter. The proof has one
lemma per action. From it follow `SpecTypeOK`, `SpecRotatedIsRevoked` and
`SpecStrictRotation`, and as action properties `SpecLeewayNotProlonged`,
`SpecReplayEvidenceKept` and `SpecDeadFamilyStaysDead`. The last needs to know
which actions insert rows (`CommitInserts`) and that a rotation under way was
begun on a family that had an active token (`PendingRotation`).
`SpecRevocationReachesSnapshot` adds an invariant of the statements under way,
`SnapshotsCovered`: a row a statement found may be unrevoked only as long as the
statement has it before it, or among the rows it will change. It survives what
others commit because a committed row never becomes usable again (`RowKept`), and
the WHERE clause evaluated a second time still matches such a row.

`SpecStaleAccessRefused` is `Spec /\ []ChangesApart => []StaleAccessRefused`. The
hypothesis says that two changes of one user's password do not overlap between
taking the time and the commit; section 7 shows what happens if they do. The
invariant `StampsOrdered` orders four times: those of the tokens issued, of what an
open login or rotation has read, of the user's row, and of a change under way.

`SpecSignInSound` is about the instance `MCSignIn`: the second factor, mailed codes
and accounts, with `SignInInv` as invariant. A request that has found a ticket, a
code of the user or a mailed code knows that it is still unspent (`RowKnown`,
`ReadHolds`), because no other request is open (`Single`); an address has at most
one unused code (`OneUnused`), numbers of codes are given in order (`CodesShown`),
and an account's address was mailed a code or came from GitHub (`AccountsInv`, which
needs no `Single`). Assumption (`SignInAssumption`): at most one address more than
there are suffixes to try, a hundred in the code and one in the run; with more, a
registration could fail for its name and `ConflictIsReal` would be false. That one
of the names is free is counted (`NameFree`), and that the code finds the first
free one is the least number principle (`NatLeast`).

`EventRegistration_proofs`. `SpecIInv`: who holds the event's lock and those of
rows, and what an open request knows of the event. `SpecSeatKept`: a booking that
has counted still has its seat when it commits; others can only cancel, which
gives seats up, and the capacity cannot change under the lock. `SpecSeatsPromised`:
`Spec => SeatsPromised`, the refinement of `SeatBooking`, where each step is one
`Take`, `Leave` or `Resize`, or a stutter. These two assume finitely many members
and `"registered" \notin Overrides`, that is, administrators do not set
*registered* by hand, since that path checks no capacity. `SpecNoneAfterEnd` and
`SpecCodesStay` follow from the lock on the event and the unique constraint on
codes, and `SpecCancelledHasTime` from what a request that loaded a row writes back
(it holds until an administrator sets a status by hand). `SpecNoticesSound`: the
invariant of `Notices` counts the tries of a job and relates them to the listeners
they started, says which of the recipients a listener that works has left, and
that a notification exists only for a recipient whose listener has passed it; so a
user is told at most once by the process and once by the queue. Of a broadcast, whose
recipients are read when it is sent, it says that a listener that has read them knows
all active users of the first page (`Knows`) and that one that has ended without
failing has reached them (`Reached`); so `AllTold` is about broadcasts, too, for the
users who stay on the first page whoever else is deleted (`OnPage`).

`TaskPoints_proofs`. `SpecIInv`, `SpecApprovedIsPaid` and `SpecNeverOverdrawn`:
the invariant says that the claim under approval is locked and still there
(`TxnKnows`), so the commit that pays approves the same claim, and that a ledger
with entries has a last one (`LastEntryExists`), so the balance a request starts
from is one that was stored. `SpecSerialBooksKept` is about `SerialSpec`, where a
history says whether two requests, or a request and an edit of the task, have been
under way at once. Until then an open request knows the balance, the room and the
claim as they are (`BooksKnown`), its entry is younger than all others, and a claim
that was paid is approved or an older row (`PaidIsPast`). The sum of a ledger is the
community modules' fold; that it does not depend on the order of the elements
(`AnyFirst`), so that an entry adds its amount (`TotalAdd`), is proved from the fold's definition.

`PermissionCache_proofs`. `SpecIInv`: an entry that contradicts the database is as
young as the change it misses, for any number of users, roles, permissions,
workers and requests, with or without Redis, and any failures. The invariant
relates three ages: time since the change, what is left of the entry, and the
waiting of a miss. Its third part (what a miss has read and not yet stored) is
what makes the first two inductive. No deletion occurs in the argument: the bound
is what remains when every invalidation is lost. `SpecSerialFreshWhenQuiet` is the other
half, in the scene where requests come one at a time, Redis answers and nobody
replaces a user's role (`set_user_role` deletes nothing, section 7): an entry
that contradicts the database belongs to a user of the change that has been
committed and is about to delete it, so when no request is open there is none. It
takes the lemma that `Affected` names every user whose permissions a change
alters. `SpecAdminRemains` is about the accounts of administrators, for any number
of them: with a superuser, nobody becomes or ceases to be one except by the routes
`bypass` marks; without one, what the open request counted is what there is.

The same module has the start of the workers, whose seed makes the permissions:
`SpecStartsSound` is about `ServeSpec`, for any number of workers that know any
revisions and seed any rows, and start, die and start again at any statement. The
invariant (`StartInv`) ties each program counter to a lock and to what the lock
guards: from the lock to its release a worker that creates or migrates holds the
schema lock of its site (`HoldsSchema`); one that is about to migrate has read the
version that is there, and it is not beyond its code (`MayMigrate`), because all
workers of a deployment have the same settings and so take the lock at the same
site, and the migration container runs only where workers do not migrate; the rows
a worker has found missing are still missing while it holds the seed lock
(`MaySeed`); and the schema and the rows it has got past stay (`HasSchema`,
`HasSeed`), the version because it only grows, the rows but for what an
administrator takes away. The proof of a step has two halves, what it does for its own
worker and what it leaves the others (`Leaves`). Equal settings are assumed
(`DeploymentInit`): without them two workers hold two locks and `NoConflicts`
fails, as section 7 says.

`Community_proofs`. `CountsAreCovered`: no counter of likes or favourites shows
more than the marks in the table and those erased with their users. `Invariance`
adds what the step lemmas need: `TxnOK` (what a request knows at its commit),
`MarksReal` and `Placed` (marks and comments are of rows that exist); of the reply
and post counters it has the type only. Taking a
mark back twice lowers the counter twice, which the inequality allows; a mark made
twice would break it, and the unique constraint (`Unique`) is why it does not
happen. `SpecSerialCountersExact` is about `SerialSpec`, without bounds: as long as
nothing has overlapped, the counters of likes and favourites equal their marks and
those erased with accounts, and the reply counter of a post equals its comments that
were not deleted, the latter only while `tidy`: no comment was hard-deleted, or hidden
or restored after its deletion, and no cascade removed a row. The post counter of a
category is not covered, and `SerialPostsCounted` fails (section 7). The invariant
says what a lone request knows of the row it will mark or take back and of the
counters it read, so that each step adds or removes as many rows as it counts. Both
use the cardinality of finite sets only.

`LearningLoop_proofs`, all over `LearnSpec`, for any number of questions, requests,
days and items. `SpecMistakesExact`: the count of a mistake is that of the wrong
answers stored and flushed (the invariant names the row locks that keep two
flushes of one mistake apart). `SpecSerialReviewsCount`: after a wrong answer the
mistake is new and due until a review that read it afterwards, unless the two overlapped. `SpecSerialPlanFits`:
what a plan inserted for its day stays within the minutes it found left, whatever is
moved, edited or planned for other days. A plan is chosen before it is inserted
(`TakenFits`), and nothing else is inserted for the day in between unless two plans
of it overlap. The minutes are a recursive sum and the choice a recursion over the
mistakes in their order, which the existence of such an order precedes
(`OrderExists`). The library's induction theorems take operators, so the induction
is derived for sets of numbers (`SetInduction`), from the well-foundedness of `<`.

`RedisOutage_proofs` holds three parts, of which the last two are over
`ServiceSpec` in `MCRedisOutage`, blacklist and limiter in the same processes.

The view counter: `SpecCountedOnce` and `SpecOncePerWindow`. A view that is in a
counter, in a flush or in the table has been counted before (`OnlyCounted`), so a
step that counts it finds it nowhere else; GETSET moves the views of one counter
into one flush. A viewer counted in a window has a key that says so (`KeysStand`),
and `WindowEnds` forgets both. Failing calls of Redis and failing writes are steps
of the proof like all others.

The blacklist: `SpecOwnRevocationsHold`, from `SpecBlacklistInv`, assuming
`BlacklistAssumption` (each call has a home process, the capacity is positive). An
entry of a memory ends when the worker said it would (`EntriesAsTold`), and every
promise that stands has its entry (`PromisesHeld`) until the worker has been
`crowded`. What has to be shown is that the eviction of the oldest tenth drops no
live entry before that: it is reached only when what is left after the expired
ones are gone fills the memory, entries of one memory are about distinct tokens, and
with the token to be added they are more than the capacity (`FullOfWords`, by
counting). That dropping the expired ones keeps order and distinctness is an
induction over the memory (`OnlyHolds`), with `SetInduction`.

The limiter: `SpecWindowsRespected`, from `SpecLimiterInv`, assuming
`LimiterAssumption` (natural numbers for the settings, no process is called
"redis"). A memory still knows all it let through in the last period
(`MemoryLogs`), so its log counts the window that ends now. Redis trims by the clock a
request carries, so it need not: `RedisLogs` says that what it let through after
a time is at most what is logged after that time less the longest delay.
Trimming keeps this, since no request is served more than `MaxDelay` after it set
out (`AskedInTime`); when a key expires nothing was let through in the period
(`KeyLasts`). The window that ends now, shorter by the delay, is then covered by
the log that was found not full. A sum over a log is a fold of the community
modules, whose value depends on which element CHOOSE takes; `AnyFirst` shows that
it does not, and `SumNoted` and `SumMost` are what the steps use.

`StudyTurns_proofs`. `SpecRunsHonest` and `SpecQuestionsFirst`. The invariant says
that the question of a turn under way is in its conversation (`Asked`), that a
turn about to finish has stored what it said (`Answered`), and that rows which were
read are still there (`RowsExist`, `OpsKnown`): messages are only ever appended and
a deletion sets a time stamp, so a prefix that a branch copies is in order if the
conversation is. `SpecTreeKept`: a deletion marks the conversation and all that is
below it. `Below` is a least fixed point, written as the intersection of all sets
closed under branching, so what is below what is below is below (`BelowClosed`)
without induction; the other part is that the source of an open branch is not
deleted while nothing has crossed (`SourceOpen`).

For the inbox, `SpecSuggestionsSpaced`: the time a rule fired is stored with its
suggestion and the youngest suggestion of a rule is no younger than that time
(`FiredLast`), unless a crash came between; a scan carries rows it has read, which may
be older than the table but not younger (`SeenLast`). `SpecFinalStays`: while no two
answers or sweeps overlap, the suggestion an answer has read is as it was read
(`AnswersKnown`).

Only model-checked: liveness (`RequestsEnd`, `CountedLands`, `RunsEnd`,
`SnoozedReturns`, `StartsEnd`), since the prover has no ENABLED; and
`MigrationsSound`, which is about what the statements of these 34 revisions compute.
There is nothing to generalise over but the way through the versions and the rows,
and a proof would execute each statement on a set of some hundred objects by an
induction over sequences, which the prover cannot instantiate; TLC executes them.
Every other safety property of a run is a theorem.

## 6. Hazards

`PROJECT.json` lists what is hard to test in this code and the properties that
would notice. Four have none, because the code goes wrong there and section 7 shows
how: `checkin_by_code` keeps nothing when two requests with one code overlap
(`CheckedInOnce` fails), the time to live of a blacklisted token is cut to whole
seconds (`LoggedOutIsRefused` fails), two password changes may commit in the order
opposite to their stamps (`StaleAccessRefused` fails with two changes), and two claims
may pass the count of the limit together (`ClaimHasRoom` fails). For the others a note
says which overlap or which path the named properties leave out. An
administrator's override to *registered* checks no capacity, and nothing says it
should; that is an assumption of `SpecSeatsPromised`.

## 7. Where the code and its documentation differ

`Task_paid_twice` is a run of the project: two reviewers pass the same check and
both pay. The differences below are no runs. Those with a configuration of their own are
reproduced with it, for example `tlc -config Study_budget.cfg MCStudyTurns`; for
the others, name the property in the configuration given, with the changes given.

| Property | Configuration | What happens |
|---|---|---|
| `SessionsEndWithPassword` | `Auth_change_ends_sessions` (`MCAuthSessions`) | A rotation that holds the presented row inserts its successor while a password change waits for that row. The change revokes what its statement saw, so the successor lives on; `change_password` says "撤销全部 refresh token" (`services/auth/auth_service.py:361`). |
| `StaleAccessRefused` | `Auth_change_ends_sessions`, scene `twoChanges`, `MaxTime` 1, `MaxPwd` 3 | The time of a password change is taken before its row is locked. Of two that overlap, the later commit may carry the earlier time, and tokens issued in between stay valid. |
| `ReplayEndsFamily`, `LoggedOutYieldsNothing` | `Auth_change_ends_sessions`, scene `tabs`, four tokens, life 3, time 3, one password | The same race with the revocation of a replayed family. Inside the leeway any revoked token may be rotated while its family has an active one, also a token that logout revoked. |
| `CodesOnce`, `TicketsOnce` | `TwoFactor` by itself with two requests | Two requests load the same codes, both accept one, and the second write removes the same code again; the blacklist of a ticket is read before either puts it there (`services/totp_service.py:95`, `services/auth/auth_service.py:219`). |
| `EnabledIsProven` | `TwoFactor` by itself with two requests | A setup commits between the load and the commit of a confirmation, which enables the new, unproved secret. |
| `MailedOnce` | `SignUp` by itself with two requests | Two registrations read a mailed code before either marks it (`services/verification_service.py:5` says one use). The unique address lets only one of them through. |
| `ConflictIsReal` | `Auth_strict` | Two registrations choose the same user name; the second gets "address taken" for a free address. `login_with_github` does not catch the error at all. |
| `ClaimHasRoom` | `Task_paid_twice`, two members | Count and insert are separate statements without a lock. |
| `BalanceIsSum` | `Task_paid_twice` with `RewardedSpec` | Two changes start from one balance. |
| `LeaderboardShowsBalance` | the same with one request | The ranking takes the highest stored balance, not the last (`repositories/tools_repo.py:470`). |
| `CheckedInOnce` | `Event_booking`, `MaxUse = 2`, no overrides | Two requests with one code both succeed. |
| `OnlyFactsTold` | `Notices` by itself | Likes, favourites and follows are announced before their commit (`services/community/community_interaction.py:59,137`, `community_feed.py:58`), so users are told of what is rolled back; `services/notification_events.py:9` has events emitted after it. |
| `BroadcastReachesAll` | `Notices` by itself | `list_active` returns the first hundred users; `services/notification_service.py:89` says all. |
| `ToldOnce` | `Notices` by itself | With `MULTI_INSTANCE` the process that emits and a worker each write the same notification. |
| `LoggedOutIsRefused` | `Redis_outage`, scene `blacklist`, `Second` 2, `BlacklistTime` 4, `HasRedis` FALSE | The time to live is cut to whole seconds: a token is accepted again in the last second of its life. |
| `FullWindowsRespected` | `Redis_outage` | A request that reaches Redis late is logged with the time it was sent, so a full window may hold more than the limit (`core/rate_limit/backends.py:4-6`). |
| `FreshWhenQuiet` | `Perm_unannounced` (`MCPermissionCache`) | `_set_user_role` deletes no cached permissions; `middleware/rbac.py:56-57` says every change point does. |
| `FreshWhenQuiet` | `Perm_unannounced`, scene `overlap` | The key is deleted before the commit, and a check in between stores the old permissions again. |
| `FailedInvalidationAborts` | `Perm_unannounced`, scene `failing` | The cache catches every error of a deletion, so the path that should give the change up is never taken. |
| `MarksCounted` | `Community_unlike_twice` (`MCCommunity`) | Two requests of one user take back the same mark; the DELETE finds nothing the second time and the counter is lowered again. |
| `SerialPostsCounted` | `Community_unlike_twice` | Posts that go with the account of their author are not taken off the counter of their category. |
| `FailedFlushLosesNothing` | `Views_failed_flush` (`MCViewCount`) | The counter is emptied before the write. If the write fails the views are lost, while `services/view_count.py:22-23` says they stay for the next round. |
| `NoLateAnswer` | `Learning_loop` | The time limit is checked against the first stored answer, so the first answers of several requests are all in time, and one that waits is stored late. |
| `ReviewsCount` | `Learning_loop` | A review that read the mistake before a new wrong answer marks it as mastered. |
| `BudgetBites` | `Study_budget` (`MCStudyTurns`) | The budget stops nobody who uses the configured model: `run_chat` (`services/auxilio_agent.py:640-660`) does not pass `usage` events on, so no usage of a turn is ever written, and today's sum stays where it was. |
| `TreeKept` | `Study_budget`, as invariant | A branch made while its source is being deleted stays. |
| `ChosenTitleStays` | `Study_budget` | A turn that began before the user renamed the conversation writes its guessed title. |
| `CompletedIsWhole` | `Study_budget`, as invariant | A client that goes away closes the generator at a `yield`, which is no `CancelledError` and no `Exception`: the run of a cut answer is recorded as completed. |
| `ScanReachesAll` | `Agent_scan_breaks` (`MCAssistant`) | A rule is deleted between the scan's read and `mark_fired`: the UPDATE of its row raises `StaleDataError`, the session is not rolled back, and every rule after it fails too; `services/agent_trigger_service.py:62-63` says one rule's failure does not stop the others. |
| `FinalStays` | `Study_assistant`, in `AgentInbox` | An answer and a sweep that overlap: the later commit wins. |
| `SeedOverwritesNothing` | `Startup` by itself, constants as in `MCStartup` | A start gives system roles back the permissions an administrator took from them (`services/rbac/rbac_init.py:163-168`, against `:130-133`). |
| `RefusedWhenBehind` | `Startup` by itself | A worker whose code is older than the database is refused as well, while the comment at `database.py:212-213` says only one whose database is behind is. |
| `NoConflicts` from `Init` instead of `DeploymentInit` | `Startup` by itself | Workers of different settings take their schema locks in different databases and create tables at once (`database.py:336`). |

Seen while reading, without a property of their own:

* Without a superuser two administrators with `user:delete` can erase one another
  at once (`user_service.py:241`). `delete_user_admin` says that only a superuser
  may (`:478`, `api/v1/admin_users.py:148`) and does not check it. The check for
  the last administrator also refuses to demote or erase an inactive one while
  one active is left. PUT and DELETE of `/users/{id}` and the revocation of a role
  make no such check, and PUT lets one administrator disable another.
* A user who is deleted softly keeps the `github_id`, so a new sign-up with that
  GitHub account fails on the unique column.
* `DELETE /sessions/all` is declared after `DELETE /sessions/{token_id}`
  (`api/v1/auth.py:256-282`) and is never reached.
* Quiet hours are compared with the hour in UTC.
* `delete_user_admin` says that the foreign keys do the rest (`user_service.py:504`),
  but many of them have no action on deletion: events, registrations, claims and
  points, notifications, attempts, conversations, runs and usage of a user hold the
  row. Users are therefore not among the rows of `DeletesGoThrough`.
* Revision 4f5a is said to clear the old tables away (its lines 7-8), yet
  `forum_categories`, `forum_replies`, `forum_likes`, `forum_favorites`,
  `forum_topic_views` and `forum_mentions` stay, and four of the seven names it
  drops were never created. Its downgrade raises, so none goes below it, while
  the comment in d52f (lines 43-44) has CI go down to the base and up again.
* Without the parser revision a3b4 falls back to `simple`, but `FTS_CONFIG` is
  `chinese` by default (`core/config_parts/ops.py:32`), a configuration that is not there then.
* `run_startup` is outside the `try` of `main.lifespan`, so nothing is shut down when
  a critical task fails.

## 8. Not modelled

* The exchange with GitHub, the language-model client and log records are
  I/O without state of this program, and so is the SMTP server; schemas, formatting, pages and listings have
  no control.
* Retention and maintenance jobs: one DELETE by age each; nothing reads what they
  remove. The cron jobs with consequences are actions: the purge of refresh tokens
  (`AuthSessions`), the archive of events (`EventRegistration`), scan and sweep
  (`AgentInbox`).
* Resources, join requests, announcements, search, workbench, component registry:
  a row with a status that one statement sets.
* Reports, tags, drafts and the hot ranking of the community; questions and goals
  of the learning loop; the queue of password-reset requests; the tools of the
  assistant, which only read; the daily briefing and the weekly review of the
  agents, whose job never commits.
* Of the schema: types, nullability, defaults, comments and the indexes that come
  and go with their table; Alembic's offline mode, which executes nothing. What old
  releases write into `chat_events` is taken from the last one.
* The capacity of the memory cache and the escalation check on who grants a
  permission.

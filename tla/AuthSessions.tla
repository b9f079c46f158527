---------------------------- MODULE AuthSessions ----------------------------
(***************************************************************************)
(* Refresh-token sessions: app/services/auth/auth_service.py with           *)
(* app/repositories/refresh_token_repo.py, and the account operations of    *)
(* app/services/user/user_service.py and                                    *)
(* app/services/password_reset_service.py that revoke sessions.             *)
(*                                                                          *)
(* Every request runs one database transaction under READ COMMITTED.  The   *)
(* variables `row` and `user` are the committed tables; a request keeps its *)
(* uncommitted writes in txn[r] and publishes them in its commit action.  A *)
(* bulk UPDATE or DELETE takes a statement snapshot, then waits for each    *)
(* matching row's lock and evaluates its WHERE clause again on the row it   *)
(* finds; rows that other transactions insert meanwhile are not visited.    *)
(***************************************************************************)
EXTENDS Integers, FiniteSets

CONSTANTS
    User,        \* accounts
    Token,       \* refresh tokens, named by their hash; a family is named by its first token
    Req,         \* request slots: transactions that may be open at the same time
    None,        \* SQL NULL / "nobody"
    Ops,         \* Ops[r]: the operations request slot r may run
    Leeway,      \* REFRESH_TOKEN_ROTATION_LEEWAY_SECONDS
    RefreshTTL,  \* REFRESH_TOKEN_EXPIRE_DAYS
    MaxTime,     \* bound on the clock
    MaxPwd       \* bound on the number of password changes

OpName == {"refresh", "login", "logout", "revokeSession", "revokeAll",
           "changePassword", "disable", "enable", "suspend", "delete",
           "erase", "purge"}

ASSUME NoneAssumption == None \notin User \cup Token \cup Req
ASSUME OpsAssumption == Ops \in [Req -> SUBSET OpName]
ASSUME TimeAssumption ==
    /\ Leeway \in Nat
    /\ RefreshTTL \in Nat \ {0}
    /\ MaxTime \in Nat
    /\ MaxPwd \in Nat

VARIABLES
    now,      \* now_utc(), in ticks; 0 is never a time, it stands for NULL
    pwdClock, \* the last value any request took for password_changed_at
    user,     \* table users
    row,      \* table refresh_tokens
    lock,     \* row lock on refresh_tokens: the request that holds it
    ulock,    \* row lock on users
    txn       \* the open transaction of each request slot

vars == <<now, pwdClock, user, row, lock, ulock, txn>>

-----------------------------------------------------------------------------
(* Data.  Two row fields are history: `by` is the reason of the first       *)
(* revocation, and `authAt` the password_changed_at under which the login   *)
(* that opened the family was verified.  `parent` records which token was   *)
(* presented for the rotation.                                              *)

UserRec == [present: BOOLEAN, active: BOOLEAN, deleted: BOOLEAN, pwdAt: Nat]

Reason == {"none", "rotation", "logout", "revoked", "replayed"}

RowRec == [st: {"free", "live", "gone"},
           user: User \cup {None}, family: Token \cup {None},
           parent: Token \cup {None}, revokedAt: Nat, expiresAt: Nat,
           pwdAt: Nat, authAt: Nat, by: Reason]

Pc == {"idle", "write", "stamp", "userlock", "stmt", "rows", "commit"}

TxnRec == [pc: Pc, op: OpName \cup {"none", "reuse"},
           user: User \cup {None}, tok: Token \cup {None}, new: Token \cup {None},
           pwdAt: Nat, at: Nat,
           snap: SUBSET Token, todo: SUBSET Token, hit: SUBSET Token]

FreeRow == [st |-> "free", user |-> None, family |-> None, parent |-> None,
            revokedAt |-> 0, expiresAt |-> 0, pwdAt |-> 0, authAt |-> 0,
            by |-> "none"]

GoneRow == [FreeRow EXCEPT !.st = "gone"]

IdleTxn == [pc |-> "idle", op |-> "none", user |-> None, tok |-> None,
            new |-> None, pwdAt |-> 0, at |-> 0,
            snap |-> {}, todo |-> {}, hit |-> {}]

\* Nothing is in flight and every account is active; the table of refresh
\* tokens holds rows.
InitWith(rows) ==
    /\ now = 1
    /\ pwdClock = 1
    /\ user = [u \in User |-> [present |-> TRUE, active |-> TRUE,
                               deleted |-> FALSE, pwdAt |-> 1]]
    /\ row = rows
    /\ lock = [t \in Token |-> None]
    /\ ulock = [u \in User |-> None]
    /\ txn = [r \in Req |-> IdleTxn]

Init == InitWith([t \in Token |-> FreeRow])

-----------------------------------------------------------------------------
(* Reads. *)

Live(t) == row[t].st = "live"

Unrevoked(t) == Live(t) /\ row[t].revokedAt = 0

\* RefreshToken.is_active; also the WHERE clause of list_active_for_user.
Active(t) == Unrevoked(t) /\ row[t].expiresAt > now

FamilyHasActive(f) == \E t \in Token : Active(t) /\ row[t].family = f

\* A user the services may issue a token to.
MayIssue(u) == user[u].present /\ user[u].active /\ ~user[u].deleted

Idle(r) == txn[r].pc = "idle"

\* Token hashes no committed row and no open transaction uses.
Fresh == {t \in Token : row[t].st = "free" /\ \A r \in Req : txn[r].new # t}

Released(r) == [t \in Token |-> IF lock[t] = r THEN None ELSE lock[t]]
UReleased(r) == [u \in User |-> IF ulock[u] = r THEN None ELSE ulock[u]]

\* Mistake: an error path that leaves the row locks with a finished request.
RollbackKeepingLocks(r) ==
    /\ txn' = [txn EXCEPT ![r] = IdleTxn]
    /\ UNCHANGED <<now, pwdClock, user, row, lock, ulock>>

\* Rollback: the buffered writes are dropped and every lock is released.
Rollback(r) ==
    /\ txn' = [txn EXCEPT ![r] = IdleTxn]
    /\ lock' = Released(r)
    /\ ulock' = UReleased(r)
    /\ UNCHANGED <<now, pwdClock, user, row>>

Begin(r, rec) == txn' = [txn EXCEPT ![r] = rec]

-----------------------------------------------------------------------------
(* Login and rotation. *)

\* The password is verified and the account checked; the user object read
\* here is the one the token's claims are built from later.
LoginBegin(r) ==
    /\ Idle(r) /\ "login" \in Ops[r]
    /\ \E u \in User, n \in Fresh :
         /\ MayIssue(u)
         /\ Begin(r, [IdleTxn EXCEPT !.pc = "write", !.op = "login", !.user = u,
                                     !.new = n, !.pwdAt = user[u].pwdAt])
    /\ UNCHANGED <<now, pwdClock, user, row, lock, ulock>>

\* The INSERT of issue_token_pair; its foreign key fails once the user row
\* is gone.
LoginWrite(r) ==
    /\ txn[r].pc = "write" /\ txn[r].op = "login"
    /\ \/ /\ user[txn[r].user].present
          /\ txn' = [txn EXCEPT ![r].pc = "commit", ![r].at = now]
          /\ UNCHANGED <<now, pwdClock, user, row, lock, ulock>>
       \/ /\ ~user[txn[r].user].present
          /\ Rollback(r)

LoginCommit(r) ==
    /\ txn[r].pc = "commit" /\ txn[r].op = "login"
    /\ row' = [row EXCEPT ![txn[r].new] =
                 [FreeRow EXCEPT !.st = "live", !.user = txn[r].user,
                                 !.family = txn[r].new,
                                 !.expiresAt = txn[r].at + RefreshTTL,
                                 !.pwdAt = txn[r].pwdAt, !.authAt = txn[r].pwdAt]]
    /\ txn' = [txn EXCEPT ![r] = IdleTxn]
    /\ UNCHANGED <<now, pwdClock, user, lock, ulock>>

\* Mistake: the leeway alone excuses a revoked token.
ReusedByAge(t) ==
    /\ row[t].revokedAt # 0
    /\ ~(Leeway > 0 /\ now - row[t].revokedAt <= Leeway)

\* A revoked token presented outside the leeway, or whose family has no
\* active member left, is a replay.
Reused(t) ==
    /\ row[t].revokedAt # 0
    /\ ~ /\ Leeway > 0
         /\ now - row[t].revokedAt <= Leeway
         /\ FamilyHasActive(row[t].family)

\* Mistake: the token is read without FOR UPDATE.
ReadUnlocked(t) == Live(t)

\* get_by_hash(..., for_update=True) can return the row.
ReadForUpdate(t) == Live(t) /\ lock[t] = None

\* SELECT ... FOR UPDATE on the presented token, then the verdict on it.
\* An expired token is refused; that request changes nothing.
RefreshBegin(r, t) ==
    /\ Idle(r) /\ "refresh" \in Ops[r]
    /\ ReadForUpdate(t)
    /\ \/ /\ Reused(t)
          /\ Begin(r, [IdleTxn EXCEPT !.pc = "stmt", !.op = "reuse", !.tok = t])
       \/ /\ ~Reused(t)
          /\ now < row[t].expiresAt
          /\ \E n \in Fresh :
               Begin(r, [IdleTxn EXCEPT !.pc = "write", !.op = "refresh",
                                        !.tok = t, !.new = n])
    /\ lock' = [lock EXCEPT ![t] = r]
    /\ UNCHANGED <<now, pwdClock, user, row, ulock>>

\* The user is read (without a lock); a disabled or deleted user gets
\* nothing, otherwise the presented row is revoked and its successor
\* inserted, both uncommitted.
RefreshWrite(r) ==
    /\ txn[r].pc = "write" /\ txn[r].op = "refresh"
    /\ LET u == row[txn[r].tok].user IN
         \/ /\ MayIssue(u)
            /\ txn' = [txn EXCEPT ![r].pc = "commit", ![r].at = now,
                                  ![r].user = u, ![r].pwdAt = user[u].pwdAt]
            /\ UNCHANGED <<now, pwdClock, user, row, lock, ulock>>
         \/ /\ ~MayIssue(u)
            /\ Rollback(r)

\* Mistakes: the rotation forgets to revoke the presented token, or revokes
\* it again on a retry.
PresentedKept(s) == row[s.tok]
PresentedRestamped(s) == [row[s.tok] EXCEPT !.revokedAt = s.at, !.by = "rotation"]

\* The presented row once the rotation is published.  A row that was already
\* revoked keeps its revoked_at: a retry does not prolong the leeway.
Presented(s) ==
    IF row[s.tok].revokedAt = 0
      THEN [row[s.tok] EXCEPT !.revokedAt = s.at, !.by = "rotation"]
      ELSE row[s.tok]

\* The successor stays in the family of the presented token.
RefreshCommit(r) ==
    /\ txn[r].pc = "commit" /\ txn[r].op = "refresh"
    /\ LET t == txn[r].tok
           successor == [FreeRow EXCEPT !.st = "live", !.user = txn[r].user,
                            !.family = row[t].family, !.parent = t,
                            !.expiresAt = txn[r].at + RefreshTTL,
                            !.pwdAt = txn[r].pwdAt, !.authAt = row[t].authAt]
       IN row' = [row EXCEPT ![t] = Presented(txn[r]), ![txn[r].new] = successor]
    /\ txn' = [txn EXCEPT ![r] = IdleTxn]
    /\ lock' = Released(r)
    /\ UNCHANGED <<now, pwdClock, user, ulock>>

-----------------------------------------------------------------------------
(* Bulk statements: the UPDATE ... SET revoked_at and DELETE statements. *)

\* Mistake: rows that are revoked are removed before they expire.
PurgeableWhenRevoked(x, time) == row[x].expiresAt < time \/ row[x].revokedAt # 0

\* purge_expired: revoked rows stay until they expire, for replay detection.
Purgeable(x, time) == row[x].expiresAt < time

\* Mistake: bulk revocations list the active tokens only, as list_active_for_user.
MatchesActive(s, x, time) ==
    /\ Live(x)
    /\ \/ s.op = "logout" /\ x = s.tok
       \/ s.op = "revokeSession" /\ x = s.tok /\ row[x].revokedAt = 0
       \/ s.op = "reuse" /\ row[x].family = row[s.tok].family /\ row[x].revokedAt = 0
       \/ /\ s.op \in {"revokeAll", "changePassword", "disable", "delete"}
          /\ row[x].user = s.user /\ row[x].revokedAt = 0 /\ row[x].expiresAt > time
       \/ s.op = "purge" /\ Purgeable(x, time)
       \/ s.op = "erase" /\ row[x].user = s.user

\* The WHERE clause of the statement transaction s runs on refresh_tokens.
\* The logout one has no `revoked_at IS NULL`.
Matches(s, x, time) ==
    /\ Live(x)
    /\ \/ s.op = "logout" /\ x = s.tok
       \/ s.op = "revokeSession" /\ x = s.tok /\ row[x].revokedAt = 0
       \/ s.op = "reuse" /\ row[x].family = row[s.tok].family /\ row[x].revokedAt = 0
       \/ /\ s.op \in {"revokeAll", "changePassword", "disable", "delete"}
          /\ row[x].user = s.user /\ row[x].revokedAt = 0
       \/ s.op = "purge" /\ Purgeable(x, time)
       \/ s.op = "erase" /\ row[x].user = s.user

\* revoke_refresh_token and revoke_session: the UPDATE names one row by id.
RevokeOneBegin(r, t) ==
    /\ Idle(r)
    /\ Live(t)
    /\ \E op \in {"logout", "revokeSession"} \cap Ops[r] :
         Begin(r, [IdleTxn EXCEPT !.pc = "stmt", !.op = op, !.tok = t])
    /\ UNCHANGED <<now, pwdClock, user, row, lock, ulock>>

\* revoke_all_user_tokens, one call for all devices of a user.
RevokeAllBegin(r, u) ==
    /\ Idle(r) /\ "revokeAll" \in Ops[r]
    /\ MayIssue(u)
    /\ Begin(r, [IdleTxn EXCEPT !.pc = "stmt", !.op = "revokeAll", !.user = u])
    /\ UNCHANGED <<now, pwdClock, user, row, lock, ulock>>

\* _purge_once: the advisory lock admits one purge at a time.
PurgeBegin(r) ==
    /\ Idle(r) /\ "purge" \in Ops[r]
    /\ \A q \in Req : txn[q].op # "purge"
    /\ Begin(r, [IdleTxn EXCEPT !.pc = "stmt", !.op = "purge"])
    /\ UNCHANGED <<now, pwdClock, user, row, lock, ulock>>

\* The statement starts: now_utc() is bound and the snapshot is taken.
Snapshot(r) ==
    /\ txn[r].pc = "stmt"
    /\ LET found == {x \in Token : Matches(txn[r], x, now)} IN
         txn' = [txn EXCEPT ![r].pc = "rows", ![r].at = now,
                            ![r].snap = {x \in Token : Live(x)}, ![r].todo = found]
    /\ UNCHANGED <<now, pwdClock, user, row, lock, ulock>>

\* One row of the snapshot: wait for its lock, then evaluate the WHERE
\* clause on the row as it is now.
VisitRow(r, x) ==
    /\ txn[r].pc = "rows" /\ x \in txn[r].todo
    /\ lock[x] \in {None, r}
    /\ txn' = [txn EXCEPT ![r].todo = @ \ {x},
                          ![r].hit = IF Matches(txn[r], x, txn[r].at)
                                     THEN @ \cup {x} ELSE @]
    /\ lock' = IF Live(x) THEN [lock EXCEPT ![x] = r] ELSE lock
    /\ UNCHANGED <<now, pwdClock, user, row, ulock>>

Visited(r) == txn[r].pc = "rows" /\ txn[r].todo = {}

\* The table once r's UPDATE is published.  On a replay the presented row is
\* marked, in the history field only.
RevokedRows(r) ==
    [x \in Token |->
        IF x \in txn[r].hit
          THEN [row[x] EXCEPT !.revokedAt = txn[r].at,
                              !.by = IF row[x].revokedAt # 0 THEN @
                                     ELSE IF txn[r].op = "logout" THEN "logout"
                                     ELSE "revoked"]
        ELSE IF txn[r].op = "reuse" /\ x = txn[r].tok
          THEN [row[x] EXCEPT !.by = "replayed"]
        ELSE row[x]]

RevokeCommit(r) ==
    /\ Visited(r)
    /\ txn[r].op \in {"logout", "revokeSession", "revokeAll", "reuse"}
    /\ row' = RevokedRows(r)
    /\ txn' = [txn EXCEPT ![r] = IdleTxn]
    /\ lock' = Released(r)
    /\ UNCHANGED <<now, pwdClock, user, ulock>>

PurgeCommit(r) ==
    /\ Visited(r) /\ txn[r].op = "purge"
    /\ row' = [x \in Token |-> IF x \in txn[r].hit THEN GoneRow ELSE row[x]]
    /\ txn' = [txn EXCEPT ![r] = IdleTxn]
    /\ lock' = Released(r)
    /\ UNCHANGED <<now, pwdClock, user, ulock>>

-----------------------------------------------------------------------------
(* Account operations. *)

\* The target is loaded without a lock and the checks are made on what was
\* read.  "changePassword" stands for every operation that sets
\* password_changed_at: change_password, update_profile and update_user with
\* a password, reset_password_admin and approve_request.  "disable" is the
\* administrator's switch, "suspend" update_user with is_active = False,
\* "delete" the soft and "erase" the hard deletion.
AccountBegin(r, u) ==
    /\ Idle(r)
    /\ user[u].present /\ ~user[u].deleted
    /\ \E op \in Ops[r] :
         \/ /\ op = "changePassword"
            /\ pwdClock + Cardinality({q \in Req : txn[q].pc = "stamp"}) < MaxPwd
            /\ Begin(r, [IdleTxn EXCEPT !.pc = "stamp", !.op = op, !.user = u])
         \/ /\ \/ op \in {"disable", "suspend"} /\ user[u].active
               \/ op = "enable" /\ ~user[u].active
               \/ op = "delete"
            /\ Begin(r, [IdleTxn EXCEPT !.pc = "userlock", !.op = op, !.user = u])
         \/ /\ op = "erase"
            /\ Begin(r, [IdleTxn EXCEPT !.pc = "stmt", !.op = op, !.user = u])
    /\ UNCHANGED <<now, pwdClock, user, row, lock, ulock>>

\* password_changed_at = now_utc(), after the new hash was computed; no two
\* calls of now_utc() take the same microsecond.
StampPassword(r) ==
    /\ txn[r].pc = "stamp"
    /\ pwdClock' = pwdClock + 1
    /\ txn' = [txn EXCEPT ![r].pc = "userlock", ![r].pwdAt = pwdClock + 1]
    /\ UNCHANGED <<now, user, row, lock, ulock>>

\* The flush of the changed user object: it waits for the row lock, and
\* fails when the row has been deleted meanwhile.
UpdateUser(r) ==
    /\ txn[r].pc = "userlock"
    /\ LET u == txn[r].user IN
         /\ ulock[u] = None
         /\ \/ /\ user[u].present
               /\ ulock' = [ulock EXCEPT ![u] = r]
               /\ txn' = [txn EXCEPT ![r].pc =
                            IF txn[r].op \in {"enable", "suspend"} THEN "commit"
                            ELSE "stmt"]
               /\ UNCHANGED <<now, pwdClock, user, row, lock>>
            \/ /\ ~user[u].present
               /\ Rollback(r)

\* Only the changed columns are written.
UserAfter(s) ==
    CASE s.op = "changePassword"        -> [user[s.user] EXCEPT !.pwdAt = s.pwdAt]
      [] s.op \in {"disable", "suspend"} -> [user[s.user] EXCEPT !.active = FALSE]
      [] s.op = "enable"                -> [user[s.user] EXCEPT !.active = TRUE]
      [] s.op = "delete"                -> [user[s.user] EXCEPT !.active = FALSE,
                                                                !.deleted = TRUE]

\* One commit for the account change and the revocation of its sessions.
AccountCommit(r) ==
    /\ \/ Visited(r) /\ txn[r].op \in {"changePassword", "disable", "delete"}
       \/ txn[r].pc = "commit" /\ txn[r].op \in {"enable", "suspend"}
    /\ user' = [user EXCEPT ![txn[r].user] = UserAfter(txn[r])]
    /\ row' = RevokedRows(r)
    /\ txn' = [txn EXCEPT ![r] = IdleTxn]
    /\ lock' = Released(r)
    /\ ulock' = UReleased(r)
    /\ UNCHANGED <<now, pwdClock>>

\* DELETE FROM users: it waits for the row, for inserted refresh rows that
\* still hold a key-share lock on it, and for the rows the ON DELETE CASCADE
\* removes.
EraseBlockers(r) ==
    LET u == txn[r].user IN
      ({ulock[u]} \cup {lock[x] : x \in {y \in Token : Live(y) /\ row[y].user = u}}
         \cup {q \in Req : txn[q].pc = "commit" /\ txn[q].new # None
                             /\ txn[q].user = u})
      \ {None, r}

EraseCommit(r) ==
    /\ Visited(r) /\ txn[r].op = "erase"
    /\ EraseBlockers(r) = {}
    /\ LET u == txn[r].user IN
         /\ user' = [user EXCEPT ![u].present = FALSE]
         /\ row' = [x \in Token |->
                      IF Live(x) /\ row[x].user = u THEN GoneRow ELSE row[x]]
    /\ txn' = [txn EXCEPT ![r] = IdleTxn]
    /\ lock' = Released(r)
    /\ UNCHANGED <<now, pwdClock, ulock>>

-----------------------------------------------------------------------------
(* Failures, time and the specification. *)

\* The requests r waits for.
WaitsFor(r) ==
    CASE txn[r].pc = "rows" /\ txn[r].todo # {} ->
           {lock[x] : x \in txn[r].todo} \ {r}
      [] Visited(r) /\ txn[r].op = "erase" -> EraseBlockers(r)
      [] txn[r].pc = "userlock" -> {ulock[txn[r].user]}
      [] OTHER -> {None}

\* Requests that wait for one another only.
Deadlocked(S) == \A q \in S : WaitsFor(q) # {} /\ WaitsFor(q) \subseteq S

\* PostgreSQL aborts a member of a wait cycle.
DeadlockVictim(r) ==
    /\ \E S \in SUBSET Req : r \in S /\ Deadlocked(S)
    /\ Rollback(r)

\* A request dies with its transaction open: an exception, a lost
\* connection, a killed worker.
Abort(r) == ~Idle(r) /\ Rollback(r)

Tick ==
    /\ now < MaxTime
    /\ now' = now + 1
    /\ UNCHANGED <<pwdClock, user, row, lock, ulock, txn>>

Arrive(r) ==
    \/ LoginBegin(r)
    \/ PurgeBegin(r)
    \/ \E t \in Token : RefreshBegin(r, t) \/ RevokeOneBegin(r, t)
    \/ \E u \in User : RevokeAllBegin(r, u) \/ AccountBegin(r, u)

Proceed(r) ==
    \/ LoginWrite(r) \/ LoginCommit(r)
    \/ RefreshWrite(r) \/ RefreshCommit(r)
    \/ Snapshot(r) \/ (\E x \in Token : VisitRow(r, x))
    \/ RevokeCommit(r) \/ PurgeCommit(r)
    \/ StampPassword(r) \/ UpdateUser(r) \/ AccountCommit(r) \/ EraseCommit(r)

Next ==
    \/ Tick
    \/ \E r \in Req : Arrive(r) \/ Proceed(r) \/ DeadlockVictim(r) \/ Abort(r)

Spec == Init /\ [][Next]_vars

\* A worker runs each request it has accepted, PostgreSQL grants row locks in
\* the order they were asked for and breaks every wait cycle.  Nothing is
\* assumed of arrivals, of time and of crashes.
Fairness == \A r \in Req : SF_vars(Proceed(r)) /\ WF_vars(DeadlockVictim(r))

FairSpec == Spec /\ Fairness

-----------------------------------------------------------------------------
(* Access tokens.  The one issued with refresh token t carries              *)
(* password_changed_at as its pwd_at claim.                                 *)

\* Mistake: the pwd_at claim is not compared.
AccessAcceptedAnyPassword(t) == Live(t) /\ MayIssue(row[t].user)

\* get_current_user and get_current_active_user accept that access token
\* (before its own expiry and unless it was blacklisted).
AccessAccepted(t) ==
    /\ Live(t) /\ MayIssue(row[t].user)
    /\ row[t].pwdAt >= user[row[t].user].pwdAt

-----------------------------------------------------------------------------
(* Properties. *)

\* The tables, locks and transactions have the shapes the code gives them.
TypeOK ==
    /\ now \in Nat \ {0}
    /\ pwdClock \in Nat
    /\ user \in [User -> UserRec]
    /\ row \in [Token -> RowRec]
    /\ lock \in [Token -> Req \cup {None}]
    /\ ulock \in [User -> Req \cup {None}]
    /\ txn \in [Req -> TxnRec]

\* A token that was rotated is revoked, whatever raced with the rotation: the
\* old and the new token of a rotation are never both usable.
RotatedIsRevoked ==
    \A t \in Token :
        LET p == row[t].parent IN
          Live(t) /\ p # None /\ Live(p) => row[p].revokedAt # 0

\* Without a leeway a family is a chain: at most one of its tokens is usable
\* at any time, however many requests present the same token concurrently.
StrictRotation ==
    Leeway = 0 =>
        \A a, b \in Token :
            Unrevoked(a) /\ Unrevoked(b) /\ row[a].family = row[b].family => a = b

\* No request is about to insert a token into family f.
NoSuccessorPending(f) ==
    \A r \in Req : txn[r].op = "refresh" => row[txn[r].tok].family # f

\* A family that has been opened, none of whose tokens is usable, and that no
\* rotation in progress extends.
DeadFamily(f) ==
    /\ row[f].st # "free"
    /\ ~FamilyHasActive(f)
    /\ NoSuccessorPending(f)

\* The end of a family is final: once logout, revocation or expiry has taken
\* its last usable token, no retry inside the leeway revives it.
DeadFamilyStaysDead == [][\A f \in Token : DeadFamily(f) => DeadFamily(f)']_vars

\* The leeway counts from the first revocation: no retried rotation and no
\* bulk revocation that waited for a row moves revoked_at.  Only logout,
\* whose UPDATE names the row by id, does.
LeewayNotProlonged ==
    [][\A t \in Token :
         Live(t) /\ row[t].revokedAt # 0 /\ row'[t].revokedAt \notin {0, row[t].revokedAt}
           => \E r \in Req : txn[r].op = "logout" /\ t \in txn[r].hit]_vars

\* The tokens that the revocation in transaction s is about.
Targeted(s, t) ==
    \/ s.op \in {"logout", "revokeSession"} /\ t = s.tok
    \/ s.op = "reuse" /\ row[t].family = row[s.tok].family
    \/ s.op \in {"revokeAll", "changePassword", "disable", "delete", "erase"}
         /\ row[t].user = s.user

\* When a revocation commits, none of the tokens it is about that were in the
\* table when its statement began is usable any more, also those a concurrent
\* rotation or purge had locked at that moment.
RevocationReachesSnapshot ==
    [][\A r \in Req :
         txn[r].pc = "rows" /\ row' # row /\ Idle(r)'
           => \A t \in txn[r].snap : Targeted(txn[r], t) => ~Unrevoked(t)']_vars

\* A row leaves the table only after it expired or with its user, so that a
\* replay of a revoked token is recognised as one until then.
ReplayEvidenceKept ==
    [][\A t \in Token :
         Live(t) /\ ~Live(t)' => row[t].expiresAt < now \/ ~user'[row[t].user].present]_vars

\* An access token issued under a replaced password is refused, also when
\* the login or rotation that issued it raced with the change.
StaleAccessRefused ==
    \A t \in Token : AccessAccepted(t) => row[t].pwdAt = user[row[t].user].pwdAt

\* Every accepted request ends: no lock outlives its request and no wait
\* cycle is left standing.
RequestsEnd == \A r \in Req : ~Idle(r) ~> Idle(r)

-----------------------------------------------------------------------------
(* The inductive invariant behind the theorems of AuthSessions_proofs.      *)

\* What a transaction knows at each point of its code.
TxnShape(s) ==
    /\ s.pc = "idle" <=> s.op = "none"
    /\ s.op = "login" => s.pc \in {"write", "commit"} /\ s.user \in User /\ s.new \in Token
    /\ s.op = "refresh" => /\ s.pc \in {"write", "commit"}
                           /\ s.tok \in Token /\ s.new \in Token
                           /\ s.pc = "commit" => s.user \in User
    /\ s.op \in {"logout", "revokeSession", "reuse"} =>
         s.pc \in {"stmt", "rows"} /\ s.tok \in Token
    /\ s.op = "purge" => s.pc \in {"stmt", "rows"}
    /\ s.op \in {"revokeAll", "erase"} => s.pc \in {"stmt", "rows"} /\ s.user \in User
    /\ s.op \in {"changePassword", "disable", "delete", "enable", "suspend"} =>
         s.pc \in {"stamp", "userlock", "stmt", "rows", "commit"} /\ s.user \in User
    /\ s.pc \in {"rows", "commit"} /\ s.op \notin {"enable", "suspend"} => s.at # 0
    /\ s.pc # "rows" => s.hit = {}

TxnsShaped == \A r \in Req : TxnShape(txn[r])

\* A transaction stamps its rows with a time that has come.
StampsPast == \A r \in Req : txn[r].at <= now

\* Rows that are not in the table are blank; those that are have an owner and
\* a family whose founder was inserted before, as was their parent.
RowsShaped ==
    \A t \in Token :
        /\ row[t].st = "free" => row[t] = FreeRow
        /\ row[t].st = "gone" => row[t] = GoneRow
        /\ Live(t) => /\ row[t].user \in User
                      /\ row[t].family \in Token
                      /\ row[row[t].family].st # "free"
                      /\ row[t].parent # None => row[row[t].parent].st # "free"

\* FOR UPDATE holds: the presented token stays locked and in the table until
\* the request ends.
PresentedHeld ==
    \A r \in Req : txn[r].op \in {"refresh", "reuse"} =>
        Live(txn[r].tok) /\ lock[txn[r].tok] = r

\* The rows a statement will change are locked by it and still match.
HitsHeld ==
    \A r \in Req : \A x \in txn[r].hit :
        /\ Live(x) /\ lock[x] = r
        /\ txn[r].op \notin {"logout", "purge", "erase"} => row[x].revokedAt = 0
        /\ txn[r].op = "purge" => row[x].expiresAt < txn[r].at

\* Two requests never create the same token.
NewReserved ==
    /\ \A r \in Req : txn[r].new # None => row[txn[r].new].st = "free"
    /\ \A r, q \in Req : txn[r].new # None /\ txn[r].new = txn[q].new => r = q

\* Without a leeway only an unrevoked token is rotated.
StrictPending ==
    Leeway = 0 => \A r \in Req : txn[r].op = "refresh" => row[txn[r].tok].revokedAt = 0

IInv ==
    /\ TypeOK /\ TxnsShaped /\ StampsPast /\ RowsShaped /\ PresentedHeld /\ HitsHeld
    /\ NewReserved /\ StrictPending /\ RotatedIsRevoked /\ StrictRotation

\* Two changes of one user's password do not overlap between taking the time
\* and the commit.  StaleAccessRefused depends on it: the later commit wins,
\* whichever time it took.
ChangesApart ==
    \A p, q \in Req :
        p # q /\ txn[p].op = "changePassword" /\ txn[q].op = "changePassword"
          /\ txn[p].pc # "stamp" /\ txn[q].pc # "stamp"
        => txn[p].user # txn[q].user

\* What transaction s is about to write was read under, or replaces, the
\* password of its user.
Ordered(s) ==
    /\ s.op = "login" \/ (s.op = "refresh" /\ s.pc = "commit") =>
         s.pwdAt <= user[s.user].pwdAt
    /\ s.op = "changePassword" /\ s.pc # "stamp" =>
         user[s.user].pwdAt <= s.pwdAt /\ s.pwdAt <= pwdClock

\* No token was issued under a password that is newer than its user's.
StampsOrdered ==
    /\ \A u \in User : user[u].pwdAt <= pwdClock
    /\ \A t \in Token : Live(t) => row[t].pwdAt <= user[row[t].user].pwdAt
    /\ \A r \in Req : Ordered(txn[r])

-----------------------------------------------------------------------------
(* What the documentation and the tests say, and the code does not do.      *)

\* What the code says of a password change: it ends every session opened
\* under the old password.
SessionsEndWithPassword ==
    \A t \in Token : Active(t) => row[t].authAt = user[row[t].user].pwdAt

\* What RefreshToken says of a replay: the whole family becomes invalid.
ReplayEndsFamily ==
    \A t \in Token : row[t].by = "replayed" => ~FamilyHasActive(row[t].family)

\* What the concurrency test says of logout: a token it revoked first yields
\* no successor.
LoggedOutYieldsNothing ==
    \A t \in Token :
        LET p == row[t].parent IN
          Live(t) /\ p # None /\ Live(p) => row[p].by # "logout"

=============================================================================

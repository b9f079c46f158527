------------------------ MODULE PermissionCache_proofs ------------------------
(***************************************************************************)
(* For every number of users, roles, permissions, workers and requests, any *)
(* time to live and any failures of Redis: a permission check decides on    *)
(* nothing older than TTL plus the length of one miss.  If requests come one *)
(* at a time no cached permissions are stale at all when none is open, and   *)
(* an active administrator remains.  For every number of workers with any    *)
(* codes: the schema and the seed a worker serves with are those of its      *)
(* code, and no start fails because of another one.                          *)
(***************************************************************************)
EXTENDS MCAdministration, MCStartup, FiniteSetTheorems, TLAPS

\* The bounds are numbers.
LEMMA BoundsAreNat ==
  /\ TTL \in Nat /\ TTL > 0 /\ MaxMiss \in Nat
  /\ MaxAge \in Nat /\ MaxAge = TTL + MaxMiss + 1
BY SettingsAssumption DEF MaxAge

LEMMA NoEntryType == NoEntry \in Entry /\ NoEntry.left = 0
BY BoundsAreNat DEF NoEntry, Entry

\* A changed database is still one: the rows of a change name users, roles and
\* permissions there are.
LEMMA AppliedType ==
  ASSUME NEW d \in Db, NEW c \in Change
  PROVE  Applied(d, c) \in Db
<1>1. CASE c \in [kind: {"grant_role", "revoke_role", "set_user_role"}, u: User, ro: Role]
  <2>1. c.u \in User /\ c.ro \in Role
    BY <1>1
  <2>2. CASE c.kind = "grant_role"
    <3>1. Applied(d, c) = [d EXCEPT !.holds = @ \cup {<<c.u, c.ro>>}]
      BY <2>2 DEF Applied
    <3> QED
      BY <2>1, <3>1 DEF Db
  <2>3. CASE c.kind = "revoke_role"
    <3>1. Applied(d, c) = [d EXCEPT !.holds = @ \ {<<c.u, c.ro>>}]
      BY <2>3 DEF Applied
    <3> QED
      BY <2>1, <3>1 DEF Db
  <2>4. CASE c.kind = "set_user_role"
    <3>1. Applied(d, c) = [d EXCEPT !.holds = (@ \ ({c.u} \X Role)) \cup {<<c.u, c.ro>>}]
      BY <2>4 DEF Applied
    <3> QED
      BY <2>1, <3>1 DEF Db
  <2> QED
    BY <1>1, <2>2, <2>3, <2>4
<1>2. CASE c \in [kind: {"grant_permission", "revoke_permission"}, ro: Role, p: Perm]
  <2>1. c.ro \in Role /\ c.p \in Perm
    BY <1>2
  <2>2. CASE c.kind = "grant_permission"
    <3>1. Applied(d, c) = [d EXCEPT !.grants = @ \cup {<<c.ro, c.p>>}]
      BY <2>2 DEF Applied
    <3> QED
      BY <2>1, <3>1 DEF Db
  <2>3. CASE c.kind = "revoke_permission"
    <3>1. Applied(d, c) = [d EXCEPT !.grants = @ \ {<<c.ro, c.p>>}]
      BY <2>3 DEF Applied
    <3> QED
      BY <2>1, <3>1 DEF Db
  <2> QED
    BY <1>2, <2>2, <2>3
<1>3. CASE c \in [kind: {"activate", "deactivate", "delete_role"}, ro: Role]
  <2>1. c.kind \in {"activate", "deactivate", "delete_role"} /\ c.ro \in Role
    BY <1>3
  <2> QED
    BY <2>1 DEF Applied, Db
<1>4. CASE c \in [kind: {"remove_permission"}, p: Perm]
  <2>1. c.kind = "remove_permission" /\ c.p \in Perm
    BY <1>4
  <2> QED
    BY <2>1 DEF Applied, Db
<1>5. CASE c \in [kind: {"create_role", "replace_permissions"}, ro: Role, ps: SUBSET Perm]
  <2>1. c.kind \in {"create_role", "replace_permissions"} /\ c.ro \in Role /\ c.ps \in SUBSET Perm
    BY <1>5
  <2> QED
    BY <2>1 DEF Applied, Db
<1> QED
  BY <1>1, <1>2, <1>3, <1>4, <1>5 DEF Change

\* What is stored is the entry stored or the one that was there.
LEMMA StoredEntries ==
  ASSUME TypeOK, NEW e \in Entry, NEW w \in Worker, NEW u \in User, Stored(e, w, u)
  PROVE  /\ redis' \in [User -> Entry] /\ mem' \in [Worker -> [User -> Entry]]
         /\ healthy' \in [Worker -> BOOLEAN]
         /\ \A v \in User : redis'[v] = redis[v] \/ (v = u /\ redis'[v] = e)
         /\ \A x \in Worker, v \in User : mem'[x][v] = mem[x][v] \/ (v = u /\ mem'[x][v] = e)
<1>1. Remembered(e, w, u) \in [Worker -> [User -> Entry]]
  BY DEF Remembered, TypeOK
<1>2. \A x \in Worker, v \in User :
        Remembered(e, w, u)[x][v] = mem[x][v] \/ (v = u /\ Remembered(e, w, u)[x][v] = e)
  BY DEF Remembered, TypeOK
<1> QED
  BY ZenonT(40), <1>1, <1>2 DEF Stored, TypeOK

\* Deletion leaves an entry alone or removes it.
LEMMA DeletedEntries ==
  ASSUME TypeOK, NEW us \in SUBSET User, NEW w \in Worker, NEW single \in BOOLEAN,
         NEW lost \in BOOLEAN, Deleted(us, w, single, lost)
  PROVE  /\ redis' \in [User -> Entry] /\ mem' \in [Worker -> [User -> Entry]]
         /\ healthy' \in [Worker -> BOOLEAN]
         /\ \A v \in User : redis'[v] = redis[v] \/ redis'[v] = NoEntry
         /\ \A x \in Worker, v \in User : mem'[x][v] = mem[x][v] \/ mem'[x][v] = NoEntry
<1>1. \A c \in [User -> Entry] : /\ Without(c, us) \in [User -> Entry]
                                 /\ \A v \in User : \/ Without(c, us)[v] = c[v]
                                                    \/ Without(c, us)[v] = NoEntry
  BY NoEntryType DEF Without
<1>2. redis \in [User -> Entry] /\ mem[w] \in [User -> Entry]
  BY DEF TypeOK
<1> QED
  BY <1>1, <1>2 DEF Deleted, TypeOK

LEMMA IdleReqType == IdleReq \in ReqRec /\ IdleReq.pc = "idle" /\ IdleReq.who = {}
BY BoundsAreNat DEF IdleReq, ReqRec

-----------------------------------------------------------------------------
LEMMA InitIInv == Init => IInv
<1> SUFFICES ASSUME Init PROVE IInv
  OBVIOUS
<1>1. TypeOK
  <2>1. db \in Db
    BY DEF Init, Db
  <2>2. redis \in [User -> Entry] /\ mem \in [Worker -> [User -> Entry]]
    BY NoEntryType DEF Init
  <2>3. healthy \in [Worker -> BOOLEAN]
    BY SettingsAssumption DEF Init
  <2>4. IdleReq \in ReqRec
    BY IdleReqType
  <2>5. flip \in [User -> [Perm -> 0..MaxAge]]
    BY BoundsAreNat DEF Init
  <2> QED
    BY <2>1, <2>2, <2>3, <2>4, <2>5 DEF Init, TypeOK
<1>2. StalenessBounded
  BY NoEntryType, IdleReqType DEF Init, StalenessBounded, EntryNoStaler
<1>3. OneChecked
  BY IdleReqType DEF Init, OneChecked
<1> QED
  BY <1>1, <1>2, <1>3 DEF IInv

\* A lookup, a plan and an abort touch no entry and start no read.
LEMMA NothingStored ==
  ASSUME IInv, UNCHANGED <<db, redis, mem, flip>>, healthy' \in [Worker -> BOOLEAN],
         req' \in [Req -> ReqRec],
         \A r \in Req : \/ req'[r] = req[r]
                        \/ req'[r].pc \notin {"missed", "read"}
                        \/ req'[r].pc = "missed" /\ \E u \in User : req'[r].who = {u}
  PROVE  IInv'
<1>1. TypeOK'
  BY DEF IInv, TypeOK
<1>2. StalenessBounded'
  <2>2. ASSUME NEW u \in User
        PROVE  EntryNoStaler(redis[u], u)'
    BY <2>2 DEF IInv, StalenessBounded, EntryNoStaler, Contradicted
  <2>3. ASSUME NEW w \in Worker, NEW u \in User
        PROVE  EntryNoStaler(mem[w][u], u)'
    BY <2>3 DEF IInv, StalenessBounded, EntryNoStaler, Contradicted
  <2>4. ASSUME NEW r \in Req, NEW u \in req'[r].who, NEW p \in Perm,
               req'[r].pc = "read", Contradicted(req[r].seen, u, p)'
        PROVE  flip'[u][p] <= req'[r].wait
    BY <2>4 DEF IInv, StalenessBounded, Contradicted
  <2> QED
    BY <2>2, <2>3, <2>4 DEF StalenessBounded
<1>3. OneChecked'
  BY DEF IInv, OneChecked
<1> QED
  BY <1>1, <1>2, <1>3 DEF IInv

\* Each action keeps the bound on staleness.
LEMMA LookUpIInv ==
  ASSUME IInv, NEW r \in Req, NEW u \in User, LookUp(r, u)
  PROVE  IInv'
<1> DEFINE Missed == [IdleReq EXCEPT !.pc = "missed", !.who = {u}]
<1>1. healthy' \in [Worker -> BOOLEAN]
  BY HomeAssumption DEF IInv, TypeOK, LookUp
<1>2. Missed \in ReqRec /\ Missed.pc = "missed" /\ Missed.who = {u}
  BY IdleReqType DEF ReqRec
<1>3. req' = req \/ req' = [req EXCEPT ![r] = Missed]
  BY DEF LookUp
<1> HIDE DEF Missed
<1>4. /\ req' \in [Req -> ReqRec]
      /\ \A x \in Req : req'[x] = req[x] \/ req'[x] = Missed
  BY <1>2, <1>3 DEF IInv, TypeOK
<1> QED
  BY <1>1, <1>2, <1>4, NothingStored DEF LookUp

LEMMA PlanIInv ==
  ASSUME IInv, NEW r \in Req, NEW c \in Change, Plan(r, c)
  PROVE  IInv'
<1> DEFINE Pc == IF Touched(db, c) = {} THEN "cleared" ELSE "planned"
           Planned == [IdleReq EXCEPT !.pc = Pc, !.who = Touched(db, c), !.change = c]
<1>1. Touched(db, c) \in SUBSET User
  <2>1. CASE c.kind \in {"grant_role", "revoke_role"}
    <3>1. c.u \in User
      BY <2>1 DEF Change
    <3> QED
      BY <2>1, <3>1 DEF Touched
  <2>2. CASE c.kind \notin {"grant_role", "revoke_role"}
    BY <2>2 DEF Touched, Holders
  <2> QED
    BY <2>1, <2>2
<1>2. Planned \in ReqRec /\ Planned.pc \in {"cleared", "planned"}
  BY <1>1, IdleReqType DEF ReqRec
<1>3. req' = [req EXCEPT ![r] = Planned]
  BY DEF Plan
<1> HIDE DEF Planned
<1>4. /\ req' \in [Req -> ReqRec]
      /\ \A x \in Req : req'[x] = req[x] \/ req'[x] = Planned
  BY <1>2, <1>3 DEF IInv, TypeOK
<1> QED
  BY <1>2, <1>4, NothingStored DEF Plan, IInv, TypeOK

LEMMA AbortIInv ==
  ASSUME IInv, NEW r \in Req, Abort(r)
  PROVE  IInv'
<1>1. /\ req' \in [Req -> ReqRec]
      /\ \A x \in Req : req'[x] = req[x] \/ req'[x] = IdleReq
  BY IdleReqType DEF IInv, TypeOK, Abort
<1> QED
  BY <1>1, IdleReqType, NothingStored DEF Abort, IInv, TypeOK

\* What a miss has just read contradicts nothing.
LEMMA ReadPermissionsIInv ==
  ASSUME IInv, NEW r \in Req, ReadPermissions(r)
  PROVE  IInv'
<1>1. PICK u \in User : req[r].who = {u}
  BY DEF IInv, OneChecked, ReadPermissions
<1> DEFINE Read == [req[r] EXCEPT !.pc = "read", !.seen = Permissions(db, u)]
<1>2. req' = [req EXCEPT ![r] = Read]
  BY <1>1 DEF ReadPermissions, IInv, TypeOK, ReqRec
<1>3. /\ Read \in ReqRec /\ Read.pc = "read" /\ Read.who = {u}
      /\ Read.seen = Permissions(db, u) /\ Read.wait \in Nat
  <2>1. Permissions(db, u) \in SUBSET Perm
    BY DEF Permissions
  <2>2. req[r] \in ReqRec
    BY DEF IInv, TypeOK
  <2>3. Read \in ReqRec
    BY <2>1, <2>2 DEF ReqRec
  <2>4. Read.pc = "read" /\ Read.who = {u} /\ Read.seen = Permissions(db, u)
        /\ Read.wait = req[r].wait
    BY <1>1, <2>2 DEF ReqRec
  <2>5. req[r].wait \in Nat
    BY <2>2, BoundsAreNat DEF ReqRec
  <2> QED
    BY <2>3, <2>4, <2>5
<1> HIDE DEF Read
<1>4. /\ req' \in [Req -> ReqRec] /\ req'[r] = Read
      /\ \A x \in Req \ {r} : req'[x] = req[x]
  BY <1>2, <1>3 DEF IInv, TypeOK
<1>5. UNCHANGED <<db, redis, mem, healthy, flip>>
  BY DEF ReadPermissions
<1>6. TypeOK'
  BY <1>4, <1>5 DEF IInv, TypeOK
<1>7. OneChecked'
  BY <1>3, <1>4 DEF IInv, OneChecked
<1>8. StalenessBounded'
  <2>1. ASSUME NEW x \in User
        PROVE  EntryNoStaler(redis[x], x)'
    BY <2>1, <1>5 DEF IInv, StalenessBounded, EntryNoStaler, Contradicted
  <2>2. ASSUME NEW w \in Worker, NEW x \in User
        PROVE  EntryNoStaler(mem[w][x], x)'
    BY <2>2, <1>5 DEF IInv, StalenessBounded, EntryNoStaler, Contradicted
  <2>3. ASSUME NEW x \in Req, NEW v \in req'[x].who, NEW p \in Perm,
               req'[x].pc = "read", Contradicted(req[x].seen, v, p)'
        PROVE  flip'[v][p] <= req'[x].wait
    <3>1. CASE x = r
      BY <2>3, <3>1, <1>3, <1>4, <1>5 DEF Contradicted
    <3>2. CASE x # r
      BY <2>3, <3>2, <1>4, <1>5 DEF IInv, StalenessBounded, Contradicted
    <3> QED
      BY <3>1, <3>2
  <2> QED
    BY <2>1, <2>2, <2>3 DEF StalenessBounded
<1> QED
  BY <1>6, <1>7, <1>8 DEF IInv

\* What is stored is as young as the change it contradicts: the request has
\* waited MaxMiss at most.
LEMMA StoreIInv ==
  ASSUME IInv, NEW r \in Req, Store(r)
  PROVE  IInv'
<1>1. PICK u \in User : req[r].who = {u}
  BY DEF IInv, OneChecked, Store
<1>2. req[r] \in ReqRec
  BY DEF IInv, TypeOK
<1>3. [perms |-> req[r].seen, left |-> TTL] \in Entry
  BY <1>2, BoundsAreNat DEF Entry, ReqRec
<1>4. PICK e \in Entry : e.perms = req[r].seen /\ e.left = TTL /\ Stored(e, Home[r], u)
  BY <1>1, <1>3 DEF Store
<1>5. /\ redis' \in [User -> Entry] /\ mem' \in [Worker -> [User -> Entry]]
      /\ healthy' \in [Worker -> BOOLEAN]
      /\ \A v \in User : redis'[v] = redis[v] \/ (v = u /\ redis'[v] = e)
      /\ \A x \in Worker, v \in User : mem'[x][v] = mem[x][v] \/ (v = u /\ mem'[x][v] = e)
  BY <1>4, StoredEntries, HomeAssumption DEF IInv
<1>6. /\ req' \in [Req -> ReqRec]
      /\ \A x \in Req : req'[x] = req[x] \/ req'[x] = IdleReq
      /\ UNCHANGED <<db, flip>>
  BY IdleReqType DEF IInv, TypeOK, Store
<1>7. TypeOK'
  BY <1>5, <1>6 DEF IInv, TypeOK
<1>8. OneChecked'
  BY <1>6, IdleReqType DEF IInv, OneChecked
<1>9. EntryNoStaler(e, u)'
  <2>1. ASSUME NEW p \in Perm, Contradicted(req[r].seen, u, p)
        PROVE  flip[u][p] <= MaxMiss
    <3>1. flip[u][p] <= req[r].wait
      BY <1>1, <2>1 DEF IInv, StalenessBounded, Store
    <3>2. req[r].wait \in 0..MaxMiss /\ flip[u][p] \in 0..MaxAge
      BY <1>2 DEF ReqRec, IInv, TypeOK
    <3> QED
      BY <3>1, <3>2, BoundsAreNat
  <2>2. \A p \in Perm : flip[u][p] \in Nat
    BY BoundsAreNat DEF IInv, TypeOK
  <2> QED
    BY <1>4, <1>6, <2>1, <2>2, BoundsAreNat DEF EntryNoStaler, Contradicted
<1>10. StalenessBounded'
  <2>1. ASSUME NEW v \in User
        PROVE  EntryNoStaler(redis[v], v)'
    <3>1. CASE redis'[v] = redis[v]
      BY <3>1, <1>6 DEF IInv, StalenessBounded, EntryNoStaler, Contradicted
    <3>2. CASE v = u /\ redis'[v] = e
      BY <3>2, <1>9 DEF EntryNoStaler, Contradicted
    <3> QED
      BY <1>5, <3>1, <3>2
  <2>2. ASSUME NEW w \in Worker, NEW v \in User
        PROVE  EntryNoStaler(mem[w][v], v)'
    <3>1. CASE mem'[w][v] = mem[w][v]
      BY <3>1, <1>6 DEF IInv, StalenessBounded, EntryNoStaler, Contradicted
    <3>2. CASE v = u /\ mem'[w][v] = e
      BY <3>2, <1>9 DEF EntryNoStaler, Contradicted
    <3> QED
      BY <1>5, <3>1, <3>2
  <2>3. ASSUME NEW x \in Req, NEW v \in req'[x].who, NEW p \in Perm,
               req'[x].pc = "read", Contradicted(req[x].seen, v, p)'
        PROVE  flip'[v][p] <= req'[x].wait
    BY <2>3, <1>6, IdleReqType DEF IInv, StalenessBounded, Contradicted
  <2> QED
    BY <2>1, <2>2, <2>3 DEF StalenessBounded
<1> QED
  BY <1>7, <1>8, <1>10 DEF IInv

LEMMA InvalidateIInv ==
  ASSUME IInv, NEW r \in Req, Invalidate(r)
  PROVE  IInv'
<1>1. PICK lost \in BOOLEAN :
        /\ Deleted(req[r].who, Home[r], Single(req[r].change), lost)
        /\ req' = [req EXCEPT ![r].pc = "cleared", ![r].failed = lost]
  BY DEF Invalidate
<1> DEFINE Cleared == [req[r] EXCEPT !.pc = "cleared", !.failed = lost]
<1>2. req[r] \in ReqRec
  BY DEF IInv, TypeOK
<1>3. req' = [req EXCEPT ![r] = Cleared]
  BY <1>1 DEF IInv, TypeOK
<1>4. Cleared \in ReqRec /\ Cleared.pc = "cleared"
  BY <1>2 DEF ReqRec
<1> HIDE DEF Cleared
<1>5. /\ req' \in [Req -> ReqRec]
      /\ \A x \in Req : req'[x] = req[x] \/ req'[x].pc = "cleared"
      /\ UNCHANGED <<db, flip>>
  BY <1>3, <1>4 DEF IInv, TypeOK, Invalidate
<1>6. /\ redis' \in [User -> Entry] /\ mem' \in [Worker -> [User -> Entry]]
      /\ healthy' \in [Worker -> BOOLEAN]
      /\ \A v \in User : redis'[v] = redis[v] \/ redis'[v] = NoEntry
      /\ \A x \in Worker, v \in User : mem'[x][v] = mem[x][v] \/ mem'[x][v] = NoEntry
  <2>1. req[r].who \in SUBSET User
    BY <1>2 DEF ReqRec
  <2>2. Home[r] \in Worker /\ Single(req[r].change) \in BOOLEAN
    BY HomeAssumption DEF Single
  <2> QED
    BY <1>1, <2>1, <2>2, DeletedEntries DEF IInv
<1>7. TypeOK'
  BY <1>5, <1>6 DEF IInv, TypeOK
<1>8. OneChecked'
  BY <1>5 DEF IInv, OneChecked
<1>9. StalenessBounded'
  <2>1. ASSUME NEW v \in User
        PROVE  EntryNoStaler(redis[v], v)'
    BY <2>1, <1>5, <1>6, NoEntryType
       DEF IInv, StalenessBounded, EntryNoStaler, Contradicted
  <2>2. ASSUME NEW w \in Worker, NEW v \in User
        PROVE  EntryNoStaler(mem[w][v], v)'
    BY <2>2, <1>5, <1>6, NoEntryType
       DEF IInv, StalenessBounded, EntryNoStaler, Contradicted
  <2>3. ASSUME NEW x \in Req, NEW v \in req'[x].who, NEW p \in Perm,
               req'[x].pc = "read", Contradicted(req[x].seen, v, p)'
        PROVE  flip'[v][p] <= req'[x].wait
    BY <2>3, <1>5 DEF IInv, StalenessBounded, Contradicted
  <2> QED
    BY <2>1, <2>2, <2>3 DEF StalenessBounded
<1> QED
  BY <1>7, <1>8, <1>9 DEF IInv

\* A commit that changes what a user has makes the change new; what it does not
\* change it contradicts no more than before.
LEMMA CommitIInv ==
  ASSUME IInv, NEW r \in Req, Commit(r)
  PROVE  IInv'
<1>1. /\ req' \in [Req -> ReqRec]
      /\ \A x \in Req : req'[x] = req[x] \/ req'[x] = IdleReq
      /\ UNCHANGED <<redis, mem, healthy>>
  BY IdleReqType DEF IInv, TypeOK, Commit
<1>2. db' \in Db
  <2>1. req[r].change \in Change \cup {NoChange}
    BY DEF IInv, TypeOK, ReqRec
  <2>2. req[r].change \in Change
    BY <2>1 DEF Commit, Applicable, NoChange
  <2> QED
    BY <2>2, AppliedType DEF Commit, IInv, TypeOK
<1>3. \A u \in User, p \in Perm :
        flip'[u][p] = IF (p \in Permissions(db, u)) = (p \in Permissions(db', u))
                        THEN flip[u][p] ELSE 0
  BY DEF Commit, Flipped
<1>4. flip' \in [User -> [Perm -> 0..MaxAge]]
  BY BoundsAreNat DEF Commit, Flipped, IInv, TypeOK
<1>5. TypeOK'
  BY <1>1, <1>2, <1>4 DEF IInv, TypeOK
<1>6. OneChecked'
  BY <1>1, IdleReqType DEF IInv, OneChecked
<1>7. ASSUME NEW s, NEW u \in User, NEW p \in Perm, Contradicted(s, u, p)'
      PROVE  flip'[u][p] = 0 \/ (flip'[u][p] = flip[u][p] /\ Contradicted(s, u, p))
  BY <1>3, <1>7 DEF Contradicted
<1>8. ASSUME NEW e \in Entry, NEW u \in User, EntryNoStaler(e, u)
      PROVE  EntryNoStaler(e, u)'
  <2>1. e.left \in 0..TTL
    BY DEF Entry
  <2> QED
    BY <1>7, <1>8, <2>1, BoundsAreNat DEF EntryNoStaler
<1>9. StalenessBounded'
  <2>1. ASSUME NEW v \in User
        PROVE  EntryNoStaler(redis[v], v)'
    <3>1. PICK e \in Entry : e = redis[v] /\ EntryNoStaler(e, v)
      BY <2>1 DEF IInv, TypeOK, StalenessBounded
    <3> QED
      BY <3>1, <1>1, <1>8 DEF EntryNoStaler, Contradicted
  <2>2. ASSUME NEW w \in Worker, NEW v \in User
        PROVE  EntryNoStaler(mem[w][v], v)'
    <3>1. PICK e \in Entry : e = mem[w][v] /\ EntryNoStaler(e, v)
      BY <2>2 DEF IInv, TypeOK, StalenessBounded
    <3> QED
      BY <3>1, <1>1, <1>8 DEF EntryNoStaler, Contradicted
  <2>3. ASSUME NEW x \in Req, NEW v \in req'[x].who, NEW p \in Perm,
               req'[x].pc = "read", Contradicted(req[x].seen, v, p)'
        PROVE  flip'[v][p] <= req'[x].wait
    <3>1. req'[x] = req[x] /\ req[x] \in ReqRec
      BY <2>3, <1>1, IdleReqType DEF IInv, TypeOK
    <3>2. v \in User /\ req[x].wait \in Nat
      BY <3>1, BoundsAreNat DEF ReqRec
    <3>3. PICK s : s = req[x].seen
      OBVIOUS
    <3>4. Contradicted(s, v, p)'
      BY <2>3, <3>1, <3>3 DEF Contradicted
    <3> QED
      BY <2>3, <3>1, <3>2, <3>3, <3>4, <1>7 DEF IInv, StalenessBounded
  <2> QED
    BY <2>1, <2>2, <2>3 DEF StalenessBounded
<1> QED
  BY <1>5, <1>6, <1>9 DEF IInv

\* Entries, waiting requests and changes grow older together.
LEMMA TickIInv ==
  ASSUME IInv, Tick
  PROVE  IInv'
<1>1. ASSUME NEW e \in Entry
      PROVE  /\ Older(e) \in Entry
             /\ Older(e).left > 0 => Older(e).perms = e.perms /\ Older(e).left = e.left - 1
  BY BoundsAreNat, NoEntryType DEF Older, Entry
<1>2. \A x \in Req : IF req[x].pc = "read"
                       THEN req'[x] = [req[x] EXCEPT !.wait = @ + 1] ELSE req'[x] = req[x]
  BY DEF Tick
<1>3. \A x \in Req : /\ req'[x] \in ReqRec /\ req'[x].pc = req[x].pc
                     /\ req'[x].who = req[x].who /\ req'[x].seen = req[x].seen
                     /\ req[x].pc = "read" => req'[x].wait = req[x].wait + 1
  <2> TAKE x \in Req
  <2>1. req[x] \in ReqRec
    BY DEF IInv, TypeOK
  <2>2. CASE req[x].pc = "read"
    <3>1. req[x].wait \in 0..MaxMiss /\ req[x].wait < MaxMiss
      BY <2>1, <2>2 DEF ReqRec, Tick
    <3>2. req[x].wait + 1 \in 0..MaxMiss
      BY <3>1, BoundsAreNat
    <3>3. req'[x] = [req[x] EXCEPT !.wait = req[x].wait + 1]
      BY <1>2, <2>2
    <3> QED
      BY <2>1, <2>2, <3>2, <3>3 DEF ReqRec
  <2>3. CASE req[x].pc # "read"
    BY <1>2, <2>1, <2>3
  <2> QED
    BY <2>2, <2>3
<1>4. req' \in [Req -> ReqRec]
  BY <1>3 DEF Tick
<1>5. /\ redis' = [u \in User |-> Older(redis[u])]
      /\ mem' = [w \in Worker |-> [u \in User |-> Older(mem[w][u])]]
      /\ db' = db /\ healthy' = healthy
  BY DEF Tick
<1>6. \A u \in User, p \in Perm :
        /\ flip[u][p] \in 0..MaxAge /\ flip'[u][p] \in 0..MaxAge
        /\ flip'[u][p] <= flip[u][p] + 1
  BY BoundsAreNat DEF Tick, IInv, TypeOK
<1>7. TypeOK'
  <2>1. redis' \in [User -> Entry] /\ mem' \in [Worker -> [User -> Entry]]
    BY <1>1, <1>5 DEF IInv, TypeOK
  <2>2. flip' \in [User -> [Perm -> 0..MaxAge]]
    BY <1>6 DEF Tick
  <2> QED
    BY <1>4, <1>5, <2>1, <2>2 DEF IInv, TypeOK
<1>8. OneChecked'
  BY <1>3 DEF IInv, OneChecked
<1>9. ASSUME NEW e \in Entry, NEW u \in User, EntryNoStaler(e, u)
      PROVE  EntryNoStaler(Older(e), u)'
  <2>1. SUFFICES ASSUME NEW p \in Perm, Older(e).left > 0, Contradicted(e.perms, u, p)
                 PROVE  flip'[u][p] + Older(e).left <= TTL + MaxMiss
    BY <1>1, <1>5 DEF EntryNoStaler, Contradicted
  <2>2. e.left > 0 /\ Older(e).left = e.left - 1 /\ e.left \in 0..TTL
    BY <1>1, <2>1, BoundsAreNat DEF Entry
  <2>3. flip[u][p] + e.left <= TTL + MaxMiss
    BY <1>9, <2>1, <2>2 DEF EntryNoStaler
  <2> QED
    BY <1>6, <2>2, <2>3, BoundsAreNat
<1>10. StalenessBounded'
  <2>1. ASSUME NEW v \in User
        PROVE  EntryNoStaler(redis[v], v)'
    <3>1. PICK e \in Entry : e = redis[v] /\ EntryNoStaler(e, v)
      BY <2>1 DEF IInv, TypeOK, StalenessBounded
    <3>2. redis'[v] = Older(e)
      BY <3>1, <1>5
    <3> QED
      BY <3>1, <3>2, <1>9 DEF EntryNoStaler, Contradicted
  <2>2. ASSUME NEW w \in Worker, NEW v \in User
        PROVE  EntryNoStaler(mem[w][v], v)'
    <3>1. PICK e \in Entry : e = mem[w][v] /\ EntryNoStaler(e, v)
      BY <2>2 DEF IInv, TypeOK, StalenessBounded
    <3>2. mem'[w][v] = Older(e)
      BY <3>1, <1>5
    <3> QED
      BY <3>1, <3>2, <1>9 DEF EntryNoStaler, Contradicted
  <2>3. ASSUME NEW x \in Req, NEW v \in req'[x].who, NEW p \in Perm,
               req'[x].pc = "read", Contradicted(req[x].seen, v, p)'
        PROVE  flip'[v][p] <= req'[x].wait
    <3>1. v \in User /\ req[x].wait \in Nat
      BY <2>3, <1>3, BoundsAreNat DEF IInv, TypeOK, ReqRec
    <3>2. flip[v][p] <= req[x].wait
      BY <2>3, <1>3, <1>5 DEF IInv, StalenessBounded, Contradicted
    <3> QED
      BY <2>3, <3>1, <3>2, <1>3, <1>6, BoundsAreNat
  <2> QED
    BY <2>1, <2>2, <2>3 DEF StalenessBounded
<1> QED
  BY <1>7, <1>8, <1>10 DEF IInv

-----------------------------------------------------------------------------
\* All of them together.
LEMMA NextIInv == IInv /\ [Next]_vars => IInv'
<1> SUFFICES ASSUME IInv, [Next]_vars PROVE IInv'
  OBVIOUS
<1>1. CASE UNCHANGED vars
  BY <1>1 DEF vars, IInv, TypeOK, OneChecked, StalenessBounded, EntryNoStaler, Contradicted
<1>2. CASE \E r \in Req : Check(r) \/ Alter(r) \/ (\E c \in Change : Plan(r, c))
  BY <1>2, LookUpIInv, ReadPermissionsIInv, StoreIInv, PlanIInv, InvalidateIInv, CommitIInv,
     AbortIInv DEF Check, Alter
<1>3. CASE Tick
  BY <1>3, TickIInv
<1> QED
  BY <1>1, <1>2, <1>3 DEF Next

\* However requests interleave, whatever Redis loses and however many workers
\* keep memories of their own, no check decides on permissions that changed more
\* than TTL plus the length of one miss ago (get_user_permissions).
THEOREM SpecIInv == Spec => []IInv
  BY InitIInv, NextIInv, PTL DEF Spec

-----------------------------------------------------------------------------
(* One request at a time, and a Redis that answers *)

\* What the scene "serial" leaves of a step.
SerialStep ==
    /\ healthy' = healthy
    /\ \A r \in Req \ {r1} : Idle(r)'
    /\ \A r \in Req : req'[r].change.kind # "set_user_role"

\* Two states of the tables agree on the roles of a user and on what is granted to them.
SameRows(d, e, u) ==
    \A ro \in Role :
      /\ <<u, ro>> \in d.holds <=> <<u, ro>> \in e.holds
      /\ <<u, ro>> \in d.holds =>
           /\ e.role[ro] = d.role[ro]
           /\ \A p \in Perm : <<ro, p>> \in d.grants <=> <<ro, p>> \in e.grants

\* Nothing else gives permissions.
LEMMA SamePermissions ==
  ASSUME NEW d, NEW e, NEW u, SameRows(d, e, u) PROVE Permissions(e, u) = Permissions(d, u)
<1>1. \A p \in Perm : p \in Permissions(d, u) <=> p \in Permissions(e, u)
  BY DEF Permissions, SameRows
<1> QED
  BY <1>1 DEF Permissions

\* A change announced to the users it touches changes nothing for the others.
LEMMA UntouchedKeep ==
  ASSUME NEW d \in Db, NEW c \in Change, c.kind # "set_user_role", NEW u \in User, u \notin Touched(d, c)
  PROVE  Permissions(Applied(d, c), u) = Permissions(d, u)
<1> SUFFICES ASSUME NEW e, e = Applied(d, c) PROVE Permissions(e, u) = Permissions(d, u)
  OBVIOUS
<1>0. d = [holds |-> d.holds, grants |-> d.grants, role |-> d.role] /\ d.role \in [Role -> {"absent", "active", "inactive"}]
  BY DEF Db
<1>1. CASE c.kind \in {"grant_role", "revoke_role"}
  <2>1. c.u # u
    BY <1>1 DEF Touched
  <2>2. CASE c.kind = "grant_role"
    <3>1. e = [d EXCEPT !.holds = d.holds \cup {<<c.u, c.ro>>}]
      BY <2>2 DEF Applied
    <3>2. e.holds = d.holds \cup {<<c.u, c.ro>>} /\ e.grants = d.grants /\ e.role = d.role
      BY <1>0, <3>1
    <3> QED
      BY <2>1, <3>2, SamePermissions DEF SameRows
  <2>3. CASE c.kind = "revoke_role"
    <3>1. e = [d EXCEPT !.holds = d.holds \ {<<c.u, c.ro>>}]
      BY <2>3 DEF Applied
    <3>2. e.holds = d.holds \ {<<c.u, c.ro>>} /\ e.grants = d.grants /\ e.role = d.role
      BY <1>0, <3>1
    <3> QED
      BY <2>1, <3>2, SamePermissions DEF SameRows
  <2> QED
    BY <1>1, <2>2, <2>3
<1>2. CASE c.kind = "remove_permission"
  <2>1. \A ro \in Role : <<u, ro>> \in d.holds => <<ro, c.p>> \notin d.grants
    BY <1>2 DEF Touched, Holders
  <2>2. e = [d EXCEPT !.grants = d.grants \ (Role \X {c.p})]
    BY <1>2 DEF Applied
  <2>3. e.holds = d.holds /\ e.grants = d.grants \ (Role \X {c.p}) /\ e.role = d.role
    BY <1>0, <2>2
  <2> QED
    BY <2>1, <2>3, SamePermissions DEF SameRows
<1>3. CASE c.kind \notin {"grant_role", "revoke_role", "remove_permission"}
  <2>1. <<u, c.ro>> \notin d.holds
    BY <1>3 DEF Touched, Holders
  <2>2. c.ro \in Role
    BY <1>3 DEF Change
  <2>3. /\ e.holds \in {d.holds, d.holds \ (User \X {c.ro})}
        /\ \A ro \in Role : ro # c.ro =>
             e.role[ro] = d.role[ro] /\ \A p \in Perm : <<ro, p>> \in d.grants <=> <<ro, p>> \in e.grants
    <3>1. CASE c.kind = "grant_permission"
      <4>1. e = [d EXCEPT !.grants = d.grants \cup {<<c.ro, c.p>>}]
        BY <3>1 DEF Applied
      <4>2. e.holds = d.holds /\ e.grants = d.grants \cup {<<c.ro, c.p>>} /\ e.role = d.role
        BY <1>0, <4>1
      <4> QED
        BY <4>2
    <3>2. CASE c.kind = "revoke_permission"
      <4>1. e = [d EXCEPT !.grants = d.grants \ {<<c.ro, c.p>>}]
        BY <3>2 DEF Applied
      <4>2. e.holds = d.holds /\ e.grants = d.grants \ {<<c.ro, c.p>>} /\ e.role = d.role
        BY <1>0, <4>1
      <4> QED
        BY <4>2
    <3>3. CASE c.kind \in {"activate", "deactivate"}
      <4>1. PICK s \in {"active", "inactive"} : e = [d EXCEPT !.role = [d.role EXCEPT ![c.ro] = s]]
        BY <3>3 DEF Applied
      <4>2. e.holds = d.holds /\ e.grants = d.grants /\ e.role = [d.role EXCEPT ![c.ro] = s]
        BY <1>0, <4>1
      <4> QED
        BY <1>0, <4>2
    <3>4. CASE c.kind = "delete_role"
      <4>1. /\ e.holds = d.holds \ (User \X {c.ro}) /\ e.grants = d.grants \ ({c.ro} \X Perm)
            /\ e.role = [d.role EXCEPT ![c.ro] = "absent"]
        BY <3>4 DEF Applied
      <4> QED
        BY <1>0, <4>1
    <3>5. CASE c.kind = "create_role"
      <4>1. e = [d EXCEPT !.grants = (d.grants \ ({c.ro} \X Perm)) \cup ({c.ro} \X c.ps),
                          !.role = [d.role EXCEPT ![c.ro] = "active"]]
        BY <3>5 DEF Applied
      <4>2. /\ e.holds = d.holds /\ e.grants = (d.grants \ ({c.ro} \X Perm)) \cup ({c.ro} \X c.ps)
            /\ e.role = [d.role EXCEPT ![c.ro] = "active"]
        BY <1>0, <4>1
      <4> QED
        BY <1>0, <4>2
    <3>6. CASE c.kind = "replace_permissions"
      <4>1. e = [d EXCEPT !.grants = (d.grants \ ({c.ro} \X Perm)) \cup ({c.ro} \X c.ps)]
        BY <3>6 DEF Applied
      <4>2. /\ e.holds = d.holds /\ e.grants = (d.grants \ ({c.ro} \X Perm)) \cup ({c.ro} \X c.ps)
            /\ e.role = d.role
        BY <1>0, <4>1
      <4> QED
        BY <4>2
    <3> QED
      BY <1>3, <3>1, <3>2, <3>3, <3>4, <3>5, <3>6 DEF Change
  <2>4. \A ro \in Role : <<u, ro>> \in d.holds <=> <<u, ro>> \in e.holds
    BY <2>1, <2>3
  <2>5. \A ro \in Role : <<u, ro>> \in d.holds => ro # c.ro
    BY <2>1
  <2>6. SameRows(d, e, u)
    <3> SUFFICES ASSUME NEW ro \in Role, <<u, ro>> \in d.holds
                 PROVE  /\ e.role[ro] = d.role[ro]
                        /\ \A p \in Perm : <<ro, p>> \in d.grants <=> <<ro, p>> \in e.grants
      BY <2>4 DEF SameRows
    <3> QED
      BY <2>3, <2>5
  <2> QED
    BY <2>6, SamePermissions
<1> QED
  BY <1>1, <1>2, <1>3

\* What a step does that stores and deletes nothing.
LEMMA QuietFresh ==
  ASSUME OneStore, EntriesFresh, RequestFresh, SerialStep, UNCHANGED <<db, redis, mem>>,
         \A r \in Req :
           \/ req'[r] = req[r]
           \/ req'[r].pc \in {"idle", "missed"}
           \/ req'[r].pc = "read" /\ \A u \in req'[r].who : req'[r].seen = Permissions(db, u)
           \/ /\ req'[r].pc \in {"planned", "cleared"} /\ req'[r].change \in Change
              /\ req'[r].who = Touched(db, req'[r].change)
              /\ req'[r].pc = "cleared" => req'[r].who = {}
  PROVE  OneStore' /\ EntriesFresh' /\ RequestFresh'
<1>1. OneStore'
  BY DEF OneStore, SerialStep
<1>2. EntriesFresh'
  BY DEF EntriesFresh, Fresh
<1>3. RequestFresh'
  BY DEF RequestFresh, SerialStep
<1> QED
  BY <1>1, <1>2, <1>3

\* Store: what the miss read is still what the database holds.
LEMMA StoreFresh ==
  ASSUME IInv, OneStore, EntriesFresh, RequestFresh, SerialStep, NEW r \in Req, Store(r)
  PROVE  OneStore' /\ EntriesFresh' /\ RequestFresh'
<1>1. r = r1
  BY DEF OneStore, Store, Idle
<1>2. PICK u \in User : req[r].who = {u}
  BY DEF IInv, OneChecked, Store
<1>3. req[r] \in ReqRec
  BY DEF IInv, TypeOK
<1>4. [perms |-> req[r].seen, left |-> TTL] \in Entry
  BY <1>3, BoundsAreNat DEF Entry, ReqRec
<1>5. PICK e \in Entry : e.perms = req[r].seen /\ Stored(e, Home[r], u)
  BY <1>2, <1>4 DEF Store
<1>6. e.perms = Permissions(db, u)
  BY <1>2, <1>5 DEF RequestFresh, Store
<1>7. Home[r] \in Worker
  BY HomeAssumption
<1>8. /\ \A v \in User : redis'[v] = redis[v] \/ (v = u /\ redis'[v] = e)
      /\ \A x \in Worker, v \in User : mem'[x][v] = mem[x][v] \/ (v = u /\ mem'[x][v] = e)
  BY <1>5, <1>7, StoredEntries DEF IInv
<1>9. HasRedis => mem' = mem
  BY <1>5, <1>7 DEF Stored, OneStore, SerialStep, MayStayLocal, IInv, TypeOK
<1>10. ~HasRedis => redis' = redis /\ \A x \in Worker \ {Home[r]} : mem'[x] = mem[x]
  BY <1>5, <1>7 DEF Stored, Remembered, IInv, TypeOK
<1>11. db' = db /\ \A x \in Req : req'[x] = req[x] \/ req'[x].pc = "idle"
  BY IdleReqType DEF Store, IInv, TypeOK
<1>12. OneStore'
  BY <1>1, <1>9, <1>10 DEF OneStore, SerialStep
<1>13. EntriesFresh'
  BY <1>6, <1>8, <1>11 DEF EntriesFresh, Fresh
<1>14. RequestFresh'
  <2>1. \A x \in Req : req'[x].pc \notin {"read", "planned", "cleared"}
    BY <1>1, <1>3, IdleReqType DEF SerialStep, Idle, Store, IInv, TypeOK
  <2> QED
    BY <2>1 DEF RequestFresh
<1> QED
  BY <1>12, <1>13, <1>14

\* Invalidate: the entries of all the users the change touches go, wherever they are.
LEMMA InvalidateFresh ==
  ASSUME IInv, OneStore, EntriesFresh, RequestFresh, SerialStep, NEW r \in Req, Invalidate(r)
  PROVE  OneStore' /\ EntriesFresh' /\ RequestFresh'
<1>1. r = r1
  BY DEF OneStore, Invalidate, Idle
<1>2. PICK lost \in BOOLEAN :
        /\ Deleted(req[r].who, Home[r], Single(req[r].change), lost)
        /\ req' = [req EXCEPT ![r].pc = "cleared", ![r].failed = lost]
  BY DEF Invalidate
<1>3. req[r] \in ReqRec /\ Home[r] \in Worker
  BY HomeAssumption DEF IInv, TypeOK
<1>4. mem' = [mem EXCEPT ![Home[r]] = Without(mem[Home[r]], req[r].who)]
  BY <1>2 DEF Deleted
<1>5. HasRedis => redis' = Without(redis, req[r].who)
  BY <1>2, <1>3 DEF Deleted, OneStore, SerialStep, MayStayLocal, IInv, TypeOK
<1>6. ~HasRedis => redis' = redis
  BY <1>2 DEF Deleted
<1>7. \A c \in [User -> Entry], v \in User :
        Without(c, req[r].who)[v] = IF v \in req[r].who THEN NoEntry ELSE c[v]
  BY DEF Without
<1>8. /\ redis \in [User -> Entry] /\ mem \in [Worker -> [User -> Entry]]
  BY DEF IInv, TypeOK
<1>9. \A v \in User : \/ redis'[v] = redis[v] /\ (HasRedis => v \notin req[r].who)
                      \/ redis'[v] = NoEntry /\ HasRedis
  BY <1>5, <1>6, <1>7, <1>8
<1>10. /\ \A x \in Worker \ {Home[r]} : mem'[x] = mem[x]
       /\ \A v \in User : mem'[Home[r]][v] = IF v \in req[r].who THEN NoEntry ELSE mem[Home[r]][v]
  BY <1>3, <1>4, <1>7, <1>8
<1>11. /\ req'[r].pc = "cleared" /\ req'[r].change = req[r].change /\ req'[r].who = req[r].who
       /\ db' = db
  BY <1>2, <1>3 DEF IInv, TypeOK, ReqRec, Invalidate
<1>12. OneStore'
  BY <1>1, <1>3, <1>9, <1>10, NoEntryType DEF OneStore, SerialStep
<1>13. EntriesFresh'
  <2>1. \A v \in User : Fresh(redis[v], v)'
    BY <1>9, <1>11, NoEntryType DEF EntriesFresh, Fresh
  <2>2. \A x \in Worker, v \in User : Fresh(mem[x][v], v)'
    BY <1>3, <1>10, <1>11, NoEntryType DEF EntriesFresh, Fresh
  <2> QED
    BY <2>1, <2>2 DEF EntriesFresh
<1>14. RequestFresh'
  <2>1. \A x \in Req : x # r => req'[x].pc = "idle"
    BY <1>1 DEF SerialStep, Idle
  <2>2. req[r].change \in Change /\ req[r].who = Touched(db, req[r].change)
        /\ req[r].change.kind # "set_user_role" /\ req[r].who \subseteq User
    BY <1>3 DEF RequestFresh, Invalidate, ReqRec
  <2>3. \A u \in req[r].who : redis'[u].left = 0
    BY <1>9, <2>2, NoEntryType DEF OneStore
  <2>4. \A u \in req[r].who, w \in Worker : mem'[w][u].left = 0
    BY <1>1, <1>10, <2>2, NoEntryType DEF OneStore
  <2> QED
    BY <1>11, <2>1, <2>2, <2>3, <2>4 DEF RequestFresh
<1> QED
  BY <1>12, <1>13, <1>14

\* Commit: what the change makes stale was deleted, and nobody has stored since.
LEMMA CommitFresh ==
  ASSUME IInv, OneStore, EntriesFresh, RequestFresh, SerialStep, NEW r \in Req, Commit(r)
  PROVE  OneStore' /\ EntriesFresh' /\ RequestFresh'
<1> DEFINE c == req[r].change
<1>1. r = r1
  BY DEF OneStore, Commit, Idle
<1>2. /\ c \in Change /\ c.kind # "set_user_role" /\ req[r].who = Touched(db, c)
      /\ \A u \in req[r].who : redis[u].left = 0 /\ \A w \in Worker : mem[w][u].left = 0
  BY DEF RequestFresh, Commit
<1>3. db \in Db /\ db' = Applied(db, c) /\ UNCHANGED <<redis, mem>>
  BY DEF IInv, TypeOK, Commit
<1>4. \A u \in User \ req[r].who : Permissions(db', u) = Permissions(db, u)
  BY <1>2, <1>3, UntouchedKeep
<1>5. \A x \in Req : req'[x].pc = "idle"
  BY <1>1, IdleReqType DEF SerialStep, Idle, Commit, IInv, TypeOK
<1>6. OneStore'
  BY <1>3 DEF OneStore, SerialStep
<1>7. EntriesFresh'
  <2>1. ASSUME NEW u \in User PROVE Fresh(redis[u], u)' /\ \A w \in Worker : Fresh(mem[w][u], u)'
    <3>1. CASE u \in req[r].who
      BY <1>2, <1>3, <3>1 DEF Fresh
    <3>2. CASE u \notin req[r].who
      BY <1>3, <1>4, <3>2 DEF EntriesFresh, Fresh
    <3> QED
      BY <3>1, <3>2
  <2> QED
    BY <2>1 DEF EntriesFresh
<1>8. RequestFresh'
  BY <1>5 DEF RequestFresh
<1> QED
  BY <1>6, <1>7, <1>8

\* Time makes no entry wrong.
LEMMA TickFresh ==
  ASSUME IInv, OneStore, EntriesFresh, RequestFresh, SerialStep, Tick
  PROVE  OneStore' /\ EntriesFresh' /\ RequestFresh'
<1>1. ASSUME NEW e \in Entry
      PROVE  /\ e.left = 0 => Older(e).left = 0
             /\ Older(e).left > 0 => e.left > 0 /\ Older(e).perms = e.perms
  BY NoEntryType, BoundsAreNat DEF Older, Entry
<1>2. /\ redis \in [User -> Entry] /\ mem \in [Worker -> [User -> Entry]] /\ req \in [Req -> ReqRec]
  BY DEF IInv, TypeOK
<1>3. /\ \A u \in User : redis'[u] = Older(redis[u]) /\ redis[u] \in Entry
      /\ \A w \in Worker, u \in User : mem'[w][u] = Older(mem[w][u]) /\ mem[w][u] \in Entry
      /\ db' = db
  BY <1>2 DEF Tick
<1>4. \A r \in Req : req'[r].pc = req[r].pc /\ req'[r].who = req[r].who /\ req'[r].seen = req[r].seen
                     /\ req'[r].change = req[r].change
  BY <1>2 DEF Tick, ReqRec
<1>5. OneStore'
  BY <1>1, <1>3 DEF OneStore, SerialStep
<1>6. EntriesFresh'
  BY <1>1, <1>3 DEF EntriesFresh, Fresh
<1>7. RequestFresh'
  <2>1. ASSUME NEW r \in Req, req[r].pc = "cleared", NEW u \in req[r].who
        PROVE  redis'[u].left = 0 /\ \A w \in Worker : mem'[w][u].left = 0
    <3>1. u \in User
      BY <1>2, <2>1 DEF ReqRec
    <3>2. redis[u].left = 0 /\ \A w \in Worker : mem[w][u].left = 0
      BY <2>1 DEF RequestFresh
    <3> QED
      BY <1>1, <1>3, <3>1, <3>2
  <2> QED
    BY <1>3, <1>4, <2>1 DEF RequestFresh
<1> QED
  BY <1>5, <1>6, <1>7

\* Every step of a request that is alone keeps the entries fresh.
LEMMA SerialFresh ==
  ASSUME IInv, OneStore, EntriesFresh, RequestFresh, SerialStep, Next
  PROVE  OneStore' /\ EntriesFresh' /\ RequestFresh'
<1>0. req \in [Req -> ReqRec]
  BY DEF IInv, TypeOK
<1>1. ASSUME NEW r \in Req, NEW u \in User, LookUp(r, u) PROVE OneStore' /\ EntriesFresh' /\ RequestFresh'
  <2>1. \A x \in Req : req'[x] = req[x] \/ req'[x].pc = "missed"
    BY <1>0, <1>1 DEF LookUp, IdleReq
  <2> QED
    BY <1>1, <2>1, QuietFresh DEF LookUp
<1>2. ASSUME NEW r \in Req, ReadPermissions(r) PROVE OneStore' /\ EntriesFresh' /\ RequestFresh'
  <2>1. PICK u \in User : req[r].who = {u}
    BY <1>2 DEF IInv, OneChecked, ReadPermissions
  <2>2. req' = [req EXCEPT ![r].pc = "read", ![r].seen = Permissions(db, u)]
    BY <1>2, <2>1 DEF ReadPermissions
  <2>3. req'[r].pc = "read" /\ req'[r].who = {u} /\ req'[r].seen = Permissions(db, u)
        /\ \A x \in Req : x # r => req'[x] = req[x]
    BY <1>0, <2>1, <2>2 DEF ReqRec
  <2> QED
    BY <1>2, <2>3, QuietFresh DEF ReadPermissions
<1>3. ASSUME NEW r \in Req, NEW c \in Change, Plan(r, c) PROVE OneStore' /\ EntriesFresh' /\ RequestFresh'
  <2>1. /\ req'[r].pc \in {"planned", "cleared"} /\ req'[r].change = c /\ req'[r].who = Touched(db, c)
        /\ req'[r].pc = "cleared" => Touched(db, c) = {}
        /\ \A x \in Req : x # r => req'[x] = req[x]
    BY <1>0, <1>3 DEF Plan, IdleReq
  <2> QED
    BY <1>3, <2>1, QuietFresh DEF Plan
<1>4. ASSUME NEW r \in Req, Abort(r) PROVE OneStore' /\ EntriesFresh' /\ RequestFresh'
  <2>1. \A x \in Req : req'[x] = req[x] \/ req'[x].pc = "idle"
    BY <1>0, <1>4, IdleReqType DEF Abort
  <2> QED
    BY <1>4, <2>1, QuietFresh DEF Abort
<1> QED
  BY <1>1, <1>2, <1>3, <1>4, StoreFresh, InvalidateFresh, CommitFresh, TickFresh DEF Next, Check, Alter

\* What any worker answers is an entry of Redis or of its memory.
LEMMA AnswersAreEntries ==
  ASSUME NEW w \in Worker, NEW u \in User, NEW e, NEW well, Answers(w, u, e, well), e.left > 0
  PROVE  e = redis[u] \/ e = mem[w][u]
<1>1. Fallen(w, u).left > 0 => Fallen(w, u) = mem[w][u]
  BY NoEntryType DEF Fallen
<1> QED
  BY <1>1 DEF Answers

\* The invariant of the scene, beside that of every scene.
LEMMA CacheStep ==
  ASSUME IInv, SerialInv, ServiceNext
  PROVE  IInv' /\ SerialInv'
<1>1. CASE UNCHANGED CacheVars
  <2>1. UNCHANGED vars /\ scene' = scene
    BY <1>1 DEF CacheVars
  <2>2. IInv'
    BY <2>1, NextIInv
  <2>3. SerialInv'
    BY <2>1 DEF vars, SerialInv, OneStore, EntriesFresh, RequestFresh, Fresh, Idle
  <2> QED
    BY <2>2, <2>3
<1>2. CASE SceneNext
  <2>1. IInv'
    BY <1>2, NextIInv DEF SceneNext
  <2>2. ASSUME scene = "serial" PROVE OneStore' /\ EntriesFresh' /\ RequestFresh'
    <3>1. OneStore /\ EntriesFresh /\ RequestFresh /\ Next
      BY <1>2, <2>2 DEF SerialInv, SceneNext
    <3>2. SerialStep
      <4>1. ASSUME NEW r \in Req
            PROVE  healthy' = healthy /\ (r # r1 => Idle(r)') /\ req'[r].change.kind # "set_user_role"
        BY <1>2, <2>2 DEF SceneNext
      <4>2. healthy' = healthy
        BY <3>1, <4>1 DEF Next, Tick
      <4> QED
        BY <4>1, <4>2 DEF SerialStep
    <3> QED
      BY <3>1, <3>2, SerialFresh
  <2> QED
    BY <1>2, <2>1, <2>2 DEF SerialInv, SceneNext
<1> QED
  BY <1>1, <1>2 DEF ServiceNext

\* As long as requests come one at a time and a configured Redis answers, what a
\* check would find while no request is open is what the database holds, for any
\* number of users, roles and workers, with Redis or with the memory of a worker:
\* the changes that delete cached permissions, all but set_user_role, delete all
\* that they make stale.
THEOREM SpecSerialFreshWhenQuiet == ServiceSpec => []SerialFreshWhenQuiet
<1>1. ServiceInit => IInv /\ SerialInv
  <2> SUFFICES ASSUME ServiceInit PROVE IInv /\ SerialInv
    OBVIOUS
  <2>1. Init
    BY DEF ServiceInit, SceneInit
  <2>2. OneStore /\ EntriesFresh /\ RequestFresh
    BY <2>1, NoEntryType, IdleReqType DEF Init, OneStore, EntriesFresh, RequestFresh, Fresh, Idle
  <2> QED
    BY <2>1, <2>2, InitIInv DEF SerialInv
<1>2. IInv /\ SerialInv /\ [ServiceNext]_<<part, CacheVars, AdminVars>> => IInv' /\ SerialInv'
  <2>1. ASSUME IInv, SerialInv, UNCHANGED <<part, CacheVars, AdminVars>> PROVE IInv' /\ SerialInv'
    <3>1. UNCHANGED vars /\ scene' = scene
      BY <2>1 DEF CacheVars
    <3>2. IInv'
      BY <2>1, <3>1, NextIInv
    <3>3. SerialInv'
      BY <2>1, <3>1 DEF vars, SerialInv, OneStore, EntriesFresh, RequestFresh, Fresh, Idle
    <3> QED
      BY <3>2, <3>3
  <2> QED
    BY <2>1, CacheStep
<1>3. SerialInv => SerialFreshWhenQuiet
  BY AnswersAreEntries DEF SerialInv, SerialFreshWhenQuiet, FreshWhenQuiet, EntriesFresh, Fresh
<1> QED
  BY <1>1, <1>2, <1>3, PTL DEF ServiceSpec

-----------------------------------------------------------------------------
(* Administrators *)

\* The instance has a Cardinality of its own.
LEMMA SameCardinality == ASSUME NEW S PROVE Admins!Cardinality(S) = Cardinality(S)
  BY DEF Admins!Cardinality, Cardinality

\* Who is taken away when there is more than one leaves another.
LEMMA OthersRemain ==
  ASSUME NEW S, NEW x, Admins!Cardinality(S) > 1 PROVE S \ {x} # {}
<1> SUFFICES ASSUME S \ {x} = {} PROVE FALSE
  OBVIOUS
<1>1. S = {} \/ S = {x}
  OBVIOUS
<1>2. Cardinality({}) = 0 /\ Cardinality({x}) = 1
  BY FS_EmptySet, FS_Singleton
<1>3. Cardinality(S) \in {0, 1}
  BY <1>1, <1>2
<1> QED
  BY <1>3, SameCardinality

\* What a write leaves of an account: nobody becomes a superuser, and only some
\* operations take an active administrator away.
LEMMA ChangedAccount ==
  ASSUME NEW op \in Admins!Op, NEW to \in Admins!Account, NEW now \in Admins!Account
  PROVE  LET new == Admins!Changed(op, to, now) IN
         /\ new \in Admins!Account
         /\ new.super => now.super
         /\ op \notin {"erase", "delete"} => new.there = now.there /\ (new.super <=> now.super)
         /\ op \notin {"deactivate", "disable", "put off", "erase", "delete"} => (now.active => new.active)
         /\ op \notin {"demote", "revoke", "erase"} => (now.admin => new.admin)
<1> USE DEF Admins!Account
<1>1. CASE op \in {"promote", "grant"}
  BY <1>1 DEF Admins!Changed
<1>2. CASE op \in {"demote", "revoke"}
  BY <1>2 DEF Admins!Changed
<1>3. CASE op \in {"activate", "enable", "put on"}
  BY <1>3 DEF Admins!Changed
<1>4. CASE op \in {"deactivate", "disable", "put off"}
  BY <1>4 DEF Admins!Changed
<1>5. CASE op = "delete"
  BY <1>5 DEF Admins!Changed
<1>6. CASE op = "erase"
  BY <1>6 DEF Admins!Changed, Admins!Gone
<1> QED
  BY <1>1, <1>2, <1>3, <1>4, <1>5, <1>6 DEF Admins!Op

\* A request that has begun.
UnderWay == [pc: {"begun", "counting", "refreshing", "decided"}, op: Admins!Op, actor: Member, target: Member,
             by: Admins!Account, to: Admins!Account]

\* What a step does to the request that takes it, apart from a commit.
RequestStep(r) ==
    /\ UNCHANGED <<account, bypass>>
    /\ \A q \in Req : q # r => changing'[q] = changing[q]
    /\ \/ changing'[r] = Admins!Idle
       \/ changing'[r].pc = "begun" /\ changing'[r] \in UnderWay
       \/ LET to == account[changing[r].target] IN
          /\ changing'[r] \in UnderWay
          /\ changing'[r].pc \in {"counting", "refreshing", "decided"} /\ changing'[r].to = to
          /\ changing'[r].op = changing[r].op /\ changing'[r].target = changing[r].target
          /\ ~Admins!Protected(changing[r].op, to)
          /\ changing'[r].pc # "counting" => ~Admins!Counts(changing[r].op, to)
       \/ /\ changing[r].pc = "counting" /\ Admins!Room(r)
          /\ changing'[r] \in UnderWay
          /\ changing'[r].pc \in {"refreshing", "decided"} /\ changing'[r].to = changing[r].to
          /\ changing'[r].op = changing[r].op /\ changing'[r].target = changing[r].target
       \/ /\ changing[r].pc = "refreshing"
          /\ changing'[r] \in UnderWay
          /\ changing'[r].pc = "decided"
          /\ changing'[r].to = [changing[r].to EXCEPT !.admin = account[changing[r].target].admin]
          /\ changing'[r].op = changing[r].op /\ changing'[r].target = changing[r].target

\* What is loaded again is what was loaded, apart from the role.
LEMMA Refreshed ==
  ASSUME NEW to \in Admins!Account, NEW now \in Admins!Account
  PROVE  LET new == [to EXCEPT !.admin = now.admin] IN
         new.super = to.super /\ (to = now => new = now)
  BY DEF Admins!Account

\* Every step is of that form, or a commit.
LEMMA AdminSteps ==
  ASSUME AdminTypes, Admins!Next
  PROVE  \E r \in Req : RequestStep(r) \/ Admins!Commit(r)
<1>0. /\ changing \in [Req -> Admins!RequestState]
      /\ account \in [Member -> Admins!Account]
  BY DEF AdminTypes
<1>1. ASSUME NEW r \in Req, changing[r].pc # "idle" PROVE changing[r] \in UnderWay
  BY <1>0, <1>1 DEF Admins!RequestState, UnderWay
<1>2. ASSUME NEW r \in Req, NEW actor \in Member, NEW target \in Member, NEW op \in Admins!Op,
             Admins!Start(r, actor, target, op)
      PROVE  RequestStep(r)
  <2>1. [pc |-> "begun", op |-> op, actor |-> actor, target |-> target,
         by |-> account[actor], to |-> account[actor]] \in UnderWay
    BY <1>0 DEF UnderWay
  <2>2. /\ changing'[r] = [pc |-> "begun", op |-> op, actor |-> actor, target |-> target,
                           by |-> account[actor], to |-> account[actor]]
        /\ \A q \in Req : q # r => changing'[q] = changing[q]
        /\ UNCHANGED <<account, bypass>>
    BY <1>0, <1>2 DEF Admins!Start
  <2> QED
    BY <2>1, <2>2 DEF RequestStep
<1>3. ASSUME NEW r \in Req, Admins!Ends(r), UNCHANGED <<account, bypass>> PROVE RequestStep(r)
  BY <1>0, <1>3 DEF Admins!Ends, RequestStep
<1>4. ASSUME NEW r \in Req, Admins!Load(r) PROVE RequestStep(r)
  <2> DEFINE to == account[changing[r].target]
  <2>0. changing[r] \in UnderWay
    BY <1>1, <1>4 DEF Admins!Load
  <2>1. ASSUME NEW pc \in {"counting", "refreshing", "decided"},
               changing' = [changing EXCEPT ![r].pc = pc, ![r].to = to],
               pc # "counting" => ~Admins!Counts(changing[r].op, to),
               ~Admins!Protected(changing[r].op, to)
        PROVE  RequestStep(r)
    <3>1. to \in Admins!Account
      BY <1>0, <2>0 DEF UnderWay
    <3>2. changing'[r] = [changing[r] EXCEPT !.pc = pc, !.to = to]
          /\ \A q \in Req : q # r => changing'[q] = changing[q]
      BY <1>0, <2>1
    <3>3. /\ changing'[r] \in UnderWay /\ changing'[r].pc = pc /\ changing'[r].to = to
          /\ changing'[r].op = changing[r].op /\ changing'[r].target = changing[r].target
      BY <2>0, <3>1, <3>2 DEF UnderWay
    <3> QED
      BY <1>4, <2>1, <3>2, <3>3 DEF RequestStep, Admins!Load
  <2>2. CASE Admins!Ends(r)
    BY <1>3, <1>4, <2>2 DEF Admins!Load
  <2>3. CASE ~Admins!Ends(r)
    <3>1. /\ changing' = [changing EXCEPT ![r].pc = IF Admins!Counts(changing[r].op, to)
                                                    THEN "counting" ELSE Admins!Then(changing[r].op), ![r].to = to]
          /\ ~Admins!Protected(changing[r].op, to)
      BY <1>4, <2>3 DEF Admins!Load
    <3>2. CASE Admins!Counts(changing[r].op, to)
      BY <2>1, <3>1, <3>2
    <3>3. CASE ~Admins!Counts(changing[r].op, to)
      BY <2>1, <3>1, <3>3 DEF Admins!Then
    <3> QED
      BY <3>2, <3>3
  <2> QED
    BY <2>2, <2>3
<1>5. ASSUME NEW r \in Req, Admins!Count(r) PROVE RequestStep(r)
  <2>1. CASE Admins!Ends(r)
    BY <1>3, <1>5, <2>1 DEF Admins!Count
  <2>2. CASE ~Admins!Ends(r)
    <3>0. changing[r] \in UnderWay
      BY <1>1, <1>5 DEF Admins!Count
    <3>4. PICK pc \in {"refreshing", "decided"} : pc = Admins!Then(changing[r].op)
      BY DEF Admins!Then
    <3>1. changing' = [changing EXCEPT ![r].pc = pc] /\ Admins!Room(r) /\ changing[r].pc = "counting"
          /\ UNCHANGED <<account, bypass>>
      BY <1>5, <2>2, <3>4 DEF Admins!Count
    <3>2. changing'[r] = [changing[r] EXCEPT !.pc = pc]
          /\ \A q \in Req : q # r => changing'[q] = changing[q]
      BY <1>0, <3>1
    <3>3. /\ changing'[r] \in UnderWay /\ changing'[r].pc = pc /\ changing'[r].to = changing[r].to
          /\ changing'[r].op = changing[r].op /\ changing'[r].target = changing[r].target
      BY <3>0, <3>2 DEF UnderWay
    <3> QED
      BY <3>1, <3>2, <3>3 DEF RequestStep
  <2> QED
    BY <2>1, <2>2
<1>6. ASSUME NEW r \in Req, Admins!Refresh(r) PROVE RequestStep(r)
  <2> DEFINE admin == account[changing[r].target].admin
  <2>1. CASE Admins!Ends(r)
    BY <1>3, <1>6, <2>1 DEF Admins!Refresh
  <2>2. CASE ~Admins!Ends(r)
    <3>0. changing[r] \in UnderWay /\ changing[r].pc = "refreshing"
      BY <1>1, <1>6 DEF Admins!Refresh
    <3>1. changing' = [changing EXCEPT ![r].pc = "decided", ![r].to.admin = admin]
          /\ UNCHANGED <<account, bypass>>
      BY <1>6, <2>2 DEF Admins!Refresh
    <3>2. changing'[r] = [changing[r] EXCEPT !.pc = "decided", !.to = [changing[r].to EXCEPT !.admin = admin]]
          /\ \A q \in Req : q # r => changing'[q] = changing[q]
      BY <1>0, <3>0, <3>1 DEF UnderWay
    <3>3. [changing[r].to EXCEPT !.admin = admin] \in Admins!Account
      BY <1>0, <3>0 DEF UnderWay, Admins!Account
    <3>4. /\ changing'[r] \in UnderWay /\ changing'[r].pc = "decided"
          /\ changing'[r].to = [changing[r].to EXCEPT !.admin = admin]
          /\ changing'[r].op = changing[r].op /\ changing'[r].target = changing[r].target
      BY <3>0, <3>2, <3>3 DEF UnderWay
    <3> QED
      BY <3>0, <3>1, <3>2, <3>4 DEF RequestStep
  <2> QED
    BY <2>1, <2>2
<1> QED
  BY <1>2, <1>4, <1>5, <1>6 DEF Admins!Next

\* What a commit leaves.
LEMMA CommitFacts ==
  ASSUME AdminTypes, NEW r \in Req, Admins!Commit(r)
  PROVE  LET q == changing[r]  u == q.target IN
         /\ q \in UnderWay /\ q.pc = "decided"
         /\ \A v \in Member : v # u => account'[v] = account[v]
         /\ account'[u] \in {account[u], Admins!Changed(q.op, q.to, account[u])}
         /\ account' \in [Member -> Admins!Account]
         /\ changing'[r] = Admins!Idle /\ \A x \in Req : x # r => changing'[x] = changing[x]
         /\ bypass' = (bypass \/ (q.op \in {"put off", "delete", "revoke"} /\ Admins!IsAdmin(q.to)))
<1> DEFINE q == changing[r]
           u == q.target
<1>1. q \in UnderWay /\ q.pc = "decided"
  BY DEF AdminTypes, Admins!RequestState, UnderWay, Admins!Commit
<1>2. u \in Member /\ q.op \in Admins!Op /\ q.to \in Admins!Account
  BY <1>1 DEF UnderWay
<1>3. account[u] \in Admins!Account /\ account \in [Member -> Admins!Account]
  BY <1>2 DEF AdminTypes
<1>4. Admins!Changed(q.op, q.to, account[u]) \in Admins!Account
  BY <1>2, <1>3, ChangedAccount
<1>5. \/ account' = account
      \/ account' = [account EXCEPT ![u] = Admins!Changed(q.op, q.to, account[u])]
  BY DEF Admins!Commit
<1>6. changing' = [changing EXCEPT ![r] = Admins!Idle]
  BY DEF Admins!Commit, Admins!Ends
<1>7. bypass' = (bypass \/ (q.op \in {"put off", "delete", "revoke"} /\ Admins!IsAdmin(q.to)))
  BY DEF Admins!Commit
<1>8. /\ \A v \in Member : v # u => account'[v] = account[v]
      /\ account'[u] \in {account[u], Admins!Changed(q.op, q.to, account[u])}
      /\ account' \in [Member -> Admins!Account]
  BY <1>2, <1>3, <1>4, <1>5
<1>9. changing'[r] = Admins!Idle /\ \A x \in Req : x # r => changing'[x] = changing[x]
  BY <1>6 DEF AdminTypes
<1> QED
  BY <1>1, <1>7, <1>8, <1>9

\* An idle request of an administrator is a request.
LEMMA IdleAdmin == Admins!Idle.pc = "idle" /\ Admins!Idle \in Admins!RequestState
  BY DEF Admins!Idle, Admins!RequestState

\* Every step keeps the shapes.
LEMMA AdminTypesStep ==
  ASSUME AdminTypes, Admins!Next, part' = part
  PROVE  AdminTypes'
<1>1. PICK r \in Req : RequestStep(r) \/ Admins!Commit(r)
  BY AdminSteps
<1>2. changing' = [q \in Req |-> changing'[q]]
  BY DEF AdminTypes, Admins!Next, Admins!Start, Admins!Load, Admins!Count, Admins!Refresh, Admins!Commit, Admins!Ends
<1>3. UnderWay \subseteq Admins!RequestState
  BY DEF UnderWay, Admins!RequestState
<1>4. CASE RequestStep(r)
  <2>1. \A q \in Req : changing'[q] \in Admins!RequestState
    BY <1>3, <1>4, IdleAdmin DEF RequestStep, AdminTypes, UnderWay, Admins!RequestState
  <2>2. changing' \in [Req -> Admins!RequestState]
    BY <1>2, <2>1
  <2> QED
    BY <1>4, <2>2 DEF RequestStep, AdminTypes
<1>5. CASE Admins!Commit(r)
  <2>1. \A q \in Req : changing'[q] \in Admins!RequestState
    BY <1>5, CommitFacts, IdleAdmin DEF AdminTypes
  <2>2. changing' \in [Req -> Admins!RequestState]
    BY <1>2, <2>1
  <2>3. account' \in [Member -> Admins!Account] /\ bypass' \in BOOLEAN
    BY <1>5, CommitFacts DEF AdminTypes
  <2> QED
    BY <2>2, <2>3 DEF AdminTypes
<1> QED
  BY <1>1, <1>4, <1>5

\* A superuser stays.
LEMMA RootStaysStep ==
  ASSUME AdminTypes, RootStays, Admins!Next
  PROVE  RootStays'
<1>1. PICK r \in Req : RequestStep(r) \/ Admins!Commit(r)
  BY AdminSteps
<1>2. CASE RequestStep(r)
  <2>1. ~bypass' => \E m \in Member : Admins!ActiveAdmin(m)' /\ account'[m].super
    BY <1>2 DEF RequestStep, RootStays, Admins!ActiveAdmin
  <2>2. ASSUME NEW x \in Req, Loaded(x)'
        PROVE  /\ account'[changing'[x].target].super => changing'[x].to.super
               /\ changing'[x].op \in {"demote", "deactivate", "disable", "erase"} => ~changing'[x].to.super
    <3>1. CASE x # r
      BY <1>2, <2>2, <3>1 DEF RequestStep, RootStays, Loaded
    <3>2. CASE x = r
      <4> DEFINE again == [changing[r].to EXCEPT !.admin = account[changing[r].target].admin]
      <4>1. CASE changing[r].pc = "refreshing" /\ changing'[r].to = again
        <5>1. changing[r].to \in Admins!Account /\ account[changing[r].target] \in Admins!Account
          BY <4>1 DEF AdminTypes, Admins!RequestState
        <5>2. again.super = changing[r].to.super
          BY <5>1, Refreshed
        <5>3. Loaded(r) /\ UNCHANGED account
          BY <1>2, <4>1 DEF Loaded, RequestStep
        <5> HIDE DEF again
        <5>4. changing'[r].target = changing[r].target /\ changing'[r].op = changing[r].op
          BY <1>2, <2>2, <3>2, <4>1, IdleAdmin DEF RequestStep, Loaded
        <5> QED
          BY <3>2, <4>1, <5>2, <5>3, <5>4 DEF RootStays
      <4>2. CASE ~(changing[r].pc = "refreshing" /\ changing'[r].to = again)
        <5> HIDE DEF again
        <5>1. \/ changing'[r] = Admins!Idle
              \/ changing'[r].pc = "begun"
              \/ LET to == account[changing[r].target] IN
                 /\ changing'[r].to = to
                 /\ changing'[r].op = changing[r].op /\ changing'[r].target = changing[r].target
                 /\ ~Admins!Protected(changing[r].op, to)
              \/ /\ changing[r].pc = "counting" /\ changing'[r].to = changing[r].to
                 /\ changing'[r].op = changing[r].op /\ changing'[r].target = changing[r].target
          BY <1>2, <4>2 DEF RequestStep, again
        <5>2. UNCHANGED account
          BY <1>2 DEF RequestStep
        <5> QED
          BY <2>2, <3>2, <5>1, <5>2, IdleAdmin DEF RootStays, Loaded, Admins!Protected
      <4> QED
        BY <4>1, <4>2
    <3> QED
      BY <3>1, <3>2
  <2> QED
    BY <2>1, <2>2 DEF RootStays
<1>3. CASE Admins!Commit(r)
  <2>0. PICK q \in UnderWay, u \in Member : q = changing[r] /\ u = changing[r].target
    BY <1>3, CommitFacts DEF UnderWay
  <2>1. /\ q \in UnderWay /\ q.pc = "decided"
        /\ \A v \in Member : v # u => account'[v] = account[v]
        /\ account'[u] \in {account[u], Admins!Changed(q.op, q.to, account[u])}
        /\ account' \in [Member -> Admins!Account]
        /\ changing'[r] = Admins!Idle /\ \A x \in Req : x # r => changing'[x] = changing[x]
        /\ bypass' = (bypass \/ (q.op \in {"put off", "delete", "revoke"} /\ Admins!IsAdmin(q.to)))
    BY <1>3, <2>0, CommitFacts
  <2>2. q.op \in Admins!Op /\ q.to \in Admins!Account /\ u \in Member /\ account[u] \in Admins!Account
    BY <2>1 DEF UnderWay, AdminTypes
  <2>3. Loaded(r)
    BY <2>0, <2>1 DEF Loaded
  <2>4. /\ account[u].super => q.to.super
        /\ q.op \in {"demote", "deactivate", "disable", "erase"} => ~q.to.super
    BY <2>0, <2>3 DEF RootStays
  <2>5. account'[u].super => account[u].super
    <3>1. Admins!Changed(q.op, q.to, account[u]).super => account[u].super
      BY <2>2, ChangedAccount
    <3> QED
      BY <2>1, <3>1
  <2>6. ASSUME ~bypass', account[u].super, Admins!ActiveAdmin(u)
        PROVE  Admins!ActiveAdmin(u)' /\ account'[u].super
    <3>1. q.op \notin {"demote", "deactivate", "disable", "erase"}
      BY <2>4, <2>6
    <3>2. q.op \notin {"put off", "delete", "revoke"}
      BY <2>1, <2>4, <2>6 DEF Admins!IsAdmin
    <3>3. account'[u].there = account[u].there /\ (account'[u].super <=> account[u].super)
          /\ (account[u].active => account'[u].active)
      <4> DEFINE new == Admins!Changed(q.op, q.to, account[u])
      <4>0. q.op \notin {"erase", "delete"}
        BY <3>1, <3>2
      <4>1. new.there = account[u].there /\ (new.super <=> account[u].super)
        BY <2>2, <4>0, ChangedAccount
      <4>2. account[u].active => new.active
        BY <2>2, <3>1, <3>2, ChangedAccount
      <4> QED
        BY <2>1, <4>1, <4>2
    <3> QED
      BY <2>6, <3>3 DEF Admins!ActiveAdmin, Admins!IsAdmin
  <2>7. ~bypass' => \E m \in Member : Admins!ActiveAdmin(m)' /\ account'[m].super
    <3> SUFFICES ASSUME ~bypass' PROVE \E m \in Member : Admins!ActiveAdmin(m)' /\ account'[m].super
      OBVIOUS
    <3>1. PICK m \in Member : Admins!ActiveAdmin(m) /\ account[m].super
      BY <2>1 DEF RootStays
    <3>2. CASE m = u
      BY <2>6, <3>1, <3>2
    <3>3. CASE m # u
      BY <2>1, <3>1, <3>3 DEF Admins!ActiveAdmin
    <3> QED
      BY <3>2, <3>3
  <2>8. ASSUME NEW x \in Req, Loaded(x)'
        PROVE  /\ account'[changing'[x].target].super => changing'[x].to.super
               /\ changing'[x].op \in {"demote", "deactivate", "disable", "erase"} => ~changing'[x].to.super
    <3>1. x # r
      BY <2>1, <2>8, IdleAdmin DEF Loaded
    <3>2. changing'[x] = changing[x] /\ Loaded(x) /\ changing[x].target \in Member
      BY <2>1, <2>8, <3>1 DEF Loaded, AdminTypes, Admins!RequestState
    <3>3. account'[changing[x].target].super => account[changing[x].target].super
      BY <2>1, <2>5, <3>2
    <3> QED
      BY <3>2, <3>3 DEF RootStays
  <2> QED
    BY <2>7, <2>8 DEF RootStays
<1> QED
  BY <1>1, <1>2, <1>3

\* One request at a time looks for the last administrator before it takes one away.
LEMMA OneDecidesStep ==
  ASSUME AdminTypes, OneDecides, Admins!Next, \A r \in Req \ {r1} : Admins!IsIdle(r)'
  PROVE  OneDecides'
<1>1. PICK r \in Req : RequestStep(r) \/ Admins!Commit(r)
  BY AdminSteps
<1>2. CASE RequestStep(r)
  <2>1. UNCHANGED <<account, bypass, Admins!ActiveAdmins>>
    BY <1>2 DEF RequestStep, Admins!ActiveAdmins, Admins!ActiveAdmin
  <2>2. \A x \in Req : Admins!Room(x)' = Admins!Room(r)
    BY <2>1 DEF Admins!Room
  <2>3. ASSUME NEW x \in Req
        PROVE  /\ Loaded(x)' => changing'[x].to = account'[changing'[x].target]
               /\ changing'[x].pc \in {"refreshing", "decided"} /\ Admins!Counts(changing'[x].op, changing'[x].to)
                    => Admins!Room(x)'
    <3>1. CASE x # r
      BY <1>2, <2>1, <2>2, <3>1 DEF RequestStep, OneDecides, Loaded, Admins!Room
    <3>2. CASE x = r
      <4> DEFINE again == [changing[r].to EXCEPT !.admin = account[changing[r].target].admin]
      <4>1. CASE changing[r].pc = "refreshing" /\ changing'[r].to = again
        <5>1. changing[r].to \in Admins!Account /\ account[changing[r].target] \in Admins!Account
          BY <4>1 DEF AdminTypes, Admins!RequestState
        <5>2. changing[r].to = account[changing[r].target]
          BY <4>1 DEF OneDecides, Loaded
        <5>3. again = changing[r].to
          BY <5>1, <5>2, Refreshed
        <5>4. \/ changing'[r] = Admins!Idle
              \/ changing'[r].pc = "begun"
              \/ /\ changing'[r].target = changing[r].target
                 /\ changing'[r].op = changing[r].op
          BY <1>2 DEF RequestStep
        <5> HIDE DEF again
        <5> QED
          BY <2>1, <2>2, <3>2, <4>1, <5>2, <5>3, <5>4, IdleAdmin DEF OneDecides, Loaded
      <4>2. CASE ~(changing[r].pc = "refreshing" /\ changing'[r].to = again)
        BY <1>2, <2>1, <2>2, <3>2, <4>2, IdleAdmin DEF RequestStep, OneDecides, Loaded
      <4> QED
        BY <4>1, <4>2
    <3> QED
      BY <3>1, <3>2
  <2> QED
    BY <2>1, <2>3 DEF OneDecides
<1>3. CASE Admins!Commit(r)
  <2>0. PICK q \in UnderWay, u \in Member : q = changing[r] /\ u = changing[r].target
    BY <1>3, CommitFacts DEF UnderWay
  <2>1. /\ q \in UnderWay /\ q.pc = "decided"
        /\ \A v \in Member : v # u => account'[v] = account[v]
        /\ account'[u] \in {account[u], Admins!Changed(q.op, q.to, account[u])}
        /\ account' \in [Member -> Admins!Account]
        /\ changing'[r] = Admins!Idle /\ \A x \in Req : x # r => changing'[x] = changing[x]
        /\ bypass' = (bypass \/ (q.op \in {"put off", "delete", "revoke"} /\ Admins!IsAdmin(q.to)))
    BY <1>3, <2>0, CommitFacts
  <2>2. q.op \in Admins!Op /\ q.to \in Admins!Account /\ u \in Member /\ account[u] \in Admins!Account
    BY <2>1 DEF UnderWay, AdminTypes
  <2>3. /\ q.to = account[u]
        /\ Admins!Counts(q.op, q.to) => Admins!Room(r)
    BY <2>0, <2>1 DEF OneDecides, Loaded
  <2>4. r = r1
    BY <2>0, <2>1 DEF OneDecides, Admins!IsIdle
  <2>5. ASSUME ~bypass' PROVE Admins!ActiveAdmins' # {}
    <3>1. \A v \in Member : v # u /\ v \in Admins!ActiveAdmins => v \in Admins!ActiveAdmins'
      BY <2>1 DEF Admins!ActiveAdmins, Admins!ActiveAdmin
    <3>2. CASE Admins!Counts(q.op, q.to)
      <4>1. Admins!ActiveAdmins \ {u} # {}
        BY <2>3, <3>2, OthersRemain DEF Admins!Room
      <4> QED
        BY <3>1, <4>1 DEF Admins!ActiveAdmins
    <3>3. CASE ~Admins!Counts(q.op, q.to)
      <4>1. PICK v \in Member : v \in Admins!ActiveAdmins
        BY <2>1, <2>5 DEF OneDecides, Admins!ActiveAdmins
      <4>2. CASE v # u
        BY <3>1, <4>1, <4>2
      <4>3. CASE v = u
        <5>1. Admins!IsAdmin(q.to) /\ account[u].there = "yes" /\ account[u].active
          BY <2>3, <4>1, <4>3 DEF Admins!ActiveAdmins, Admins!ActiveAdmin
        <5>2. q.op \notin {"demote", "deactivate", "disable", "erase", "put off", "delete", "revoke"}
          BY <2>1, <2>5, <3>3, <5>1 DEF Admins!Counts
        <5>3. /\ account'[u].there = account[u].there /\ (account'[u].super <=> account[u].super)
              /\ account[u].active => account'[u].active
              /\ account[u].admin => account'[u].admin
          <6> DEFINE new == Admins!Changed(q.op, q.to, account[u])
          <6>0. q.op \notin {"erase", "delete"}
            BY <5>2
          <6>1. new.there = account[u].there /\ (new.super <=> account[u].super)
            BY <2>2, <6>0, ChangedAccount
          <6>2. account[u].active => new.active
            BY <2>2, <5>2, ChangedAccount
          <6>3. account[u].admin => new.admin
            BY <2>2, <5>2, ChangedAccount
          <6> QED
            BY <2>1, <6>1, <6>2, <6>3
        <5>4. Admins!ActiveAdmin(u)'
          BY <2>3, <5>1, <5>3 DEF Admins!ActiveAdmin, Admins!IsAdmin
        <5> QED
          BY <2>2, <5>4 DEF Admins!ActiveAdmins
      <4> QED
        BY <4>2, <4>3
    <3> QED
      BY <3>2, <3>3
  <2>6. \A x \in Req : changing'[x].pc = "idle"
    BY <2>1, <2>4, IdleAdmin DEF Admins!IsIdle
  <2> QED
    BY <2>5, <2>6 DEF OneDecides, Loaded, Admins!IsIdle
<1> QED
  BY <1>1, <1>2, <1>3

\* Somebody can still administrate: with a superuser however requests overlap,
\* without one as long as they do not, for any number of accounts and requests.
THEOREM SpecAdminRemains == ServiceSpec => []AdminRemains
<1>1. ServiceInit => AdminInv
  <2> SUFFICES ASSUME ServiceInit PROVE AdminInv
    OBVIOUS
  <2>1. Admins!Init /\ part \in Parts
    BY DEF ServiceInit
  <2>2. AdminTypes
    BY <2>1, IdleAdmin DEF Admins!Init, AdminTypes, Admins!Account, Admins!Gone
  <2>3. \A r \in Req : changing[r].pc = "idle"
    BY <2>1, IdleAdmin DEF Admins!Init
  <2>4. part = "rooted" => RootStays
    <3> SUFFICES ASSUME part = "rooted" PROVE RootStays
      OBVIOUS
    <3>1. PICK m \in Member : account[m].super /\ account[m].active
      BY DEF ServiceInit
    <3>2. account[m].there = "yes"
      BY <2>1, <3>1 DEF Admins!Init, Admins!Account, Admins!Gone
    <3> QED
      BY <2>3, <3>1, <3>2 DEF RootStays, Loaded, Admins!ActiveAdmin, Admins!IsAdmin
  <2>5. part = "rootless" => OneDecides
    BY <2>3 DEF ServiceInit, OneDecides, Loaded, Admins!IsIdle
  <2> QED
    BY <2>2, <2>4, <2>5 DEF AdminInv
<1>2. AdminInv /\ [ServiceNext]_<<part, CacheVars, AdminVars>> => AdminInv'
  <2>1. ASSUME AdminInv, UNCHANGED <<part, AdminVars>> PROVE AdminInv'
    BY <2>1 DEF AdminVars, AdminInv, AdminTypes, RootStays, OneDecides, Loaded, Admins!ActiveAdmin,
       Admins!ActiveAdmins, Admins!IsIdle, Admins!Room
  <2>2. ASSUME AdminInv, ServiceNext PROVE AdminInv'
    <3>1. CASE UNCHANGED AdminVars
      BY <2>1, <2>2, <3>1 DEF ServiceNext
    <3>2. CASE /\ Admins!Next
               /\ part = "rootless" => \A r \in Req \ {r1} : Admins!IsIdle(r)'
      BY <2>2, <3>2, AdminTypesStep, RootStaysStep, OneDecidesStep DEF AdminInv, ServiceNext
    <3> QED
      BY <2>2, <3>1, <3>2 DEF ServiceNext
  <2> QED
    BY <2>1, <2>2
<1>3. AdminInv => AdminRemains
  <2> SUFFICES ASSUME AdminInv, part # "cache", ~bypass PROVE Admins!ActiveAdmins # {}
    BY DEF AdminRemains, Admins!AdminRemains
  <2>1. part \in {"rooted", "rootless"}
    BY DEF AdminInv, AdminTypes, Parts
  <2> QED
    BY <2>1 DEF AdminInv, RootStays, OneDecides, Admins!ActiveAdmins
<1> QED
  BY <1>1, <1>2, <1>3, PTL DEF ServiceSpec
-----------------------------------------------------------------------------
(* The start of the workers.                                                 *)

\* While a worker looks after the schema it holds the lock of its site.
SchemaPcs == {"create", "schema", "migrate", "unlock"}

\* The schema is the worker's from here on, and the seed from "probe" on.
MigratedPcs == {"unlock", "seed lock", "read seed", "write seed", "probe", "serving"}

SeededPcs == {"probe", "serving"}

StartTyped ==
    /\ setting \in [Process -> Starts!Setting]
    /\ exists \in BOOLEAN /\ version \in Nat
    /\ schemaLock \in [Starts!Site -> Process \cup {Nobody}]
    /\ worker \in [Process -> Starts!WorkerState]

OneEnvironment == \A w, x \in Process : setting[w] = setting[x]

HoldsSchema(w) ==
    worker[w].pc \in SchemaPcs /\ (setting[w].create \/ setting[w].migrate) =>
        schemaLock[Starts!LockSite(w)] = w

MayMigrate(w) ==
    worker[w].pc = "migrate" =>
        setting[w].migrate /\ exists /\ worker[w].saw = version /\ version <= CodeHead[w]

HasSchema(w) == worker[w].pc \in MigratedPcs => exists /\ version >= CodeHead[w]

HoldsSeed(w) == worker[w].pc \in {"read seed", "write seed"} => seedLock = w

MaySeed(w) ==
    worker[w].pc = "write seed" =>
        /\ worker[w].missing \cap table = {}
        /\ Seed[w] \subseteq table \cup worker[w].missing \cup taken

HasSeed(w) == worker[w].pc \in SeededPcs => Seed[w] \subseteq table \cup taken

NoConflict(w) == worker[w].why # "conflict"

WorkerInv(w) ==
    /\ HoldsSchema(w) /\ MayMigrate(w) /\ HasSchema(w)
    /\ HoldsSeed(w) /\ MaySeed(w) /\ HasSeed(w) /\ NoConflict(w)

StartInv == StartTyped /\ OneEnvironment /\ \A w \in Process : WorkerInv(w)

LocksKept(x) ==
    /\ \A s \in Starts!Site : schemaLock[s] = x => schemaLock'[s] = x
    /\ seedLock = x => seedLock' = x

\* What a step of others leaves worker x of the database and the locks.
Leaves(x) ==
    /\ worker'[x] = worker[x]
    /\ setting' = setting
    /\ exists => exists'
    /\ version' \in Nat /\ version <= version'
    /\ worker[x].pc = "migrate" => version' = version
    /\ LocksKept(x)
    /\ worker[x].pc = "write seed" => table' \subseteq table
    /\ table \subseteq table' \cup taken'
    /\ taken \subseteq taken'

LEMMA SettingIs ==
  ASSUME NEW w \in Process, StartTyped
  PROVE  /\ setting[w].create \in BOOLEAN /\ setting[w].migrate \in BOOLEAN
         /\ Starts!LockSite(w) \in Starts!Site
  BY DEF StartTyped, Starts!Setting, Starts!LockSite, Starts!Site

LEMMA LeavesKeeps ==
  ASSUME NEW x \in Process, StartTyped, WorkerInv(x), Leaves(x)
  PROVE  WorkerInv(x)'
  <1>0. CodeHead[x] \in Nat /\ version \in Nat /\ version' \in Nat
    BY StartAssumption DEF Starts!Deployment, StartTyped, Leaves
  <1>1. HoldsSchema(x)'
    <2>1. Starts!LockSite(x)' = Starts!LockSite(x)
      BY DEF Leaves, Starts!LockSite
    <2> QED  BY <2>1, SettingIs DEF WorkerInv, HoldsSchema, Leaves, LocksKept
  <1>2. MayMigrate(x)'  BY DEF WorkerInv, MayMigrate, Leaves
  <1>3. HasSchema(x)'
    <2>1. worker'[x].pc \in MigratedPcs => exists /\ version >= CodeHead[x]
      BY DEF WorkerInv, HasSchema, Leaves
    <2>2. exists /\ version >= CodeHead[x] => exists' /\ version' >= CodeHead[x]
      <3>1. (exists => exists') /\ version <= version'
        BY DEF Leaves
      <3> QED  BY <1>0, <3>1
    <2> QED  BY <2>1, <2>2 DEF HasSchema
  <1>4. HoldsSeed(x)'  BY DEF WorkerInv, HoldsSeed, Leaves, LocksKept
  <1>5. MaySeed(x)'  BY DEF WorkerInv, MaySeed, Leaves
  <1>6. HasSeed(x)'  BY DEF WorkerInv, HasSeed, Leaves
  <1>7. NoConflict(x)'  BY DEF WorkerInv, NoConflict, Leaves
  <1> QED  BY <1>1, <1>2, <1>3, <1>4, <1>5, <1>6, <1>7 DEF WorkerInv

\* What the assignments to worker make of it.
LEMMA GotoIs ==
  ASSUME NEW w \in Process, StartTyped, NEW pc,
         pc \in {"off", "lock", "create", "schema", "migrate", "unlock", "seed lock", "read seed",
                "write seed", "probe", "serving"},
         Starts!Goto(w, pc)
  PROVE  /\ worker' \in [Process -> Starts!WorkerState]
         /\ worker'[w].pc = pc /\ worker'[w].why = "none"
         /\ \A x \in Process : x # w => worker'[x] = worker[x]
  <1>1. worker[w] \in Starts!WorkerState
    BY DEF StartTyped
  <1>2. /\ worker'[w] = [worker[w] EXCEPT !.pc = pc, !.why = "none"]
        /\ \A x \in Process : x # w => worker'[x] = worker[x]
    BY DEF StartTyped, Starts!Goto, Starts!WorkerState
  <1>3. /\ worker'[w] \in Starts!WorkerState
        /\ worker'[w].pc = pc /\ worker'[w].why = "none"
    BY <1>1, <1>2 DEF Starts!WorkerState
  <1>4. worker' \in [Process -> Starts!WorkerState]
    BY <1>2, <1>3 DEF StartTyped, Starts!Goto
  <1> QED  BY <1>2, <1>3, <1>4

LEMMA MissingIs ==
  ASSUME NEW w \in Process, StartTyped, NEW pc, pc \in {"write seed", "probe"},
         NEW m \in SUBSET Row, worker' = [worker EXCEPT ![w].pc = pc, ![w].missing = m]
  PROVE  /\ worker' \in [Process -> Starts!WorkerState]
         /\ worker'[w].pc = pc /\ worker'[w].missing = m /\ worker'[w].why = worker[w].why
         /\ \A x \in Process : x # w => worker'[x] = worker[x]
  <1>1. worker[w] \in Starts!WorkerState
    BY DEF StartTyped
  <1>2. /\ worker'[w] = [worker[w] EXCEPT !.pc = pc, !.missing = m]
        /\ \A x \in Process : x # w => worker'[x] = worker[x]
    BY DEF StartTyped, Starts!WorkerState
  <1>3. /\ worker'[w] \in Starts!WorkerState
        /\ worker'[w].pc = pc /\ worker'[w].missing = m /\ worker'[w].why = worker[w].why
    <2>1. PICK r \in Starts!WorkerState : r = worker[w]
      BY <1>1
    <2>2. worker'[w] = [r EXCEPT !.pc = pc, !.missing = m]
      BY <1>2, <2>1
    <2>3. [r EXCEPT !.pc = pc] \in Starts!WorkerState
      BY DEF Starts!WorkerState
    <2>4. PICK q \in Starts!WorkerState :
            q = [r EXCEPT !.pc = pc] /\ q.pc = pc /\ q.why = r.why
      BY <2>3 DEF Starts!WorkerState
    <2>5. worker'[w] = [q EXCEPT !.missing = m]
      BY <2>2, <2>4
    <2>6. [q EXCEPT !.missing = m] \in Starts!WorkerState
      BY DEF Starts!WorkerState
    <2>7. worker'[w].pc = q.pc /\ worker'[w].missing = m /\ worker'[w].why = q.why
      BY <2>5 DEF Starts!WorkerState
    <2> QED  BY <2>1, <2>4, <2>5, <2>6, <2>7
  <1>4. worker' \in [Process -> Starts!WorkerState]
    BY <1>2, <1>3 DEF StartTyped
  <1> QED  BY <1>2, <1>3, <1>4

LEMMA OffTyped ==
  ASSUME NEW why, why \in {"none", "database", "version", "conflict", "password", "redis"}
  PROVE  Starts!Off(why) \in Starts!WorkerState
  BY DEF Starts!Off, Starts!WorkerState

LEMMA OffIs ==
  ASSUME NEW w \in Process, StartTyped, NEW why,
         why \in {"none", "database", "version", "conflict", "password", "redis"},
         worker' = [worker EXCEPT ![w] = Starts!Off(why)]
  PROVE  /\ worker' \in [Process -> Starts!WorkerState]
         /\ worker'[w].pc = "off" /\ worker'[w].why = why
         /\ \A x \in Process : x # w => worker'[x] = worker[x]
  <1>1. worker'[w] = Starts!Off(why)
    BY DEF StartTyped
  <1>2. worker' \in [Process -> Starts!WorkerState]
    BY OffTyped DEF StartTyped
  <1> QED  BY <1>1, <1>2 DEF Starts!Off

LEMMA FreesLocksIs ==
  ASSUME NEW w \in Process, StartTyped, Starts!FreesLocks(w)
  PROVE  /\ schemaLock' \in [Starts!Site -> Process \cup {Nobody}]
         /\ \A x \in Process : x # w => LocksKept(x)
  BY DEF StartTyped, Starts!FreesLocks, LocksKept

\* Another worker keeps what it relies on when the step changes no more than
\* one worker and its locks.
LEMMA LeavesAlone ==
  ASSUME NEW x \in Process, StartTyped, UNCHANGED <<setting, exists, version, table, taken>>,
         worker'[x] = worker[x], LocksKept(x)
  PROVE  Leaves(x)
  BY DEF Leaves, StartTyped

LEMMA SameLocksKept ==
  ASSUME UNCHANGED <<schemaLock, seedLock>>
  PROVE  \A x \in Process : LocksKept(x)
  BY DEF LocksKept

\* A worker that is off or has not begun to look after the schema owes nothing.
LEMMA IdleInv ==
  ASSUME NEW w \in Process, worker'[w].pc \in {"off", "lock"}, worker'[w].why # "conflict"
  PROVE  WorkerInv(w)'
  BY DEF WorkerInv, HoldsSchema, MayMigrate, HasSchema, HoldsSeed, MaySeed, HasSeed, NoConflict,
         SchemaPcs, MigratedPcs, SeededPcs
\* A step of w keeps the invariant when it keeps what w relies on and leaves
\* the others theirs.
LEMMA StepKeeps ==
  ASSUME NEW w \in Process, StartInv, StartTyped', setting' = setting, WorkerInv(w)',
         \A x \in Process : x # w => Leaves(x)
  PROVE  StartInv'
  <1>1. ASSUME NEW x \in Process, x # w PROVE WorkerInv(x)'
    BY <1>1, LeavesKeeps DEF StartInv
  <1>2. \A x \in Process : WorkerInv(x)'
    BY <1>1
  <1>3. OneEnvironment'
    BY DEF StartInv, OneEnvironment
  <1> QED  BY <1>2, <1>3 DEF StartInv

\* A start that is refused, and a worker that ends.
LEMMA RefusalKeeps ==
  ASSUME NEW w \in Process, StartInv, NEW why,
         why \in {"none", "database", "version", "password", "redis"},
         worker' = [worker EXCEPT ![w] = Starts!Off(why)], Starts!FreesLocks(w),
         UNCHANGED <<setting, exists, version, table, taken>>
  PROVE  StartInv'
  <1>0. StartTyped  BY DEF StartInv
  <1>1. /\ worker' \in [Process -> Starts!WorkerState]
        /\ worker'[w].pc = "off" /\ worker'[w].why = why
        /\ \A x \in Process : x # w => worker'[x] = worker[x]
    BY <1>0, OffIs
  <1>2. StartTyped'  BY <1>0, <1>1, FreesLocksIs DEF StartTyped
  <1>3. WorkerInv(w)'  BY <1>1, IdleInv
  <1>4. ASSUME NEW x \in Process, x # w PROVE Leaves(x)
    BY <1>4, <1>0, <1>1, FreesLocksIs, LeavesAlone
  <1> QED  BY <1>2, <1>3, <1>4, StepKeeps

LEMMA StartKeeps ==
  ASSUME NEW w \in Process, StartInv, Starts!Start(w)
  PROVE  StartInv'
  <1>0. StartTyped  BY DEF StartInv
  <1> PICK pc \in {"lock", "schema"} : /\ Starts!Goto(w, pc)
                                       /\ pc = "schema" => ~(setting[w].create \/ setting[w].migrate)
    BY DEF Starts!Start
  <1>1. /\ worker' \in [Process -> Starts!WorkerState]
        /\ worker'[w].pc = pc /\ worker'[w].why = "none"
        /\ \A x \in Process : x # w => worker'[x] = worker[x]
    BY <1>0, GotoIs
  <1>2. UNCHANGED <<setting, exists, version, table, schemaLock, seedLock, taken>>
    BY DEF Starts!Start
  <1>3. StartTyped'  BY <1>0, <1>1, <1>2 DEF StartTyped
  <1>4. WorkerInv(w)'
    <2>1. CASE pc = "lock"  BY <2>1, <1>1, IdleInv
    <2>2. CASE pc = "schema"
      BY <2>2, <1>1, <1>2 DEF WorkerInv, HoldsSchema, MayMigrate, HasSchema, HoldsSeed, MaySeed,
         HasSeed, NoConflict, MigratedPcs, SeededPcs
    <2> QED  BY <2>1, <2>2
  <1>5. ASSUME NEW x \in Process, x # w PROVE Leaves(x)
    BY <1>5, <1>0, <1>1, <1>2, SameLocksKept, LeavesAlone
  <1> QED  BY <1>2, <1>3, <1>4, <1>5, StepKeeps

LEMMA LockSchemaKeeps ==
  ASSUME NEW w \in Process, StartInv, Starts!LockSchema(w)
  PROVE  StartInv'
  <1>0. StartTyped  BY DEF StartInv
  <1>1. UNCHANGED <<setting, exists, version, table, taken>>
    BY DEF Starts!LockSchema
  <1>2. CASE Starts!LockSite(w) = "target" /\ ~exists
    <2>1. Starts!Refuse(w, "database")
      BY <1>2 DEF Starts!LockSchema
    <2> QED  BY <2>1, <1>1, RefusalKeeps DEF Starts!Refuse
  <1>3. CASE ~(Starts!LockSite(w) = "target" /\ ~exists)
    <2> PICK site \in Starts!Site : site = Starts!LockSite(w)
      BY <1>0, SettingIs
    <2> PICK pc \in {"create", "schema"} : Starts!Goto(w, pc)
      BY <1>3 DEF Starts!LockSchema
    <2>1. schemaLock[site] = Nobody /\ schemaLock' = [schemaLock EXCEPT ![site] = w] /\ seedLock' = seedLock
      BY <1>3 DEF Starts!LockSchema, Starts!Free
    <2>2. /\ worker' \in [Process -> Starts!WorkerState]
          /\ worker'[w].pc = pc /\ worker'[w].why = "none"
          /\ \A x \in Process : x # w => worker'[x] = worker[x]
      BY <1>0, GotoIs
    <2>3. schemaLock' \in [Starts!Site -> Process \cup {Nobody}] /\ schemaLock'[site] = w
      BY <1>0, <2>1 DEF StartTyped
    <2>4. StartTyped'  BY <1>0, <1>1, <2>2, <2>3 DEF StartTyped
    <2>5. WorkerInv(w)'
      <3>1. Starts!LockSite(w)' = site
        BY <1>1 DEF Starts!LockSite
      <3> QED
        BY <3>1, <2>2, <2>3 DEF WorkerInv, HoldsSchema, MayMigrate, HasSchema, HoldsSeed, MaySeed,
           HasSeed, NoConflict, MigratedPcs, SeededPcs
    <2>6. ASSUME NEW x \in Process, x # w PROVE Leaves(x)
      <3>1. LocksKept(x)
        BY <1>0, <2>1, StartAssumption DEF LocksKept, StartTyped, Starts!Deployment
      <3> QED  BY <1>0, <1>1, <2>2, <2>6, <3>1, LeavesAlone
    <2> QED  BY <1>1, <2>4, <2>5, <2>6, StepKeeps
  <1> QED  BY <1>2, <1>3

LEMMA CreateDatabaseKeeps ==
  ASSUME NEW w \in Process, StartInv, Starts!CreateDatabase(w)
  PROVE  StartInv'
  <1>0. StartTyped /\ WorkerInv(w)  BY DEF StartInv
  <1>1. UNCHANGED <<setting, version, table, schemaLock, seedLock, taken>> /\ exists' = TRUE
    BY DEF Starts!CreateDatabase
  <1>2. /\ worker' \in [Process -> Starts!WorkerState]
        /\ worker'[w].pc = "schema" /\ worker'[w].why = "none"
        /\ \A x \in Process : x # w => worker'[x] = worker[x]
    BY <1>0, GotoIs DEF Starts!CreateDatabase
  <1>3. StartTyped'  BY <1>0, <1>1, <1>2 DEF StartTyped
  <1>4. WorkerInv(w)'
    <2>1. HoldsSchema(w)'
      <3>1. worker[w].pc = "create"
        BY DEF Starts!CreateDatabase, Starts!At
      <3>2. Starts!LockSite(w)' = Starts!LockSite(w)
        BY <1>1 DEF Starts!LockSite
      <3> QED  BY <1>0, <1>1, <3>1, <3>2 DEF WorkerInv, HoldsSchema, SchemaPcs
    <2> QED
      BY <2>1, <1>2 DEF WorkerInv, MayMigrate, HasSchema, HoldsSeed, MaySeed, HasSeed, NoConflict,
         MigratedPcs, SeededPcs
  <1>5. ASSUME NEW x \in Process, x # w PROVE Leaves(x)
    <2>1. LocksKept(x)
      BY <1>1, SameLocksKept
    <2>2. UNCHANGED <<setting, version, table, taken>> /\ (exists => exists') /\ version \in Nat
      BY <1>0, <1>1 DEF StartTyped
    <2>3. version' \in Nat /\ version <= version'
      BY <2>2
    <2> QED  BY <1>2, <1>5, <2>1, <2>2, <2>3 DEF Leaves
  <1> QED  BY <1>1, <1>3, <1>4, <1>5, StepKeeps
\* The version a worker reads is one it can migrate from, or its own.
LEMMA InitSchemaKeeps ==
  ASSUME NEW w \in Process, StartInv, Starts!InitSchema(w)
  PROVE  StartInv'
  <1>0. StartTyped /\ WorkerInv(w)  BY DEF StartInv
  <1>1. UNCHANGED <<setting, exists, version, table, taken>> /\ worker[w].pc = "schema"
    BY DEF Starts!InitSchema, Starts!At
  <1>2. \/ Starts!Refuse(w, "database")
        \/ Starts!Refuse(w, "version")
        \/ /\ exists
           /\ IF setting[w].migrate THEN Starts!Known(w) ELSE Starts!Verified(w)
           /\ worker' = [worker EXCEPT ![w].saw = version,
                ![w].pc = IF setting[w].migrate THEN "migrate" ELSE "unlock"]
           /\ UNCHANGED <<schemaLock, seedLock>>
    BY DEF Starts!InitSchema
  <1>3. CASE Starts!Refuse(w, "database") \/ Starts!Refuse(w, "version")
    BY <1>3, <1>1, RefusalKeeps DEF Starts!Refuse
  <1>4. CASE ~(Starts!Refuse(w, "database") \/ Starts!Refuse(w, "version"))
    <2> PICK pc : pc = IF setting[w].migrate THEN "migrate" ELSE "unlock"
      OBVIOUS
    <2>0. /\ exists
          /\ setting[w].migrate => Starts!Known(w) /\ pc = "migrate"
          /\ ~setting[w].migrate => Starts!Verified(w) /\ pc = "unlock"
          /\ worker' = [worker EXCEPT ![w].saw = version, ![w].pc = pc]
          /\ UNCHANGED <<schemaLock, seedLock>>
      BY <1>2, <1>4
    <2>a. pc \in {"migrate", "unlock"} /\ version \in Nat
      BY <1>0 DEF StartTyped
    <2>b. worker[w] \in Starts!WorkerState
      BY <1>0 DEF StartTyped
    <2>c. /\ worker'[w] = [worker[w] EXCEPT !.saw = version, !.pc = pc]
          /\ \A x \in Process : x # w => worker'[x] = worker[x]
      BY <1>0, <2>0 DEF StartTyped, Starts!WorkerState
    <2>d. worker'[w] \in Starts!WorkerState
      BY <2>a, <2>b, <2>c DEF Starts!WorkerState
    <2>e. worker'[w].pc = pc /\ worker'[w].saw = version /\ worker'[w].why = worker[w].why
      BY <2>b, <2>c DEF Starts!WorkerState
    <2>1. /\ worker' \in [Process -> Starts!WorkerState]
          /\ worker'[w].pc = pc /\ worker'[w].saw = version /\ worker'[w].why = worker[w].why
          /\ \A x \in Process : x # w => worker'[x] = worker[x]
      BY <1>0, <2>0, <2>c, <2>d, <2>e DEF StartTyped
    <2>2. StartTyped'  BY <1>0, <1>1, <2>0, <2>1 DEF StartTyped
    <2>3. WorkerInv(w)'
      <3>1. HoldsSchema(w)'
        <4>1. Starts!LockSite(w)' = Starts!LockSite(w)
          BY <1>1 DEF Starts!LockSite
        <4> QED  BY <1>0, <1>1, <2>0, <4>1 DEF WorkerInv, HoldsSchema, SchemaPcs
      <3>2. MayMigrate(w)'
        BY <1>1, <2>0, <2>1 DEF MayMigrate, Starts!Known
      <3>3. HasSchema(w)'
        <4>1. CodeHead[w] \in Nat
          BY StartAssumption DEF Starts!Deployment
        <4>2. worker'[w].pc \in MigratedPcs => version = CodeHead[w]
          BY <2>0, <2>1 DEF Starts!Verified, MigratedPcs
        <4>3. version' >= CodeHead[w] <=> version >= CodeHead[w]
          BY <1>1
        <4> QED  BY <1>1, <2>0, <4>1, <4>2, <4>3 DEF HasSchema
      <3>4. NoConflict(w)'
        BY <1>0, <2>1 DEF WorkerInv, NoConflict
      <3> QED  BY <3>1, <3>2, <3>3, <3>4, <2>0, <2>1
        DEF WorkerInv, HoldsSeed, MaySeed, HasSeed, SeededPcs
    <2>4. ASSUME NEW x \in Process, x # w PROVE Leaves(x)
      BY <2>4, <1>0, <1>1, <2>0, <2>1, SameLocksKept, LeavesAlone
    <2> QED  BY <1>1, <2>2, <2>3, <2>4, StepKeeps
  <1> QED  BY <1>3, <1>4

\* Two workers that migrate would hold the same lock: nobody has moved the
\* version since the worker read it.
LEMMA MigrateKeeps ==
  ASSUME NEW w \in Process, StartInv, Starts!Migrate(w)
  PROVE  StartInv'
  <1>0. StartTyped /\ WorkerInv(w)  BY DEF StartInv
  <1>1. /\ UNCHANGED <<setting, exists, table, taken>> /\ worker[w].pc = "migrate"
        /\ setting[w].migrate /\ exists /\ worker[w].saw = version /\ version <= CodeHead[w]
    BY <1>0 DEF Starts!Migrate, Starts!At, WorkerInv, MayMigrate
  <1>2. /\ version' = IF worker[w].saw = CodeHead[w] THEN version ELSE CodeHead[w]
        /\ Starts!Goto(w, "unlock") /\ UNCHANGED <<schemaLock, seedLock>>
    BY <1>1 DEF Starts!Migrate
  <1>3. CodeHead[w] \in Nat /\ version \in Nat
    BY <1>0, StartAssumption DEF Starts!Deployment, StartTyped
  <1>4. version' = CodeHead[w] /\ version <= version'
    BY <1>1, <1>2, <1>3
  <1>5. /\ worker' \in [Process -> Starts!WorkerState]
        /\ worker'[w].pc = "unlock" /\ worker'[w].why = "none"
        /\ \A x \in Process : x # w => worker'[x] = worker[x]
    BY <1>0, <1>2, GotoIs
  <1>6. StartTyped'  BY <1>0, <1>1, <1>2, <1>3, <1>4, <1>5 DEF StartTyped
  <1>7. WorkerInv(w)'
    <2>1. HoldsSchema(w)'
      <3>1. Starts!LockSite(w)' = Starts!LockSite(w)
        BY <1>1 DEF Starts!LockSite
      <3> QED  BY <1>0, <1>1, <1>2, <3>1 DEF WorkerInv, HoldsSchema, SchemaPcs
    <2>2. HasSchema(w)'
      <3>1. version' >= CodeHead[w]
        BY <1>3, <1>4
      <3> QED  BY <1>1, <3>1 DEF HasSchema
    <2> QED
      BY <2>1, <2>2, <1>5 DEF WorkerInv, MayMigrate, HoldsSeed, MaySeed, HasSeed, NoConflict, SeededPcs
  <1>8. ASSUME NEW x \in Process, x # w PROVE Leaves(x)
    <2>1. worker[x].pc # "migrate"
      <3>1. WorkerInv(x) /\ setting[x] = setting[w]
        BY DEF StartInv, OneEnvironment
      <3>2. Starts!LockSite(x) = Starts!LockSite(w)
        BY <3>1 DEF Starts!LockSite
      <3>3. schemaLock[Starts!LockSite(w)] = w
        BY <1>0, <1>1 DEF WorkerInv, HoldsSchema, SchemaPcs
      <3>4. worker[x].pc = "migrate" => schemaLock[Starts!LockSite(x)] = x
        BY <1>1, <3>1 DEF WorkerInv, HoldsSchema, SchemaPcs
      <3> QED  BY <1>8, <3>2, <3>3, <3>4
    <2>2. LocksKept(x)
      BY <1>2, SameLocksKept
    <2> QED  BY <1>1, <1>3, <1>4, <1>5, <1>8, <2>1, <2>2 DEF Leaves
  <1> QED  BY <1>1, <1>6, <1>7, <1>8, StepKeeps

LEMMA UnlockKeeps ==
  ASSUME NEW w \in Process, StartInv, Starts!Unlock(w)
  PROVE  StartInv'
  <1>0. StartTyped /\ WorkerInv(w)  BY DEF StartInv
  <1>1. UNCHANGED <<setting, exists, version, table, taken>> /\ worker[w].pc = "unlock"
    BY DEF Starts!Unlock, Starts!At
  <1>2. Starts!FreesLocks(w)  BY DEF Starts!Unlock
  <1>3. /\ worker' \in [Process -> Starts!WorkerState]
        /\ worker'[w].pc = "seed lock" /\ worker'[w].why = "none"
        /\ \A x \in Process : x # w => worker'[x] = worker[x]
    BY <1>0, GotoIs DEF Starts!Unlock
  <1>4. StartTyped'  BY <1>0, <1>1, <1>2, <1>3, FreesLocksIs DEF StartTyped
  <1>5. WorkerInv(w)'
    <2>1. HasSchema(w)'
      BY <1>0, <1>1 DEF WorkerInv, HasSchema, MigratedPcs
    <2> QED
      BY <2>1, <1>3 DEF WorkerInv, HoldsSchema, MayMigrate, HoldsSeed, MaySeed, HasSeed, NoConflict,
         SchemaPcs, SeededPcs
  <1>6. ASSUME NEW x \in Process, x # w PROVE Leaves(x)
    BY <1>6, <1>0, <1>1, <1>2, <1>3, FreesLocksIs, LeavesAlone
  <1> QED  BY <1>1, <1>4, <1>5, <1>6, StepKeeps

LEMMA LockSeedKeeps ==
  ASSUME NEW w \in Process, StartInv, Starts!LockSeed(w)
  PROVE  StartInv'
  <1>0. StartTyped /\ WorkerInv(w)  BY DEF StartInv
  <1>1. /\ UNCHANGED <<setting, exists, version, table, schemaLock, taken>>
        /\ worker[w].pc = "seed lock" /\ seedLock = Nobody /\ seedLock' = w
    BY DEF Starts!LockSeed, Starts!At
  <1>2. /\ worker' \in [Process -> Starts!WorkerState]
        /\ worker'[w].pc = "read seed" /\ worker'[w].why = "none"
        /\ \A x \in Process : x # w => worker'[x] = worker[x]
    BY <1>0, GotoIs DEF Starts!LockSeed
  <1>3. StartTyped'  BY <1>0, <1>1, <1>2 DEF StartTyped
  <1>4. WorkerInv(w)'
    <2>1. HasSchema(w)'
      BY <1>0, <1>1 DEF WorkerInv, HasSchema, MigratedPcs
    <2> QED
      BY <2>1, <1>1, <1>2 DEF WorkerInv, HoldsSchema, MayMigrate, HoldsSeed, MaySeed, HasSeed,
         NoConflict, SchemaPcs, SeededPcs
  <1>5. ASSUME NEW x \in Process, x # w PROVE Leaves(x)
    <2>1. LocksKept(x)
      BY <1>1, StartAssumption DEF LocksKept, Starts!Deployment
    <2> QED  BY <1>0, <1>1, <1>2, <1>5, <2>1, LeavesAlone
  <1> QED  BY <1>1, <1>3, <1>4, <1>5, StepKeeps

LEMMA ReadSeedKeeps ==
  ASSUME NEW w \in Process, StartInv, Starts!ReadSeed(w)
  PROVE  StartInv'
  <1>0. StartTyped /\ WorkerInv(w)  BY DEF StartInv
  <1>1. UNCHANGED <<setting, exists, version, table, taken>> /\ worker[w].pc = "read seed"
    BY DEF Starts!ReadSeed, Starts!At
  <1> PICK m : m = Seed[w] \ table
    OBVIOUS
  <1>2. CASE Admin \in m /\ ~setting[w].password
    <2>1. Starts!Refuse(w, "password")
      BY <1>2 DEF Starts!ReadSeed
    <2> QED  BY <2>1, <1>1, RefusalKeeps DEF Starts!Refuse
  <1>3. CASE ~(Admin \in m /\ ~setting[w].password)
    <2>1. /\ worker' = [worker EXCEPT ![w].pc = "write seed", ![w].missing = m]
          /\ UNCHANGED <<schemaLock, seedLock>>
      BY <1>3 DEF Starts!ReadSeed
    <2>2. m \in SUBSET Row
      BY StartAssumption DEF Starts!Deployment
    <2>3. /\ worker' \in [Process -> Starts!WorkerState]
          /\ worker'[w].pc = "write seed" /\ worker'[w].missing = m /\ worker'[w].why = worker[w].why
          /\ \A x \in Process : x # w => worker'[x] = worker[x]
      BY <1>0, <2>1, <2>2, MissingIs
    <2>4. StartTyped'  BY <1>0, <1>1, <2>1, <2>3 DEF StartTyped
    <2>5. WorkerInv(w)'
      <3>1. HasSchema(w)'
        BY <1>0, <1>1 DEF WorkerInv, HasSchema, MigratedPcs
      <3>2. HoldsSeed(w)' /\ NoConflict(w)'
        BY <1>0, <1>1, <2>1, <2>3 DEF WorkerInv, HoldsSeed, NoConflict
      <3>3. MaySeed(w)'
        BY <1>1, <2>3 DEF MaySeed
      <3> QED
        BY <3>1, <3>2, <3>3, <2>3 DEF WorkerInv, HoldsSchema, MayMigrate, HasSeed, SchemaPcs, SeededPcs
    <2>6. ASSUME NEW x \in Process, x # w PROVE Leaves(x)
      BY <2>6, <1>0, <1>1, <2>1, <2>3, SameLocksKept, LeavesAlone
    <2> QED  BY <1>1, <2>4, <2>5, <2>6, StepKeeps
  <1> QED  BY <1>2, <1>3
\* Only the holder of the seed lock writes the seed.
LEMMA WriteSeedKeeps ==
  ASSUME NEW w \in Process, StartInv, Starts!WriteSeed(w)
  PROVE  StartInv'
  <1>0. StartTyped /\ WorkerInv(w)  BY DEF StartInv
  <1>1. /\ UNCHANGED <<setting, exists, version, taken>> /\ worker[w].pc = "write seed"
        /\ worker[w].missing \cap table = {} /\ seedLock = w
        /\ Seed[w] \subseteq table \cup worker[w].missing \cup taken
    BY <1>0 DEF Starts!WriteSeed, Starts!At, WorkerInv, MaySeed, HoldsSeed
  <1>2. /\ table' = table \cup worker[w].missing
        /\ worker' = [worker EXCEPT ![w].pc = "probe", ![w].missing = {}]
        /\ Starts!FreesLocks(w)
    BY <1>1 DEF Starts!WriteSeed, Starts!Seeded
  <1>3. /\ worker' \in [Process -> Starts!WorkerState]
        /\ worker'[w].pc = "probe" /\ worker'[w].why = worker[w].why
        /\ \A x \in Process : x # w => worker'[x] = worker[x]
    <2> PICK pc, m : pc = "probe" /\ m = {}
      OBVIOUS
    <2>1. pc \in {"write seed", "probe"} /\ m \in SUBSET Row
      OBVIOUS
    <2>2. worker' = [worker EXCEPT ![w].pc = pc, ![w].missing = m]
      BY <1>2
    <2> QED  BY <1>0, <2>1, <2>2, MissingIs
  <1>4. StartTyped'  BY <1>0, <1>1, <1>2, <1>3, FreesLocksIs DEF StartTyped
  <1>5. WorkerInv(w)'
    <2>1. HasSchema(w)'
      BY <1>0, <1>1 DEF WorkerInv, HasSchema, MigratedPcs
    <2>2. HasSeed(w)' /\ NoConflict(w)'
      BY <1>0, <1>1, <1>2, <1>3 DEF WorkerInv, HasSeed, NoConflict
    <2> QED
      BY <2>1, <2>2, <1>3 DEF WorkerInv, HoldsSchema, MayMigrate, HoldsSeed, MaySeed, SchemaPcs
  <1>6. ASSUME NEW x \in Process, x # w PROVE Leaves(x)
    <2>1. worker[x].pc # "write seed"
      BY <1>1, <1>6 DEF StartInv, WorkerInv, HoldsSeed
    <2>2. LocksKept(x)
      BY <1>0, <1>2, <1>6, FreesLocksIs
    <2>3. table \subseteq table' \cup taken' /\ version \in Nat
      BY <1>0, <1>2 DEF StartTyped
    <2>4. version' \in Nat /\ version <= version' /\ taken \subseteq taken'
      <3>1. version' = version /\ taken' = taken
        BY <1>1
      <3> QED  BY <2>3, <3>1
    <2>5. UNCHANGED setting /\ (exists => exists') /\ version' = version /\ worker'[x] = worker[x]
      BY <1>1, <1>3, <1>6
    <2> QED  BY <2>1, <2>2, <2>3, <2>4, <2>5 DEF Leaves
  <1> QED  BY <1>1, <1>4, <1>5, <1>6, StepKeeps

LEMMA ProbeKeeps ==
  ASSUME NEW w \in Process, StartInv, Starts!Probe(w)
  PROVE  StartInv'
  <1>0. StartTyped /\ WorkerInv(w)  BY DEF StartInv
  <1>1. UNCHANGED <<setting, exists, version, table, taken>> /\ worker[w].pc = "probe"
    BY DEF Starts!Probe, Starts!At
  <1>2. CASE setting[w].redis /\ ~redisUp
    <2>1. Starts!Refuse(w, "redis")
      BY <1>2 DEF Starts!Probe
    <2> QED  BY <2>1, <1>1, RefusalKeeps DEF Starts!Refuse
  <1>3. CASE ~(setting[w].redis /\ ~redisUp)
    <2>1. Starts!Goto(w, "serving") /\ UNCHANGED <<schemaLock, seedLock>>
      BY <1>3 DEF Starts!Probe
    <2>2. /\ worker' \in [Process -> Starts!WorkerState]
          /\ worker'[w].pc = "serving" /\ worker'[w].why = "none"
          /\ \A x \in Process : x # w => worker'[x] = worker[x]
      BY <1>0, <2>1, GotoIs
    <2>3. StartTyped'  BY <1>0, <1>1, <2>1, <2>2 DEF StartTyped
    <2>4. WorkerInv(w)'
      <3>1. HasSchema(w)'
        BY <1>0, <1>1 DEF WorkerInv, HasSchema, MigratedPcs
      <3>2. HasSeed(w)'
        BY <1>0, <1>1 DEF WorkerInv, HasSeed, SeededPcs
      <3> QED
        BY <3>1, <3>2, <2>2 DEF WorkerInv, HoldsSchema, MayMigrate, HoldsSeed, MaySeed, NoConflict,
           SchemaPcs
    <2>5. ASSUME NEW x \in Process, x # w PROVE Leaves(x)
      BY <2>5, <1>0, <1>1, <2>1, <2>2, SameLocksKept, LeavesAlone
    <2> QED  BY <1>1, <2>3, <2>4, <2>5, StepKeeps
  <1> QED  BY <1>2, <1>3

LEMMA EndKeeps ==
  ASSUME NEW w \in Process, StartInv, Starts!End(w)
  PROVE  StartInv'
  BY RefusalKeeps DEF Starts!End, Starts!Closed

\* What happens around the workers leaves each of them what it relies on.
LEMMA AroundKeeps ==
  ASSUME StartInv, StartTyped', setting' = setting, \A x \in Process : Leaves(x)
  PROVE  StartInv'
  <1>1. \A x \in Process : WorkerInv(x)'
    BY LeavesKeeps DEF StartInv
  <1>2. OneEnvironment'
    BY DEF StartInv, OneEnvironment
  <1> QED  BY <1>1, <1>2 DEF StartInv

LEMMA UpgradeKeeps ==
  ASSUME NEW w \in Process, StartInv, Starts!Upgrade(w)
  PROVE  StartInv'
  <1>0. StartTyped  BY DEF StartInv
  <1>1. /\ UNCHANGED <<setting, exists, table, schemaLock, seedLock, worker, taken>>
        /\ version < CodeHead[w] /\ version' = CodeHead[w]
        /\ \A x \in Process : ~setting[x].migrate
    BY DEF Starts!Upgrade
  <1>2. version \in Nat /\ version' \in Nat /\ version <= version'
    BY <1>0, <1>1, StartAssumption DEF Starts!Deployment, StartTyped
  <1>3. StartTyped'  BY <1>0, <1>1, <1>2 DEF StartTyped
  <1>4. ASSUME NEW x \in Process PROVE Leaves(x)
    <2>1. worker[x].pc # "migrate"
      BY <1>1 DEF StartInv, WorkerInv, MayMigrate
    <2>2. LocksKept(x)
      BY <1>1, SameLocksKept
    <2> QED  BY <1>1, <1>2, <2>1, <2>2 DEF Leaves
  <1> QED  BY <1>1, <1>3, <1>4, AroundKeeps

LEMMA RedisTurnsKeeps ==
  ASSUME StartInv, Starts!RedisTurns
  PROVE  StartInv'
  <1>0. StartTyped  BY DEF StartInv
  <1>1. UNCHANGED <<setting, exists, version, table, schemaLock, seedLock, worker, taken>>
    BY DEF Starts!RedisTurns
  <1>2. StartTyped'  BY <1>0, <1>1 DEF StartTyped
  <1>3. ASSUME NEW x \in Process PROVE Leaves(x)
    BY <1>0, <1>1, SameLocksKept, LeavesAlone
  <1> QED  BY <1>1, <1>2, <1>3, AroundKeeps

LEMMA TakeAwayKeeps ==
  ASSUME StartInv, NEW r, Starts!TakeAway(r)
  PROVE  StartInv'
  <1>0. StartTyped  BY DEF StartInv
  <1>1. /\ UNCHANGED <<setting, exists, version, schemaLock, seedLock, worker>>
        /\ table' = table \ {r} /\ taken' = taken \cup {r}
    BY DEF Starts!TakeAway
  <1>2. StartTyped'  BY <1>0, <1>1 DEF StartTyped
  <1>3. ASSUME NEW x \in Process PROVE Leaves(x)
    <2>1. LocksKept(x)
      BY <1>1, SameLocksKept
    <2>2. table' \subseteq table /\ table \subseteq table' \cup taken' /\ taken \subseteq taken'
      BY <1>1
    <2>3. version' \in Nat /\ version <= version'
      BY <1>0, <1>1 DEF StartTyped
    <2> QED  BY <1>1, <2>1, <2>2, <2>3 DEF Leaves
  <1> QED  BY <1>1, <1>2, <1>3, AroundKeeps

LEMMA StartInvInit == Starts!DeploymentInit => StartInv
  <1> SUFFICES ASSUME Starts!DeploymentInit PROVE StartInv
    OBVIOUS
  <1> USE DEF Starts!DeploymentInit, Starts!Init
  <1>1. StartTyped
    <2>1. version \in Nat /\ exists \in BOOLEAN
      <3>1. version = 0 \/ \E w \in Process : version = CodeHead[w]
        OBVIOUS
      <3>2. exists \in BOOLEAN
        OBVIOUS
      <3>3. \A w \in Process : CodeHead[w] \in Nat
        BY StartAssumption DEF Starts!Deployment
      <3> QED  BY <3>1, <3>2, <3>3
    <2>2. worker \in [Process -> Starts!WorkerState]
      BY OffTyped
    <2> QED  BY <2>1, <2>2 DEF StartTyped
  <1>2. OneEnvironment  BY DEF OneEnvironment
  <1>3. ASSUME NEW w \in Process PROVE WorkerInv(w)
    <2>1. worker[w].pc = "off" /\ worker[w].why = "none"
      BY DEF Starts!Off
    <2> QED
      BY <2>1 DEF WorkerInv, HoldsSchema, MayMigrate, HasSchema, HoldsSeed, MaySeed, HasSeed,
         NoConflict, SchemaPcs, MigratedPcs, SeededPcs
  <1> QED  BY <1>1, <1>2, <1>3 DEF StartInv

LEMMA StartInvNext == StartInv /\ Starts!Next => StartInv'
  <1> SUFFICES ASSUME StartInv, Starts!Next PROVE StartInv'
    OBVIOUS
  <1>1. CASE \E w \in Process : Starts!Start(w) \/ Starts!Step(w) \/ Starts!End(w) \/ Starts!Upgrade(w)
    BY <1>1, StartKeeps, LockSchemaKeeps, CreateDatabaseKeeps, InitSchemaKeeps, MigrateKeeps,
       UnlockKeeps, LockSeedKeeps, ReadSeedKeeps, WriteSeedKeeps, ProbeKeeps, EndKeeps, UpgradeKeeps
       DEF Starts!Step
  <1>2. CASE Starts!RedisTurns
    BY <1>2, RedisTurnsKeeps
  <1>3. CASE \E r \in Row : Starts!TakeAway(r)
    BY <1>3, TakeAwayKeeps
  <1> QED  BY <1>1, <1>2, <1>3 DEF Starts!Next

\* A step that leaves the workers and their database alone keeps the invariant.
LEMMA StartInvStutters ==
  ASSUME StartInv, UNCHANGED startVars
  PROVE  StartInv'
  <1>0. StartTyped  BY DEF StartInv
  <1>1. UNCHANGED <<setting, exists, version, table, schemaLock, seedLock, worker, taken>>
    BY DEF startVars
  <1>2. StartTyped'  BY <1>0, <1>1 DEF StartTyped
  <1>3. ASSUME NEW x \in Process PROVE Leaves(x)
    BY <1>0, <1>1, SameLocksKept, LeavesAlone
  <1> QED  BY <1>1, <1>2, <1>3, AroundKeeps

\* The invariant of the start, for any number of workers with any codes.
THEOREM SpecStartInv == ServeSpec => []StartInv
  <1>1. ServeInit => StartInv
    BY StartInvInit DEF ServeInit
  <1>2. StartInv /\ [ServeNext]_<<startVars, migrationVars>> => StartInv'
    BY StartInvNext, StartInvStutters DEF ServeNext
  <1> QED  BY <1>1, <1>2, PTL DEF ServeSpec

\* However many workers start, end and start again at a time: no start fails
\* because of another one, and a worker that serves has the schema and the rows
\* its code needs but for what an administrator took away.
THEOREM SpecStartsSound == ServeSpec => []StartsSound
  <1>1. StartInv => StartsSound
    <2> SUFFICES ASSUME StartInv PROVE StartsSound
      OBVIOUS
    <2>1. Starts!NoConflicts
      BY DEF StartInv, WorkerInv, NoConflict, Starts!NoConflicts
    <2>2. Starts!ServesWhatItNeeds
      BY DEF StartInv, WorkerInv, HasSchema, HasSeed, MigratedPcs, SeededPcs,
         Starts!ServesWhatItNeeds, Starts!At
    <2> QED  BY <2>1, <2>2 DEF StartsSound
  <1> QED  BY <1>1, SpecStartInv, PTL
=============================================================================

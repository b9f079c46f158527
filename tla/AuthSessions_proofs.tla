------------------------- MODULE AuthSessions_proofs -------------------------
(* Proofs about AuthSessions, and about TwoFactor and SignUp as MCSignIn composes *)
(* them, for every value of their constants.                                      *)
EXTENDS MCSignIn, FiniteSetTheorems, TLAPS

\* The invariant holds when nobody has signed in.
LEMMA InitInv == Init => IInv
<1> SUFFICES ASSUME Init PROVE IInv
  OBVIOUS
<1> USE DEF Init, InitWith
<1>1. TypeOK
  BY DEF TypeOK, UserRec, RowRec, TxnRec, FreeRow, IdleTxn, Reason, Pc, OpName
<1>2. TxnsShaped
  BY DEF TxnsShaped, TxnShape, IdleTxn
<1>3. RowsShaped
  BY DEF RowsShaped, FreeRow, Live
<1>4. StampsPast /\ PresentedHeld /\ HitsHeld /\ NewReserved /\ StrictPending
  BY DEF StampsPast, PresentedHeld, HitsHeld, NewReserved, StrictPending, IdleTxn
<1>5. RotatedIsRevoked /\ StrictRotation
  BY DEF RotatedIsRevoked, StrictRotation, FreeRow, Live, Unrevoked
<1> QED
  BY <1>1, <1>2, <1>3, <1>4, <1>5 DEF IInv

\* Rollback only forgets: the tables stay as they are.
LEMMA RollbackInv ==
  ASSUME IInv, NEW r \in Req, Rollback(r)
  PROVE  IInv'
<1> USE DEF Rollback
<1>1. TypeOK'
  BY NoneAssumption DEF IInv, TypeOK, TxnRec, IdleTxn, Pc, OpName, Released, UReleased
<1>2. TxnsShaped'
  BY DEF IInv, TxnsShaped, TxnShape, IdleTxn, TypeOK
<1>3. RowsShaped' /\ RotatedIsRevoked' /\ StrictRotation'
  BY DEF IInv, RowsShaped, RotatedIsRevoked, StrictRotation, Live, Unrevoked
<1>4. PresentedHeld'
  BY DEF IInv, PresentedHeld, IdleTxn, TypeOK, Live, Released, TxnsShaped, TxnShape
<1>5. HitsHeld'
  BY DEF IInv, HitsHeld, IdleTxn, TypeOK, Live, Released, TxnRec
<1>6. NewReserved' /\ StrictPending' /\ StampsPast'
  BY DEF IInv, NewReserved, StrictPending, StampsPast, IdleTxn, TypeOK
<1> QED
  BY <1>1, <1>2, <1>3, <1>4, <1>5, <1>6 DEF IInv

\* A step that replaces one transaction by a well-formed one, staging no
\* changed row, and touches neither the tables nor the row locks.
LEMMA OneTxnInv ==
  ASSUME IInv, NEW r \in Req, NEW s \in TxnRec, TxnShape(s),
         txn' = [txn EXCEPT ![r] = s],
         UNCHANGED <<now, user, row, lock>>,
         pwdClock' \in Nat, ulock' \in [User -> Req \cup {None}],
         s.op \in {"refresh", "reuse"} => Live(s.tok) /\ lock[s.tok] = r,
         s.hit = {}, s.at <= now,
         s.new # None => row[s.new].st = "free" /\ \A q \in Req \ {r} : txn[q].new # s.new,
         Leeway = 0 /\ s.op = "refresh" => row[s.tok].revokedAt = 0
  PROVE  IInv'
<1>1. TypeOK'
  BY DEF IInv, TypeOK
<1>2. TxnsShaped'
  BY DEF IInv, TxnsShaped, TypeOK, TxnShape
<1>3. RowsShaped' /\ RotatedIsRevoked' /\ StrictRotation'
  BY DEF IInv, RowsShaped, RotatedIsRevoked, StrictRotation, Live, Unrevoked
<1>4. PresentedHeld'
  BY DEF IInv, PresentedHeld, TypeOK, Live
<1>5. HitsHeld'
  BY DEF IInv, HitsHeld, TypeOK, Live
<1>6. NewReserved' /\ StrictPending' /\ StampsPast'
  BY DEF IInv, NewReserved, StrictPending, StampsPast, TypeOK
<1> QED
  BY <1>1, <1>2, <1>3, <1>4, <1>5, <1>6 DEF IInv

LEMMA TxnFacts ==
  ASSUME IInv, NEW r \in Req
  PROVE  /\ txn[r] \in TxnRec /\ TxnShape(txn[r])
         /\ now \in Nat \ {0} /\ txn[r].at <= now
BY DEF IInv, TypeOK, TxnsShaped, StampsPast

LEMMA ExpiryType ==
  ASSUME IInv, NEW r \in Req
  PROVE  txn[r].at + RefreshTTL \in Nat
BY TimeAssumption DEF IInv, TypeOK, TxnRec

\* Each action keeps the invariant of the session tables.
LEMMA LoginBeginInv ==
  ASSUME IInv, NEW r \in Req, LoginBegin(r)
  PROVE  IInv'
<1>1. PICK u \in User, n \in Fresh :
        txn' = [txn EXCEPT ![r] = [IdleTxn EXCEPT !.pc = "write", !.op = "login",
                                     !.user = u, !.new = n, !.pwdAt = user[u].pwdAt]]
  BY DEF LoginBegin, Begin
<1> DEFINE s == [IdleTxn EXCEPT !.pc = "write", !.op = "login", !.user = u,
                                !.new = n, !.pwdAt = user[u].pwdAt]
<1>2. s \in TxnRec /\ TxnShape(s) /\ s.hit = {} /\ s.op = "login" /\ s.new = n
        /\ s.at = 0
  BY ZenonT(40), TxnFacts DEF IInv, TypeOK, UserRec, Fresh, IdleTxn, TxnRec, TxnShape, Pc, OpName
<1>3. row[n].st = "free" /\ \A q \in Req : txn[q].new # n
  BY DEF Fresh
<1>4. s.at <= now
  BY <1>2, TxnFacts
<1>5. UNCHANGED <<now, pwdClock, user, row, lock, ulock>>
  BY DEF LoginBegin
<1> HIDE DEF s
<1> QED
  BY <1>1, <1>2, <1>3, <1>4, <1>5, OneTxnInv DEF s, IInv, TypeOK

LEMMA LoginWriteInv ==
  ASSUME IInv, NEW r \in Req, LoginWrite(r)
  PROVE  IInv'
<1>1. CASE Rollback(r)
  BY <1>1, RollbackInv
<1>2. CASE ~Rollback(r)
  <2> DEFINE s == [txn[r] EXCEPT !.pc = "commit", !.at = now]
  <2>1. txn' = [txn EXCEPT ![r] = s] /\ UNCHANGED <<now, pwdClock, user, row, lock, ulock>>
    BY <1>2 DEF LoginWrite, IInv, TypeOK
  <2>2. s \in TxnRec /\ TxnShape(s) /\ s.hit = {} /\ s.op = "login" /\ s.new = txn[r].new
          /\ s.at = now
    BY TxnFacts DEF LoginWrite, TxnRec, TxnShape, Pc
  <2>3. s.new # None => row[s.new].st = "free" /\ \A q \in Req \ {r} : txn[q].new # s.new
    BY <2>2 DEF IInv, NewReserved
  <2>4. s.at <= now
    BY <2>2, TxnFacts
  <2> HIDE DEF s
  <2> QED
    BY <2>1, <2>2, <2>3, <2>4, OneTxnInv DEF IInv, TypeOK
<1> QED
  BY <1>1, <1>2

LEMMA RefreshWriteInv ==
  ASSUME IInv, NEW r \in Req, RefreshWrite(r)
  PROVE  IInv'
<1>1. CASE Rollback(r)
  BY <1>1, RollbackInv
<1>2. CASE ~Rollback(r)
  <2> DEFINE u == row[txn[r].tok].user
             s == [txn[r] EXCEPT !.pc = "commit", !.at = now, !.user = u,
                                 !.pwdAt = user[u].pwdAt]
  <2>1. txn' = [txn EXCEPT ![r] = s] /\ UNCHANGED <<now, pwdClock, user, row, lock, ulock>>
    BY <1>2 DEF RefreshWrite, IInv, TypeOK
  <2>2. txn[r].op = "refresh" /\ Live(txn[r].tok) /\ lock[txn[r].tok] = r
    BY DEF RefreshWrite, IInv, PresentedHeld
  <2>3. txn[r].tok \in Token /\ u \in User /\ user[u].pwdAt \in Nat
    BY <2>2, TxnFacts DEF TxnShape, IInv, RowsShaped, TypeOK, UserRec
  <2>4. s \in TxnRec /\ TxnShape(s) /\ s.hit = {} /\ s.op = "refresh"
          /\ s.new = txn[r].new /\ s.tok = txn[r].tok /\ s.at = now
    BY ZenonT(40), <2>2, <2>3, TxnFacts DEF RefreshWrite, TxnRec, TxnShape, Pc
  <2>5. s.new # None => row[s.new].st = "free" /\ \A q \in Req \ {r} : txn[q].new # s.new
    BY <2>4 DEF IInv, NewReserved
  <2>6. Leeway = 0 => row[s.tok].revokedAt = 0
    BY <2>2, <2>4 DEF IInv, StrictPending
  <2>7. s.at <= now
    BY <2>4, TxnFacts
  <2> HIDE DEF s
  <2> QED
    BY <2>1, <2>2, <2>4, <2>5, <2>6, <2>7, OneTxnInv DEF IInv, TypeOK
<1> QED
  BY <1>1, <1>2

\* The requests that start by reading, without a lock and without a new token.
LEMMA ArrivalInv ==
  ASSUME IInv, NEW r \in Req, NEW s \in TxnRec, TxnShape(s),
         s.hit = {}, s.new = None, s.at = 0, s.op \notin {"refresh", "reuse"},
         Begin(r, s), UNCHANGED <<now, pwdClock, user, row, lock, ulock>>
  PROVE  IInv'
<1>1. s.at <= now
  BY TxnFacts
<1> QED
  BY <1>1, OneTxnInv DEF Begin, IInv, TypeOK

LEMMA RevokeOneBeginInv ==
  ASSUME IInv, NEW r \in Req, NEW t \in Token, RevokeOneBegin(r, t)
  PROVE  IInv'
<1>1. PICK op \in {"logout", "revokeSession"} :
        Begin(r, [IdleTxn EXCEPT !.pc = "stmt", !.op = op, !.tok = t])
  BY DEF RevokeOneBegin
<1> DEFINE s == [IdleTxn EXCEPT !.pc = "stmt", !.op = op, !.tok = t]
<1>2. s \in TxnRec /\ TxnShape(s) /\ s.hit = {} /\ s.new = None /\ s.at = 0 /\ s.op = op
  BY TxnFacts DEF IdleTxn, TxnRec, TxnShape, Pc, OpName
<1> HIDE DEF s
<1> QED
  BY <1>1, <1>2, ArrivalInv DEF RevokeOneBegin, s

LEMMA RevokeAllBeginInv ==
  ASSUME IInv, NEW r \in Req, NEW u \in User, RevokeAllBegin(r, u)
  PROVE  IInv'
<1> DEFINE s == [IdleTxn EXCEPT !.pc = "stmt", !.op = "revokeAll", !.user = u]
<1>1. s \in TxnRec /\ TxnShape(s) /\ s.hit = {} /\ s.new = None /\ s.at = 0 /\ s.op = "revokeAll"
  BY TxnFacts DEF IdleTxn, TxnRec, TxnShape, Pc, OpName
<1>2. Begin(r, s) /\ UNCHANGED <<now, pwdClock, user, row, lock, ulock>>
  BY DEF RevokeAllBegin
<1> HIDE DEF s
<1> QED
  BY <1>1, <1>2, ArrivalInv

LEMMA PurgeBeginInv ==
  ASSUME IInv, NEW r \in Req, PurgeBegin(r)
  PROVE  IInv'
<1> DEFINE s == [IdleTxn EXCEPT !.pc = "stmt", !.op = "purge"]
<1>1. s \in TxnRec /\ TxnShape(s) /\ s.hit = {} /\ s.new = None /\ s.at = 0 /\ s.op = "purge"
  BY TxnFacts DEF IdleTxn, TxnRec, TxnShape, Pc, OpName
<1>2. Begin(r, s) /\ UNCHANGED <<now, pwdClock, user, row, lock, ulock>>
  BY DEF PurgeBegin
<1> HIDE DEF s
<1> QED
  BY <1>1, <1>2, ArrivalInv

LEMMA AccountBeginInv ==
  ASSUME IInv, NEW r \in Req, NEW u \in User, AccountBegin(r, u)
  PROVE  IInv'
<1>1. PICK op \in {"changePassword", "disable", "suspend", "enable", "delete", "erase"},
           pc \in {"stamp", "userlock", "stmt"} :
        /\ Begin(r, [IdleTxn EXCEPT !.pc = pc, !.op = op, !.user = u])
        /\ op = "erase" => pc = "stmt"
  BY DEF AccountBegin
<1> DEFINE s == [IdleTxn EXCEPT !.pc = pc, !.op = op, !.user = u]
<1>2. s \in TxnRec /\ TxnShape(s) /\ s.hit = {} /\ s.new = None /\ s.at = 0 /\ s.op = op
  BY TxnFacts, <1>1 DEF IdleTxn, TxnRec, TxnShape, Pc, OpName
<1>3. Begin(r, s) /\ UNCHANGED <<now, pwdClock, user, row, lock, ulock>>
  BY <1>1 DEF AccountBegin
<1> HIDE DEF s
<1> QED
  BY <1>2, <1>3, ArrivalInv

LEMMA SnapshotInv ==
  ASSUME IInv, NEW r \in Req, Snapshot(r)
  PROVE  IInv'
<1> DEFINE found == {x \in Token : Matches(txn[r], x, now)}
           s == [txn[r] EXCEPT !.pc = "rows", !.at = now,
                              !.snap = {x \in Token : Live(x)}, !.todo = found]
<1>1. txn' = [txn EXCEPT ![r] = s] /\ UNCHANGED <<now, pwdClock, user, row, lock, ulock>>
  BY DEF Snapshot, IInv, TypeOK
<1>2. found \in SUBSET Token
  OBVIOUS
<1> HIDE DEF found
<1>3. s \in TxnRec /\ TxnShape(s) /\ s.hit = {} /\ s.op = txn[r].op
        /\ s.new = txn[r].new /\ s.tok = txn[r].tok /\ s.at = now
  BY <1>2, TxnFacts DEF Snapshot, TxnRec, TxnShape, Pc
<1>4. s.op \in {"refresh", "reuse"} => Live(s.tok) /\ lock[s.tok] = r
  BY <1>3 DEF IInv, PresentedHeld
<1>5. s.new # None => row[s.new].st = "free" /\ \A q \in Req \ {r} : txn[q].new # s.new
  BY <1>3 DEF IInv, NewReserved
<1>6. Leeway = 0 /\ s.op = "refresh" => row[s.tok].revokedAt = 0
  BY <1>3 DEF IInv, StrictPending
<1>7. s.at <= now
  BY <1>3, TxnFacts
<1> HIDE DEF s
<1> QED
  BY <1>1, <1>3, <1>4, <1>5, <1>6, <1>7, OneTxnInv DEF IInv, TypeOK

\* Account operations until they visit rows: nothing is staged in the rows.
LEMMA AccountStepInv ==
  ASSUME IInv, NEW r \in Req, NEW s \in TxnRec, TxnShape(s),
         txn' = [txn EXCEPT ![r] = s],
         s.op = txn[r].op, s.new = txn[r].new, s.at = txn[r].at, s.hit = {},
         s.op \notin {"refresh", "reuse"},
         UNCHANGED <<now, user, row, lock>>,
         pwdClock' \in Nat, ulock' \in [User -> Req \cup {None}]
  PROVE  IInv'
<1>1. s.new # None => row[s.new].st = "free" /\ \A q \in Req \ {r} : txn[q].new # s.new
  BY DEF IInv, NewReserved
<1> QED
  BY <1>1, TxnFacts, OneTxnInv

LEMMA StampPasswordInv ==
  ASSUME IInv, NEW r \in Req, StampPassword(r)
  PROVE  IInv'
<1> DEFINE s == [txn[r] EXCEPT !.pc = "userlock", !.pwdAt = pwdClock + 1]
<1>1. txn' = [txn EXCEPT ![r] = s] /\ pwdClock' = pwdClock + 1
        /\ UNCHANGED <<now, user, row, lock, ulock>>
  BY DEF StampPassword, IInv, TypeOK
<1>2. pwdClock' \in Nat
  BY <1>1 DEF IInv, TypeOK
<1>3. s \in TxnRec /\ TxnShape(s) /\ s.hit = {} /\ s.op = txn[r].op /\ s.new = txn[r].new
        /\ s.at = txn[r].at /\ s.op \notin {"refresh", "reuse"}
  BY <1>1, <1>2, TxnFacts DEF StampPassword, TxnRec, TxnShape, Pc
<1> HIDE DEF s
<1> QED
  BY <1>1, <1>2, <1>3, AccountStepInv DEF IInv, TypeOK

LEMMA UpdateUserInv ==
  ASSUME IInv, NEW r \in Req, UpdateUser(r)
  PROVE  IInv'
<1>1. CASE Rollback(r)
  BY <1>1, RollbackInv
<1>2. CASE ~Rollback(r)
  <2>1. PICK pc \in {"commit", "stmt"} :
          /\ txn' = [txn EXCEPT ![r] = [txn[r] EXCEPT !.pc = pc]]
          /\ pc = "commit" <=> txn[r].op \in {"enable", "suspend"}
    BY <1>2 DEF UpdateUser, IInv, TypeOK
  <2> DEFINE s == [txn[r] EXCEPT !.pc = pc]
  <2>2. txn[r].pc = "userlock" /\ UNCHANGED <<now, pwdClock, user, row, lock>>
          /\ ulock' = [ulock EXCEPT ![txn[r].user] = r]
    BY <1>2 DEF UpdateUser
  <2>3. s \in TxnRec /\ TxnShape(s) /\ s.hit = {} /\ s.op = txn[r].op
          /\ s.new = txn[r].new /\ s.at = txn[r].at /\ s.op \notin {"refresh", "reuse"}
    BY <2>1, <2>2, TxnFacts DEF TxnRec, TxnShape, Pc
  <2>4. pwdClock' \in Nat /\ ulock' \in [User -> Req \cup {None}]
    BY <2>2 DEF IInv, TypeOK
  <2> HIDE DEF s
  <2> QED
    BY <2>1, <2>2, <2>3, <2>4, AccountStepInv DEF s
<1> QED
  BY <1>1, <1>2

LEMMA TickInv == IInv /\ Tick => IInv'
<1> SUFFICES ASSUME IInv, Tick PROVE IInv'
  OBVIOUS
<1> USE DEF Tick
<1>1. TypeOK' /\ TxnsShaped'
  BY DEF IInv, TypeOK, TxnsShaped, TxnShape
<1>2. RowsShaped' /\ RotatedIsRevoked' /\ StrictRotation' /\ PresentedHeld'
  BY DEF IInv, RowsShaped, RotatedIsRevoked, StrictRotation, PresentedHeld, Live, Unrevoked
<1>3. HitsHeld'
  BY DEF IInv, HitsHeld, Live, TypeOK, TxnRec
<1>4. NewReserved' /\ StrictPending' /\ StampsPast'
  BY DEF IInv, NewReserved, StrictPending, StampsPast, TypeOK, TxnRec
<1> QED
  BY <1>1, <1>2, <1>3, <1>4 DEF IInv

LEMMA RefreshBeginInv ==
  ASSUME IInv, NEW r \in Req, NEW t \in Token, RefreshBegin(r, t)
  PROVE  IInv'
<1>1. PICK s \in TxnRec :
        /\ txn' = [txn EXCEPT ![r] = s]
        /\ TxnShape(s) /\ s.hit = {} /\ s.at = 0 /\ s.tok = t /\ s.op \in {"refresh", "reuse"}
        /\ s.new # None => s.new \in Fresh
        /\ s.op = "refresh" => ~Reused(t)
  <2>1. CASE Reused(t)
    <3> DEFINE s == [IdleTxn EXCEPT !.pc = "stmt", !.op = "reuse", !.tok = t]
    <3>1. txn' = [txn EXCEPT ![r] = s]
      BY <2>1 DEF RefreshBegin, Begin
    <3>2. s \in TxnRec /\ TxnShape(s) /\ s.hit = {} /\ s.at = 0 /\ s.tok = t /\ s.op = "reuse"
            /\ s.new = None
      BY TxnFacts DEF IdleTxn, TxnRec, TxnShape, Pc, OpName
    <3> HIDE DEF s
    <3> QED
      BY <3>1, <3>2
  <2>2. CASE ~Reused(t)
    <3>1. PICK n \in Fresh : txn' = [txn EXCEPT ![r] =
            [IdleTxn EXCEPT !.pc = "write", !.op = "refresh", !.tok = t, !.new = n]]
      BY <2>2 DEF RefreshBegin, Begin
    <3> DEFINE s == [IdleTxn EXCEPT !.pc = "write", !.op = "refresh", !.tok = t, !.new = n]
    <3>2. s \in TxnRec /\ TxnShape(s) /\ s.hit = {} /\ s.at = 0 /\ s.tok = t /\ s.op = "refresh"
            /\ s.new = n
      BY TxnFacts DEF IdleTxn, TxnRec, TxnShape, Pc, OpName, Fresh
    <3> HIDE DEF s
    <3> QED
      BY <2>2, <3>1, <3>2 DEF s
  <2> QED
    BY <2>1, <2>2
<1>2. lock[t] = None /\ Live(t) /\ lock' = [lock EXCEPT ![t] = r]
        /\ UNCHANGED <<now, pwdClock, user, row, ulock>>
  BY DEF RefreshBegin, ReadForUpdate
<1>3. TypeOK'
  BY <1>1, <1>2 DEF IInv, TypeOK
<1>4. TxnsShaped'
  BY <1>1 DEF IInv, TypeOK, TxnsShaped, TxnShape
<1>5. RowsShaped' /\ RotatedIsRevoked' /\ StrictRotation'
  BY <1>2 DEF IInv, RowsShaped, RotatedIsRevoked, StrictRotation, Live, Unrevoked
<1>6. PresentedHeld'
  BY <1>1, <1>2, NoneAssumption DEF IInv, PresentedHeld, TypeOK, TxnRec, Live
<1>7. HitsHeld'
  BY <1>1, <1>2, NoneAssumption DEF IInv, HitsHeld, TypeOK, TxnRec, Live
<1>8. NewReserved'
  BY <1>1, <1>2 DEF IInv, NewReserved, Fresh, TypeOK
<1>9. StrictPending' /\ StampsPast'
  BY <1>1, <1>2, TxnFacts DEF IInv, StrictPending, StampsPast, Reused, TypeOK
<1> QED
  BY <1>3, <1>4, <1>5, <1>6, <1>7, <1>8, <1>9 DEF IInv

LEMMA VisitRowInv ==
  ASSUME IInv, NEW r \in Req, NEW x \in Token, VisitRow(r, x)
  PROVE  IInv'
<1> DEFINE hit == IF Matches(txn[r], x, txn[r].at) THEN txn[r].hit \cup {x} ELSE txn[r].hit
           s == [txn[r] EXCEPT !.todo = txn[r].todo \ {x}, !.hit = hit]
<1>1. txn' = [txn EXCEPT ![r] = s]
  BY DEF VisitRow, IInv, TypeOK
<1>2. txn[r].pc = "rows" /\ lock[x] \in {None, r} /\ UNCHANGED <<now, pwdClock, user, row, ulock>>
        /\ lock' = IF Live(x) THEN [lock EXCEPT ![x] = r] ELSE lock
  BY DEF VisitRow
<1>3. s \in TxnRec /\ s.pc = "rows" /\ s.op = txn[r].op /\ s.new = txn[r].new
        /\ s.tok = txn[r].tok /\ s.at = txn[r].at /\ s.user = txn[r].user /\ s.hit = hit
  BY <1>2, TxnFacts DEF TxnRec
<1>4. TxnShape(s)
  BY <1>2, <1>3, TxnFacts DEF TxnShape
<1>5. \A y \in hit : /\ Live(y) /\ lock'[y] = r
                     /\ txn[r].op \notin {"logout", "purge", "erase"} => row[y].revokedAt = 0
                     /\ txn[r].op = "purge" => row[y].expiresAt < txn[r].at
  <2> SUFFICES ASSUME NEW y \in hit
               PROVE  /\ Live(y) /\ lock'[y] = r
                      /\ txn[r].op \notin {"logout", "purge", "erase"} => row[y].revokedAt = 0
                      /\ txn[r].op = "purge" => row[y].expiresAt < txn[r].at
    OBVIOUS
  <2>1. CASE y \in txn[r].hit
    BY <1>2, <2>1, TxnFacts DEF IInv, HitsHeld, TxnRec, TypeOK
  <2>2. CASE y = x /\ Matches(txn[r], x, txn[r].at)
    BY <1>2, <2>2 DEF Matches, Purgeable, IInv, TypeOK
  <2> QED
    BY <2>1, <2>2
<1> HIDE DEF s, hit
<1>6. TypeOK'
  BY <1>1, <1>2, <1>3 DEF IInv, TypeOK
<1>7. TxnsShaped'
  BY <1>1, <1>2, <1>4 DEF IInv, TypeOK, TxnsShaped, TxnShape
<1>8. RowsShaped' /\ RotatedIsRevoked' /\ StrictRotation'
  BY <1>2 DEF IInv, RowsShaped, RotatedIsRevoked, StrictRotation, Live, Unrevoked
<1>9. PresentedHeld'
  BY <1>1, <1>2, <1>3, NoneAssumption DEF IInv, PresentedHeld, TypeOK, Live
<1>10. HitsHeld'
  BY <1>1, <1>2, <1>3, <1>5, NoneAssumption DEF IInv, HitsHeld, TypeOK, TxnRec, Live
<1>11. NewReserved' /\ StrictPending' /\ StampsPast'
  BY <1>1, <1>2, <1>3 DEF IInv, NewReserved, StrictPending, StampsPast, TypeOK
<1> QED
  BY <1>6, <1>7, <1>8, <1>9, <1>10, <1>11 DEF IInv

\* r ends: the other requests keep what they know, provided their rows do.
LEMMA EndedTxns ==
  ASSUME IInv, NEW r \in Req, txn' = [txn EXCEPT ![r] = IdleTxn], now' = now
  PROVE  TxnsShaped' /\ StampsPast'
<1>1. TxnsShaped'
  BY DEF IInv, TypeOK, TxnsShaped, TxnShape, IdleTxn
<1>2. StampsPast'
  BY DEF IInv, TypeOK, StampsPast, IdleTxn
<1> QED
  BY <1>1, <1>2

LEMMA LoginCommitInv ==
  ASSUME IInv, NEW r \in Req, LoginCommit(r)
  PROVE  IInv'
<1> DEFINE n == txn[r].new
           rec == [FreeRow EXCEPT !.st = "live", !.user = txn[r].user, !.family = n,
                                  !.expiresAt = txn[r].at + RefreshTTL,
                                  !.pwdAt = txn[r].pwdAt, !.authAt = txn[r].pwdAt]
<1>1. n \in Token /\ txn[r].user \in User /\ row[n].st = "free"
  BY TxnFacts, NoneAssumption DEF LoginCommit, TxnShape, IInv, NewReserved
<1>2. row' = [row EXCEPT ![n] = rec] /\ txn' = [txn EXCEPT ![r] = IdleTxn]
        /\ UNCHANGED <<now, pwdClock, user, lock, ulock>>
  BY DEF LoginCommit
<1>3. rec \in RowRec /\ rec.st = "live" /\ rec.user \in User /\ rec.family = n
        /\ rec.parent = None
  BY <1>1, ExpiryType, TxnFacts DEF TxnRec, RowRec, FreeRow, Reason
<1> HIDE DEF n, rec
<1>4. TypeOK'
  BY <1>1, <1>2, <1>3 DEF IInv, TypeOK, TxnRec, IdleTxn, Pc, OpName
<1>5. RowsShaped'
  BY <1>1, <1>2, <1>3, NoneAssumption DEF IInv, RowsShaped, TypeOK, RowRec, Live
<1>6. PresentedHeld'
  BY <1>1, <1>2 DEF IInv, PresentedHeld, TypeOK, Live, IdleTxn
<1>7. HitsHeld'
  BY <1>1, <1>2 DEF IInv, HitsHeld, TypeOK, Live, IdleTxn, TxnRec
<1>8. NewReserved'
  BY <1>1, <1>2, NoneAssumption DEF n, IInv, NewReserved, TypeOK, IdleTxn, TxnRec
<1>9. StrictPending'
  BY <1>1, <1>2 DEF IInv, StrictPending, PresentedHeld, TypeOK, Live, IdleTxn
<1>10. RotatedIsRevoked'
  BY <1>1, <1>2, <1>3 DEF IInv, RotatedIsRevoked, RowsShaped, TypeOK, Live, RowRec
<1>11. StrictRotation'
  BY <1>1, <1>2, <1>3 DEF IInv, StrictRotation, RowsShaped, TypeOK, Live, Unrevoked
<1> QED
  BY <1>2, <1>4, <1>5, <1>6, <1>7, <1>8, <1>9, <1>10, <1>11, EndedTxns DEF IInv

LEMMA RefreshCommitInv ==
  ASSUME IInv, NEW r \in Req, RefreshCommit(r)
  PROVE  IInv'
<1> DEFINE t == txn[r].tok
           n == txn[r].new
           old == Presented(txn[r])
           rec == [FreeRow EXCEPT !.st = "live", !.user = txn[r].user,
                            !.family = row[t].family, !.parent = t,
                            !.expiresAt = txn[r].at + RefreshTTL,
                            !.pwdAt = txn[r].pwdAt, !.authAt = row[t].authAt]
<1>1. /\ txn[r].op = "refresh" /\ t \in Token /\ n \in Token /\ n # t
      /\ txn[r].user \in User /\ row[n].st = "free" /\ Live(t) /\ lock[t] = r
      /\ row[t] \in RowRec /\ row[t].family \in Token
      /\ txn[r].at # 0 /\ txn[r].at \in Nat
  BY TxnFacts, NoneAssumption
  DEF RefreshCommit, TxnShape, TxnRec, IInv, NewReserved, PresentedHeld, RowsShaped, Live, TypeOK
<1>2. row' = [row EXCEPT ![t] = old, ![n] = rec] /\ txn' = [txn EXCEPT ![r] = IdleTxn]
        /\ lock' = Released(r) /\ UNCHANGED <<now, pwdClock, user, ulock>>
  BY DEF RefreshCommit
<1>3. rec \in RowRec /\ rec.st = "live" /\ rec.user \in User
        /\ rec.family = row[t].family /\ rec.parent = t
  BY <1>1, ExpiryType, TxnFacts DEF TxnRec, RowRec, FreeRow, Reason
<1>4. old \in RowRec /\ old.st = "live" /\ old.user = row[t].user /\ old.revokedAt # 0
        /\ old.family = row[t].family /\ old.parent = row[t].parent
  BY <1>1 DEF Presented, RowRec, Reason, Live
<1>5. Leeway = 0 => row[t].revokedAt = 0
  BY <1>1 DEF IInv, StrictPending
<1> HIDE DEF t, n, old, rec
<1>6. TypeOK'
  BY <1>1, <1>2, <1>3, <1>4 DEF IInv, TypeOK, TxnRec, IdleTxn, Pc, OpName, Released
<1>7. RowsShaped'
  BY <1>1, <1>2, <1>3, <1>4, NoneAssumption DEF IInv, RowsShaped, TypeOK, RowRec, Live
<1>8. PresentedHeld'
  BY <1>1, <1>2, <1>4 DEF IInv, PresentedHeld, TypeOK, Live, IdleTxn, Released, TxnsShaped, TxnShape
<1>9. HitsHeld'
  BY <1>1, <1>2, <1>4 DEF IInv, HitsHeld, TypeOK, Live, IdleTxn, TxnRec, Released
<1>10. NewReserved'
  BY <1>1, <1>2, <1>4, NoneAssumption DEF n, IInv, NewReserved, TypeOK, IdleTxn, TxnRec, Live
<1>11. StrictPending'
  BY <1>1, <1>2 DEF IInv, StrictPending, PresentedHeld, TypeOK, Live, IdleTxn, TxnsShaped, TxnShape
<1>12. RotatedIsRevoked'
  BY <1>1, <1>2, <1>3, <1>4 DEF IInv, RotatedIsRevoked, RowsShaped, TypeOK, Live, RowRec
<1>13. StrictRotation'
  BY <1>1, <1>2, <1>3, <1>4, <1>5 DEF IInv, StrictRotation, RowsShaped, TypeOK, Live, Unrevoked
<1> QED
  BY <1>2, <1>6, <1>7, <1>8, <1>9, <1>10, <1>11, <1>12, <1>13, EndedTxns DEF IInv

\* A published bulk UPDATE changes revoked_at of the rows it locked, and
\* nothing else that the invariant speaks of.
LEMMA RowsRevokedInv ==
  ASSUME IInv, NEW r \in Req, txn[r].op \notin {"refresh", "login"},
         txn[r].hit # {} => txn[r].at # 0,
         row' = RevokedRows(r), txn' = [txn EXCEPT ![r] = IdleTxn],
         lock' = Released(r), now' = now,
         pwdClock' \in Nat, user' \in [User -> UserRec],
         ulock' \in [User -> Req \cup {None}]
  PROVE  IInv'
<1> DEFINE hit == txn[r].hit
<1>1. \A x \in hit : Live(x) /\ lock[x] = r
  BY DEF IInv, HitsHeld
<1>2. txn[r].op = "reuse" => Live(txn[r].tok)
  BY DEF IInv, PresentedHeld
<1>3. txn[r] \in TxnRec /\ hit \subseteq Token
  BY TxnFacts DEF TxnRec
<1>4. \A x \in Token :
        /\ row'[x] \in RowRec
        /\ row'[x].st = row[x].st /\ row'[x].user = row[x].user
        /\ row'[x].family = row[x].family /\ row'[x].parent = row[x].parent
        /\ row'[x].expiresAt = row[x].expiresAt
        /\ ~Live(x) => row'[x] = row[x]
        /\ x \notin hit => row'[x].revokedAt = row[x].revokedAt
        /\ x \in hit => row'[x].revokedAt # 0
  <2> SUFFICES ASSUME NEW x \in Token
               PROVE  /\ row'[x] \in RowRec
                      /\ row'[x].st = row[x].st /\ row'[x].user = row[x].user
                      /\ row'[x].family = row[x].family /\ row'[x].parent = row[x].parent
                      /\ row'[x].expiresAt = row[x].expiresAt
                      /\ ~Live(x) => row'[x] = row[x]
                      /\ x \notin hit => row'[x].revokedAt = row[x].revokedAt
                      /\ x \in hit => row'[x].revokedAt # 0
    OBVIOUS
  <2>1. row[x] \in RowRec
    BY DEF IInv, TypeOK
  <2>2. CASE x \in hit
    <3>1. PICK why \in Reason :
            row'[x] = [row[x] EXCEPT !.revokedAt = txn[r].at, !.by = why]
      BY <2>1, <2>2 DEF RevokedRows, RowRec, Reason
    <3> QED
      BY <1>1, <1>3, <2>1, <2>2, <3>1 DEF RowRec, TxnRec
  <2>3. CASE x \notin hit
    BY <1>2, <2>1, <2>3 DEF RevokedRows, RowRec, Reason
  <2> QED
    BY <2>2, <2>3
<1>5. row' \in [Token -> RowRec]
  BY <1>4 DEF RevokedRows
<1> HIDE DEF hit
<1>6. TypeOK'
  BY <1>5 DEF IInv, TypeOK, TxnRec, IdleTxn, Pc, OpName, Released
<1>7. RowsShaped'
  BY <1>4, <1>5, NoneAssumption DEF IInv, RowsShaped, TypeOK, RowRec, Live
<1>8. PresentedHeld'
  BY <1>4 DEF IInv, PresentedHeld, TypeOK, Live, IdleTxn, Released, TxnsShaped, TxnShape
<1>9. HitsHeld'
  BY <1>1, <1>4 DEF hit, IInv, HitsHeld, TypeOK, Live, IdleTxn, TxnRec, Released
<1>10. NewReserved'
  BY <1>4, NoneAssumption DEF IInv, NewReserved, TypeOK, IdleTxn, TxnRec
<1>11. StrictPending'
  BY <1>1, <1>4 DEF IInv, StrictPending, PresentedHeld, TypeOK, IdleTxn, TxnsShaped, TxnShape
<1>12. RotatedIsRevoked'
  BY <1>4 DEF IInv, RotatedIsRevoked, TypeOK, Live, RowRec
<1>13. StrictRotation'
  BY <1>4 DEF IInv, StrictRotation, TypeOK, Live, Unrevoked
<1> QED
  BY <1>6, <1>7, <1>8, <1>9, <1>10, <1>11, <1>12, <1>13, EndedTxns DEF IInv

LEMMA RevokeCommitInv ==
  ASSUME IInv, NEW r \in Req, RevokeCommit(r)
  PROVE  IInv'
<1>1. txn[r].op \notin {"refresh", "login"} /\ txn[r].at # 0
  BY TxnFacts DEF RevokeCommit, Visited, TxnShape
<1> QED
  BY <1>1, RowsRevokedInv DEF RevokeCommit, IInv, TypeOK

LEMMA AccountCommitInv ==
  ASSUME IInv, NEW r \in Req, AccountCommit(r)
  PROVE  IInv'
<1>1. txn[r].op \in {"changePassword", "disable", "delete", "enable", "suspend"}
        /\ txn[r].user \in User /\ txn[r].pwdAt \in Nat
  BY TxnFacts DEF AccountCommit, TxnShape, TxnRec
<1>2. txn[r].hit # {} => txn[r].at # 0
  BY TxnFacts DEF AccountCommit, Visited, TxnShape
<1>3. UserAfter(txn[r]) \in UserRec
  BY ZenonT(40), <1>1 DEF UserAfter, IInv, TypeOK, UserRec
<1>4. user' \in [User -> UserRec] /\ ulock' \in [User -> Req \cup {None}]
  BY <1>3 DEF AccountCommit, UReleased, IInv, TypeOK
<1> QED
  BY <1>1, <1>2, <1>4, RowsRevokedInv DEF AccountCommit, IInv, TypeOK

\* A published DELETE removes rows that no other request has locked.
LEMMA RowsRemovedInv ==
  ASSUME IInv, NEW r \in Req, NEW D \in SUBSET Token,
         \A x \in D : Live(x) /\ lock[x] \in {None, r},
         row' = [x \in Token |-> IF x \in D THEN GoneRow ELSE row[x]],
         txn' = [txn EXCEPT ![r] = IdleTxn], lock' = Released(r),
         now' = now, pwdClock' = pwdClock, ulock' = ulock, user' \in [User -> UserRec]
  PROVE  IInv'
<1>1. GoneRow \in RowRec /\ GoneRow.st = "gone" /\ GoneRow.revokedAt = 0
  BY DEF GoneRow, FreeRow, RowRec, Reason
<1>2. TypeOK'
  BY <1>1 DEF IInv, TypeOK, TxnRec, IdleTxn, Pc, OpName, Released
<1>3. RowsShaped'
  BY <1>1, NoneAssumption DEF IInv, RowsShaped, TypeOK, RowRec, Live
<1>4. \A q \in Req \ {r} : \A x \in Token : lock[x] = q => row'[x] = row[x] /\ lock'[x] = q
  BY NoneAssumption DEF Released
<1>5. PresentedHeld'
  BY <1>4 DEF IInv, PresentedHeld, TypeOK, Live, IdleTxn, TxnsShaped, TxnShape
<1>6. HitsHeld'
  BY <1>4 DEF IInv, HitsHeld, TypeOK, Live, IdleTxn, TxnRec
<1>7. NewReserved'
  BY NoneAssumption DEF IInv, NewReserved, TypeOK, IdleTxn, TxnRec, Live
<1>8. StrictPending'
  BY <1>4 DEF IInv, StrictPending, PresentedHeld, TypeOK, IdleTxn, TxnsShaped, TxnShape
<1>9. RotatedIsRevoked'
  BY <1>1 DEF IInv, RotatedIsRevoked, TypeOK, Live, RowRec
<1>10. StrictRotation'
  BY <1>1 DEF IInv, StrictRotation, TypeOK, Live, Unrevoked
<1> QED
  BY <1>2, <1>3, <1>5, <1>6, <1>7, <1>8, <1>9, <1>10, EndedTxns DEF IInv

LEMMA PurgeCommitInv ==
  ASSUME IInv, NEW r \in Req, PurgeCommit(r)
  PROVE  IInv'
<1>1. txn[r].hit \in SUBSET Token /\ \A x \in txn[r].hit : Live(x) /\ lock[x] = r
  BY TxnFacts DEF TxnRec, IInv, HitsHeld
<1> QED
  BY <1>1, RowsRemovedInv DEF PurgeCommit, IInv, TypeOK

LEMMA EraseCommitInv ==
  ASSUME IInv, NEW r \in Req, EraseCommit(r)
  PROVE  IInv'
<1> DEFINE u == txn[r].user
           D == {x \in Token : Live(x) /\ row[x].user = u}
<1>1. \A x \in D : Live(x) /\ lock[x] \in {None, r}
  BY DEF EraseCommit, EraseBlockers
<1>2. row' = [x \in Token |-> IF x \in D THEN GoneRow ELSE row[x]]
  BY DEF EraseCommit
<1>3. user' \in [User -> UserRec]
  BY DEF EraseCommit, IInv, TypeOK, UserRec
<1> HIDE DEF D
<1>4. D \in SUBSET Token
  BY DEF D
<1> QED
  BY <1>1, <1>2, <1>3, <1>4, RowsRemovedInv DEF EraseCommit, IInv, TypeOK

\* All of them together.
LEMMA NextInv == IInv /\ [Next]_vars => IInv'
<1> SUFFICES ASSUME IInv, [Next]_vars PROVE IInv'
  OBVIOUS
<1>1. CASE Tick
  BY <1>1, TickInv
<1>2. ASSUME NEW r \in Req, Arrive(r) PROVE IInv'
  BY <1>2, LoginBeginInv, PurgeBeginInv, RefreshBeginInv, RevokeOneBeginInv,
     RevokeAllBeginInv, AccountBeginInv DEF Arrive
<1>3. ASSUME NEW r \in Req, Proceed(r) PROVE IInv'
  BY <1>3, LoginWriteInv, LoginCommitInv, RefreshWriteInv, RefreshCommitInv, SnapshotInv,
     VisitRowInv, RevokeCommitInv, PurgeCommitInv, StampPasswordInv, UpdateUserInv,
     AccountCommitInv, EraseCommitInv DEF Proceed
<1>4. ASSUME NEW r \in Req, DeadlockVictim(r) \/ Abort(r) PROVE IInv'
  BY <1>4, RollbackInv DEF DeadlockVictim, Abort
<1>5. CASE UNCHANGED vars
  <2> USE <1>5 DEF vars
  <2>1. TypeOK' /\ TxnsShaped' /\ StampsPast' /\ NewReserved'
    BY DEF IInv, TypeOK, TxnsShaped, StampsPast, NewReserved
  <2>2. RowsShaped' /\ RotatedIsRevoked' /\ StrictRotation'
    BY DEF IInv, RowsShaped, RotatedIsRevoked, StrictRotation, Live, Unrevoked
  <2>3. PresentedHeld' /\ HitsHeld' /\ StrictPending'
    BY DEF IInv, PresentedHeld, HitsHeld, StrictPending, Live
  <2> QED
    BY <2>1, <2>2, <2>3 DEF IInv
<1> QED
  BY <1>1, <1>2, <1>3, <1>4, <1>5 DEF Next

\* The invariant that carries every theorem below.
THEOREM SpecInv == Spec => []IInv
BY InitInv, NextInv, PTL DEF Spec

\* The variables keep their types: TypeOK of AuthSessions.
THEOREM SpecTypeOK == Spec => []TypeOK
<1>1. IInv => TypeOK
  BY DEF IInv
<1> QED
  BY <1>1, SpecInv, PTL

\* A rotated token is revoked, for every interleaving of rotations with
\* logouts, bulk revocations, purges and account changes: refresh_access_token
\* never leaves both the presented token and its successor usable.
THEOREM SpecRotatedIsRevoked == Spec => []RotatedIsRevoked
<1>1. IInv => RotatedIsRevoked
  BY DEF IInv
<1> QED
  BY <1>1, SpecInv, PTL

\* With the leeway switched off, a family never has two unrevoked tokens.
THEOREM SpecStrictRotation == Spec => []StrictRotation
<1>1. IInv => StrictRotation
  BY DEF IInv
<1> QED
  BY <1>1, SpecInv, PTL

-----------------------------------------------------------------------------
(* Action properties.  Only the six commits write refresh_tokens. *)

RowCommit(r) ==
    \/ LoginCommit(r) \/ RefreshCommit(r) \/ RevokeCommit(r)
    \/ AccountCommit(r) \/ PurgeCommit(r) \/ EraseCommit(r)

\* Only commits, the purge and a login write rows, ...
LEMMA RowWriters ==
  ASSUME [Next]_vars, row' # row
  PROVE  \E r \in Req : RowCommit(r)
<1>1. ~Tick /\ ~UNCHANGED vars
  BY DEF Tick, vars
<1>2. ASSUME NEW r \in Req, Arrive(r) PROVE FALSE
  BY <1>2 DEF Arrive, LoginBegin, PurgeBegin, RefreshBegin, RevokeOneBegin,
     RevokeAllBegin, AccountBegin
<1>3. ASSUME NEW r \in Req, DeadlockVictim(r) \/ Abort(r) PROVE FALSE
  BY <1>3 DEF DeadlockVictim, Abort, Rollback
<1>4. ASSUME NEW r \in Req, Proceed(r) PROVE RowCommit(r)
  BY <1>4 DEF Proceed, RowCommit, LoginWrite, RefreshWrite, Snapshot, VisitRow,
     StampPassword, UpdateUser, Rollback
<1> QED
  BY <1>1, <1>2, <1>3, <1>4 DEF Next

LEMMA ClockStep ==
  ASSUME [Next]_vars
  PROVE  now' = now \/ now' = now + 1
<1>1. CASE Tick \/ UNCHANGED vars
  BY <1>1 DEF Tick, vars
<1>2. ASSUME NEW r \in Req, Arrive(r) PROVE now' = now
  BY <1>2 DEF Arrive, LoginBegin, PurgeBegin, RefreshBegin, RevokeOneBegin,
     RevokeAllBegin, AccountBegin
<1>3. ASSUME NEW r \in Req, Proceed(r) PROVE now' = now
  BY <1>3 DEF Proceed, LoginWrite, LoginCommit, RefreshWrite, RefreshCommit, Snapshot,
     VisitRow, RevokeCommit, PurgeCommit, StampPassword, UpdateUser, AccountCommit,
     EraseCommit, Rollback
<1>4. ASSUME NEW r \in Req, DeadlockVictim(r) \/ Abort(r) PROVE now' = now
  BY <1>4 DEF DeadlockVictim, Abort, Rollback
<1> QED
  BY <1>1, <1>2, <1>3, <1>4 DEF Next

\* What a commit may do to a row that is in the table.
LEMMA CommitEffect ==
  ASSUME IInv, NEW r \in Req, RowCommit(r), NEW t \in Token, Live(t)
  PROVE  \/ /\ Live(t)' /\ row'[t].family = row[t].family /\ row'[t].user = row[t].user
            /\ row'[t].expiresAt = row[t].expiresAt
            /\ row[t].revokedAt # 0 => \/ row'[t].revokedAt = row[t].revokedAt
                                       \/ txn[r].op = "logout" /\ t \in txn[r].hit
            /\ row'[t].revokedAt = 0 => row[t].revokedAt = 0
         \/ /\ row'[t] = GoneRow
            /\ \/ row[t].expiresAt < now
               \/ ~user'[row[t].user].present
<1>1. row[t] \in RowRec /\ row \in [Token -> RowRec] /\ row[t].user \in User
  BY DEF IInv, TypeOK, RowsShaped
<1>2. CASE LoginCommit(r)
  <2>1. txn[r].new # t
    BY <1>2, TxnFacts, NoneAssumption DEF LoginCommit, TxnShape, IInv, NewReserved, Live
  <2>2. row'[t] = row[t]
    BY <1>1, <1>2, <2>1 DEF LoginCommit
  <2> QED
    BY <2>2 DEF Live
<1>3. CASE RefreshCommit(r)
  <2>1. txn[r].new # t /\ txn[r].tok \in Token
    BY <1>3, TxnFacts, NoneAssumption DEF RefreshCommit, TxnShape, IInv, NewReserved, Live
  <2>2. row'[t] = IF t = txn[r].tok THEN Presented(txn[r]) ELSE row[t]
    BY <1>1, <1>3, <2>1 DEF RefreshCommit
  <2>3. txn[r].at # 0
    BY <1>3, TxnFacts DEF RefreshCommit, TxnShape
  <2> QED
    BY <1>1, <2>2, <2>3 DEF Live, Presented, RowRec
<1>4. CASE RevokeCommit(r) \/ AccountCommit(r)
  <2>1. row' = RevokedRows(r) /\ txn[r].op \notin {"purge", "erase"}
    BY <1>4 DEF RevokeCommit, AccountCommit
  <2>2. txn[r].hit # {} => txn[r].at # 0
    BY <1>4, TxnFacts DEF RevokeCommit, AccountCommit, Visited, TxnShape
  <2>3. t \in txn[r].hit => txn[r].op = "logout" \/ row[t].revokedAt = 0
    BY <2>1 DEF IInv, HitsHeld
  <2>4. CASE t \in txn[r].hit
    <3>1. PICK why \in Reason :
            row'[t] = [row[t] EXCEPT !.revokedAt = txn[r].at, !.by = why]
      BY <1>1, <2>1, <2>4 DEF RevokedRows, RowRec, Reason
    <3> QED
      BY <1>1, <2>2, <2>3, <2>4, <3>1 DEF Live, RowRec
  <2>5. CASE t \notin txn[r].hit
    BY <1>1, <2>1, <2>5 DEF RevokedRows, Live, RowRec
  <2> QED
    BY <2>4, <2>5
<1>5. CASE PurgeCommit(r)
  <2>1. t \in txn[r].hit => row[t].expiresAt < txn[r].at
    BY <1>5 DEF PurgeCommit, IInv, HitsHeld
  <2>2. txn[r].at \in Nat /\ now \in Nat /\ txn[r].at <= now /\ row[t].expiresAt \in Nat
    BY <1>1, TxnFacts DEF TxnRec, RowRec
  <2>3. t \in txn[r].hit => row[t].expiresAt < now
    BY <2>1, <2>2
  <2>4. row'[t] = IF t \in txn[r].hit THEN GoneRow ELSE row[t]
    BY <1>5 DEF PurgeCommit
  <2> QED
    BY <2>3, <2>4 DEF Live
<1>6. CASE EraseCommit(r)
  <2>1. row[t].user = txn[r].user => row'[t] = GoneRow /\ ~user'[row[t].user].present
    BY <1>1, <1>6 DEF EraseCommit, IInv, TypeOK, UserRec
  <2>2. row[t].user # txn[r].user => row'[t] = row[t]
    BY <1>6 DEF EraseCommit
  <2> QED
    BY <2>1, <2>2 DEF Live
<1> QED
  BY <1>2, <1>3, <1>4, <1>5, <1>6 DEF RowCommit

\* revoked_at never moves once it is set, except by a logout: retries of a
\* rotation do not prolong REFRESH_TOKEN_ROTATION_LEEWAY_SECONDS.
THEOREM SpecLeewayNotProlonged == Spec => LeewayNotProlonged
<1> DEFINE Step == \A t \in Token :
         Live(t) /\ row[t].revokedAt # 0 /\ row'[t].revokedAt \notin {0, row[t].revokedAt}
           => \E r \in Req : txn[r].op = "logout" /\ t \in txn[r].hit
<1>1. IInv /\ [Next]_vars => [Step]_vars
  <2> SUFFICES ASSUME IInv, [Next]_vars, NEW t \in Token, Live(t), row[t].revokedAt # 0,
                      row'[t].revokedAt \notin {0, row[t].revokedAt}
               PROVE  \E r \in Req : txn[r].op = "logout" /\ t \in txn[r].hit
    OBVIOUS
  <2>1. PICK r \in Req : RowCommit(r)
    BY RowWriters
  <2> QED
    BY <2>1, CommitEffect DEF GoneRow, FreeRow
<1> QED
  BY <1>1, SpecInv, PTL DEF Spec, LeewayNotProlonged

\* purge_expired keeps revoked rows until they expire, whatever it raced with.
THEOREM SpecReplayEvidenceKept == Spec => ReplayEvidenceKept
<1> DEFINE Step == \A t \in Token :
         Live(t) /\ ~Live(t)' => row[t].expiresAt < now \/ ~user'[row[t].user].present
<1>1. IInv /\ [Next]_vars => [Step]_vars
  <2> SUFFICES ASSUME IInv, [Next]_vars, NEW t \in Token, Live(t), ~Live(t)'
               PROVE  row[t].expiresAt < now \/ ~user'[row[t].user].present
    OBVIOUS
  <2>1. PICK r \in Req : RowCommit(r)
    BY RowWriters DEF Live
  <2> QED
    BY <2>1, CommitEffect
<1> QED
  BY <1>1, SpecInv, PTL DEF Spec, ReplayEvidenceKept

\* What a commit may do to a hash that is not in the table.
LEMMA CommitInserts ==
  ASSUME IInv, NEW r \in Req, RowCommit(r), NEW t \in Token, ~Live(t), row'[t] # row[t]
  PROVE  /\ row[t].st = "free"
         /\ \/ row'[t].family = t
            \/ /\ txn[r].op = "refresh"
               /\ row'[t].family = row[txn[r].tok].family
<1>1. row[t] \in RowRec /\ row \in [Token -> RowRec]
  BY DEF IInv, TypeOK
<1>2. CASE LoginCommit(r)
  <2>1. txn[r].new \in Token /\ row[txn[r].new].st = "free"
    BY <1>2, TxnFacts, NoneAssumption DEF LoginCommit, TxnShape, IInv, NewReserved
  <2>2. t = txn[r].new
    BY <1>1, <1>2, <2>1 DEF LoginCommit
  <2> QED
    BY <1>1, <1>2, <2>1, <2>2 DEF LoginCommit, FreeRow
<1>3. CASE RefreshCommit(r)
  <2>1. /\ txn[r].new \in Token /\ row[txn[r].new].st = "free" /\ Live(txn[r].tok)
        /\ txn[r].op = "refresh"
    BY <1>3, TxnFacts, NoneAssumption
    DEF RefreshCommit, TxnShape, IInv, NewReserved, PresentedHeld
  <2>2. t = txn[r].new
    BY <1>1, <1>3, <2>1 DEF RefreshCommit
  <2> QED
    BY <1>1, <1>3, <2>1, <2>2 DEF RefreshCommit, FreeRow
<1>4. CASE RevokeCommit(r) \/ AccountCommit(r)
  <2>1. row' = RevokedRows(r)
    BY <1>4 DEF RevokeCommit, AccountCommit
  <2>2. t \notin txn[r].hit /\ ~(txn[r].op = "reuse" /\ t = txn[r].tok)
    BY DEF IInv, HitsHeld, PresentedHeld
  <2> QED
    BY <2>1, <2>2 DEF RevokedRows
<1>5. CASE PurgeCommit(r)
  <2>1. t \notin txn[r].hit
    BY DEF IInv, HitsHeld
  <2> QED
    BY <1>5, <2>1 DEF PurgeCommit
<1>6. CASE EraseCommit(r)
  BY <1>6 DEF EraseCommit
<1> QED
  BY <1>2, <1>3, <1>4, <1>5, <1>6 DEF RowCommit

\* A rotation is pending only where RefreshBegin admitted it.
LEMMA PendingRotation ==
  ASSUME IInv, [Next]_vars, NEW q \in Req, txn'[q].op = "refresh"
  PROVE  \/ txn[q].op = "refresh" /\ txn'[q].tok = txn[q].tok
         \/ \E t \in Token : /\ txn'[q].tok = t /\ row' = row
                             /\ Live(t) /\ ~Reused(t) /\ now < row[t].expiresAt
<1> DEFINE P == \/ txn[q].op = "refresh" /\ txn'[q].tok = txn[q].tok
                \/ \E t \in Token : /\ txn'[q].tok = t /\ row' = row
                                    /\ Live(t) /\ ~Reused(t) /\ now < row[t].expiresAt
<1>1. txn \in [Req -> TxnRec]
  BY DEF IInv, TypeOK
<1>2. CASE txn'[q] = txn[q]
  BY <1>2
<1>3. CASE txn'[q] # txn[q]
  <2>1. ~Tick /\ ~UNCHANGED vars
    BY <1>3 DEF Tick, vars
  <2>2. ASSUME NEW r \in Req, Rollback(r) PROVE P
    BY <1>1, <1>3, <2>2 DEF Rollback, IdleTxn
  <2>3. ASSUME NEW r \in Req, Arrive(r) PROVE P
    <3>1. ASSUME NEW t \in Token, RefreshBegin(r, t) PROVE P
      <4>1. q = r
        BY <1>1, <1>3, <3>1 DEF RefreshBegin, Begin
      <4>2. ~Reused(t)
        BY <1>1, <4>1, <3>1 DEF RefreshBegin, Begin, IdleTxn
      <4>3. PICK n \in Fresh : txn' = [txn EXCEPT ![r] =
              [IdleTxn EXCEPT !.pc = "write", !.op = "refresh", !.tok = t, !.new = n]]
        BY <3>1, <4>2 DEF RefreshBegin, Begin
      <4>4. txn'[q].tok = t
        BY <1>1, <4>1, <4>3 DEF IdleTxn
      <4> QED
        BY <3>1, <4>2, <4>4 DEF RefreshBegin, ReadForUpdate
    <3>2. CASE LoginBegin(r)
      BY <1>1, <1>3, <3>2 DEF LoginBegin, Begin, IdleTxn
    <3>3. CASE PurgeBegin(r)
      BY <1>1, <1>3, <3>3 DEF PurgeBegin, Begin, IdleTxn
    <3>4. ASSUME NEW t \in Token, RevokeOneBegin(r, t) PROVE P
      BY <1>1, <1>3, <3>4 DEF RevokeOneBegin, Begin, IdleTxn
    <3>5. ASSUME NEW u \in User, RevokeAllBegin(r, u) PROVE P
      BY <1>1, <1>3, <3>5 DEF RevokeAllBegin, Begin, IdleTxn
    <3>6. ASSUME NEW u \in User, AccountBegin(r, u) PROVE P
      <4>1. PICK op \in {"changePassword", "disable", "suspend", "enable", "delete", "erase"},
                 pc \in Pc : Begin(r, [IdleTxn EXCEPT !.pc = pc, !.op = op, !.user = u])
        BY <3>6 DEF AccountBegin, Pc
      <4> QED
        BY <1>1, <1>3, <4>1 DEF Begin, IdleTxn
    <3> HIDE DEF P
    <3> QED
      BY <2>3, <3>1, <3>2, <3>3, <3>4, <3>5, <3>6 DEF Arrive
  <2>4. ASSUME NEW r \in Req, Proceed(r) PROVE P
    <3>1. CASE RowCommit(r)
      <4>1. txn' = [txn EXCEPT ![r] = IdleTxn]
        BY <3>1 DEF RowCommit, LoginCommit, RefreshCommit, RevokeCommit, PurgeCommit,
           AccountCommit, EraseCommit
      <4> QED
        BY <1>1, <1>3, <4>1 DEF IdleTxn
    <3>2. CASE LoginWrite(r) \/ RefreshWrite(r) \/ UpdateUser(r)
      BY <1>1, <1>3, <2>2, <3>2 DEF LoginWrite, RefreshWrite, UpdateUser, TxnRec
    <3>3. CASE Snapshot(r)
      BY ZenonT(40), <1>1, <1>3, <3>3 DEF Snapshot, TxnRec
    <3>4. CASE StampPassword(r)
      BY <1>1, <1>3, <3>4 DEF StampPassword, TxnRec
    <3>5. ASSUME NEW x \in Token, VisitRow(r, x) PROVE P
      BY <1>1, <1>3, <3>5 DEF VisitRow, TxnRec
    <3> HIDE DEF P
    <3> QED
      BY <2>4, <3>1, <3>2, <3>3, <3>4, <3>5 DEF Proceed, RowCommit
  <2>5. P
    <3> HIDE DEF P
    <3> QED
      BY <2>1, <2>2, <2>3, <2>4 DEF Next, DeadlockVictim, Abort
  <2> QED
    BY <2>5
<1> QED
  BY <1>2, <1>3

\* A family whose last usable token is gone stays dead: no retry inside the
\* rotation leeway and no rotation that raced with the revocation revives it.
THEOREM SpecDeadFamilyStaysDead == Spec => DeadFamilyStaysDead
<1> DEFINE Step == \A f \in Token : DeadFamily(f) => DeadFamily(f)'
<1>1. IInv /\ [Next]_vars => [Step]_vars
  <2> SUFFICES ASSUME IInv, [Next]_vars, NEW f \in Token, DeadFamily(f)
               PROVE  DeadFamily(f)'
    OBVIOUS
  <2>1. row[f].st # "free" /\ ~FamilyHasActive(f) /\ NoSuccessorPending(f)
    BY DEF DeadFamily
  <2>2. row \in [Token -> RowRec] /\ now \in Nat /\ now' \in Nat /\ now <= now'
    <3>1. row \in [Token -> RowRec] /\ now \in Nat
      BY DEF IInv, TypeOK
    <3>2. now' = now \/ now' = now + 1
      BY ClockStep
    <3> QED
      BY <3>1, <3>2
  <2>3. \A x \in Token : Live(x) =>
          \/ Live(x)' /\ row'[x].family = row[x].family
               /\ row'[x].expiresAt = row[x].expiresAt
               /\ (row'[x].revokedAt = 0 => row[x].revokedAt = 0)
          \/ row'[x] = GoneRow
    BY RowWriters, CommitEffect DEF Live
  <2>4. \A x \in Token : ~Live(x) =>
          \/ row'[x] = row[x]
          \/ row[x].st = "free" /\ row'[x].family # f
    <3> SUFFICES ASSUME NEW x \in Token, ~Live(x), row'[x] # row[x]
                 PROVE  row[x].st = "free" /\ row'[x].family # f
      OBVIOUS
    <3>1. PICK r \in Req : RowCommit(r)
      BY RowWriters
    <3> QED
      BY <2>1, <3>1, CommitInserts DEF NoSuccessorPending
  <2>5. row'[f].st # "free"
    BY <2>1, <2>3, <2>4 DEF Live, GoneRow, FreeRow
  <2>6. ~FamilyHasActive(f)'
    <3> SUFFICES ASSUME NEW x \in Token, Live(x)', row'[x].revokedAt = 0,
                        row'[x].expiresAt > now', row'[x].family = f
                 PROVE  FALSE
      BY DEF FamilyHasActive, Active, Unrevoked
    <3>1. Live(x)
      BY <2>4 DEF Live
    <3>2. row[x].family = f /\ row[x].revokedAt = 0 /\ row[x].expiresAt = row'[x].expiresAt
      BY <3>1, <2>3 DEF Live, GoneRow, FreeRow
    <3>3. row[x].expiresAt > now
      BY <2>2, <3>2 DEF RowRec
    <3> QED
      BY <2>1, <3>1, <3>2, <3>3 DEF FamilyHasActive, Active, Unrevoked
  <2>7. NoSuccessorPending(f)'
    <3> SUFFICES ASSUME NEW q \in Req, txn'[q].op = "refresh", row'[txn'[q].tok].family = f
                 PROVE  FALSE
      BY DEF NoSuccessorPending
    <3>1. CASE txn[q].op = "refresh" /\ txn'[q].tok = txn[q].tok
      <4>1. txn[q].tok \in Token /\ Live(txn[q].tok) /\ row[txn[q].tok].family # f
        BY <2>1, <3>1, TxnFacts DEF IInv, PresentedHeld, TxnShape, NoSuccessorPending
      <4> QED
        BY <2>3, <3>1, <4>1, NoneAssumption DEF GoneRow, FreeRow
    <3>2. ASSUME NEW t \in Token, txn'[q].tok = t, row' = row,
                 Live(t), ~Reused(t), now < row[t].expiresAt
          PROVE  FALSE
      <4>1. row[t].family = f
        BY <3>2
      <4>2. row[t].revokedAt = 0
        BY <2>1, <3>2, <4>1 DEF Reused
      <4> QED
        BY <2>1, <2>2, <3>2, <4>1, <4>2 DEF FamilyHasActive, Active, Unrevoked, RowRec
    <3> QED
      BY <3>1, <3>2, PendingRotation
  <2> QED
    BY <2>5, <2>6, <2>7 DEF DeadFamily
<1> QED
  BY <1>1, SpecInv, PTL DEF Spec, DeadFamilyStaysDead

-----------------------------------------------------------------------------
(* Bulk revocations and their snapshots. *)

\* A row a statement found may be unrevoked only as long as the statement has
\* it before it, or has it among the rows it will change.
Covered(s) ==
    \A t \in s.snap :
        /\ row[t].st # "free"
        /\ Targeted(s, t) /\ Unrevoked(t) => t \in s.todo \cup s.hit

SnapshotsCovered == \A q \in Req : txn[q].pc = "rows" => Covered(txn[q])

\* A committed row never becomes usable again, whoever writes it.
LEMMA RowKept ==
  ASSUME IInv, [Next]_vars, NEW t \in Token, row[t].st # "free"
  PROVE  /\ row'[t].st # "free"
         /\ Unrevoked(t)' => /\ Unrevoked(t)
                             /\ row'[t].user = row[t].user
                             /\ row'[t].family = row[t].family
<1>1. CASE row' = row
  BY <1>1 DEF Unrevoked, Live
<1>2. CASE row' # row
  <2>1. PICK r \in Req : RowCommit(r)
    BY <1>2, RowWriters
  <2>2. CASE Live(t)
    BY <2>1, <2>2, CommitEffect DEF Live, Unrevoked, GoneRow, FreeRow
  <2>3. CASE ~Live(t)
    BY <2>1, <2>3, CommitInserts DEF Live, Unrevoked
  <2> QED
    BY <2>2, <2>3
<1> QED
  BY <1>1, <1>2

\* Only its own snapshot and its own visits move a statement.
LEMMA StatementStep ==
  ASSUME IInv, [Next]_vars, NEW q \in Req, txn'[q].pc = "rows"
  PROVE  txn'[q] = txn[q] \/ Snapshot(q) \/ \E x \in Token : VisitRow(q, x)
<1> DEFINE P == txn'[q] = txn[q] \/ Snapshot(q) \/ \E x \in Token : VisitRow(q, x)
<1>1. txn \in [Req -> TxnRec]
  BY DEF IInv, TypeOK
<1>2. ASSUME Tick \/ UNCHANGED vars PROVE P
  BY <1>2 DEF Tick, vars
<1>3. ASSUME NEW r \in Req, Rollback(r) PROVE P
  BY <1>1, <1>3 DEF Rollback, IdleTxn
<1>4. ASSUME NEW r \in Req, Arrive(r) PROVE P
  <2>1. PICK s : s.pc # "rows" /\ txn' = [txn EXCEPT ![r] = s]
    BY <1>4 DEF Arrive, LoginBegin, PurgeBegin, RefreshBegin, RevokeOneBegin,
       RevokeAllBegin, AccountBegin, Begin, IdleTxn
  <2> QED
    BY <1>1, <2>1
<1>5. ASSUME NEW r \in Req, Proceed(r) PROVE P
  <2>1. CASE RowCommit(r)
    <3>1. txn' = [txn EXCEPT ![r] = IdleTxn]
      BY <2>1 DEF RowCommit, LoginCommit, RefreshCommit, RevokeCommit, PurgeCommit,
         AccountCommit, EraseCommit
    <3> QED
      BY <1>1, <3>1 DEF IdleTxn
  <2>2. CASE LoginWrite(r) \/ RefreshWrite(r) \/ UpdateUser(r)
    BY <1>1, <1>3, <2>2 DEF LoginWrite, RefreshWrite, UpdateUser, TxnRec
  <2>3. CASE StampPassword(r)
    BY <1>1, <2>3 DEF StampPassword, TxnRec
  <2>4. CASE Snapshot(r)
    BY <1>1, <2>4 DEF Snapshot
  <2>5. ASSUME NEW x \in Token, VisitRow(r, x) PROVE P
    BY <1>1, <2>5 DEF VisitRow
  <2> HIDE DEF P
  <2> QED
    BY <1>5, <2>1, <2>2, <2>3, <2>4, <2>5 DEF Proceed, RowCommit
<1>6. P
  <2> HIDE DEF P
  <2> QED
    BY <1>2, <1>3, <1>4, <1>5 DEF Next, DeadlockVictim, Abort
<1> QED
  BY <1>6

\* The rows a revocation is about do not change while they are in the table.
LEMMA TargetKept ==
  ASSUME IInv, [Next]_vars, NEW q \in Req, txn'[q].op = txn[q].op,
         txn'[q].tok = txn[q].tok, txn'[q].user = txn[q].user,
         NEW t \in Token, row[t].st # "free", Unrevoked(t)', Targeted(txn[q], t)'
  PROVE  Targeted(txn[q], t)
<1>1. row'[t].user = row[t].user /\ row'[t].family = row[t].family
  BY RowKept
<1>2. ASSUME txn[q].op = "reuse"
      PROVE  row'[txn[q].tok].family = row[txn[q].tok].family
  <2>1. Live(txn[q].tok) /\ txn[q].tok \in Token
    BY <1>2, TxnFacts DEF IInv, PresentedHeld, TxnShape
  <2>2. Live(txn[q].tok)'
    BY <1>2, NextInv DEF IInv, PresentedHeld
  <2> QED
    BY <2>1, <2>2, RowWriters, CommitEffect DEF Live, GoneRow, FreeRow
<1> QED
  BY <1>1, <1>2 DEF Targeted

LEMMA CoveredStep == IInv /\ SnapshotsCovered /\ [Next]_vars => SnapshotsCovered'
<1> SUFFICES ASSUME IInv, SnapshotsCovered, [Next]_vars, NEW q \in Req,
                    txn'[q].pc = "rows", NEW t \in txn'[q].snap
             PROVE  /\ row'[t].st # "free"
                    /\ Targeted(txn[q], t)' /\ Unrevoked(t)'
                         => t \in txn'[q].todo \cup txn'[q].hit
  BY DEF SnapshotsCovered, Covered
<1>1. txn \in [Req -> TxnRec] /\ t \in Token
  BY NextInv DEF IInv, TypeOK, TxnRec
<1>2. CASE txn'[q] = txn[q]
  <2>1. row[t].st # "free" /\ (Targeted(txn[q], t) /\ Unrevoked(t)
                                 => t \in txn[q].todo \cup txn[q].hit)
    BY <1>2 DEF SnapshotsCovered, Covered
  <2>2. row'[t].st # "free" /\ (Unrevoked(t)' => Unrevoked(t))
    BY <1>1, <2>1, RowKept
  <2>3. Targeted(txn[q], t)' /\ Unrevoked(t)' => Targeted(txn[q], t)
    BY <1>1, <1>2, <2>1, TargetKept
  <2> QED
    BY <1>2, <2>1, <2>2, <2>3
<1>3. CASE Snapshot(q)
  <2>1. txn'[q] = [txn[q] EXCEPT !.pc = "rows", !.at = now, !.snap = {x \in Token : Live(x)},
                                 !.todo = {x \in Token : Matches(txn[q], x, now)}]
        /\ row' = row
    BY <1>1, <1>3 DEF Snapshot
  <2>2. Live(t) /\ txn'[q].todo = {x \in Token : Matches(txn[q], x, now)}
        /\ txn'[q].op = txn[q].op /\ txn'[q].tok = txn[q].tok /\ txn'[q].user = txn[q].user
    BY <1>1, <2>1 DEF TxnRec
  <2>3. Targeted(txn[q], t)' /\ Unrevoked(t)' => Matches(txn[q], t, now)
    BY <2>1, <2>2 DEF Targeted, Unrevoked, Live, Matches
  <2> QED
    BY <1>1, <2>1, <2>2, <2>3 DEF Live
<1>4. ASSUME NEW x \in Token, VisitRow(q, x)
      PROVE  /\ row'[t].st # "free"
             /\ Targeted(txn[q], t)' /\ Unrevoked(t)'
                  => t \in txn'[q].todo \cup txn'[q].hit
  <2>1. /\ row' = row /\ txn[q].pc = "rows"
        /\ txn'[q].snap = txn[q].snap /\ txn'[q].op = txn[q].op
        /\ txn'[q].tok = txn[q].tok /\ txn'[q].user = txn[q].user
        /\ txn'[q].todo = txn[q].todo \ {x}
        /\ txn'[q].hit = IF Matches(txn[q], x, txn[q].at)
                         THEN txn[q].hit \cup {x} ELSE txn[q].hit
    BY <1>1, <1>4 DEF VisitRow, TxnRec
  <2>2. row[t].st # "free" /\ (Targeted(txn[q], t) /\ Unrevoked(t)
                                 => t \in txn[q].todo \cup txn[q].hit)
    BY <2>1 DEF SnapshotsCovered, Covered
  <2>3. Targeted(txn[q], t) /\ Unrevoked(t) => Matches(txn[q], t, txn[q].at)
    BY DEF Targeted, Unrevoked, Matches
  <2>4. (Targeted(txn[q], t)' <=> Targeted(txn[q], t)) /\ (Unrevoked(t)' <=> Unrevoked(t))
    BY <2>1 DEF Targeted, Unrevoked, Live
  <2> QED
    BY <2>1, <2>2, <2>3, <2>4
<1> QED
  BY <1>2, <1>3, <1>4, StatementStep

\* When logout, a revocation of sessions, a replay's revocation or an account
\* change commits, no token it is about that its statement could see is usable,
\* also one that a concurrent rotation held, revoked or retried meanwhile.
THEOREM SpecRevocationReachesSnapshot == Spec => RevocationReachesSnapshot
<1> DEFINE Step == \A r \in Req :
         txn[r].pc = "rows" /\ row' # row /\ Idle(r)'
           => \A t \in txn[r].snap : Targeted(txn[r], t) => ~Unrevoked(t)'
<1>1. IInv /\ SnapshotsCovered /\ [Next]_vars => [Step]_vars
  <2> SUFFICES ASSUME IInv, SnapshotsCovered, [Next]_vars, NEW r \in Req,
                      txn[r].pc = "rows", row' # row, Idle(r)',
                      NEW t \in txn[r].snap, Targeted(txn[r], t), Unrevoked(t)'
               PROVE  FALSE
    OBVIOUS
  <2>1. txn[r] \in TxnRec /\ TxnShape(txn[r]) /\ t \in Token
    BY TxnFacts DEF TxnRec
  <2>2. RowCommit(r)
    <3>1. PICK q \in Req : RowCommit(q)
      BY RowWriters
    <3>2. txn' = [txn EXCEPT ![q] = IdleTxn]
      BY <3>1 DEF RowCommit, LoginCommit, RefreshCommit, RevokeCommit, PurgeCommit,
         AccountCommit, EraseCommit
    <3>3. q = r
      BY <3>2 DEF IInv, TypeOK, Idle
    <3> QED
      BY <3>1, <3>3
  <2>3. Unrevoked(t) /\ t \in txn[r].todo \cup txn[r].hit
    <3>1. row[t].st # "free"
      BY DEF SnapshotsCovered, Covered
    <3>2. Unrevoked(t)
      BY <2>1, <3>1, RowKept
    <3> QED
      BY <3>2 DEF SnapshotsCovered, Covered
  <2>4. CASE RevokeCommit(r) \/ AccountCommit(r)
    <3>1. txn[r].todo = {} /\ row' = RevokedRows(r)
      BY <2>4 DEF RevokeCommit, AccountCommit, Visited
    <3>2. row'[t].revokedAt = txn[r].at
      BY <2>1, <2>3, <3>1 DEF RevokedRows, IInv, TypeOK, RowRec
    <3> QED
      BY <2>1, <2>4, <3>2 DEF TxnShape, Unrevoked, RevokeCommit, AccountCommit, Visited
  <2>5. CASE PurgeCommit(r)
    BY <2>5 DEF PurgeCommit, Targeted
  <2>6. CASE EraseCommit(r)
    BY <2>1, <2>3, <2>6 DEF EraseCommit, Targeted, Unrevoked, Live, GoneRow, FreeRow
  <2> QED
    BY <2>1, <2>2, <2>4, <2>5, <2>6 DEF RowCommit, LoginCommit, RefreshCommit
<1>2. Init => SnapshotsCovered
  BY DEF Init, InitWith, SnapshotsCovered, IdleTxn
<1> QED
  BY <1>1, <1>2, CoveredStep, SpecInv, PTL DEF Spec, RevocationReachesSnapshot

-----------------------------------------------------------------------------
(* Access tokens and changes of the password *)

\* A step that replaces one transaction and leaves both tables alone.
LEMMA OneTxnOrdered ==
  ASSUME IInv, StampsOrdered, NEW r \in Req, NEW s,
         txn' = [txn EXCEPT ![r] = s], UNCHANGED <<user, row>>,
         pwdClock' \in Nat, pwdClock <= pwdClock', Ordered(s)'
  PROVE  StampsOrdered'
<1>1. /\ \A u \in User : user[u].pwdAt \in Nat
      /\ pwdClock \in Nat /\ txn \in [Req -> TxnRec]
      /\ \A q \in Req : txn[q].pwdAt \in Nat
  BY DEF IInv, TypeOK, UserRec, TxnRec
<1>2. \A u \in User : user'[u].pwdAt <= pwdClock'
  BY <1>1 DEF StampsOrdered
<1>3. \A q \in Req : q # r => Ordered(txn[q])'
  <2> SUFFICES ASSUME NEW q \in Req, q # r PROVE Ordered(txn[q])'
    OBVIOUS
  <2>1. txn'[q] = txn[q] /\ Ordered(txn[q])
    BY <1>1 DEF StampsOrdered
  <2> QED
    BY <1>1, <2>1 DEF Ordered
<1>4. Ordered(txn[r])'
  BY <1>1 DEF Ordered
<1> QED
  BY <1>2, <1>3, <1>4 DEF StampsOrdered, Live

\* Requests arrive: a login was verified under the user's password.
LEMMA ArriveOrdered ==
  ASSUME IInv, StampsOrdered, NEW r \in Req, Arrive(r)
  PROVE  StampsOrdered'
<1>1. UNCHANGED <<pwdClock, user, row>> /\ pwdClock \in Nat
  BY DEF Arrive, LoginBegin, PurgeBegin, RefreshBegin, RevokeOneBegin, RevokeAllBegin,
     AccountBegin, IInv, TypeOK
<1> DEFINE Good(s) == /\ txn' = [txn EXCEPT ![r] = s]
                      /\ s.op = "login" => s.user \in User /\ s.pwdAt = user[s.user].pwdAt
                      /\ s.op = "refresh" => s.pc = "write"
                      /\ s.op = "changePassword" => s.pc = "stamp"
<1>2. \E s : Good(s)
  <2>1. ASSUME LoginBegin(r) PROVE \E s : Good(s)
    <3>1. PICK u \in User, n \in Fresh :
            txn' = [txn EXCEPT ![r] = [IdleTxn EXCEPT !.pc = "write", !.op = "login", !.user = u,
                                                      !.new = n, !.pwdAt = user[u].pwdAt]]
      BY <2>1 DEF LoginBegin, Begin
    <3>2. PICK s : s = [IdleTxn EXCEPT !.pc = "write", !.op = "login", !.user = u,
                                       !.new = n, !.pwdAt = user[u].pwdAt]
      OBVIOUS
    <3>3. s.op = "login" /\ s.user = u /\ s.pwdAt = user[u].pwdAt
      BY <3>2 DEF IdleTxn
    <3> QED
      BY <3>1, <3>2, <3>3
  <2>2. ASSUME NEW t \in Token, RefreshBegin(r, t) PROVE \E s : Good(s)
    <3>1. PICK s : s = [IdleTxn EXCEPT !.pc = "stmt", !.op = "reuse", !.tok = t]
      OBVIOUS
    <3>2. s.op = "reuse"
      BY <3>1 DEF IdleTxn
    <3>3. CASE txn' = [txn EXCEPT ![r] = s]
      BY <3>2, <3>3
    <3>4. ASSUME NEW n, txn' = [txn EXCEPT ![r] = [IdleTxn EXCEPT !.pc = "write", !.op = "refresh",
                                                                 !.tok = t, !.new = n]]
          PROVE  \E x : Good(x)
      <4>1. PICK x : x = [IdleTxn EXCEPT !.pc = "write", !.op = "refresh", !.tok = t, !.new = n]
        OBVIOUS
      <4>2. x.op = "refresh" /\ x.pc = "write"
        BY <4>1 DEF IdleTxn
      <4> QED
        BY <3>4, <4>1, <4>2
    <3> HIDE DEF Good
    <3> QED
      BY <2>2, <3>1, <3>3, <3>4 DEF RefreshBegin, Begin
  <2>3. ASSUME NEW s, txn' = [txn EXCEPT ![r] = s],
               s.op \in {"purge", "logout", "revokeSession", "revokeAll"}
        PROVE  \E x : Good(x)
    BY <2>3
  <2>4. PurgeBegin(r) => \E x : Good(x)
    <3>1. PICK s : s = [IdleTxn EXCEPT !.pc = "stmt", !.op = "purge"]
      OBVIOUS
    <3>2. s.op = "purge"
      BY <3>1 DEF IdleTxn
    <3> HIDE DEF Good
    <3> QED
      BY <2>3, <3>1, <3>2 DEF PurgeBegin, Begin
  <2>5. ASSUME NEW t \in Token, RevokeOneBegin(r, t) PROVE \E x : Good(x)
    <3>1. PICK op \in {"logout", "revokeSession"} :
            txn' = [txn EXCEPT ![r] = [IdleTxn EXCEPT !.pc = "stmt", !.op = op, !.tok = t]]
      BY <2>5 DEF RevokeOneBegin, Begin
    <3>2. PICK s : s = [IdleTxn EXCEPT !.pc = "stmt", !.op = op, !.tok = t]
      OBVIOUS
    <3>3. s.op = op
      BY <3>2 DEF IdleTxn
    <3> HIDE DEF Good
    <3> QED
      BY <2>3, <3>1, <3>2, <3>3
  <2>6. ASSUME NEW u \in User, RevokeAllBegin(r, u) PROVE \E x : Good(x)
    <3>1. PICK s : s = [IdleTxn EXCEPT !.pc = "stmt", !.op = "revokeAll", !.user = u]
      OBVIOUS
    <3>2. s.op = "revokeAll"
      BY <3>1 DEF IdleTxn
    <3> HIDE DEF Good
    <3> QED
      BY <2>3, <2>6, <3>1, <3>2 DEF RevokeAllBegin, Begin
  <2>7. ASSUME NEW u \in User, AccountBegin(r, u) PROVE \E x : Good(x)
    <3>1. PICK op \in {"changePassword", "disable", "suspend", "enable", "delete", "erase"},
               pc \in {"stamp", "userlock", "stmt"} :
            /\ txn' = [txn EXCEPT ![r] = [IdleTxn EXCEPT !.pc = pc, !.op = op, !.user = u]]
            /\ op = "changePassword" => pc = "stamp"
      BY <2>7 DEF AccountBegin, Begin
    <3>2. PICK s : s = [IdleTxn EXCEPT !.pc = pc, !.op = op, !.user = u]
      OBVIOUS
    <3>3. s.op = op /\ s.pc = pc
      BY <3>2 DEF IdleTxn
    <3> QED
      BY <3>1, <3>2, <3>3
  <2> HIDE DEF Good
  <2> QED
    BY <2>1, <2>2, <2>4, <2>5, <2>6, <2>7 DEF Arrive
<1>3. \A u \in User : user[u].pwdAt \in Nat
  BY DEF IInv, TypeOK, UserRec
<1>4. PICK s : Good(s)
  BY <1>2
<1>5. Ordered(s)'
  BY <1>1, <1>3, <1>4 DEF Ordered
<1>6. pwdClock' \in Nat /\ pwdClock <= pwdClock'
  BY <1>1
<1> QED
  BY <1>1, <1>4, <1>5, <1>6, OneTxnOrdered

LEMMA RollbackOrdered ==
  ASSUME IInv, StampsOrdered, NEW r \in Req, Rollback(r)
  PROVE  StampsOrdered'
<1>1. Ordered(IdleTxn)'
  BY DEF Ordered, IdleTxn
<1>2. pwdClock' \in Nat /\ pwdClock <= pwdClock'
  BY DEF Rollback, IInv, TypeOK
<1> QED
  BY <1>1, <1>2, OneTxnOrdered DEF Rollback

\* Steps of a request before its commit.
LEMMA ProceedOrdered ==
  ASSUME IInv, StampsOrdered, NEW r \in Req, Proceed(r), ~RowCommit(r), ~Rollback(r)
  PROVE  StampsOrdered'
<1>1. txn[r] \in TxnRec /\ TxnShape(txn[r]) /\ Ordered(txn[r]) /\ txn \in [Req -> TxnRec]
  BY TxnFacts DEF StampsOrdered, IInv, TypeOK
<1>2. UNCHANGED <<user, row>> /\ pwdClock \in Nat /\ \A u \in User : user[u].pwdAt \in Nat
  BY DEF Proceed, RowCommit, LoginWrite, RefreshWrite, Snapshot, VisitRow, StampPassword,
     UpdateUser, IInv, TypeOK, UserRec
<1>3. CASE RefreshWrite(r)
  <2>1. PICK u : u = row[txn[r].tok].user
    OBVIOUS
  <2>2. u \in User
    BY <1>1, <1>3, <2>1 DEF RefreshWrite, TxnShape, IInv, PresentedHeld, RowsShaped, Live
  <2>3. PICK s : s = [txn[r] EXCEPT !.pc = "commit", !.at = now, !.user = u, !.pwdAt = user[u].pwdAt]
    OBVIOUS
  <2>4. txn' = [txn EXCEPT ![r] = s] /\ pwdClock' = pwdClock
    BY <1>1, <1>3, <2>1, <2>3 DEF RefreshWrite
  <2>5. s.op = "refresh" /\ s.user = u /\ s.pwdAt = user[u].pwdAt
    BY <1>1, <1>3, <2>3 DEF RefreshWrite, TxnRec
  <2>6. Ordered(s)'
    BY <1>2, <2>2, <2>5 DEF Ordered
  <2> QED
    <3>1. pwdClock' \in Nat /\ pwdClock <= pwdClock'
      BY <1>2, <2>4
    <3> QED
      BY <1>2, <2>4, <2>6, <3>1, OneTxnOrdered
<1>4. CASE StampPassword(r)
  <2>1. PICK s : s = [txn[r] EXCEPT !.pc = "userlock", !.pwdAt = pwdClock + 1]
    OBVIOUS
  <2>2. txn' = [txn EXCEPT ![r] = s] /\ pwdClock' = pwdClock + 1
    BY <1>1, <1>4, <2>1 DEF StampPassword
  <2>3. txn[r].op \notin {"login", "refresh"} /\ (txn[r].op = "changePassword" => txn[r].user \in User)
    BY <1>1, <1>4 DEF StampPassword, TxnShape
  <2>4. s.op = txn[r].op /\ s.user = txn[r].user /\ s.pwdAt = pwdClock + 1
    BY <1>1, <2>1 DEF TxnRec
  <2>5. \A u \in User : user[u].pwdAt <= pwdClock
    BY DEF StampsOrdered
  <2>6. Ordered(s)'
    BY <1>2, <2>2, <2>3, <2>4, <2>5 DEF Ordered
  <2> QED
    <3>1. pwdClock' \in Nat /\ pwdClock <= pwdClock'
      BY <1>2, <2>2
    <3> QED
      BY <1>2, <2>2, <2>6, <3>1, OneTxnOrdered
<1>5. CASE LoginWrite(r) \/ Snapshot(r) \/ (\E x \in Token : VisitRow(r, x)) \/ UpdateUser(r)
  <2>1. /\ pwdClock' = pwdClock /\ txn[r].op # "refresh"
        /\ txn[r].op = "changePassword" => txn[r].pc # "stamp"
    BY <1>1, <1>5 DEF LoginWrite, Snapshot, VisitRow, UpdateUser, Rollback, TxnShape
  <2>2. PICK s : /\ txn' = [txn EXCEPT ![r] = s]
                 /\ s.op = txn[r].op /\ s.user = txn[r].user /\ s.pwdAt = txn[r].pwdAt
    <3>1. txn' = [txn EXCEPT ![r] = txn'[r]]
      BY <1>1, <1>5 DEF LoginWrite, Snapshot, VisitRow, UpdateUser
    <3>2. txn'[r].op = txn[r].op /\ txn'[r].user = txn[r].user /\ txn'[r].pwdAt = txn[r].pwdAt
      <4>1. CASE LoginWrite(r)
        BY <1>1, <4>1 DEF LoginWrite, TxnRec
      <4>2. CASE Snapshot(r)
        BY <1>1, <4>2 DEF Snapshot, TxnRec
      <4>3. CASE \E x \in Token : VisitRow(r, x)
        BY <1>1, <4>3 DEF VisitRow, TxnRec
      <4>4. CASE UpdateUser(r)
        BY <1>1, <4>4 DEF UpdateUser, TxnRec
      <4> QED
        BY <1>5, <4>1, <4>2, <4>3, <4>4
    <3> QED
      BY <3>1, <3>2
  <2>3. Ordered(s)'
    BY <1>1, <1>2, <2>1, <2>2 DEF Ordered
  <2> QED
    <3>1. pwdClock' \in Nat /\ pwdClock <= pwdClock'
      BY <1>2, <2>1
    <3> QED
      BY <1>2, <2>2, <2>3, <3>1, OneTxnOrdered
<1> QED
  BY <1>3, <1>4, <1>5 DEF Proceed, RowCommit

\* A commit that leaves the passwords as they are or moves them forward, and
\* writes no token issued under a newer one.
LEMMA CommitOrdered ==
  ASSUME IInv, StampsOrdered, NEW r \in Req, txn' = [txn EXCEPT ![r] = IdleTxn],
         pwdClock' = pwdClock,
         \A u \in User : user'[u].pwdAt \in Nat /\ user[u].pwdAt <= user'[u].pwdAt
                           /\ user'[u].pwdAt <= pwdClock,
         \A q \in Req : q # r /\ txn[q].op = "changePassword" /\ txn[q].pc # "stamp" =>
           user'[txn[q].user].pwdAt = user[txn[q].user].pwdAt,
         \A t \in Token : Live(t)' =>
           \/ Live(t) /\ row'[t].pwdAt = row[t].pwdAt /\ row'[t].user = row[t].user
           \/ row'[t].user \in User /\ row'[t].pwdAt \in Nat
                /\ row'[t].pwdAt <= user[row'[t].user].pwdAt
  PROVE  StampsOrdered'
<1>1. /\ \A u \in User : user[u].pwdAt \in Nat
      /\ pwdClock \in Nat /\ txn \in [Req -> TxnRec]
      /\ \A t \in Token : row[t].pwdAt \in Nat
      /\ \A t \in Token : Live(t) => row[t].user \in User
  BY DEF IInv, TypeOK, UserRec, RowRec, RowsShaped
<1>2. \A u \in User : user'[u].pwdAt <= pwdClock'
  OBVIOUS
<1>3. ASSUME NEW t \in Token, Live(t)' PROVE row'[t].pwdAt <= user'[row'[t].user].pwdAt
  <2>1. CASE Live(t) /\ row'[t].pwdAt = row[t].pwdAt /\ row'[t].user = row[t].user
    <3>1. row[t].pwdAt <= user[row[t].user].pwdAt
      BY <2>1 DEF StampsOrdered
    <3> QED
      BY <1>1, <2>1, <3>1
  <2>2. CASE row'[t].user \in User /\ row'[t].pwdAt \in Nat
               /\ row'[t].pwdAt <= user[row'[t].user].pwdAt
    BY <1>1, <2>2
  <2> QED
    BY <1>3, <2>1, <2>2
<1>4. ASSUME NEW q \in Req PROVE Ordered(txn[q])'
  <2>1. CASE q = r
    BY <1>1, <2>1 DEF Ordered, IdleTxn
  <2>2. CASE q # r
    <3>1. txn'[q] = txn[q] /\ Ordered(txn[q]) /\ TxnShape(txn[q]) /\ txn[q].pwdAt \in Nat
      BY <1>1, <2>2, TxnFacts DEF StampsOrdered, TxnRec
    <3>2. txn[q].op = "login" \/ (txn[q].op = "refresh" /\ txn[q].pc = "commit") =>
            txn[q].user \in User
      BY <3>1 DEF TxnShape
    <3> QED
      BY <1>1, <2>2, <3>1, <3>2 DEF Ordered
  <2> QED
    BY <2>1, <2>2
<1> QED
  BY <1>2, <1>3, <1>4 DEF StampsOrdered

\* A commit that leaves the passwords as they are.
LEMMA CommitSamePasswords ==
  ASSUME IInv, StampsOrdered, NEW r \in Req, txn' = [txn EXCEPT ![r] = IdleTxn],
         pwdClock' = pwdClock, \A u \in User : user'[u].pwdAt = user[u].pwdAt,
         \A t \in Token : Live(t)' =>
           \/ Live(t) /\ row'[t].pwdAt = row[t].pwdAt /\ row'[t].user = row[t].user
           \/ row'[t].user \in User /\ row'[t].pwdAt \in Nat
                /\ row'[t].pwdAt <= user[row'[t].user].pwdAt
  PROVE  StampsOrdered'
<1>1. \A u \in User : user[u].pwdAt \in Nat /\ user[u].pwdAt <= pwdClock
  BY DEF IInv, TypeOK, UserRec, StampsOrdered
<1>2. \A u \in User : user'[u].pwdAt \in Nat /\ user[u].pwdAt <= user'[u].pwdAt
                         /\ user'[u].pwdAt <= pwdClock
  BY <1>1
<1>3. \A q \in Req : txn[q].op = "changePassword" => txn[q].user \in User
  BY DEF IInv, TxnsShaped, TxnShape
<1>4. \A q \in Req : q # r /\ txn[q].op = "changePassword" /\ txn[q].pc # "stamp" =>
        user'[txn[q].user].pwdAt = user[txn[q].user].pwdAt
  BY <1>3
<1> QED
  BY <1>2, <1>4, CommitOrdered

LEMMA RowCommitOrdered ==
  ASSUME IInv, StampsOrdered, ChangesApart, NEW r \in Req, RowCommit(r)
  PROVE  StampsOrdered'
<1>1. /\ txn[r] \in TxnRec /\ TxnShape(txn[r]) /\ Ordered(txn[r])
      /\ txn' = [txn EXCEPT ![r] = IdleTxn] /\ pwdClock' = pwdClock
  BY TxnFacts DEF StampsOrdered, RowCommit, LoginCommit, RefreshCommit, RevokeCommit,
     AccountCommit, PurgeCommit, EraseCommit
<1>2. /\ row \in [Token -> RowRec] /\ user \in [User -> UserRec]
      /\ \A u \in User : user[u].pwdAt \in Nat /\ user[u].pwdAt <= pwdClock
      /\ pwdClock \in Nat
  BY DEF IInv, TypeOK, UserRec, StampsOrdered
<1>3. CASE LoginCommit(r)
  <2>1. txn[r].user \in User /\ txn[r].pwdAt \in Nat /\ txn[r].pwdAt <= user[txn[r].user].pwdAt
    BY <1>1, <1>3 DEF LoginCommit, TxnShape, TxnRec, Ordered
  <2>2. \A t \in Token : t # txn[r].new => row'[t] = row[t]
    BY <1>2, <1>3 DEF LoginCommit
  <2>3. txn[r].new \in Token => row'[txn[r].new].pwdAt = txn[r].pwdAt
                                  /\ row'[txn[r].new].user = txn[r].user
    BY <1>2, <1>3 DEF LoginCommit, FreeRow
  <2>4. user' = user
    BY <1>3 DEF LoginCommit
  <2> QED
    <3>1. \A t \in Token : Live(t)' =>
           \/ Live(t) /\ row'[t].pwdAt = row[t].pwdAt /\ row'[t].user = row[t].user
           \/ row'[t].user \in User /\ row'[t].pwdAt \in Nat
                /\ row'[t].pwdAt <= user[row'[t].user].pwdAt
      BY <2>1, <2>2, <2>3 DEF Live
    <3> QED
      BY <1>1, <2>4, <3>1, CommitSamePasswords
<1>4. CASE RefreshCommit(r)
  <2>1. txn[r].user \in User /\ txn[r].pwdAt \in Nat /\ txn[r].pwdAt <= user[txn[r].user].pwdAt
    BY <1>1, <1>4 DEF RefreshCommit, TxnShape, TxnRec, Ordered
  <2>2. txn[r].tok \in Token /\ txn[r].new \in Token /\ txn[r].new # txn[r].tok
          /\ Live(txn[r].tok)
    BY <1>1, <1>4, NoneAssumption DEF RefreshCommit, TxnShape, IInv, NewReserved, PresentedHeld, Live
  <2>3. \A t \in Token : t \notin {txn[r].new, txn[r].tok} => row'[t] = row[t]
    BY <1>2, <1>4 DEF RefreshCommit
  <2>4. row'[txn[r].new].pwdAt = txn[r].pwdAt /\ row'[txn[r].new].user = txn[r].user
    BY <1>2, <1>4, <2>2 DEF RefreshCommit, FreeRow
  <2>5. row'[txn[r].tok].pwdAt = row[txn[r].tok].pwdAt /\ row'[txn[r].tok].user = row[txn[r].tok].user
    BY <1>2, <1>4, <2>2 DEF RefreshCommit, Presented, RowRec
  <2>6. user' = user
    BY <1>4 DEF RefreshCommit
  <2> QED
    <3>1. \A t \in Token : Live(t)' =>
           \/ Live(t) /\ row'[t].pwdAt = row[t].pwdAt /\ row'[t].user = row[t].user
           \/ row'[t].user \in User /\ row'[t].pwdAt \in Nat
                /\ row'[t].pwdAt <= user[row'[t].user].pwdAt
      BY <2>1, <2>2, <2>3, <2>4, <2>5 DEF Live
    <3> QED
      BY <1>1, <2>6, <3>1, CommitSamePasswords
<1>5. CASE RevokeCommit(r) \/ AccountCommit(r)
  <2>1. row' = RevokedRows(r)
    BY <1>5 DEF RevokeCommit, AccountCommit
  <2>2. \A t \in Token : row'[t].st = row[t].st /\ row'[t].pwdAt = row[t].pwdAt
                           /\ row'[t].user = row[t].user
    BY <1>2, <2>1 DEF RevokedRows, RowRec
  <2>3. CASE txn[r].op # "changePassword"
    <3>1. \A u \in User : user'[u].pwdAt = user[u].pwdAt
      <4>1. CASE RevokeCommit(r)
        BY <4>1 DEF RevokeCommit
      <4>2. CASE AccountCommit(r)
        <5>1. txn[r].op \in {"disable", "delete", "enable", "suspend"} /\ txn[r].user \in User
          BY <1>1, <2>3, <4>2 DEF AccountCommit, TxnShape
        <5>2. user' = [user EXCEPT ![txn[r].user] = UserAfter(txn[r])]
          BY <4>2 DEF AccountCommit
        <5>3. UserAfter(txn[r]).pwdAt = user[txn[r].user].pwdAt
          BY <1>2, <5>1 DEF UserAfter, UserRec
        <5> QED
          BY <1>2, <5>1, <5>2, <5>3
      <4> QED
        BY <1>5, <4>1, <4>2
    <3>2. \A t \in Token : Live(t)' =>
            Live(t) /\ row'[t].pwdAt = row[t].pwdAt /\ row'[t].user = row[t].user
      BY <2>2 DEF Live
    <3> QED
      BY <1>1, <3>1, <3>2, CommitSamePasswords
  <2>4. CASE txn[r].op = "changePassword"
    <3>1. /\ txn[r].user \in User /\ txn[r].pc = "rows" /\ txn[r].pwdAt \in Nat
          /\ user[txn[r].user].pwdAt <= txn[r].pwdAt /\ txn[r].pwdAt <= pwdClock
      BY <1>1, <1>5, <2>4 DEF RevokeCommit, AccountCommit, Visited, TxnShape, TxnRec, Ordered
    <3>2. user' = [user EXCEPT ![txn[r].user] = [user[txn[r].user] EXCEPT !.pwdAt = txn[r].pwdAt]]
      BY <1>5, <2>4 DEF RevokeCommit, AccountCommit, UserAfter
    <3>3. /\ user'[txn[r].user].pwdAt = txn[r].pwdAt
          /\ \A u \in User : u # txn[r].user => user'[u] = user[u]
      BY <1>2, <3>1, <3>2 DEF UserRec
    <3>4. \A q \in Req : q # r /\ txn[q].op = "changePassword" /\ txn[q].pc # "stamp" =>
            txn[q].user \in User /\ txn[q].user # txn[r].user
      BY <2>4, <3>1 DEF ChangesApart, IInv, TxnsShaped, TxnShape
    <3>5. \A u \in User : user'[u].pwdAt \in Nat /\ user[u].pwdAt <= user'[u].pwdAt
                             /\ user'[u].pwdAt <= pwdClock
      BY <1>2, <3>1, <3>3
    <3>6. \A q \in Req : q # r /\ txn[q].op = "changePassword" /\ txn[q].pc # "stamp" =>
            user'[txn[q].user].pwdAt = user[txn[q].user].pwdAt
      BY <3>3, <3>4
    <3>7. \A t \in Token : Live(t)' =>
            Live(t) /\ row'[t].pwdAt = row[t].pwdAt /\ row'[t].user = row[t].user
      BY <2>2 DEF Live
    <3> QED
      BY <1>1, <3>5, <3>6, <3>7, CommitOrdered
  <2> QED
    BY <2>3, <2>4
<1>6. CASE PurgeCommit(r) \/ EraseCommit(r)
  <2>1. \A t \in Token : row'[t] = row[t] \/ row'[t].st # "live"
    BY <1>6 DEF PurgeCommit, EraseCommit, GoneRow, FreeRow
  <2>2. \A u \in User : user'[u].pwdAt = user[u].pwdAt
    BY <1>2, <1>6 DEF PurgeCommit, EraseCommit, UserRec
  <2> QED
    <3>1. \A t \in Token : Live(t)' =>
            Live(t) /\ row'[t].pwdAt = row[t].pwdAt /\ row'[t].user = row[t].user
      BY <2>1 DEF Live
    <3> QED
      BY <1>1, <2>2, <3>1, CommitSamePasswords
<1> QED
  BY <1>3, <1>4, <1>5, <1>6 DEF RowCommit

LEMMA NextOrdered == IInv /\ StampsOrdered /\ ChangesApart /\ [Next]_vars => StampsOrdered'
<1> SUFFICES ASSUME IInv, StampsOrdered, ChangesApart, [Next]_vars PROVE StampsOrdered'
  OBVIOUS
<1>1. CASE Tick \/ UNCHANGED vars
  <2>1. UNCHANGED <<pwdClock, user, row, txn>>
    BY <1>1 DEF Tick, vars
  <2> QED
    BY <2>1 DEF StampsOrdered, Ordered, Live
<1>2. ASSUME NEW r \in Req, Arrive(r) PROVE StampsOrdered'
  BY <1>2, ArriveOrdered
<1>3. ASSUME NEW r \in Req, Proceed(r) PROVE StampsOrdered'
  BY <1>3, ProceedOrdered, RollbackOrdered, RowCommitOrdered
<1>4. ASSUME NEW r \in Req, DeadlockVictim(r) \/ Abort(r) PROVE StampsOrdered'
  BY <1>4, RollbackOrdered DEF DeadlockVictim, Abort
<1> QED
  BY <1>1, <1>2, <1>3, <1>4 DEF Next

\* An access token issued under a replaced password is refused, also when the
\* login or rotation that issued it raced with the change, as long as no two
\* changes of one user's password overlap.
THEOREM SpecStaleAccessRefused == Spec /\ []ChangesApart => []StaleAccessRefused
<1>1. Init => StampsOrdered
  BY DEF Init, InitWith, StampsOrdered, Ordered, Live, FreeRow, IdleTxn
<1>2. IInv /\ StampsOrdered => StaleAccessRefused
  <2> SUFFICES ASSUME IInv, StampsOrdered, NEW t \in Token, AccessAccepted(t)
               PROVE  row[t].pwdAt = user[row[t].user].pwdAt
    BY DEF StaleAccessRefused
  <2>1. Live(t) /\ row[t].user \in User /\ row[t].pwdAt >= user[row[t].user].pwdAt
    BY DEF AccessAccepted, IInv, RowsShaped
  <2>2. row[t].pwdAt \in Nat /\ user[row[t].user].pwdAt \in Nat
    BY <2>1 DEF IInv, TypeOK, RowRec, UserRec
  <2> QED
    BY <2>1, <2>2 DEF StampsOrdered
<1> QED
  BY <1>1, <1>2, NextOrdered, SpecInv, PTL DEF Spec

-----------------------------------------------------------------------------
(* The second factor, as long as requests come one at a time *)

\* The records of the second factor.
LEMMA FactorRows ==
  /\ SecondFactor!NoRecord \in SecondFactor!Record /\ ~SecondFactor!NoRecord.enabled
  /\ SecondFactor!NoRecord.codes = {}
  /\ \A g \in 0..MaxGen, C \in SUBSET SecondFactor!BackupCode, e \in BOOLEAN :
       [there |-> TRUE, secret |-> g, codes |-> C, enabled |-> e] \in SecondFactor!Record
  /\ \A y \in SecondFactor!Record :
       /\ y.codes \in SUBSET SecondFactor!BackupCode /\ y.secret \in 0..MaxGen
       /\ y.enabled \in BOOLEAN /\ y.there \in BOOLEAN
       /\ [y EXCEPT !.enabled = TRUE] \in SecondFactor!Record
       /\ [y EXCEPT !.enabled = TRUE].codes = y.codes
       /\ [y EXCEPT !.enabled = TRUE].secret = y.secret
       /\ \A C \in SUBSET SecondFactor!BackupCode :
            /\ [y EXCEPT !.codes = C] \in SecondFactor!Record
            /\ [y EXCEPT !.codes = C].codes = C
            /\ [y EXCEPT !.codes = C].enabled = y.enabled
            /\ [y EXCEPT !.codes = C].secret = y.secret
<1> DEFINE B == SecondFactor!BackupCode
<1>1. 0 \in 0..MaxGen /\ {} \in SUBSET B
  BY SignInAssumption DEF SignInAssumption
<1> HIDE DEF B
<1> QED
  BY <1>1 DEF SecondFactor!NoRecord, SecondFactor!Record, B

\* What the fields of a request for the second factor may hold.
LEMMA RequestRows ==
  /\ SecondFactor!Idle \in SecondFactor!RequestState
  /\ SecondFactor!Idle.pc = "idle" /\ SecondFactor!Idle.op = "none"
  /\ \A x \in SecondFactor!RequestState :
       /\ x.code \in SecondFactor!Presented \cup {<<0, 0>>}
       /\ x.ticket \in Ticket \cup {SecondFactor!NoTicket} /\ x.young \in BOOLEAN
       /\ x.loaded \in SecondFactor!Record
<1>1. SecondFactor!NoRecord \in SecondFactor!Record
  BY FactorRows
<1> QED
  BY <1>1 DEF SecondFactor!Idle, SecondFactor!RequestState

\* The codes of a new set are of it.
LEMMA NewCodes ==
  ASSUME NEW g \in 1..MaxGen
  PROVE  /\ SecondFactor!CodesOf(g) \in SUBSET SecondFactor!BackupCode
         /\ \A c \in SecondFactor!CodesOf(g) : c[1] = g
BY DEF SecondFactor!CodesOf, SecondFactor!BackupCode, SecondFactor!Gen

-----------------------------------------------------------------------------
\* A step of the one request under way.
LEMMA FactorStep ==
  ASSUME SecondFactor!SerialInv, SecondFactor!Single',
         NEW r \in Req, NEW x \in SecondFactor!RequestState,
         presenting' = [presenting EXCEPT ![r] = x],
         presenting[r].pc # "idle" \/ x.pc # "idle",
         record' \in SecondFactor!Record, made' \in 0..MaxGen,
         ticket' = ticket, noted' \in SUBSET Ticket, noted \subseteq noted',
         opened' \in [Ticket -> Nat], accepted' \in [SecondFactor!BackupCode -> Nat],
         SecondFactor!CodesKept', SecondFactor!CodesOnce', SecondFactor!EnabledIsProven',
         SecondFactor!TicketsOnce',
         \A t \in Ticket :
           opened'[t] > 0 => ticket[t] # "none" /\ (ticket[t] = "fresh" => t \in noted'),
         x.pc = "idle" => x = SecondFactor!Idle,
         x.op \in {"setup", "confirm"} \/ x.pc = "matched" => x.loaded = record',
         x.op = "confirm" => record'.secret \in proven',
         x.pc = "checked" => x.op = "complete",
         x.pc = "matched" => x.code \in record'.codes /\ x.op \notin {"setup", "confirm"},
         x.op = "complete" =>
           /\ x.ticket \in Ticket /\ ticket[x.ticket] # "none"
           /\ x.young => opened'[x.ticket] = 0
           /\ x.pc # "checked" /\ ticket[x.ticket] = "fresh" => x.ticket \in noted'
  PROVE  SecondFactor!SerialInv'
<1>1. presenting \in [Req -> SecondFactor!RequestState]
  BY DEF SecondFactor!SerialInv, SecondFactor!TypeOK
<1>2. presenting'[r] = x /\ \A q \in Req : q # r => presenting'[q] = presenting[q]
  BY <1>1
<1>3. \A q \in Req : q # r => /\ presenting[q].pc = "idle" /\ presenting[q].op = "none"
                             /\ presenting[q] = SecondFactor!Idle
  BY <1>2, RequestRows DEF SecondFactor!SerialInv, SecondFactor!Single, SecondFactor!IsIdle,
     SecondFactor!RowKnown
<1>4. SecondFactor!TypeOK'
  BY <1>1 DEF SecondFactor!SerialInv, SecondFactor!TypeOK
<1>5. SecondFactor!RowKnown'
  <2>1. \A q \in Req : q # r =>
           /\ presenting'[q] = SecondFactor!Idle
           /\ presenting'[q].pc \notin {"matched", "checked"}
           /\ presenting'[q].op \notin {"setup", "confirm"}
    BY <1>2, <1>3
  <2> QED
    BY <1>2, <2>1 DEF SecondFactor!RowKnown
<1>6. SecondFactor!TicketsNoted'
  BY <1>2, <1>3 DEF SecondFactor!TicketsNoted
<1> QED
  BY <1>4, <1>5, <1>6 DEF SecondFactor!SerialInv

\* Pre-auth tokens are issued and grow older beside the requests.
LEMMA TicketStep ==
  ASSUME SecondFactor!SerialInv, NEW t \in Ticket,
         SecondFactor!IssueTicket(t) \/ SecondFactor!Age(t)
  PROVE  SecondFactor!SerialInv'
<1>1. UNCHANGED <<record, made, presenting, opened, accepted, proven>>
  BY DEF SecondFactor!IssueTicket, SecondFactor!Age
<1>2. ticket \in [Ticket -> {"none", "fresh", "ending", "expired"}] /\ noted \in SUBSET Ticket
  BY DEF SecondFactor!SerialInv, SecondFactor!TypeOK
<1>3. /\ ticket' \in [Ticket -> {"none", "fresh", "ending", "expired"}]
      /\ noted' \in SUBSET Ticket
      /\ \A u \in Ticket : ticket[u] # "none" => ticket'[u] # "none"
      /\ \A u \in Ticket : ticket[u] # "none" /\ ticket'[u] = "fresh" =>
           ticket[u] = "fresh" /\ (u \in noted => u \in noted')
  BY <1>2 DEF SecondFactor!IssueTicket, SecondFactor!Age
<1>4. SecondFactor!TypeOK'
  BY <1>1, <1>3 DEF SecondFactor!SerialInv, SecondFactor!TypeOK
<1>5. SecondFactor!TicketsNoted'
  BY <1>1, <1>3 DEF SecondFactor!SerialInv, SecondFactor!TicketsNoted
<1>6. /\ SecondFactor!Single' /\ SecondFactor!CodesKept' /\ SecondFactor!RowKnown'
      /\ SecondFactor!CodesOnce' /\ SecondFactor!EnabledIsProven' /\ SecondFactor!TicketsOnce'
  BY <1>1 DEF SecondFactor!SerialInv, SecondFactor!Single, SecondFactor!IsIdle,
     SecondFactor!CodesKept, SecondFactor!RowKnown, SecondFactor!CodesOnce,
     SecondFactor!EnabledIsProven, SecondFactor!TicketsOnce
<1> QED
  BY <1>4, <1>5, <1>6 DEF SecondFactor!SerialInv

\* What the invariant of the second factor says of one request.
LEMMA FactorFacts ==
  ASSUME SecondFactor!SerialInv, NEW r \in Req
  PROVE  /\ presenting[r] \in SecondFactor!RequestState /\ record \in SecondFactor!Record
         /\ made \in 0..MaxGen /\ noted \in SUBSET Ticket
         /\ ticket \in [Ticket -> {"none", "fresh", "ending", "expired"}]
         /\ opened \in [Ticket -> Nat] /\ accepted \in [SecondFactor!BackupCode -> Nat]
         /\ (presenting[r].pc = "idle" =>
               presenting[r] = SecondFactor!Idle /\ presenting[r].op = "none")
         /\ \A t \in Ticket :
              opened[t] > 0 => ticket[t] # "none" /\ (ticket[t] = "fresh" => t \in noted)
BY RequestRows DEF SecondFactor!SerialInv, SecondFactor!TypeOK, SecondFactor!RowKnown,
   SecondFactor!TicketsNoted

\* What holds of codes, secrets and tokens is not disturbed by a step that leaves
\* them alone.
LEMMA FactorSame ==
  ASSUME SecondFactor!SerialInv
  PROVE  /\ UNCHANGED <<record, made, accepted>> /\ proven \subseteq proven' =>
              SecondFactor!CodesKept' /\ SecondFactor!CodesOnce' /\ SecondFactor!EnabledIsProven'
         /\ UNCHANGED opened => SecondFactor!TicketsOnce'
BY DEF SecondFactor!SerialInv, SecondFactor!CodesKept, SecondFactor!CodesOnce,
   SecondFactor!EnabledIsProven, SecondFactor!TicketsOnce

\* Each action of the second factor keeps its invariant.
LEMMA SetupBegins ==
  ASSUME SecondFactor!SerialInv, SecondFactor!Single', NEW r \in Req,
         SecondFactor!BeginSetup(r) \/ SecondFactor!BeginConfirm(r)
  PROVE  SecondFactor!SerialInv'
<1>1. PICK o \in {"setup", "confirm"}, p \in {"pending", "confirmed"} :
        /\ presenting' = [presenting EXCEPT ![r] =
                            [presenting[r] EXCEPT !.op = o, !.pc = p, !.loaded = record]]
        /\ o = "confirm" => record.secret \in proven'
  <2>1. presenting \in [Req -> SecondFactor!RequestState]
    BY DEF SecondFactor!SerialInv, SecondFactor!TypeOK
  <2>2. presenting[r] \in SecondFactor!RequestState
    BY <2>1
  <2>3. ASSUME NEW o \in {"setup", "confirm"}, NEW p \in {"pending", "confirmed"},
               SecondFactor!Goes(r, o, p)
        PROVE  presenting' = [presenting EXCEPT ![r] =
                                [presenting[r] EXCEPT !.op = o, !.pc = p, !.loaded = record]]
    BY <2>1, <2>2, <2>3 DEF SecondFactor!Goes, SecondFactor!RequestState
  <2>4. CASE SecondFactor!BeginSetup(r)
    BY <2>3, <2>4 DEF SecondFactor!BeginSetup
  <2>5. CASE SecondFactor!BeginConfirm(r)
    BY <2>3, <2>5 DEF SecondFactor!BeginConfirm
  <2> QED
    BY <2>4, <2>5
<1>2. UNCHANGED <<record, made, ticket, noted, opened, accepted>> /\ proven \subseteq proven'
  BY DEF SecondFactor!BeginSetup, SecondFactor!BeginConfirm
<1>3. PICK x : x = [presenting[r] EXCEPT !.op = o, !.pc = p, !.loaded = record]
  OBVIOUS
<1>4. x \in SecondFactor!RequestState /\ x.op = o /\ x.pc = p /\ x.loaded = record
  <2>1. presenting[r] \in SecondFactor!RequestState /\ record \in SecondFactor!Record
    BY FactorFacts
  <2> QED
    BY <1>3, <2>1 DEF SecondFactor!RequestState
<1>5. x.pc # "idle" /\ x.pc # "matched" /\ x.op # "complete"
  BY <1>4
<1>6. presenting' = [presenting EXCEPT ![r] = x] /\ (x.op = "confirm" => record.secret \in proven')
  BY <1>1, <1>3, <1>4
<1> QED
  BY <1>2, <1>4, <1>5, <1>6, FactorFacts, FactorSame, FactorStep

\* A request ends without a trace in what the invariant speaks of.
LEMMA FactorEnds ==
  ASSUME SecondFactor!SerialInv, SecondFactor!Single', NEW r \in Req,
         presenting' = [presenting EXCEPT ![r] = SecondFactor!Idle], presenting[r].pc # "idle",
         record' \in SecondFactor!Record, made' \in 0..MaxGen, UNCHANGED <<ticket, accepted>>,
         noted' \in SUBSET Ticket, noted \subseteq noted',
         opened' \in [Ticket -> Nat], SecondFactor!TicketsOnce',
         \A t \in Ticket :
           opened'[t] > 0 => ticket[t] # "none" /\ (ticket[t] = "fresh" => t \in noted'),
         SecondFactor!CodesKept', SecondFactor!EnabledIsProven'
  PROVE  SecondFactor!SerialInv'
<1>1. SecondFactor!CodesOnce'
  BY DEF SecondFactor!SerialInv, SecondFactor!CodesOnce
<1> QED
  BY <1>1, FactorFacts, RequestRows, FactorStep

\* A new set of codes, and no code of it was accepted before.
LEMMA CodesReplaced ==
  ASSUME SecondFactor!SerialInv, made < MaxGen, made' = made + 1, UNCHANGED accepted,
         record'.codes = SecondFactor!CodesOf(made + 1)
  PROVE  SecondFactor!CodesKept'
<1>1. made \in 0..MaxGen /\ made + 1 \in 1..MaxGen
  BY SignInAssumption DEF SecondFactor!SerialInv, SecondFactor!TypeOK, SignInAssumption
<1>2. accepted \in [SecondFactor!BackupCode -> Nat]
  BY DEF SecondFactor!SerialInv, SecondFactor!TypeOK
<1> SUFFICES ASSUME NEW c \in SecondFactor!BackupCode
             PROVE  /\ accepted[c] > 0 \/ c \in record'.codes => c[1] <= made + 1
                    /\ c \in record'.codes => accepted[c] = 0
  BY DEF SecondFactor!CodesKept
<1>3. c[1] \in Int /\ accepted[c] \in Nat
  BY <1>2 DEF SecondFactor!BackupCode, SecondFactor!Gen
<1>4. accepted[c] > 0 => c[1] <= made
  BY DEF SecondFactor!SerialInv, SecondFactor!CodesKept
<1>5. c \in record'.codes => c[1] = made + 1
  BY <1>1, NewCodes
<1> QED
  BY <1>1, <1>3, <1>4, <1>5

LEMMA SetupCommits ==
  ASSUME SecondFactor!SerialInv, SecondFactor!Single', NEW r \in Req, SecondFactor!CommitSetup(r)
  PROVE  SecondFactor!SerialInv'
<1>1. /\ presenting' = [presenting EXCEPT ![r] = SecondFactor!Idle]
      /\ UNCHANGED <<ticket, noted, opened, accepted, proven>>
      /\ presenting[r].op = "setup" /\ presenting[r].pc # "idle"
  BY FactorFacts DEF SecondFactor!CommitSetup, SecondFactor!Ends
<1>2. presenting[r].loaded = record
  BY <1>1 DEF SecondFactor!SerialInv, SecondFactor!RowKnown
<1>3. CASE UNCHANGED <<record, made>>
  BY <1>1, <1>3, FactorFacts, FactorSame, FactorEnds
<1>4. CASE record' = SecondFactor!Reset(presenting[r].loaded, made + 1) /\ made' = made + 1
             /\ made < MaxGen
  <2>1. made + 1 \in 1..MaxGen /\ made + 1 \in 0..MaxGen
    BY <1>4, FactorFacts, SignInAssumption DEF SignInAssumption
  <2>2. SecondFactor!CodesOf(made + 1) \in SUBSET SecondFactor!BackupCode
    BY <2>1, NewCodes
  <2>3. PICK e \in BOOLEAN : ~e /\
          record' = [there |-> TRUE, secret |-> made + 1,
                     codes |-> SecondFactor!CodesOf(made + 1), enabled |-> e]
    BY <1>2, <1>4 DEF SecondFactor!Reset
  <2>4. /\ record' \in SecondFactor!Record /\ ~record'.enabled
        /\ record'.codes = SecondFactor!CodesOf(made + 1)
    BY <2>1, <2>2, <2>3, FactorRows
  <2>5. SecondFactor!CodesKept'
    BY <1>1, <1>4, <2>4, CodesReplaced
  <2>6. SecondFactor!EnabledIsProven'
    BY <2>4 DEF SecondFactor!EnabledIsProven
  <2> QED
    BY <1>1, <1>4, <2>1, <2>4, <2>5, <2>6, FactorFacts, FactorSame, FactorEnds
<1> QED
  BY <1>3, <1>4 DEF SecondFactor!CommitSetup

LEMMA ConfirmCommits ==
  ASSUME SecondFactor!SerialInv, SecondFactor!Single', NEW r \in Req,
         SecondFactor!CommitConfirm(r)
  PROVE  SecondFactor!SerialInv'
<1>1. /\ presenting' = [presenting EXCEPT ![r] = SecondFactor!Idle]
      /\ UNCHANGED <<made, ticket, noted, opened, accepted, proven>>
      /\ presenting[r].op = "confirm" /\ presenting[r].pc # "idle"
  BY FactorFacts DEF SecondFactor!CommitConfirm, SecondFactor!Ends
<1>2. record.secret \in proven
  BY <1>1 DEF SecondFactor!SerialInv, SecondFactor!RowKnown
<1>3. record' = record \/ record' = [record EXCEPT !.enabled = TRUE]
  BY DEF SecondFactor!CommitConfirm
<1>4. /\ record' \in SecondFactor!Record /\ record'.codes = record.codes
      /\ record'.secret = record.secret
  <2>1. record \in SecondFactor!Record
    BY FactorFacts
  <2> QED
    BY <1>3, <2>1, FactorRows
<1>5. SecondFactor!CodesKept' /\ SecondFactor!EnabledIsProven'
  BY <1>1, <1>2, <1>4 DEF SecondFactor!SerialInv, SecondFactor!CodesKept,
     SecondFactor!EnabledIsProven
<1> QED
  BY <1>1, <1>4, <1>5, FactorFacts, FactorSame, FactorEnds

LEMMA CompleteBegins ==
  ASSUME SecondFactor!SerialInv, SecondFactor!Single', NEW r \in Req, NEW t \in Ticket,
         NEW code \in SecondFactor!Presented, SecondFactor!BeginComplete(r, t, code)
  PROVE  SecondFactor!SerialInv'
<1>1. /\ ticket[t] \in {"fresh", "ending"} /\ t \notin noted /\ presenting[r].pc = "idle"
      /\ UNCHANGED <<record, made, ticket, noted, opened, accepted, proven>>
  BY DEF SecondFactor!BeginComplete, SecondFactor!IsIdle
<1>2. PICK b \in BOOLEAN : b = (ticket[t] = "fresh")
  OBVIOUS
<1>3. PICK x : x = [SecondFactor!Idle EXCEPT !.pc = "checked", !.op = "complete", !.code = code,
                                             !.ticket = t, !.young = b]
  OBVIOUS
<1>4. /\ x \in SecondFactor!RequestState /\ x.op = "complete" /\ x.pc = "checked"
      /\ x.ticket = t /\ x.young = b
  BY <1>2, <1>3, RequestRows DEF SecondFactor!RequestState
<1>5. presenting' = [presenting EXCEPT ![r] = x]
  BY <1>2, <1>3 DEF SecondFactor!BeginComplete
<1>6. x.young => opened[t] = 0
  <2>1. opened[t] \in Nat /\ (opened[t] > 0 /\ ticket[t] = "fresh" => t \in noted)
    BY FactorFacts
  <2>2. b => ticket[t] = "fresh"
    BY <1>2
  <2>3. x.young => ticket[t] = "fresh"
    BY <1>4, <2>2
  <2>4. ticket[t] = "fresh" => ~(opened[t] > 0)
    BY <1>1, <2>1
  <2> QED
    BY <2>1, <2>3, <2>4
<1> QED
  BY <1>1, <1>4, <1>5, <1>6, FactorFacts, FactorSame, FactorStep

\* verify() answers, and a pre-auth token has been noted if it had to be.
LEMMA VerifiedStep ==
  ASSUME SecondFactor!SerialInv, SecondFactor!Single', NEW r \in Req,
         NEW o \in {"complete", "disable", "regenerate"},
         NEW code \in SecondFactor!Presented \cup {<<0, 0>>},
         SecondFactor!Verified(r, o, code),
         UNCHANGED <<record, made, ticket, opened, accepted, proven>>,
         noted' \in SUBSET Ticket, noted \subseteq noted',
         o = "complete" =>
           /\ presenting[r].op = "complete"
           /\ ticket[presenting[r].ticket] = "fresh" => presenting[r].ticket \in noted',
         presenting[r].pc # "idle" \/ o # "complete"
  PROVE  SecondFactor!SerialInv'
<1> DEFINE t == presenting[r].ticket
<1>1. presenting \in [Req -> SecondFactor!RequestState]
        /\ presenting[r] \in SecondFactor!RequestState
  BY DEF SecondFactor!SerialInv, SecondFactor!TypeOK
<1>2. o = "complete" => /\ t \in Ticket /\ ticket[t] # "none"
                        /\ presenting[r].young => opened[t] = 0
  BY DEF SecondFactor!SerialInv, SecondFactor!TicketsNoted
<1>3. \A u \in Ticket : opened[u] > 0 => ticket[u] # "none" /\ (ticket[u] = "fresh" => u \in noted')
  BY FactorFacts
<1>4. CASE presenting' = [presenting EXCEPT ![r].op = o, ![r].pc = "passed", ![r].code = code]
  <2>1. PICK x : x = [presenting[r] EXCEPT !.op = o, !.pc = "passed", !.code = code]
    OBVIOUS
  <2>2. presenting' = [presenting EXCEPT ![r] = x]
    BY <1>1, <1>4, <2>1 DEF SecondFactor!RequestState
  <2>3. /\ x \in SecondFactor!RequestState /\ x.op = o /\ x.pc = "passed"
        /\ x.ticket = t /\ x.young = presenting[r].young
    BY <1>1, <2>1 DEF SecondFactor!RequestState
  <2> HIDE DEF t
  <2> QED
    BY <1>2, <1>3, <2>2, <2>3, FactorFacts, FactorSame, FactorStep DEF t
<1>5. CASE /\ presenting' = [presenting EXCEPT ![r].op = o, ![r].pc = "matched",
                                               ![r].code = code, ![r].loaded = record]
           /\ code \in record.codes
  <2>1. PICK x : x = [presenting[r] EXCEPT !.op = o, !.pc = "matched", !.code = code,
                                           !.loaded = record]
    OBVIOUS
  <2>2. presenting' = [presenting EXCEPT ![r] = x]
    BY <1>1, <1>5, <2>1 DEF SecondFactor!RequestState
  <2>3. /\ x \in SecondFactor!RequestState /\ x.op = o /\ x.pc = "matched"
        /\ x.code = code /\ x.loaded = record
        /\ x.ticket = t /\ x.young = presenting[r].young
    <3>1. record \in SecondFactor!Record
      BY FactorFacts
    <3> QED
      BY <1>1, <2>1, <3>1 DEF SecondFactor!RequestState
  <2>4. /\ SecondFactor!CodesKept' /\ SecondFactor!CodesOnce' /\ SecondFactor!EnabledIsProven'
        /\ SecondFactor!TicketsOnce'
    BY FactorSame
  <2>5. x.loaded = record' /\ x.code \in record'.codes /\ x.op \notin {"setup", "confirm"}
    BY <1>5, <2>3
  <2>6. x.op = "complete" =>
           /\ x.ticket \in Ticket /\ ticket[x.ticket] # "none"
           /\ x.young => opened'[x.ticket] = 0
           /\ ticket[x.ticket] = "fresh" => x.ticket \in noted'
    BY <1>2, <2>3
  <2> HIDE DEF t
  <2> QED
    BY <1>3, <2>2, <2>3, <2>4, <2>5, <2>6, FactorFacts, FactorStep
<1>6. CASE presenting' = [presenting EXCEPT ![r] = SecondFactor!Idle]
  <2>1. CASE presenting[r].pc # "idle"
    BY <1>3, <1>6, <2>1, FactorFacts, FactorSame, FactorEnds
  <2>2. CASE presenting[r].pc = "idle"
    <3>1. presenting' = presenting
      BY <1>1, <1>6, <2>2, FactorFacts
    <3>2. SecondFactor!TypeOK' /\ SecondFactor!TicketsNoted'
      BY <3>1 DEF SecondFactor!SerialInv, SecondFactor!TypeOK, SecondFactor!TicketsNoted
    <3>3. SecondFactor!Single' /\ SecondFactor!RowKnown'
      BY <3>1 DEF SecondFactor!SerialInv, SecondFactor!RowKnown
    <3> QED
      BY <3>2, <3>3, FactorSame DEF SecondFactor!SerialInv
  <2> QED
    BY <2>1, <2>2
<1> QED
  BY <1>4, <1>5, <1>6 DEF SecondFactor!Verified, SecondFactor!Matches, SecondFactor!Ends

-----------------------------------------------------------------------------
\* A ticket is spent once: by the request that found it, and no other is open.
LEMMA TicketSpends ==
  ASSUME SecondFactor!SerialInv, SecondFactor!Single', NEW r \in Req, SecondFactor!SpendTicket(r)
  PROVE  SecondFactor!SerialInv'
<1>1. /\ presenting[r].pc = "checked" /\ presenting[r].op = "complete"
      /\ presenting[r].code \in SecondFactor!Presented \cup {<<0, 0>>}
      /\ presenting[r].ticket \in Ticket
  <2>1. presenting[r].pc = "checked" /\ presenting[r] \in SecondFactor!RequestState
    BY FactorFacts DEF SecondFactor!SpendTicket
  <2>2. presenting[r].op = "complete"
    BY <2>1 DEF SecondFactor!SerialInv, SecondFactor!RowKnown
  <2>3. presenting[r].ticket \in Ticket
    BY <2>2 DEF SecondFactor!SerialInv, SecondFactor!TicketsNoted
  <2> QED
    BY <2>1, <2>2, <2>3, RequestRows
<1>2. /\ noted' \in SUBSET Ticket /\ noted \subseteq noted'
      /\ ticket[presenting[r].ticket] = "fresh" => presenting[r].ticket \in noted'
  BY <1>1, FactorFacts DEF SecondFactor!SpendTicket
<1> QED
  BY <1>1, <1>2, VerifiedStep DEF SecondFactor!SpendTicket

LEMMA ChangeBegins ==
  ASSUME SecondFactor!SerialInv, SecondFactor!Single', NEW r \in Req, NEW op,
         NEW code \in SecondFactor!Presented, SecondFactor!BeginChange(r, op, code)
  PROVE  SecondFactor!SerialInv'
<1>1. noted' \in SUBSET Ticket /\ noted \subseteq noted'
  BY FactorFacts DEF SecondFactor!BeginChange
<1> QED
  BY <1>1, VerifiedStep DEF SecondFactor!BeginChange

\* The code that was accepted leaves the list, and no other one comes back.
LEMMA CodePops ==
  ASSUME SecondFactor!SerialInv, SecondFactor!Single', NEW r \in Req, SecondFactor!Pop(r)
  PROVE  SecondFactor!SerialInv'
<1>1. /\ presenting[r].pc = "matched" /\ presenting[r] \in SecondFactor!RequestState
      /\ UNCHANGED <<made, ticket, noted, opened, proven>>
      /\ presenting \in [Req -> SecondFactor!RequestState]
  BY FactorFacts DEF SecondFactor!Pop, SecondFactor!SerialInv, SecondFactor!TypeOK
<1>2. presenting[r].loaded = record /\ presenting[r].code \in record.codes
        /\ presenting[r].op \notin {"setup", "confirm"}
  BY <1>1 DEF SecondFactor!SerialInv, SecondFactor!RowKnown
<1>3. CASE UNCHANGED <<record, accepted>> /\ SecondFactor!Ends(r)
  BY <1>1, <1>3, FactorFacts, FactorSame, FactorEnds DEF SecondFactor!Ends
<1>4. CASE /\ record' = [record EXCEPT !.codes = SecondFactor!Remaining(presenting[r].loaded,
                                                                         presenting[r].code)]
           /\ accepted' = [accepted EXCEPT ![presenting[r].code] = @ + 1]
           /\ presenting' = [presenting EXCEPT ![r].pc = "passed"]
  <2>1. PICK c : c = presenting[r].code
    OBVIOUS
  <2>2. PICK C : C = record.codes \ {c}
    OBVIOUS
  <2>3. /\ record' \in SecondFactor!Record /\ record'.codes = C
        /\ record'.enabled = record.enabled /\ record'.secret = record.secret
        /\ C \in SUBSET SecondFactor!BackupCode /\ c \in SecondFactor!BackupCode
    <3>1. record \in SecondFactor!Record
      BY FactorFacts
    <3>2. record.codes \in SUBSET SecondFactor!BackupCode
      BY <3>1, FactorRows
    <3>3. record' = [record EXCEPT !.codes = C]
      BY <1>2, <1>4, <2>1, <2>2 DEF SecondFactor!Remaining
    <3>4. C \in SUBSET SecondFactor!BackupCode /\ c \in SecondFactor!BackupCode
      BY <1>2, <2>1, <2>2, <3>2
    <3>5. PICK y : y = [record EXCEPT !.codes = C]
      OBVIOUS
    <3>6. y \in SecondFactor!Record /\ y.codes = C /\ y.enabled = record.enabled
            /\ y.secret = record.secret
      BY <3>1, <3>4, <3>5, FactorRows
    <3> QED
      BY <3>3, <3>4, <3>5, <3>6
  <2>4. /\ accepted \in [SecondFactor!BackupCode -> Nat]
        /\ accepted' = [accepted EXCEPT ![c] = @ + 1]
        /\ accepted[c] = 0
    <3>1. c \in record.codes /\ c \in SecondFactor!BackupCode
      BY <1>2, <2>1, <2>3
    <3>2. accepted[c] = 0
      BY <3>1 DEF SecondFactor!SerialInv, SecondFactor!CodesKept
    <3> QED
      BY <1>4, <2>1, <3>2, FactorFacts
  <2>5. /\ accepted' \in [SecondFactor!BackupCode -> Nat] /\ accepted'[c] = 1
        /\ \A d \in SecondFactor!BackupCode : d # c => accepted'[d] = accepted[d]
    BY <2>3, <2>4
  <2>6. SecondFactor!CodesKept'
    <3>1. c \in record.codes
      BY <1>2, <2>1
    <3> QED
      BY <1>1, <2>2, <2>3, <2>5, <3>1 DEF SecondFactor!SerialInv, SecondFactor!CodesKept
  <2>7. SecondFactor!CodesOnce'
    BY <2>5 DEF SecondFactor!SerialInv, SecondFactor!CodesOnce
  <2>8. SecondFactor!EnabledIsProven' /\ SecondFactor!TicketsOnce'
    BY <1>1, <2>3 DEF SecondFactor!SerialInv, SecondFactor!EnabledIsProven, SecondFactor!TicketsOnce
  <2>9. PICK x : x = [presenting[r] EXCEPT !.pc = "passed"]
    OBVIOUS
  <2>10. /\ x \in SecondFactor!RequestState /\ x.pc = "passed" /\ x.op = presenting[r].op
         /\ x.ticket = presenting[r].ticket /\ x.young = presenting[r].young
         /\ presenting' = [presenting EXCEPT ![r] = x]
    BY <1>1, <1>4, <2>9 DEF SecondFactor!RequestState
  <2>11. x.op = "complete" =>
           /\ x.ticket \in Ticket /\ ticket[x.ticket] # "none"
           /\ x.young => opened'[x.ticket] = 0
           /\ ticket[x.ticket] = "fresh" => x.ticket \in noted'
    BY <1>1, <2>10 DEF SecondFactor!SerialInv, SecondFactor!TicketsNoted
  <2>12. x.op \notin {"setup", "confirm"} /\ x.pc # "matched" /\ x.pc # "idle"
    BY <1>2, <2>10
  <2> QED
    BY <1>1, <2>3, <2>5, <2>6, <2>7, <2>8, <2>10, <2>11, <2>12, FactorFacts, FactorStep
<1> QED
  BY <1>3, <1>4 DEF SecondFactor!Pop

\* A sign-in completes: its token was noted when it was still young.
LEMMA SessionOpens ==
  ASSUME SecondFactor!SerialInv, SecondFactor!Single', NEW r \in Req, SecondFactor!OpenSession(r)
  PROVE  SecondFactor!SerialInv'
<1>1. /\ presenting[r].pc = "passed" /\ presenting[r].op = "complete"
      /\ UNCHANGED <<record, made, ticket, noted, accepted, proven>>
      /\ presenting' = [presenting EXCEPT ![r] = SecondFactor!Idle]
      /\ presenting[r].young \in BOOLEAN
  BY FactorFacts, RequestRows DEF SecondFactor!OpenSession, SecondFactor!Ends
<1>2. PICK t : t = presenting[r].ticket
  OBVIOUS
<1>3. /\ t \in Ticket /\ ticket[t] # "none" /\ (presenting[r].young => opened[t] = 0)
      /\ ticket[t] = "fresh" => t \in noted
  BY <1>1, <1>2 DEF SecondFactor!SerialInv, SecondFactor!TicketsNoted
<1>4. /\ opened \in [Ticket -> Nat]
      /\ opened' = [opened EXCEPT ![t] = @ + IF presenting[r].young THEN 1 ELSE 0]
  BY <1>2, FactorFacts DEF SecondFactor!OpenSession
<1>5. /\ opened' \in [Ticket -> Nat]
      /\ \A u \in Ticket : opened'[u] = opened[u] \/ (u = t /\ opened'[u] = 1)
  <2>1. t \in Ticket /\ opened \in [Ticket -> Nat] /\ opened[t] \in Nat
    BY <1>3, <1>4
  <2>2. CASE presenting[r].young
    <3>1. opened' = [opened EXCEPT ![t] = 1]
      <4>1. opened' = [opened EXCEPT ![t] = @ + 1] /\ opened[t] = 0
        BY <1>3, <1>4, <2>2
      <4> QED
        BY <4>1
    <3>2. opened' \in [Ticket -> Nat]
      BY <2>1, <3>1
    <3>3. opened'[t] = 1 /\ \A u \in Ticket : u # t => opened'[u] = opened[u]
      BY <2>1, <3>1
    <3> QED
      BY <3>2, <3>3
  <2>3. CASE ~presenting[r].young
    <3>1. opened' = [opened EXCEPT ![t] = @ + 0]
      BY <1>4, <2>3
    <3>2. opened' = opened
      BY <2>1, <3>1
    <3> QED
      BY <2>1, <3>2
  <2> QED
    BY <2>2, <2>3
<1>6. SecondFactor!TicketsOnce'
  BY <1>5 DEF SecondFactor!SerialInv, SecondFactor!TicketsOnce
<1>7. \A u \in Ticket : opened'[u] > 0 => ticket[u] # "none" /\ (ticket[u] = "fresh" => u \in noted)
  BY <1>3, <1>5, FactorFacts
<1> QED
  BY <1>1, <1>5, <1>6, <1>7, FactorFacts, FactorSame, FactorEnds

\* The second factor is switched off, or its codes are replaced.
LEMMA FactorChanges ==
  ASSUME SecondFactor!SerialInv, SecondFactor!Single', NEW r \in Req,
         SecondFactor!Disable(r) \/ SecondFactor!Regenerate(r)
  PROVE  SecondFactor!SerialInv'
<1>1. /\ presenting[r].pc = "passed"
      /\ UNCHANGED <<ticket, noted, opened, accepted, proven>>
      /\ presenting' = [presenting EXCEPT ![r] = SecondFactor!Idle]
  BY DEF SecondFactor!Disable, SecondFactor!Regenerate, SecondFactor!Ends
<1>2. CASE record' = SecondFactor!NoRecord /\ made' = made
  <2>1. SecondFactor!CodesKept' /\ SecondFactor!EnabledIsProven'
    BY <1>1, <1>2, FactorRows DEF SecondFactor!SerialInv, SecondFactor!CodesKept,
       SecondFactor!EnabledIsProven
  <2> QED
    BY <1>1, <1>2, <2>1, FactorFacts, FactorRows, FactorSame, FactorEnds
<1>3. CASE UNCHANGED <<record, made>>
  BY <1>1, <1>3, FactorFacts, FactorSame, FactorEnds
<1>4. CASE /\ record' = [record EXCEPT !.codes = SecondFactor!CodesOf(made + 1)]
           /\ made' = made + 1 /\ made < MaxGen
  <2>1. made + 1 \in 1..MaxGen /\ made + 1 \in 0..MaxGen
    BY <1>4, FactorFacts, SignInAssumption DEF SignInAssumption
  <2>2. SecondFactor!CodesOf(made + 1) \in SUBSET SecondFactor!BackupCode
    BY <2>1, NewCodes
  <2>3. /\ record' \in SecondFactor!Record /\ record'.enabled = record.enabled
        /\ record'.codes = SecondFactor!CodesOf(made + 1) /\ record'.secret = record.secret
    <3>1. record \in SecondFactor!Record
      BY FactorFacts
    <3> QED
      BY <1>4, <2>2, <3>1, FactorRows
  <2>4. SecondFactor!CodesKept'
    BY <1>1, <1>4, <2>3, CodesReplaced
  <2>5. SecondFactor!EnabledIsProven'
    BY <1>1, <2>3 DEF SecondFactor!SerialInv, SecondFactor!EnabledIsProven
  <2> QED
    BY <1>1, <1>4, <2>1, <2>3, <2>4, <2>5, FactorFacts, FactorSame, FactorEnds
<1> QED
  BY <1>2, <1>3, <1>4 DEF SecondFactor!Disable, SecondFactor!Regenerate

\* As long as requests come one at a time, no step of the second factor breaks
\* its invariant.
LEMMA FactorStays ==
  ASSUME SecondFactor!SerialInv, SecondFactor!Next, SecondFactor!Single'
  PROVE  SecondFactor!SerialInv'
<1>1. ASSUME NEW t \in Ticket, SecondFactor!IssueTicket(t) \/ SecondFactor!Age(t)
      PROVE  SecondFactor!SerialInv'
  BY <1>1, TicketStep
<1>2. ASSUME NEW r \in Req, SecondFactor!BeginSetup(r) \/ SecondFactor!BeginConfirm(r)
      PROVE  SecondFactor!SerialInv'
  BY <1>2, SetupBegins
<1>3. ASSUME NEW r \in Req, NEW t \in Ticket, NEW code \in SecondFactor!Presented,
             SecondFactor!BeginComplete(r, t, code)
      PROVE  SecondFactor!SerialInv'
  BY <1>3, CompleteBegins
<1>4. ASSUME NEW r \in Req, NEW op, NEW code \in SecondFactor!Presented,
             SecondFactor!BeginChange(r, op, code)
      PROVE  SecondFactor!SerialInv'
  BY <1>4, ChangeBegins
<1>5. ASSUME NEW r \in Req, SecondFactor!Disable(r) \/ SecondFactor!Regenerate(r)
      PROVE  SecondFactor!SerialInv'
  BY <1>5, FactorChanges
<1> QED
  BY <1>1, <1>2, <1>3, <1>4, <1>5, SetupCommits, ConfirmCommits, TicketSpends, CodePops,
     SessionOpens DEF SecondFactor!Next

\* A user without a second factor satisfies it.
LEMMA FactorBegins == SecondFactor!Init => SecondFactor!SerialInv
<1> SUFFICES ASSUME SecondFactor!Init PROVE SecondFactor!SerialInv
  OBVIOUS
<1>1. SecondFactor!TypeOK
  <2>1. MaxGen \in Nat /\ 0 \in 0..MaxGen
    BY SignInAssumption DEF SignInAssumption
  <2> QED
    BY <2>1, FactorRows, RequestRows DEF SecondFactor!Init, SecondFactor!TypeOK
<1>2. SecondFactor!CodesKept /\ SecondFactor!CodesOnce /\ SecondFactor!EnabledIsProven
  BY FactorRows DEF SecondFactor!Init, SecondFactor!CodesKept, SecondFactor!CodesOnce,
     SecondFactor!EnabledIsProven
<1>3. SecondFactor!Single /\ SecondFactor!RowKnown
  BY RequestRows DEF SecondFactor!Init, SecondFactor!Single, SecondFactor!IsIdle,
     SecondFactor!RowKnown
<1>4. SecondFactor!TicketsNoted /\ SecondFactor!TicketsOnce
  BY RequestRows DEF SecondFactor!Init, SecondFactor!TicketsNoted, SecondFactor!TicketsOnce
<1> QED
  BY <1>1, <1>2, <1>3, <1>4 DEF SecondFactor!SerialInv

-----------------------------------------------------------------------------
(* New accounts *)

LEMMA SameCardinality == ASSUME NEW S PROVE Accounts!Cardinality(S) = Cardinality(S)
  BY DEF Accounts!Cardinality, Cardinality

\* The records of mailed codes, of accounts and of the requests that open them.
LEMMA LetterRows ==
  /\ Accounts!NoMail \in Accounts!Letter /\ Accounts!NoMail.email = "none"
  /\ Accounts!NoMail.used /\ ~Accounts!NoMail.fresh
  /\ \A e \in Email : [email |-> e, used |-> FALSE, fresh |-> TRUE] \in Accounts!Letter
  /\ \A m \in Accounts!Letter :
       /\ m.used \in BOOLEAN /\ m.fresh \in BOOLEAN /\ m.email \in Email \cup {"none"}
       /\ [m EXCEPT !.used = TRUE] \in Accounts!Letter /\ [m EXCEPT !.used = TRUE].email = m.email
       /\ [m EXCEPT !.used = TRUE].used /\ [m EXCEPT !.used = TRUE].fresh = m.fresh
       /\ [m EXCEPT !.fresh = FALSE] \in Accounts!Letter
       /\ [m EXCEPT !.fresh = FALSE].email = m.email /\ [m EXCEPT !.fresh = FALSE].used = m.used
       /\ ~[m EXCEPT !.fresh = FALSE].fresh
BY DEF Accounts!NoMail, Accounts!Letter

\* A letter that is marked as used if b is true.
LEMMA LetterMarked ==
  ASSUME NEW m \in Accounts!Letter, NEW b
  PROVE  /\ [m EXCEPT !.used = m.used \/ b] \in Accounts!Letter
         /\ [m EXCEPT !.used = m.used \/ b].email = m.email
         /\ (b => [m EXCEPT !.used = m.used \/ b].used)
         /\ (~b => [m EXCEPT !.used = m.used \/ b] = m)
         /\ (m = Accounts!NoMail => [m EXCEPT !.used = m.used \/ b] = m)
<1>1. m.used \in BOOLEAN
  BY LetterRows
<1>2. CASE m.used \/ b
  <2>1. (m.used \/ b) = TRUE
    BY <1>2
  <2>2. [m EXCEPT !.used = m.used \/ b] = [m EXCEPT !.used = TRUE]
    BY <2>1
  <2>3. m.used => m.used = TRUE
    BY <1>1
  <2>4. m.used => [m EXCEPT !.used = TRUE] = m
    BY <2>3 DEF Accounts!Letter
  <2>5. Accounts!NoMail.used
    BY LetterRows
  <2> QED
    <3>1. PICK y : y = [m EXCEPT !.used = TRUE]
      OBVIOUS
    <3>2. y \in Accounts!Letter /\ y.email = m.email /\ y.used
      BY <3>1, LetterRows
    <3>3. (~b => y = m) /\ (m = Accounts!NoMail => y = m)
      BY <1>2, <2>4, <2>5, <3>1
    <3> QED
      BY <2>2, <3>1, <3>2, <3>3
<1>3. CASE ~m.used /\ ~b
  <2>1. (m.used \/ b) = m.used
    BY <1>1, <1>3
  <2>2. [m EXCEPT !.used = m.used \/ b] = [m EXCEPT !.used = m.used]
    BY <2>1
  <2>3. [m EXCEPT !.used = m.used] = m
    BY DEF Accounts!Letter
  <2> QED
    BY <1>3, <2>2, <2>3
<1> QED
  BY <1>2, <1>3

\* What the fields of a request that opens accounts may hold.
LEMMA OpenerRows ==
  /\ Accounts!Idle \in Accounts!RequestState /\ Accounts!Idle.pc = "idle"
  /\ \A x \in Accounts!RequestState :
       /\ x.email \in Email \cup {"none"} /\ x.code \in 0..MaxCode
       /\ x.stale \in SUBSET Accounts!Code /\ x.name \in Accounts!Name \cup {Accounts!NoName}
<1> DEFINE N == Accounts!Name \cup {Accounts!NoName}
<1>1. 0 \in 0..MaxCode /\ {} \in SUBSET Accounts!Code /\ Accounts!NoName \in N
  BY SignInAssumption DEF SignInAssumption
<1> HIDE DEF N
<1> QED
  BY <1>1 DEF Accounts!Idle, Accounts!RequestState, N

\* What a request knows of the code it showed.
Opener(x, letters, times) ==
    /\ x.pc # "idle" => x.email \in Email
    /\ x.pc \in {"verified", "registering", "creating"} =>
         x.code \in {c \in Accounts!Code : letters[c] # Accounts!NoMail}
           /\ letters[x.code].email = x.email
    /\ x.pc \in {"registering", "creating"} => times[x.code] > 0
    /\ x.pc \in {"creating", "joining"} => x.name \in Accounts!Name

\* Steps that keep the codes that were mailed, and the requests that saw them.
LEMMA AccountsStep ==
  ASSUME Accounts!AccountsInv,
         mail' \in [Accounts!Code -> Accounts!Letter],
         \A c \in Accounts!Mailed : c \in Accounts!Mailed' /\ mail'[c].email = mail[c].email,
         \E k \in 0..MaxCode : Accounts!Mailed' = 1..k,
         \A c \in Accounts!Mailed' : mail'[c].email \in Email,
         users' \in SUBSET Accounts!Account, Accounts!AccountsProven',
         registering' \in [Req -> Accounts!RequestState],
         \A r \in Req : registering'[r] = registering[r] \/ Opener(registering'[r], mail', consumed'),
         consumed' \in [Accounts!Code -> Nat], misled' \in BOOLEAN,
         \A c \in Accounts!Code : consumed[c] > 0 => consumed'[c] > 0
  PROVE  Accounts!AccountsInv'
<1>1. Accounts!TypeOK'
  BY DEF Accounts!TypeOK, Accounts!Code
<1>2. Accounts!CodesShown'
  <2> SUFFICES ASSUME NEW r \in Req PROVE Opener(registering'[r], mail', consumed')
    BY DEF Accounts!CodesShown, Accounts!IsIdle, Opener, Accounts!Mailed
  <2>1. CASE registering'[r] = registering[r]
    <3>1. Opener(registering[r], mail, consumed)
      BY DEF Accounts!AccountsInv, Accounts!CodesShown, Accounts!IsIdle, Opener, Accounts!Mailed
    <3>2. \A c \in Accounts!Mailed : c \in Accounts!Code
      BY DEF Accounts!Mailed
    <3>3. registering[r].pc \in {"verified", "registering", "creating"} =>
            registering[r].code \in Accounts!Mailed
      BY <3>1 DEF Opener, Accounts!Mailed
    <3> QED
      BY <2>1, <3>1, <3>2, <3>3 DEF Opener, Accounts!Mailed
  <2> QED
    BY <2>1
<1> QED
  BY <1>1, <1>2 DEF Accounts!AccountsInv

\* What the invariant says, and which codes were mailed, after steps that leave
\* mailed codes alone.
LEMMA AccountFacts ==
  ASSUME Accounts!AccountsInv
  PROVE  /\ mail \in [Accounts!Code -> Accounts!Letter] /\ users \in SUBSET Accounts!Account
         /\ registering \in [Req -> Accounts!RequestState]
         /\ consumed \in [Accounts!Code -> Nat] /\ misled \in BOOLEAN
         /\ \E k \in 0..MaxCode : Accounts!Mailed = 1..k
         /\ \A c \in Accounts!Code : c \in Accounts!Mailed <=> mail[c].email \in Email
         /\ \A c \in Accounts!Code : c \notin Accounts!Mailed <=> mail[c] = Accounts!NoMail
         /\ Accounts!Mailed \subseteq Accounts!Code
         /\ \A r \in Req : Opener(registering[r], mail, consumed)
<1>1. "none" \notin Email
  BY SignInAssumption DEF SignInAssumption
<1>2. \A c \in Accounts!Code : c \notin Accounts!Mailed <=> mail[c] = Accounts!NoMail
  BY DEF Accounts!Mailed
<1>3. \A c \in Accounts!Code : c \in Accounts!Mailed <=> mail[c].email \in Email
  BY <1>1, <1>2, LetterRows DEF Accounts!AccountsInv, Accounts!CodesShown
<1>4. \A r \in Req : Opener(registering[r], mail, consumed)
  BY DEF Accounts!AccountsInv, Accounts!CodesShown, Accounts!IsIdle, Opener, Accounts!Mailed
<1>5. Accounts!Mailed \subseteq Accounts!Code
  BY DEF Accounts!Mailed
<1> QED
  BY <1>2, <1>3, <1>4, <1>5 DEF Accounts!AccountsInv, Accounts!TypeOK, Accounts!CodesShown

\* A step that neither mails a code nor changes an address mails none.
LEMMA MailedStays ==
  ASSUME Accounts!AccountsInv, mail' \in [Accounts!Code -> Accounts!Letter],
         \A c \in Accounts!Code : mail'[c].email = mail[c].email,
         \A c \in Accounts!Code : mail[c] = Accounts!NoMail => mail'[c] = Accounts!NoMail
  PROVE  Accounts!Mailed' = Accounts!Mailed
<1>1. "none" \notin Email
  BY SignInAssumption DEF SignInAssumption
<1>2. \A c \in Accounts!Code : c \in Accounts!Mailed => mail'[c] # Accounts!NoMail
  BY <1>1, AccountFacts, LetterRows
<1>3. Accounts!Code' = Accounts!Code /\ Accounts!NoMail' = Accounts!NoMail
  BY DEF Accounts!Code, Accounts!NoMail
<1> QED
  BY <1>2, <1>3 DEF Accounts!Mailed

\* Only a request moves.
LEMMA OpenerMoves ==
  ASSUME Accounts!AccountsInv, UNCHANGED <<mail, users, consumed>>, misled' \in BOOLEAN,
         NEW r \in Req, NEW x \in Accounts!RequestState,
         registering' = [registering EXCEPT ![r] = x], Opener(x, mail, consumed)
  PROVE  Accounts!AccountsInv'
<1>1. Accounts!Mailed' = Accounts!Mailed
  BY DEF Accounts!Mailed, Accounts!Code, Accounts!NoMail
<1>2. Accounts!AccountsProven'
  BY <1>1 DEF Accounts!AccountsInv, Accounts!AccountsProven
<1>3. \A c \in Accounts!Mailed : mail[c].email \in Email
  BY DEF Accounts!AccountsInv, Accounts!CodesShown
<1>4. \A q \in Req : registering'[q] = registering[q] \/ Opener(registering'[q], mail', consumed')
  BY AccountFacts DEF Opener
<1>5. registering' \in [Req -> Accounts!RequestState]
  BY AccountFacts
<1> QED
  BY <1>1, <1>2, <1>3, <1>4, <1>5, AccountFacts, AccountsStep

-----------------------------------------------------------------------------
(* Each step *)

LEMMA IdleOpener ==
  ASSUME NEW m, NEW n PROVE Opener(Accounts!Idle, m, n)
BY OpenerRows DEF Opener

\* Each action on mailed codes and accounts keeps the invariant that holds however requests overlap, ...
LEMMA SendBegins ==
  ASSUME Accounts!AccountsInv, NEW r \in Req, NEW e \in Email, Accounts!BeginSend(r, e)
  PROVE  Accounts!AccountsInv'
<1>1. PICK x : x = [Accounts!Idle EXCEPT !.pc = "sending", !.email = e, !.stale = Accounts!Stale(e)]
  OBVIOUS
<1>2. Accounts!Stale(e) \in SUBSET Accounts!Code
  BY AccountFacts DEF Accounts!Stale
<1>3. x \in Accounts!RequestState /\ x.pc = "sending" /\ x.email = e
  BY <1>1, <1>2, OpenerRows DEF Accounts!RequestState
<1>4. Opener(x, mail, consumed)
  BY <1>3 DEF Opener
<1> QED
  BY <1>1, <1>3, <1>4, AccountFacts, OpenerMoves DEF Accounts!BeginSend

\* A new code is mailed, and the next number is its own.
LEMMA MailGrows ==
  ASSUME Accounts!AccountsInv, NEW r \in Req, Accounts!CommitSend(r)
  PROVE  \E new \in Accounts!Code :
           /\ new \notin Accounts!Mailed /\ Accounts!Mailed' = Accounts!Mailed \cup {new}
           /\ \E k \in 0..MaxCode : Accounts!Mailed' = 1..k
           /\ registering[r].email \in Email
           /\ mail' \in [Accounts!Code -> Accounts!Letter]
           /\ mail'[new].email = registering[r].email /\ ~mail'[new].used
           /\ \A c \in Accounts!Mailed :
                /\ mail'[c].email = mail[c].email
                /\ c \in registering[r].stale => mail'[c].used
                /\ c \notin registering[r].stale => mail'[c] = mail[c]
<1>1. PICK k \in 0..MaxCode : Accounts!Mailed = 1..k
  BY AccountFacts
<1>2. Accounts!Cardinality(Accounts!Mailed) = k
  <2>1. k \in Nat /\ 1 \in Int
    BY <1>1, SignInAssumption DEF SignInAssumption
  <2>2. Cardinality(1..k) = k
    BY <2>1, FS_Interval
  <2> QED
    BY <1>1, <2>2, SameCardinality
<1>3. k # MaxCode
  BY <1>1 DEF Accounts!CommitSend, Accounts!Code
<1>4. PICK new : new = k + 1
  OBVIOUS
<1>5. new \in Accounts!Code /\ new \notin Accounts!Mailed
        /\ Accounts!Mailed \cup {new} = 1..new /\ new \in 0..MaxCode
  BY <1>1, <1>3, <1>4, SignInAssumption DEF SignInAssumption, Accounts!Code
<1>6. registering[r].email \in Email /\ registering[r].stale \in SUBSET Accounts!Code
  BY AccountFacts, OpenerRows DEF Accounts!CommitSend, Opener
<1>7. mail' = [c \in Accounts!Code |->
                 IF c = new THEN [email |-> registering[r].email, used |-> FALSE, fresh |-> TRUE]
                 ELSE [mail[c] EXCEPT !.used = @ \/ c \in registering[r].stale]]
  BY <1>2, <1>4 DEF Accounts!CommitSend
<1>8. PICK letter : letter = [email |-> registering[r].email, used |-> FALSE, fresh |-> TRUE]
  OBVIOUS
<1>9. letter \in Accounts!Letter /\ letter.email = registering[r].email /\ ~letter.used
  BY <1>6, <1>8, LetterRows
<1>10. \A c \in Accounts!Code : mail[c] \in Accounts!Letter
  BY AccountFacts
<1>11. mail'[new] = letter
  BY <1>5, <1>7, <1>8
<1>12. \A c \in Accounts!Code : c # new =>
         /\ mail'[c] \in Accounts!Letter
         /\ mail'[c].email = mail[c].email
         /\ c \in registering[r].stale => mail'[c].used
         /\ c \notin registering[r].stale => mail'[c] = mail[c]
         /\ mail[c] = Accounts!NoMail => mail'[c] = Accounts!NoMail
  <2> SUFFICES ASSUME NEW c \in Accounts!Code, c # new
               PROVE  /\ mail'[c] \in Accounts!Letter
                      /\ mail'[c].email = mail[c].email
                      /\ c \in registering[r].stale => mail'[c].used
                      /\ c \notin registering[r].stale => mail'[c] = mail[c]
                      /\ mail[c] = Accounts!NoMail => mail'[c] = Accounts!NoMail
    OBVIOUS
  <2>1. PICK m \in Accounts!Letter : m = mail[c]
    BY <1>10
  <2>2. mail'[c] = [m EXCEPT !.used = m.used \/ c \in registering[r].stale]
    BY <1>7, <2>1
  <2> QED
    BY ZenonT(40), <2>1, <2>2, LetterMarked
<1>13. mail' \in [Accounts!Code -> Accounts!Letter]
  <2>1. \A c \in Accounts!Code : mail'[c] \in Accounts!Letter
    BY <1>9, <1>11, <1>12
  <2>2. mail' = [c \in Accounts!Code |-> mail'[c]]
    BY <1>7
  <2> QED
    BY <2>1, <2>2
<1>14. Accounts!Mailed' = Accounts!Mailed \cup {new}
  <2>1. "none" \notin Email
    BY SignInAssumption DEF SignInAssumption
  <2>2. letter.email # "none"
    BY <1>6, <1>9, <2>1
  <2>3. mail'[new] # Accounts!NoMail
    BY <1>11, <2>2, LetterRows
  <2>4. \A c \in Accounts!Mailed : c # new /\ mail'[c].email # "none"
    BY <1>5, <1>12, <2>1, AccountFacts
  <2>6. \A c \in Accounts!Mailed : mail'[c] # Accounts!NoMail
    BY <2>4, LetterRows
  <2>5. Accounts!Code' = Accounts!Code /\ Accounts!NoMail' = Accounts!NoMail
    BY DEF Accounts!Code, Accounts!NoMail
  <2> QED
    BY <1>5, <1>12, <2>3, <2>5, <2>6, AccountFacts DEF Accounts!Mailed
<1> QED
  BY <1>5, <1>6, <1>9, <1>11, <1>12, <1>13, <1>14, AccountFacts

\* A code that is mailed is the next of the numbers.
LEMMA CodeSent ==
  ASSUME Accounts!AccountsInv, NEW r \in Req, Accounts!CommitSend(r)
  PROVE  Accounts!AccountsInv'
<1>1. PICK new \in Accounts!Code :
        /\ new \notin Accounts!Mailed /\ Accounts!Mailed' = Accounts!Mailed \cup {new}
        /\ \E k \in 0..MaxCode : Accounts!Mailed' = 1..k
        /\ registering[r].email \in Email
        /\ mail' \in [Accounts!Code -> Accounts!Letter]
        /\ mail'[new].email = registering[r].email
        /\ \A c \in Accounts!Mailed : mail'[c].email = mail[c].email
  BY MailGrows
<1>2. /\ UNCHANGED <<users, states, consumed, misled>>
      /\ registering' = [registering EXCEPT ![r] = Accounts!Idle]
  BY DEF Accounts!CommitSend, Accounts!Ends
<1>3. \A c \in Accounts!Mailed : mail[c].email \in Email
  BY DEF Accounts!AccountsInv, Accounts!CodesShown
<1>4. \A c \in Accounts!Mailed' : mail'[c].email \in Email
  BY <1>1, <1>3
<1>5. \A q \in Req : registering'[q] = registering[q] \/ Opener(registering'[q], mail', consumed')
  BY <1>2, AccountFacts, IdleOpener
<1>6. registering' \in [Req -> Accounts!RequestState]
  BY <1>2, AccountFacts, OpenerRows
<1>7. Accounts!AccountsProven'
  BY <1>1, <1>2 DEF Accounts!AccountsInv, Accounts!AccountsProven
<1> QED
  BY <1>1, <1>2, <1>4, <1>5, <1>6, <1>7, AccountFacts, AccountsStep

\* A code expires or is used: which codes were mailed, and to whom, stays.
LEMMA LetterMoves ==
  ASSUME Accounts!AccountsInv, NEW c \in Accounts!Mailed, NEW m \in Accounts!Letter,
         mail' = [mail EXCEPT ![c] = m], m.email = mail[c].email,
         UNCHANGED <<users, misled>>,
         registering' \in [Req -> Accounts!RequestState],
         \A q \in Req : registering'[q] = registering[q] \/ Opener(registering'[q], mail', consumed'),
         consumed' \in [Accounts!Code -> Nat],
         \A d \in Accounts!Code : consumed[d] > 0 => consumed'[d] > 0
  PROVE  Accounts!AccountsInv' /\ Accounts!Mailed' = Accounts!Mailed
<1>1. /\ mail' \in [Accounts!Code -> Accounts!Letter]
      /\ \A d \in Accounts!Code : mail'[d].email = mail[d].email
      /\ \A d \in Accounts!Code : mail[d] = Accounts!NoMail => mail'[d] = Accounts!NoMail
  BY AccountFacts DEF Accounts!Mailed
<1>2. Accounts!Mailed' = Accounts!Mailed
  BY <1>1, MailedStays
<1>3. \A d \in Accounts!Mailed : d \in Accounts!Code /\ mail[d].email \in Email
  BY AccountFacts
<1>4. Accounts!AccountsProven'
  BY <1>1, <1>2, <1>3 DEF Accounts!AccountsInv, Accounts!AccountsProven
<1> QED
  BY <1>1, <1>2, <1>3, <1>4, AccountFacts, AccountsStep

\* A code that expires stays mailed, to whom and used as it was.
LEMMA CodeExpires ==
  ASSUME Accounts!AccountsInv, NEW c \in Accounts!Code, Accounts!Expire(c)
  PROVE  /\ Accounts!AccountsInv' /\ Accounts!Mailed' = Accounts!Mailed
         /\ \A d \in Accounts!Code : mail'[d].email = mail[d].email /\ mail'[d].used = mail[d].used
         /\ \A d \in Accounts!Code : mail'[d].fresh => mail[d].fresh
<1>1. PICK m : m = [mail[c] EXCEPT !.fresh = FALSE]
  OBVIOUS
<1>2. mail' = [mail EXCEPT ![c] = m] /\ mail[c].fresh
        /\ UNCHANGED <<users, states, registering, consumed, misled>>
  BY <1>1, AccountFacts DEF Accounts!Expire
<1>3. c \in Accounts!Mailed
  BY <1>2, AccountFacts, LetterRows
<1>4. m \in Accounts!Letter /\ m.email = mail[c].email /\ m.used = mail[c].used /\ ~m.fresh
  BY <1>1, AccountFacts, LetterRows
<1>5. Accounts!AccountsInv' /\ Accounts!Mailed' = Accounts!Mailed
  BY <1>2, <1>3, <1>4, AccountFacts, LetterMoves
<1> QED
  BY <1>2, <1>4, <1>5, AccountFacts

LEMMA RegisterBegins ==
  ASSUME Accounts!AccountsInv, NEW r \in Req, NEW e \in Email, NEW c \in Accounts!Code,
         Accounts!BeginRegister(r, e, c)
  PROVE  Accounts!AccountsInv'
<1>1. PICK x : x = [Accounts!Idle EXCEPT !.pc = "verified", !.email = e, !.code = c]
  OBVIOUS
<1>2. x \in Accounts!RequestState /\ x.pc = "verified" /\ x.email = e /\ x.code = c
  <2>1. c \in 0..MaxCode
    BY DEF Accounts!Code
  <2> QED
    BY <1>1, <2>1, OpenerRows DEF Accounts!RequestState
<1>3. c \in Accounts!Mailed /\ mail[c].email = e
  BY DEF Accounts!BeginRegister, Accounts!IsLatest, Accounts!Usable
<1>4. Opener(x, mail, consumed)
  BY <1>2, <1>3 DEF Opener, Accounts!Mailed
<1> QED
  BY <1>1, <1>2, <1>4, AccountFacts, OpenerMoves DEF Accounts!BeginRegister

\* A registration that marks its code leaves all others alone.
LEMMA CodeUsed ==
  ASSUME Accounts!AccountsInv, NEW r \in Req, Accounts!MarkUsed(r)
  PROVE  /\ Accounts!AccountsInv' /\ Accounts!Mailed' = Accounts!Mailed
         /\ registering[r].code \in Accounts!Mailed
         /\ mail'[registering[r].code].used
         /\ \A d \in Accounts!Code : d # registering[r].code =>
              mail'[d] = mail[d] /\ consumed'[d] = consumed[d]
         /\ \A d \in Accounts!Code : mail'[d].email = mail[d].email
         /\ consumed'[registering[r].code] = consumed[registering[r].code] + 1
<1>1. /\ registering[r].pc = "verified" /\ UNCHANGED <<users, states, misled>>
      /\ registering[r] \in Accounts!RequestState
  BY AccountFacts DEF Accounts!MarkUsed
<1>2. PICK c : c = registering[r].code
  OBVIOUS
<1>3. /\ c \in Accounts!Mailed /\ c \in Accounts!Code /\ registering[r].email \in Email
      /\ mail[c].email = registering[r].email
  BY <1>1, <1>2, AccountFacts DEF Opener, Accounts!Mailed
<1>4. PICK m : m = [mail[c] EXCEPT !.used = TRUE]
  OBVIOUS
<1>5. m \in Accounts!Letter /\ m.email = mail[c].email /\ m.used
  BY <1>3, <1>4, AccountFacts, LetterRows
<1>6. mail' = [mail EXCEPT ![c] = m]
  BY <1>2, <1>3, <1>4, AccountFacts DEF Accounts!MarkUsed
<1>7. consumed \in [Accounts!Code -> Nat] /\ consumed' = [consumed EXCEPT ![c] = @ + 1]
  BY <1>2, AccountFacts DEF Accounts!MarkUsed
<1>8. /\ consumed' \in [Accounts!Code -> Nat] /\ consumed'[c] = consumed[c] + 1
      /\ consumed'[c] > 0
      /\ \A d \in Accounts!Code : d # c => consumed'[d] = consumed[d]
  BY <1>3, <1>7
<1>9. PICK x : x = [registering[r] EXCEPT !.pc = "registering"]
  OBVIOUS
<1>10. /\ x \in Accounts!RequestState /\ x.pc = "registering" /\ x.code = c
       /\ x.email = registering[r].email
  BY <1>1, <1>2, <1>9 DEF Accounts!RequestState
<1>11. registering' = [registering EXCEPT ![r] = x]
  BY <1>9, AccountFacts DEF Accounts!MarkUsed
<1>12. mail'[c] = m
  BY <1>3, <1>6, AccountFacts
<1>13. c \in {d \in Accounts!Code : mail'[d] # Accounts!NoMail}
  BY <1>3, <1>5, <1>12, SignInAssumption, LetterRows DEF SignInAssumption
<1>14. Opener(x, mail', consumed')
  BY <1>3, <1>5, <1>8, <1>10, <1>12, <1>13 DEF Opener
<1>15. Accounts!AccountsInv' /\ Accounts!Mailed' = Accounts!Mailed
  <2>1. registering' \in [Req -> Accounts!RequestState]
    BY <1>10, <1>11, AccountFacts
  <2>2. \A q \in Req : registering'[q] = registering[q] \/ Opener(registering'[q], mail', consumed')
    BY <1>11, <1>14, AccountFacts
  <2> QED
    BY <1>1, <1>3, <1>5, <1>6, <1>8, <2>1, <2>2, LetterMoves
<1> QED
  BY <1>2, <1>3, <1>5, <1>6, <1>8, <1>12, <1>15, AccountFacts

\* A set of numbers that has 0 and with each number the next has them all.
LEMMA SetInduction ==
  ASSUME NEW T, 0 \in T, \A n \in Nat : n \in T => n + 1 \in T
  PROVE  Nat \subseteq T
<1> SUFFICES ASSUME Nat \ T # {} PROVE FALSE
  OBVIOUS
<1>1. PICK R : R = {ss \in Nat \X Nat : ss[1] < ss[2]}
  OBVIOUS
<1>2. IsWellFoundedOn(R, Nat)
  BY <1>1, NatLessThanWellFounded, Zenon DEF OpToRel
<1>3. PICK S : S = Nat \ T
  OBVIOUS
<1>4. S \subseteq Nat /\ S # {}
  BY <1>3
<1>5. \E x \in S : \A y \in S : ~(<<y, x>> \in R)
  BY <1>2, <1>4, WFMin
<1>6. PICK x \in S : \A y \in S : ~(<<y, x>> \in R)
  BY <1>5
<1>7. \A y \in S : ~(y < x)
  BY <1>1, <1>4, <1>6
<1>8. x # 0 /\ x - 1 \in Nat /\ x - 1 \notin S
  BY <1>7, <1>4, <1>3
<1> QED
  BY <1>8, <1>3

\* A set of numbers has a least one.
LEMMA NatLeast ==
  ASSUME NEW S, S \subseteq Nat, S # {}
  PROVE  \E x \in S : \A y \in S : x <= y
<1>1. PICK T : T = {n \in Nat : \A i \in 0..n : i \notin S}
  OBVIOUS
<1>2. SUFFICES ASSUME \A x \in S : \E y \in S : y < x PROVE FALSE
  OBVIOUS
<1>3. 0 \in T
  BY <1>1, <1>2
<1>4. ASSUME NEW n \in Nat, n \in T PROVE n + 1 \in T
  BY <1>1, <1>2, <1>4
<1>5. Nat \subseteq T
  BY <1>3, <1>4, SetInduction
<1>6. ASSUME NEW n \in Nat PROVE n \notin S
  <2>1. n \in T /\ n \in 0..n
    BY <1>5
  <2> QED
    BY <1>1, <2>1
<1> QED
  BY <1>6

\* The suffixes are tried in order, after the name without one.
LEMMA NameFound ==
  ASSUME NEW e \in Email
  PROVE  /\ Accounts!FreeName(e) \in Accounts!Name
         /\ \A i \in 0..Suffixes : (~\E u \in users : u.name = <<BaseName[e], i>>) =>
              ~\E u \in users : u.name = Accounts!FreeName(e)
<1> DEFINE free == {i \in 0..Suffixes : ~\E u \in users : u.name = <<BaseName[e], i>>}
<1>1. Suffixes \in Nat /\ Suffixes \in 0..Suffixes
  BY SignInAssumption
<1>2. Accounts!FreeName(e) =
        <<BaseName[e], IF free = {} THEN Suffixes
                       ELSE CHOOSE i \in free : \A j \in free : i <= j>>
  BY DEF Accounts!FreeName
<1>3. \A i \in 0..Suffixes : <<BaseName[e], i>> \in Accounts!Name
  BY DEF Accounts!Name
<1>4. CASE free = {}
  BY <1>1, <1>2, <1>3, <1>4
<1>5. CASE free # {}
  <2>1. \E i \in free : \A j \in free : i <= j
    <3>1. free \subseteq Nat
      OBVIOUS
    <3> HIDE DEF free
    <3> QED
      BY <1>5, <3>1, NatLeast
  <2>2. PICK i : i = CHOOSE k \in free : \A j \in free : k <= j
    OBVIOUS
  <2> HIDE DEF free
  <2>3. i \in free
    BY <2>1, <2>2
  <2>4. Accounts!FreeName(e) = <<BaseName[e], i>>
    BY <1>2, <1>5, <2>2
  <2>5. i \in 0..Suffixes /\ ~\E u \in users : u.name = <<BaseName[e], i>>
    BY <2>3 DEF free
  <2> QED
    BY <1>3, <2>4, <2>5
<1> QED
  BY <1>4, <1>5

\* What a request does that chooses a name.
LEMMA NameChosen ==
  ASSUME Accounts!AccountsInv, NEW r \in Req, Accounts!Choose(r)
  PROVE  /\ Accounts!AccountsInv' /\ UNCHANGED <<mail, users, states, consumed, misled>>
         /\ \/ registering' = [registering EXCEPT ![r] = Accounts!Idle]
            \/ \E x \in Accounts!RequestState :
                 /\ registering' = [registering EXCEPT ![r] = x]
                 /\ x.pc \in {"creating", "joining"} /\ x.email \in Email
                 /\ ~Accounts!Taken(x.email) /\ x.name = Accounts!FreeName(x.email)
<1>1. /\ UNCHANGED <<mail, users, states, consumed, misled>>
      /\ registering[r].pc \in {"registering", "signing in"}
      /\ registering[r] \in Accounts!RequestState /\ registering[r].email \in Email
      /\ Opener(registering[r], mail, consumed)
  BY AccountFacts DEF Accounts!Choose, Opener
<1>2. CASE registering' = [registering EXCEPT ![r] = Accounts!Idle]
  BY <1>1, <1>2, AccountFacts, IdleOpener, OpenerRows, OpenerMoves
<1>3. CASE /\ ~Accounts!Taken(registering[r].email)
           /\ registering' = [registering EXCEPT
                ![r].name = Accounts!FreeName(registering[r].email),
                ![r].pc = IF @ = "registering" THEN "creating" ELSE "joining"]
  <2>1. PICK n : n = Accounts!FreeName(registering[r].email)
    OBVIOUS
  <2>2. n \in Accounts!Name
    BY <1>1, <2>1, NameFound
  <2>3. PICK p : p = IF registering[r].pc = "registering" THEN "creating" ELSE "joining"
    OBVIOUS
  <2>4. PICK x : x = [registering[r] EXCEPT !.name = n, !.pc = p]
    OBVIOUS
  <2>5. /\ x \in Accounts!RequestState /\ x.pc = p /\ x.name = n /\ x.code = registering[r].code
        /\ x.email = registering[r].email
    BY <1>1, <2>2, <2>3, <2>4 DEF Accounts!RequestState
  <2>6. registering' = [registering EXCEPT ![r] = x]
    BY <1>1, <1>3, <2>1, <2>3, <2>4, AccountFacts DEF Accounts!RequestState
  <2>7. p \in {"creating", "joining"} /\ (p = "creating" => registering[r].pc = "registering")
    BY <2>3
  <2>8. Opener(x, mail, consumed)
    BY <1>1, <2>2, <2>5, <2>7 DEF Opener
  <2>9. Accounts!AccountsInv'
    BY <1>1, <2>5, <2>6, <2>8, AccountFacts, OpenerMoves
  <2> QED
    BY <1>1, <1>3, <2>1, <2>5, <2>6, <2>7, <2>9
<1> QED
  BY <1>2, <1>3 DEF Accounts!Choose, Accounts!Ends

\* The insert, with the unique columns between it and every other one.
LEMMA AccountOpens ==
  ASSUME Accounts!AccountsInv, NEW r \in Req, Accounts!Create(r)
  PROVE  Accounts!AccountsInv'
<1>1. /\ UNCHANGED <<mail, states, consumed>>
      /\ registering[r].pc \in {"creating", "joining"}
      /\ registering' = [registering EXCEPT ![r] = Accounts!Idle]
      /\ registering[r] \in Accounts!RequestState /\ registering[r].email \in Email
      /\ Opener(registering[r], mail, consumed)
  BY AccountFacts DEF Accounts!Create, Accounts!Ends, Opener
<1>2. Accounts!Mailed' = Accounts!Mailed
  BY <1>1 DEF Accounts!Mailed, Accounts!Code, Accounts!NoMail
<1>3. misled' \in BOOLEAN
  BY AccountFacts DEF Accounts!Create
<1>4. users' \in SUBSET Accounts!Account /\ Accounts!AccountsProven'
  <2>1. CASE users' = users
    BY <1>1, <1>2, <2>1, AccountFacts DEF Accounts!AccountsInv, Accounts!AccountsProven
  <2>2. CASE /\ Accounts!Unique(registering[r].email, registering[r].name)
             /\ users' = users \cup {[email |-> registering[r].email,
                                      name |-> registering[r].name,
                                      github |-> ~(registering[r].pc = "creating")]}
    <3>1. registering[r].name \in Accounts!Name
      BY <1>1 DEF Opener
    <3>2. PICK u : u = [email |-> registering[r].email, name |-> registering[r].name,
                        github |-> ~(registering[r].pc = "creating")]
      OBVIOUS
    <3>3. u \in Accounts!Account /\ u.email = registering[r].email
            /\ (~u.github => registering[r].pc = "creating")
      BY <1>1, <3>1, <3>2 DEF Accounts!Account
    <3>4. \A y \in users : y.email # u.email
      BY <2>2, <3>3 DEF Accounts!Unique
    <3>5. u.github \/ \E c \in Accounts!Mailed : mail[c].email = u.email /\ consumed[c] > 0
      BY <1>1, <3>3 DEF Opener, Accounts!Mailed
    <3>6. users' = users \cup {u}
      BY <2>2, <3>2
    <3>7. Accounts!AccountsProven'
      BY <1>1, <1>2, <3>4, <3>5, <3>6 DEF Accounts!AccountsInv, Accounts!AccountsProven
    <3> QED
      BY <3>3, <3>6, <3>7, AccountFacts
  <2> QED
    BY <2>1, <2>2 DEF Accounts!Create
<1>5. \A q \in Req : registering'[q] = registering[q] \/ Opener(registering'[q], mail', consumed')
  BY <1>1, AccountFacts, IdleOpener
<1>6. registering' \in [Req -> Accounts!RequestState]
  BY <1>1, AccountFacts, OpenerRows
<1>7. \A c \in Accounts!Mailed' : mail'[c].email \in Email
  BY <1>1, <1>2 DEF Accounts!AccountsInv, Accounts!CodesShown
<1> QED
  BY <1>1, <1>2, <1>3, <1>4, <1>5, <1>6, <1>7, AccountFacts, AccountsStep

\* A call-back from GitHub changes no code, and at most its own request.
LEMMA GitHubCalls ==
  ASSUME Accounts!AccountsInv, NEW r \in Req, NEW w, NEW s, NEW e \in Email,
         Accounts!Callback(r, w, s, e)
  PROVE  /\ Accounts!AccountsInv' /\ UNCHANGED <<mail, users, consumed, misled>>
         /\ \/ registering' = registering
            \/ \E x \in Accounts!RequestState :
                 registering' = [registering EXCEPT ![r] = x] /\ x.pc = "signing in"
<1>1. UNCHANGED <<mail, users, consumed, misled>>
  BY DEF Accounts!Callback
<1>2. CASE registering' = registering
  BY <1>1, <1>2 DEF Accounts!AccountsInv, Accounts!TypeOK, Accounts!CodesShown,
     Accounts!AccountsProven, Accounts!Mailed, Accounts!Code, Accounts!NoMail, Accounts!IsIdle
<1>3. CASE registering' = [registering EXCEPT ![r] = [Accounts!Idle EXCEPT !.pc = "signing in",
                                                                        !.email = e]]
  <2>1. PICK x : x = [Accounts!Idle EXCEPT !.pc = "signing in", !.email = e]
    OBVIOUS
  <2>2. x \in Accounts!RequestState /\ x.pc = "signing in" /\ x.email = e
    BY <2>1, OpenerRows DEF Accounts!RequestState
  <2>3. Opener(x, mail, consumed)
    BY <2>2 DEF Opener
  <2> QED
    BY <1>1, <1>3, <2>1, <2>2, <2>3, AccountFacts, OpenerMoves
<1> QED
  BY <1>1, <1>2, <1>3 DEF Accounts!Callback

\* However requests overlap, no step breaks the invariant of the accounts.
LEMMA AccountsStay ==
  ASSUME Accounts!AccountsInv, Accounts!Next
  PROVE  Accounts!AccountsInv'
<1>1. ASSUME NEW w, NEW s, Accounts!SendToGitHub(w, s) \/ Accounts!ForgetState(w, s)
      PROVE  Accounts!AccountsInv'
  <2>1. UNCHANGED <<mail, users, registering, consumed, misled>>
    BY <1>1 DEF Accounts!SendToGitHub, Accounts!ForgetState
  <2> QED
    BY <2>1 DEF Accounts!AccountsInv, Accounts!TypeOK, Accounts!CodesShown,
       Accounts!AccountsProven, Accounts!Mailed, Accounts!Code, Accounts!NoMail, Accounts!IsIdle
<1>2. ASSUME NEW r \in Req, NEW e \in Email, Accounts!BeginSend(r, e) PROVE Accounts!AccountsInv'
  BY <1>2, SendBegins
<1>3. ASSUME NEW r \in Req, NEW e \in Email, NEW c \in Accounts!Code,
             Accounts!BeginRegister(r, e, c)
      PROVE  Accounts!AccountsInv'
  BY <1>3, RegisterBegins
<1>4. ASSUME NEW r \in Req, NEW w, NEW s, NEW e \in Email, Accounts!Callback(r, w, s, e)
      PROVE  Accounts!AccountsInv'
  BY <1>4, GitHubCalls
<1>5. ASSUME NEW r \in Req,
             \/ Accounts!CommitSend(r) \/ Accounts!MarkUsed(r)
             \/ Accounts!Choose(r) \/ Accounts!Create(r)
      PROVE  Accounts!AccountsInv'
  BY <1>5, CodeSent, CodeUsed, NameChosen, AccountOpens
<1>6. ASSUME NEW c \in Accounts!Code, Accounts!Expire(c) PROVE Accounts!AccountsInv'
  BY <1>6, CodeExpires
<1> QED
  BY <1>1, <1>2, <1>3, <1>4, <1>5, <1>6 DEF Accounts!Next

-----------------------------------------------------------------------------
(* Requests that come one at a time *)

LEMMA UsedOnce ==
  ASSUME Accounts!OneUnused', \A c \in Accounts!Code : consumed'[c] <= 1
  PROVE  Accounts!MailedOnce'
<1>1. Accounts!Code' = Accounts!Code
  BY DEF Accounts!Code
<1> QED
  BY <1>1 DEF Accounts!OneUnused, Accounts!MailedOnce

\* A step of the one request under way.
LEMMA SerialStep ==
  ASSUME Accounts!SerialInv, Accounts!AccountsInv', Accounts!Single', Accounts!OneUnused',
         \A c \in Accounts!Code : consumed'[c] <= 1, misled' = misled,
         NEW r \in Req, NEW x \in Accounts!RequestState,
         registering' = [registering EXCEPT ![r] = x],
         registering[r].pc # "idle" \/ x.pc # "idle",
         x.pc = "sending" => x.stale = Accounts!Stale(x.email)',
         x.pc = "verified" => ~mail'[x.code].used,
         x.pc = "creating" => Accounts!Unique(x.email, x.name)'
  PROVE  Accounts!SerialInv'
<1>1. registering'[r] = x /\ \A q \in Req : q # r => registering'[q] = registering[q]
  BY AccountFacts DEF Accounts!SerialInv
<1>2. \A q \in Req : q # r => registering'[q].pc = "idle"
  BY <1>1 DEF Accounts!SerialInv, Accounts!Single, Accounts!IsIdle
<1>3. Accounts!ReadHolds'
  BY <1>1, <1>2 DEF Accounts!ReadHolds
<1>4. Accounts!MailedOnce'
  BY UsedOnce
<1>5. Accounts!ConflictIsReal'
  BY DEF Accounts!SerialInv, Accounts!ConflictIsReal
<1> QED
  BY <1>3, <1>4, <1>5 DEF Accounts!SerialInv

\* ... and the one of requests that come one at a time.
LEMMA SerialSame ==
  ASSUME Accounts!SerialInv, UNCHANGED <<mail, consumed>>
  PROVE  /\ Accounts!OneUnused' /\ \A c \in Accounts!Code : consumed'[c] <= 1
         /\ Accounts!AccountsInv
BY DEF Accounts!SerialInv, Accounts!MailedOnce, Accounts!OneUnused, Accounts!Mailed, Accounts!Code,
   Accounts!NoMail

LEMMA SerialSendBegins ==
  ASSUME Accounts!SerialInv, Accounts!Single', NEW r \in Req, NEW e \in Email,
         Accounts!BeginSend(r, e)
  PROVE  Accounts!SerialInv'
<1>1. PICK x : x = [Accounts!Idle EXCEPT !.pc = "sending", !.email = e, !.stale = Accounts!Stale(e)]
  OBVIOUS
<1>2. Accounts!Stale(e) \in SUBSET Accounts!Code
  BY SerialSame, AccountFacts DEF Accounts!Stale, Accounts!SerialInv
<1>3. /\ x \in Accounts!RequestState /\ x.pc = "sending" /\ x.email = e
      /\ x.stale = Accounts!Stale(e)
  BY <1>1, <1>2, OpenerRows DEF Accounts!RequestState
<1>4. /\ UNCHANGED <<mail, users, states, consumed, misled>>
      /\ registering' = [registering EXCEPT ![r] = x]
  BY <1>1 DEF Accounts!BeginSend
<1>5. Accounts!Stale(e)' = Accounts!Stale(e)
  BY <1>4 DEF Accounts!Stale, Accounts!Mailed, Accounts!Code, Accounts!NoMail
<1>6. Accounts!AccountsInv'
  BY SendBegins DEF Accounts!SerialInv
<1>7. x.stale = Accounts!Stale(x.email)'
  BY <1>3, <1>5
<1> QED
  BY <1>3, <1>4, <1>6, <1>7, SerialSame, SerialStep

\* The new code is the only one of its address that is not used.
LEMMA SerialCodeSent ==
  ASSUME Accounts!SerialInv, Accounts!Single', NEW r \in Req, Accounts!CommitSend(r)
  PROVE  Accounts!SerialInv'
<1>1. Accounts!AccountsInv /\ Accounts!AccountsInv'
  BY CodeSent DEF Accounts!SerialInv
<1>2. PICK new \in Accounts!Code :
        /\ new \notin Accounts!Mailed /\ Accounts!Mailed' = Accounts!Mailed \cup {new}
        /\ mail'[new].email = registering[r].email /\ ~mail'[new].used
        /\ \A c \in Accounts!Mailed :
             /\ mail'[c].email = mail[c].email
             /\ c \in registering[r].stale => mail'[c].used
             /\ c \notin registering[r].stale => mail'[c] = mail[c]
  BY <1>1, MailGrows
<1>3. registering[r].stale = Accounts!Stale(registering[r].email)
  BY DEF Accounts!CommitSend, Accounts!SerialInv, Accounts!ReadHolds
<1>4. /\ UNCHANGED <<users, states, consumed, misled>> /\ registering[r].pc # "idle"
      /\ registering' = [registering EXCEPT ![r] = Accounts!Idle]
  BY DEF Accounts!CommitSend, Accounts!Ends
<1>5. /\ \A c \in Accounts!Code : (c \in Accounts!Mailed => ~mail[c].used) => consumed[c] = 0
      /\ \A c, d \in Accounts!Mailed :
           ~mail[c].used /\ ~mail[d].used /\ mail[c].email = mail[d].email => c = d
      /\ \A c \in Accounts!Code : consumed[c] <= 1
  BY DEF Accounts!SerialInv, Accounts!OneUnused, Accounts!MailedOnce
<1>6. \A c \in Accounts!Mailed :
        ~mail'[c].used => mail'[c] = mail[c] /\ mail[c].email # mail'[new].email
  BY <1>2, <1>3 DEF Accounts!Stale
<1>7. \A c \in Accounts!Code : (c \in Accounts!Mailed' => ~mail'[c].used) => consumed[c] = 0
  BY <1>2, <1>5, <1>6
<1>8. \A c, d \in Accounts!Mailed' :
         ~mail'[c].used /\ ~mail'[d].used /\ mail'[c].email = mail'[d].email => c = d
  BY <1>2, <1>5, <1>6
<1>9. Accounts!OneUnused'
  BY <1>4, <1>7, <1>8 DEF Accounts!OneUnused, Accounts!Code
<1> QED
  BY <1>1, <1>4, <1>5, <1>9, OpenerRows, SerialStep

LEMMA SerialExpires ==
  ASSUME Accounts!SerialInv, Accounts!Single', NEW c \in Accounts!Code, Accounts!Expire(c)
  PROVE  Accounts!SerialInv'
<1>1. /\ Accounts!AccountsInv' /\ Accounts!Mailed' = Accounts!Mailed
      /\ \A d \in Accounts!Code : mail'[d].email = mail[d].email /\ mail'[d].used = mail[d].used
      /\ Accounts!Mailed \subseteq Accounts!Code
  BY CodeExpires, AccountFacts DEF Accounts!SerialInv
<1>2. UNCHANGED <<users, states, registering, consumed, misled>> /\ Accounts!Code' = Accounts!Code
  BY DEF Accounts!Expire, Accounts!Code
<1>3. Accounts!OneUnused'
  BY <1>1, <1>2 DEF Accounts!SerialInv, Accounts!OneUnused
<1>4. \A e : Accounts!Stale(e)' = Accounts!Stale(e)
  BY <1>1, <1>2 DEF Accounts!Stale
<1>5. \A r \in Req : registering[r].pc = "verified" => registering[r].code \in Accounts!Code
  BY AccountFacts DEF Accounts!SerialInv, Opener
<1>6. Accounts!ReadHolds'
  BY <1>1, <1>2, <1>4, <1>5 DEF Accounts!SerialInv, Accounts!ReadHolds, Accounts!Unique
<1>7. Accounts!MailedOnce'
  BY <1>2, <1>3, UsedOnce DEF Accounts!SerialInv, Accounts!MailedOnce
<1> QED
  BY <1>1, <1>2, <1>3, <1>6, <1>7 DEF Accounts!SerialInv, Accounts!ConflictIsReal

LEMMA SerialRegisterBegins ==
  ASSUME Accounts!SerialInv, Accounts!Single', NEW r \in Req, NEW e \in Email,
         NEW c \in Accounts!Code, Accounts!BeginRegister(r, e, c)
  PROVE  Accounts!SerialInv'
<1>1. PICK x : x = [Accounts!Idle EXCEPT !.pc = "verified", !.email = e, !.code = c]
  OBVIOUS
<1>2. x \in Accounts!RequestState /\ x.pc = "verified" /\ x.code = c
  <2>1. c \in 0..MaxCode
    BY DEF Accounts!Code
  <2> QED
    BY <1>1, <2>1, OpenerRows DEF Accounts!RequestState
<1>3. ~mail[c].used
  BY DEF Accounts!BeginRegister, Accounts!IsLatest, Accounts!Usable
<1>4. /\ UNCHANGED <<mail, users, states, consumed, misled>>
      /\ registering' = [registering EXCEPT ![r] = x]
  BY <1>1 DEF Accounts!BeginRegister
<1>5. Accounts!AccountsInv'
  BY RegisterBegins DEF Accounts!SerialInv
<1> QED
  BY <1>2, <1>3, <1>4, <1>5, SerialSame, SerialStep

\* The code was not used when it was read, and is not until it is marked.
LEMMA SerialCodeUsed ==
  ASSUME Accounts!SerialInv, Accounts!Single', NEW r \in Req, Accounts!MarkUsed(r)
  PROVE  Accounts!SerialInv'
<1>1. PICK c : c = registering[r].code
  OBVIOUS
<1>2. /\ Accounts!AccountsInv /\ Accounts!AccountsInv' /\ Accounts!Mailed' = Accounts!Mailed
      /\ c \in Accounts!Mailed /\ mail'[c].used
      /\ \A d \in Accounts!Code : d # c => mail'[d] = mail[d] /\ consumed'[d] = consumed[d]
      /\ consumed'[c] = consumed[c] + 1 /\ Accounts!Mailed \subseteq Accounts!Code
  BY <1>1, CodeUsed, AccountFacts DEF Accounts!SerialInv
<1>3. ~mail[c].used
  BY <1>1 DEF Accounts!SerialInv, Accounts!ReadHolds, Accounts!MarkUsed
<1>4. consumed[c] = 0
  BY <1>2, <1>3 DEF Accounts!SerialInv, Accounts!OneUnused
<1>5. \A d \in Accounts!Code : consumed'[d] <= 1
  BY <1>2, <1>4 DEF Accounts!SerialInv, Accounts!MailedOnce
<1>6. Accounts!Code' = Accounts!Code
  BY DEF Accounts!Code
<1>7. \A d \in Accounts!Code : (d \in Accounts!Mailed => ~mail'[d].used) => consumed'[d] = 0
  BY <1>2 DEF Accounts!SerialInv, Accounts!OneUnused
<1>8. \A d, g \in Accounts!Mailed :
        ~mail'[d].used /\ ~mail'[g].used /\ mail'[d].email = mail'[g].email => d = g
  BY <1>2 DEF Accounts!SerialInv, Accounts!OneUnused
<1>9. Accounts!OneUnused'
  BY <1>2, <1>6, <1>7, <1>8 DEF Accounts!OneUnused
<1>10. PICK x : x = [registering[r] EXCEPT !.pc = "registering"]
  OBVIOUS
<1>11. x \in Accounts!RequestState /\ x.pc = "registering"
  <2>1. registering[r] \in Accounts!RequestState
    BY <1>2, AccountFacts
  <2> QED
    BY <1>10, <2>1 DEF Accounts!RequestState
<1>12. registering' = [registering EXCEPT ![r] = x] /\ misled' = misled
  BY <1>2, <1>10, AccountFacts DEF Accounts!MarkUsed
<1> QED
  BY <1>2, <1>5, <1>9, <1>11, <1>12, SerialStep

\* An address that is not taken leaves a free name: there are no more names than
\* addresses.
LEMMA NameFree ==
  ASSUME Accounts!AccountsInv, NEW e \in Email, ~Accounts!Taken(e)
  PROVE  Accounts!Unique(e, Accounts!FreeName(e))
<1>1. SUFFICES ASSUME \A i \in 0..Suffixes : \E u \in users : u.name = <<BaseName[e], i>>
               PROVE  FALSE
  BY NameFound DEF Accounts!Unique, Accounts!Taken
<1>2. \A u \in users : u.email \in Email /\ u.email # e
  BY AccountFacts DEF Accounts!Taken, Accounts!Account
<1>3. \A u, v \in users : u.email = v.email => u = v
  BY DEF Accounts!AccountsInv, Accounts!AccountsProven
<1>4. PICK T : T = Email \ {e}
  OBVIOUS
<1>5. \A i \in 0..Suffixes : \E f \in T : \E u \in users : u.name = <<BaseName[e], i>> /\ u.email = f
  BY <1>1, <1>2, <1>4
<1>6. PICK F \in [0..Suffixes -> T] :
        \A i \in 0..Suffixes : \E u \in users : u.name = <<BaseName[e], i>> /\ u.email = F[i]
  <2> DEFINE g == [i \in 0..Suffixes |->
                     CHOOSE f \in T : \E u \in users : u.name = <<BaseName[e], i>> /\ u.email = f]
  <2>1. \A i \in 0..Suffixes :
          g[i] \in T /\ \E u \in users : u.name = <<BaseName[e], i>> /\ u.email = g[i]
    BY <1>5
  <2>2. g \in [0..Suffixes -> T]
    BY <2>1
  <2> QED
    BY <2>1, <2>2
<1>7. F \in Injection(0..Suffixes, T)
  <2> SUFFICES ASSUME NEW i \in 0..Suffixes, NEW j \in 0..Suffixes, F[i] = F[j] PROVE i = j
    BY <1>6 DEF Injection, IsInjective
  <2>1. PICK u \in users : u.name = <<BaseName[e], i>> /\ u.email = F[i]
    BY <1>6
  <2>2. PICK v \in users : v.name = <<BaseName[e], j>> /\ v.email = F[j]
    BY <1>6
  <2>3. u = v
    BY <1>3, <2>1, <2>2
  <2> QED
    BY <2>1, <2>2, <2>3
<1>8. /\ IsFiniteSet(Email) /\ Cardinality(Email) <= Suffixes + 1
      /\ Suffixes \in Nat /\ Cardinality(Email) \in Nat
  BY SignInAssumption, FS_CardinalityType
<1>9. IsFiniteSet(T) /\ Cardinality(T) = Cardinality(Email) - 1
  BY <1>4, <1>8, FS_RemoveElement
<1>10. Cardinality(0..Suffixes) <= Cardinality(T)
  BY <1>7, <1>9, FS_Injection
<1>11. Cardinality(0..Suffixes) = Suffixes + 1
  BY <1>8, FS_Interval
<1> QED
  BY <1>8, <1>9, <1>10, <1>11

LEMMA SerialNameChosen ==
  ASSUME Accounts!SerialInv, Accounts!Single', NEW r \in Req, Accounts!Choose(r)
  PROVE  Accounts!SerialInv'
<1>1. /\ Accounts!AccountsInv /\ Accounts!AccountsInv'
      /\ UNCHANGED <<mail, users, states, consumed, misled>>
      /\ registering[r].pc # "idle"
  BY NameChosen DEF Accounts!SerialInv, Accounts!Choose
<1>2. CASE registering' = [registering EXCEPT ![r] = Accounts!Idle]
  BY <1>1, <1>2, OpenerRows, SerialSame, SerialStep
<1>3. CASE \E x \in Accounts!RequestState :
             /\ registering' = [registering EXCEPT ![r] = x]
             /\ x.pc \in {"creating", "joining"} /\ x.email \in Email
             /\ ~Accounts!Taken(x.email) /\ x.name = Accounts!FreeName(x.email)
  <2>1. PICK x \in Accounts!RequestState :
          /\ registering' = [registering EXCEPT ![r] = x]
          /\ x.pc \in {"creating", "joining"} /\ x.email \in Email
          /\ ~Accounts!Taken(x.email) /\ x.name = Accounts!FreeName(x.email)
    BY <1>3
  <2>2. Accounts!Unique(x.email, x.name)
    BY <1>1, <2>1, NameFree
  <2>3. Accounts!Unique(x.email, x.name)'
    BY <1>1, <2>2 DEF Accounts!Unique
  <2> QED
    BY <1>1, <2>1, <2>3, SerialSame, SerialStep
<1> QED
  BY <1>1, <1>2, <1>3, NameChosen

LEMMA SerialAccountOpens ==
  ASSUME Accounts!SerialInv, Accounts!Single', NEW r \in Req, Accounts!Create(r)
  PROVE  Accounts!SerialInv'
<1>1. Accounts!AccountsInv'
  BY AccountOpens DEF Accounts!SerialInv
<1>2. /\ UNCHANGED <<mail, states, consumed>> /\ registering[r].pc # "idle"
      /\ registering' = [registering EXCEPT ![r] = Accounts!Idle]
  BY DEF Accounts!Create, Accounts!Ends
<1>3. registering[r].pc = "creating" =>
        Accounts!Unique(registering[r].email, registering[r].name)
  BY DEF Accounts!SerialInv, Accounts!ReadHolds
<1>4. misled' = misled
  BY <1>3, AccountFacts DEF Accounts!Create, Accounts!SerialInv
<1> QED
  BY <1>1, <1>2, <1>4, OpenerRows, SerialSame, SerialStep

LEMMA SerialGitHub ==
  ASSUME Accounts!SerialInv, Accounts!Single',
         NEW w, NEW s,
         \/ Accounts!SendToGitHub(w, s) \/ Accounts!ForgetState(w, s)
         \/ \E r \in Req, e \in Email : Accounts!Callback(r, w, s, e)
  PROVE  Accounts!SerialInv'
<1>1. CASE UNCHANGED <<mail, users, registering, consumed, misled>>
  BY <1>1 DEF Accounts!SerialInv, Accounts!AccountsInv, Accounts!TypeOK, Accounts!CodesShown,
     Accounts!AccountsProven, Accounts!Mailed, Accounts!Code, Accounts!NoMail, Accounts!IsIdle,
     Accounts!OneUnused, Accounts!ReadHolds, Accounts!MailedOnce, Accounts!ConflictIsReal,
     Accounts!Stale, Accounts!Unique
<1>2. ASSUME NEW r \in Req, NEW e \in Email, Accounts!Callback(r, w, s, e)
      PROVE  Accounts!SerialInv'
  <2>1. /\ Accounts!AccountsInv' /\ UNCHANGED <<mail, users, consumed, misled>>
        /\ \/ registering' = registering
           \/ \E x \in Accounts!RequestState :
                registering' = [registering EXCEPT ![r] = x] /\ x.pc = "signing in"
    BY <1>2, GitHubCalls DEF Accounts!SerialInv
  <2> QED
    BY <1>1, <2>1, SerialSame, SerialStep
<1>3. Accounts!SendToGitHub(w, s) \/ Accounts!ForgetState(w, s) =>
        UNCHANGED <<mail, users, registering, consumed, misled>>
  BY DEF Accounts!SendToGitHub, Accounts!ForgetState
<1> QED
  BY <1>1, <1>2, <1>3

\* As long as requests come one at a time, no step breaks their invariant.
LEMMA SerialAccountsStay ==
  ASSUME Accounts!SerialInv, Accounts!Next, Accounts!Single'
  PROVE  Accounts!SerialInv'
<1>1. ASSUME NEW w, NEW s,
             \/ Accounts!SendToGitHub(w, s) \/ Accounts!ForgetState(w, s)
             \/ \E r \in Req, e \in Email : Accounts!Callback(r, w, s, e)
      PROVE  Accounts!SerialInv'
  BY <1>1, SerialGitHub
<1>2. ASSUME NEW r \in Req, NEW e \in Email, Accounts!BeginSend(r, e) PROVE Accounts!SerialInv'
  BY <1>2, SerialSendBegins
<1>3. ASSUME NEW r \in Req, NEW e \in Email, NEW c \in Accounts!Code,
             Accounts!BeginRegister(r, e, c)
      PROVE  Accounts!SerialInv'
  BY <1>3, SerialRegisterBegins
<1>4. ASSUME NEW r \in Req,
             \/ Accounts!CommitSend(r) \/ Accounts!MarkUsed(r)
             \/ Accounts!Choose(r) \/ Accounts!Create(r)
      PROVE  Accounts!SerialInv'
  BY <1>4, SerialCodeSent, SerialCodeUsed, SerialNameChosen, SerialAccountOpens
<1>5. ASSUME NEW c \in Accounts!Code, Accounts!Expire(c) PROVE Accounts!SerialInv'
  BY <1>5, SerialExpires
<1> QED
  BY <1>1, <1>2, <1>3, <1>4, <1>5 DEF Accounts!Next

\* No code has been mailed in the beginning.
LEMMA AccountsBegin == Accounts!Init => Accounts!SerialInv
<1> SUFFICES ASSUME Accounts!Init PROVE Accounts!SerialInv
  OBVIOUS
<1>1. Accounts!Mailed = {}
  BY DEF Accounts!Init, Accounts!Mailed
<1>2. Accounts!TypeOK
  BY LetterRows, OpenerRows DEF Accounts!Init, Accounts!TypeOK
<1>3. \E k \in 0..MaxCode : Accounts!Mailed = 1..k
  <2>1. 0 \in 0..MaxCode /\ 1..0 = {}
    BY SignInAssumption DEF SignInAssumption
  <2> QED
    BY <1>1, <2>1
<1>4. \A r \in Req : registering[r] = Accounts!Idle /\ registering[r].pc = "idle"
  BY OpenerRows DEF Accounts!Init
<1>5. Accounts!CodesShown
  BY <1>1, <1>3, <1>4 DEF Accounts!CodesShown, Accounts!IsIdle
<1>6. Accounts!AccountsProven /\ Accounts!ConflictIsReal
  BY DEF Accounts!Init, Accounts!AccountsProven, Accounts!ConflictIsReal
<1>7. Accounts!Single /\ Accounts!ReadHolds
  BY <1>4 DEF Accounts!Single, Accounts!IsIdle, Accounts!ReadHolds
<1>8. Accounts!OneUnused /\ Accounts!MailedOnce
  BY <1>1 DEF Accounts!Init, Accounts!OneUnused, Accounts!MailedOnce
<1> QED
  BY <1>2, <1>5, <1>6, <1>7, <1>8 DEF Accounts!SerialInv, Accounts!AccountsInv

-----------------------------------------------------------------------------
(* Signing in as a whole *)

LEMMA SignInBegins == SignInInit => SignInInv
BY FactorBegins, AccountsBegin DEF SignInInit, SignInInv, Accounts!SerialInv

\* What is left alone stays as it was.
LEMMA FactorUnchanged == SecondFactor!SerialInv /\ UNCHANGED FactorVars => SecondFactor!SerialInv'
BY DEF FactorVars, SecondFactor!SerialInv, SecondFactor!TypeOK, SecondFactor!Single,
   SecondFactor!IsIdle, SecondFactor!CodesKept, SecondFactor!RowKnown, SecondFactor!TicketsNoted,
   SecondFactor!CodesOnce, SecondFactor!EnabledIsProven, SecondFactor!TicketsOnce

LEMMA AccountsUnchanged ==
  ASSUME UNCHANGED AccountVars
  PROVE  /\ Accounts!AccountsInv => Accounts!AccountsInv'
         /\ Accounts!SerialInv => Accounts!SerialInv'
<1>1. Accounts!AccountsInv => Accounts!AccountsInv'
  BY DEF AccountVars, Accounts!AccountsInv, Accounts!TypeOK, Accounts!CodesShown,
     Accounts!AccountsProven, Accounts!Mailed, Accounts!Code, Accounts!NoMail, Accounts!IsIdle
<1>2. Accounts!SerialInv => Accounts!Single' /\ Accounts!OneUnused' /\ Accounts!ReadHolds'
  BY DEF AccountVars, Accounts!SerialInv, Accounts!Single, Accounts!OneUnused, Accounts!ReadHolds,
     Accounts!Mailed, Accounts!Code, Accounts!NoMail, Accounts!IsIdle, Accounts!Stale,
     Accounts!Unique
<1>3. Accounts!SerialInv => Accounts!MailedOnce' /\ Accounts!ConflictIsReal'
  BY DEF AccountVars, Accounts!SerialInv, Accounts!MailedOnce, Accounts!ConflictIsReal,
     Accounts!Mailed, Accounts!Code, Accounts!NoMail
<1> QED
  BY <1>1, <1>2, <1>3 DEF Accounts!SerialInv

\* Each part keeps its invariant and leaves the other parts alone.
LEMMA SignInStays ==
  SignInInv /\ [SignInNext]_<<part, SessionVars, FactorVars, AccountVars>> => SignInInv'
<1> SUFFICES ASSUME SignInInv, [SignInNext]_<<part, SessionVars, FactorVars, AccountVars>>
             PROVE  SignInInv'
  OBVIOUS
<1>1. CASE UNCHANGED <<part, SessionVars, FactorVars, AccountVars>>
  BY <1>1, FactorUnchanged, AccountsUnchanged DEF SignInInv
<1>2. CASE part' = part /\ part = "sessions" /\ UNCHANGED <<FactorVars, AccountVars>>
  BY <1>2, FactorUnchanged, AccountsUnchanged DEF SignInInv
<1>3. CASE /\ part' = part /\ part = "serial codes" /\ OneAtATime
           /\ SecondFactor!Next /\ UNCHANGED AccountVars
  <2>1. SecondFactor!Single'
    BY <1>3 DEF OneAtATime, SecondFactor!Single, SecondFactor!IsIdle
  <2> QED
    BY <1>3, <2>1, FactorStays, AccountsUnchanged DEF SignInInv
<1>4. CASE /\ part' = part /\ part = "serial accounts" /\ OneAtATime /\ Accounts!Next
  <2>1. Accounts!Single'
    BY <1>4 DEF OneAtATime, Accounts!Single, Accounts!IsIdle
  <2>2. Accounts!SerialInv'
    BY <1>4, <2>1, SerialAccountsStay DEF SignInInv
  <2> QED
    BY <1>4, <2>2 DEF SignInInv, Accounts!SerialInv
<1>5. CASE part' = part /\ part = "accounts" /\ Accounts!Next
  BY <1>5, AccountsStay DEF SignInInv
<1> QED
  BY <1>1, <1>2, <1>3, <1>4, <1>5 DEF SignInNext

\* What may be used once is used once as long as requests come one at a time:
\* recovery codes, pre-auth tokens and mailed codes.  The second factor asks for a
\* secret that reached the phone, register calls an address taken only if it has an
\* account, and, however requests overlap, an address opens one account, by GitHub
\* or by a code that was mailed to it.
THEOREM SpecSignInSound == SignInSpec => []SignInSound
<1>1. SignInInv => SignInSound
  BY DEF SignInInv, SignInSound, SecondFactor!SerialInv, Accounts!SerialInv, Accounts!AccountsInv
<1> QED
  BY <1>1, SignInBegins, SignInStays, PTL DEF SignInSpec
=============================================================================

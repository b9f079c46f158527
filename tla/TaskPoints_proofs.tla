-------------------------- MODULE TaskPoints_proofs --------------------------
(***************************************************************************)
(* Theorems about TaskPoints: approval and payment are one, and no stored   *)
(* balance is negative, however requests overlap; and while nothing has     *)
(* overlapped the books are in order.                                       *)
(***************************************************************************)
EXTENDS MCTaskPoints, FiniteSetTheorems, TLAPS

\* A request that ended.
LEMMA IdleTyped == IdleTxn \in TxnRec /\ IdleTxn.pc = "idle"
<1>1. (CHOOSE n \in Limits : TRUE) \in Limits
  BY AmountAssumption
<1> QED
  BY <1>1, AmountAssumption DEF IdleTxn, TxnRec

\* The balance that add_points and deduct_points start from is a stored one.
LEMMA LastBalanceNat ==
  ASSUME IInv, NEW m \in Member
  PROVE  LastBalance(m) \in Nat
<1>1. CASE ledger[m] = {}
  BY <1>1 DEF LastBalance
<1>2. CASE ledger[m] # {}
  <2> DEFINE last == CHOOSE e \in ledger[m] : \A d \in ledger[m] : d.at <= e.at
  <2>1. last \in ledger[m]
    BY <1>2 DEF IInv, LastEntryExists
  <2>2. last.after \in Int /\ last.after >= 0
    BY <2>1 DEF IInv, TypeOK, NeverOverdrawn, Entry
  <2> QED
    BY <1>2, <2>2 DEF LastBalance
<1> QED
  BY <1>1, <1>2

\* The invariant holds when nobody has claimed.
LEMMA InitIInv == Init => IInv
<1> SUFFICES ASSUME Init PROVE IInv
  OBVIOUS
<1> USE DEF Init
<1>1. TypeOK
  BY NoneAssumption, AmountAssumption, IdleTyped DEF TypeOK, Task, Claim, ClaimStatus
<1>2. ApprovedIsPaid /\ NeverOverdrawn /\ LastEntryExists
  BY DEF ApprovedIsPaid, NeverOverdrawn, LastEntryExists
<1>3. \A r \in Req : TxnKnows(txn[r])
  BY IdleTyped DEF TxnKnows
<1> QED
  BY <1>1, <1>2, <1>3 DEF IInv

-----------------------------------------------------------------------------
(* The step of one request. *)

\* A request moves on and writes no row.
LEMMA MoveInv ==
  ASSUME IInv, NEW r \in Req, NEW s \in TxnRec, TxnKnows(s),
         txn' = [txn EXCEPT ![r] = s],
         task' = task, claim' = claim, ledger' = ledger, stamp' \in 0..MaxTx,
         lock' \in [Member -> Req \cup {None}],
         \A m \in Member : lock'[m] = r <=> s.pc \in {"balance", "pay", "paid"} /\ s.who = m,
         \A m \in Member, q \in Req \ {r} : lock'[m] = q <=> lock[m] = q
  PROVE  IInv'
<1>1. TypeOK'
  BY DEF IInv, TypeOK
<1>2. ApprovedIsPaid' /\ NeverOverdrawn' /\ LastEntryExists'
  BY DEF IInv, ApprovedIsPaid, NeverOverdrawn, LastEntryExists
<1>3. \A q \in Req : TxnKnows(txn[q])'
  BY DEF IInv, TypeOK, TxnKnows, Exists
<1> QED
  BY <1>1, <1>2, <1>3 DEF IInv

\* Each action keeps the invariant.
LEMMA RollbackInv ==
  ASSUME IInv, NEW r \in Req, Rollback(r)
  PROVE  IInv'
<1>1. TxnKnows(IdleTxn)
  BY IdleTyped DEF TxnKnows
<1>2. lock' \in [Member -> Req \cup {None}] /\ stamp' \in 0..MaxTx
  BY DEF Rollback, Released, IInv, TypeOK
<1>3. \A m \in Member, q \in Req : lock'[m] = q <=> lock[m] = q /\ q # r
  BY NoneAssumption DEF Rollback, Released, IInv, TypeOK
<1> QED
  BY ZenonT(40), <1>1, <1>2, <1>3, IdleTyped, MoveInv DEF Rollback, Finish

\* A request that holds no lock rewrites or ends and leaves the tables alone.
LEMMA UnlockedMoveInv ==
  ASSUME IInv, NEW r \in Req, NEW s \in TxnRec, TxnKnows(s),
         txn' = [txn EXCEPT ![r] = s],
         txn[r].pc \notin {"balance", "pay", "paid"}, s.pc \notin {"balance", "pay", "paid"},
         UNCHANGED <<task, claim, ledger, stamp, lock>>
  PROVE  IInv'
<1>1. stamp' \in 0..MaxTx /\ lock' \in [Member -> Req \cup {None}]
  BY DEF IInv, TypeOK
<1>2. \A m \in Member : lock'[m] = r <=> s.pc \in {"balance", "pay", "paid"} /\ s.who = m
  BY DEF IInv, TypeOK
<1> QED
  BY <1>1, <1>2, MoveInv

\* A request writes the row of a member's claim, which nobody has locked, and
\* ends; the row is not an approved one then.
LEMMA ClaimWriteInv ==
  ASSUME IInv, NEW r \in Req, NEW m \in Member, NEW c \in Claim,
         lock[m] = None, c.status # "approved",
         txn[r].pc \notin {"balance", "pay", "paid"},
         claim' = [claim EXCEPT ![m] = c] \/ claim' = claim,
         Finish(r), UNCHANGED <<task, ledger, stamp, lock>>
  PROVE  IInv'
<1>1. txn' = [txn EXCEPT ![r] = IdleTxn]
  BY DEF Finish
<1>2. TypeOK'
  BY <1>1, IdleTyped DEF IInv, TypeOK
<1>3. ApprovedIsPaid'
  BY DEF IInv, TypeOK, ApprovedIsPaid
<1>4. NeverOverdrawn' /\ LastEntryExists'
  BY DEF IInv, NeverOverdrawn, LastEntryExists
<1>5. ASSUME NEW q \in Req PROVE TxnKnows(txn[q])'
  <2>1. CASE q = r
    BY <1>1, <2>1, IdleTyped DEF IInv, TypeOK, TxnKnows
  <2>2. CASE q # r
    <3>1. txn'[q] = txn[q] /\ TxnKnows(txn[q])
      BY <1>1, <2>2 DEF IInv, TypeOK
    <3>2. txn[q].pc \in {"balance", "pay", "paid"} => claim'[txn[q].who] = claim[txn[q].who]
      BY <3>1, NoneAssumption DEF IInv, TypeOK, TxnKnows
    <3> QED
      BY <3>1, <3>2 DEF TxnKnows, Exists
  <2> QED
    BY <2>1, <2>2
<1> QED
  BY <1>2, <1>3, <1>4, <1>5 DEF IInv

\* A request publishes an entry of its ledger and ends.
LEMMA EntryInv ==
  ASSUME IInv, NEW r \in Req, NEW m \in Member, NEW e \in Entry, e.after >= 0,
         ledger' = [ledger EXCEPT ![m] = @ \cup {e}],
         Finish(r), lock' = Released(r), UNCHANGED <<task, stamp>>,
         \/ claim' = claim
         \/ /\ claim' = [claim EXCEPT ![m].status = "approved"]
            /\ claim[m].id = e.claim /\ lock[m] = r
  PROVE  IInv'
<1>1. txn' = [txn EXCEPT ![r] = IdleTxn]
  BY DEF Finish
<1>2. claim' \in [Member -> Claim] /\ \A x \in Member : claim'[x].id = claim[x].id
  BY DEF IInv, TypeOK, Claim, ClaimStatus
<1>3. \A x \in Member : ledger[x] \subseteq ledger'[x] /\ ledger'[x] \subseteq ledger[x] \cup {e}
        /\ e \in ledger'[m]
  BY DEF IInv, TypeOK
<1>4. TypeOK'
  <2>1. ledger' \in [Member -> SUBSET Entry]
    BY DEF IInv, TypeOK
  <2>2. lock' \in [Member -> Req \cup {None}] /\ txn' \in [Req -> TxnRec]
    BY <1>1, IdleTyped DEF Released, IInv, TypeOK
  <2>3. \A x \in Member, q \in Req :
          lock'[x] = q <=> txn'[q].pc \in {"balance", "pay", "paid"} /\ txn'[q].who = x
    BY <1>1, NoneAssumption, IdleTyped DEF Released, IInv, TypeOK
  <2> QED
    BY <1>2, <2>1, <2>2, <2>3 DEF IInv, TypeOK
<1>5. ApprovedIsPaid'
  <2> SUFFICES ASSUME NEW x \in Member, claim'[x].status = "approved"
               PROVE  \E d \in ledger'[x] : d.claim = claim'[x].id
    BY DEF ApprovedIsPaid
  <2>1. CASE claim' = claim \/ x # m
    <3>1. claim[x].status = "approved"
      BY <2>1 DEF IInv, TypeOK
    <3>2. PICK d \in ledger[x] : d.claim = claim[x].id
      BY <3>1 DEF IInv, ApprovedIsPaid
    <3> QED
      BY <1>2, <1>3, <3>2
  <2>2. CASE x = m /\ claim' # claim
    BY <1>2, <1>3, <2>2
  <2> QED
    BY <2>1, <2>2
<1>6. NeverOverdrawn'
  BY <1>3 DEF IInv, NeverOverdrawn
<1>7. LastEntryExists'
  <2> SUFFICES ASSUME NEW x \in Member, ledger'[x] # {}
               PROVE  \E l \in ledger'[x] : \A d \in ledger'[x] : d.at <= l.at
    BY DEF LastEntryExists
  <2>1. \A d \in ledger[x] \cup {e} : d.at \in Int
    BY DEF IInv, TypeOK, Entry
  <2>2. CASE ledger[x] = {}
    BY <1>3, <2>1, <2>2
  <2>3. CASE ledger[x] # {}
    <3>1. PICK l \in ledger[x] : \A d \in ledger[x] : d.at <= l.at
      BY <2>3 DEF IInv, LastEntryExists
    <3>2. CASE e \in ledger'[x] /\ l.at <= e.at
      <4>1. \A d \in ledger'[x] : d.at <= e.at
        BY <1>3, <2>1, <3>1, <3>2
      <4> QED
        BY <3>2, <4>1
    <3>3. CASE ~(e \in ledger'[x] /\ l.at <= e.at)
      BY <1>3, <2>1, <3>1, <3>3
    <3> QED
      BY <3>2, <3>3
  <2> QED
    BY <2>2, <2>3
<1>8. ASSUME NEW q \in Req PROVE TxnKnows(txn[q])'
  <2>1. CASE q = r
    BY <1>1, <2>1, IdleTyped DEF IInv, TypeOK, TxnKnows
  <2>2. CASE q # r
    <3>1. txn'[q] = txn[q] /\ TxnKnows(txn[q])
      BY <1>1, <2>2 DEF IInv, TypeOK
    <3>2. txn[q].pc \in {"balance", "pay", "paid"} /\ claim' # claim => txn[q].who # m
      BY <2>2, <3>1 DEF IInv, TypeOK, TxnKnows
    <3>3. txn[q].pc \in {"balance", "pay", "paid"}
            => claim'[txn[q].who].status = claim[txn[q].who].status
      BY <3>1, <3>2 DEF IInv, TypeOK, TxnKnows
    <3> QED
      BY <1>2, <3>1, <3>3 DEF TxnKnows, Exists
  <2> QED
    BY <2>1, <2>2
<1> QED
  BY <1>4, <1>5, <1>6, <1>7, <1>8 DEF IInv

-----------------------------------------------------------------------------
(* The actions. *)

LEMMA TxnFacts ==
  ASSUME IInv, NEW r \in Req
  PROVE  /\ txn[r] \in TxnRec /\ TxnKnows(txn[r])
         /\ \A m \in Member : claim[m] \in Claim
BY DEF IInv, TypeOK

\* A request is accepted, or goes on after it read.
LEMMA ReadStepInv ==
  ASSUME IInv, NEW r \in Req, NEW m \in Member,
         \/ ClaimBegin(r, m) \/ ReadClaim(r, m) \/ ReviewBegin(r, m) \/ SpendBegin(r, m)
         \/ ClaimExists(r) \/ ClaimCount(r)
  PROVE  IInv'
<1> USE DEF Idle, TxnRec, TxnKnows
<1>1. CASE ClaimBegin(r, m)
  <2> DEFINE s == [txn[r] EXCEPT !.pc = "exists", !.who = m, !.max = task.max]
  <2>0. task.max \in Limits
    BY DEF IInv, TypeOK, Task
  <2>1. s \in TxnRec /\ TxnKnows(s) /\ s.pc = "exists"
    BY <2>0, TxnFacts
  <2>2. txn' = [txn EXCEPT ![r] = s]
    BY ZenonT(40), <1>1 DEF ClaimBegin, IInv, TypeOK
  <2> HIDE DEF s
  <2> QED
    BY <1>1, <2>1, <2>2, UnlockedMoveInv DEF ClaimBegin
<1>2. CASE ReadClaim(r, m) \/ ReviewBegin(r, m)
  <2>1. PICK pc \in {"delete", "submit", "reject", "approve"} : Begin(r, pc, m)
    BY <1>2 DEF ReadClaim, ReviewBegin
  <2> DEFINE s == [txn[r] EXCEPT !.pc = pc, !.who = m, !.id = claim[m].id]
  <2>2. s \in TxnRec /\ TxnKnows(s) /\ s.pc = pc
    BY TxnFacts DEF Claim
  <2>3. txn' = [txn EXCEPT ![r] = s]
    BY <2>1 DEF Begin, IInv, TypeOK
  <2> HIDE DEF s
  <2> QED
    BY <1>2, <2>2, <2>3, UnlockedMoveInv DEF ReadClaim, ReviewBegin
<1>3. CASE SpendBegin(r, m)
  <2> DEFINE s == [txn[r] EXCEPT !.pc = "spend", !.who = m, !.sum = LastBalance(m) - Price]
  <2>1. LastBalance(m) - Price \in Int /\ LastBalance(m) - Price >= 0
    BY <1>3, LastBalanceNat, AmountAssumption DEF SpendBegin, Affordable
  <2>2. s \in TxnRec /\ TxnKnows(s) /\ s.pc = "spend"
    BY <2>1, TxnFacts
  <2>3. txn' = [txn EXCEPT ![r] = s]
    BY <1>3 DEF SpendBegin, IInv, TypeOK
  <2> HIDE DEF s
  <2> QED
    BY <1>3, <2>2, <2>3, UnlockedMoveInv DEF SpendBegin
<1>4. CASE ClaimExists(r) \/ ClaimCount(r)
  <2>1. CASE Finish(r)
    BY <1>4, <2>1, IdleTyped, UnlockedMoveInv DEF Finish, ClaimExists, ClaimCount
  <2>2. CASE ~Finish(r)
    <3>1. PICK pc \in {"count", "insert"} : Goto(r, pc)
      BY <1>4, <2>2 DEF ClaimExists, ClaimCount
    <3> DEFINE s == [txn[r] EXCEPT !.pc = pc]
    <3>2. s \in TxnRec /\ TxnKnows(s) /\ s.pc = pc
      BY <1>4, TxnFacts DEF ClaimExists, ClaimCount
    <3>3. txn' = [txn EXCEPT ![r] = s]
      BY <3>1 DEF Goto, IInv, TypeOK
    <3> HIDE DEF s
    <3> QED
      BY <1>4, <3>2, <3>3, UnlockedMoveInv DEF ClaimExists, ClaimCount
  <2> QED
    BY <2>1, <2>2
<1> QED
  BY <1>1, <1>2, <1>3, <1>4

\* claim_task, cancel_claim, submit_claim and a rejection write one claim.
LEMMA ClaimStepInv ==
  ASSUME IInv, NEW r \in Req,
         ClaimInsert(r) \/ CancelClaim(r) \/ SubmitClaim(r) \/ RejectClaim(r)
  PROVE  IInv'
<1> DEFINE m == txn[r].who
<1>1. m \in Member /\ lock[m] = None /\ claim[m] \in Claim
  BY TxnFacts DEF ClaimInsert, CancelClaim, SubmitClaim, RejectClaim, TxnKnows
<1>2. PICK c \in Claim : c.status # "approved"
                         /\ (claim' = [claim EXCEPT ![m] = c] \/ claim' = claim)
  <2>1. CASE claim' = claim
    <3>1. [claim[m] EXCEPT !.status = "none"] \in Claim
      BY <1>1 DEF Claim, ClaimStatus
    <3> QED
      BY <2>1, <3>1, <1>1 DEF Claim
  <2>2. CASE ClaimInsert(r) /\ claim' # claim
    <3>1. [status |-> "claimed", id |-> claim[m].id + 1] \in Claim
      BY <1>1, <2>2, AmountAssumption DEF ClaimInsert, Claim, ClaimStatus
    <3>2. claim' = [claim EXCEPT ![m] = [status |-> "claimed", id |-> claim[m].id + 1]]
      BY <2>2 DEF ClaimInsert
    <3> QED
      BY <3>1, <3>2
  <2>3. CASE ~ClaimInsert(r) /\ claim' # claim
    <3>1. PICK st \in {"none", "submitted", "rejected"} :
            claim' = [claim EXCEPT ![m].status = st]
      BY <2>3 DEF CancelClaim, SubmitClaim, RejectClaim
    <3> DEFINE c == [claim[m] EXCEPT !.status = st]
    <3>2. c \in Claim /\ c.status = st /\ claim' = [claim EXCEPT ![m] = c]
      BY <1>1, <3>1 DEF Claim, ClaimStatus
    <3> QED
      BY <3>2
  <2> QED
    BY <2>1, <2>2, <2>3
<1>3. txn[r].pc \notin {"balance", "pay", "paid"} /\ Finish(r)
        /\ UNCHANGED <<task, ledger, stamp, lock>>
  BY DEF ClaimInsert, CancelClaim, SubmitClaim, RejectClaim
<1> HIDE DEF m
<1> QED
  BY <1>1, <1>2, <1>3, ClaimWriteInv

\* The flushed UPDATE of review_claim takes the row lock.
LEMMA ApproveClaimInv ==
  ASSUME IInv, NEW r \in Req, ApproveClaim(r)
  PROVE  IInv'
<1>1. CASE Rollback(r)
  BY <1>1, RollbackInv
<1>2. CASE ~Rollback(r)
  <2> DEFINE s == [txn[r] EXCEPT !.pc = "balance"]
             m == txn[r].who
  <2>1. /\ txn[r].pc = "approve" /\ lock[m] = None /\ Exists(m, txn[r].id)
        /\ lock' = [lock EXCEPT ![m] = r] /\ txn' = [txn EXCEPT ![r] = s]
        /\ UNCHANGED <<task, claim, ledger, stamp>>
    BY <1>2 DEF ApproveClaim, Goto, IInv, TypeOK
  <2>2. m \in Member
    BY <2>1, TxnFacts DEF TxnKnows
  <2>3. s \in TxnRec /\ TxnKnows(s) /\ s.pc = "balance" /\ s.who = m
    BY <2>1, <2>2, TxnFacts DEF TxnRec, TxnKnows, Exists
  <2>4. \A x \in Member : lock[x] # r
    BY <2>1 DEF IInv, TypeOK
  <2> HIDE DEF s
  <2>5. lock' \in [Member -> Req \cup {None}] /\ stamp' \in 0..MaxTx
    BY <2>1 DEF IInv, TypeOK
  <2>6. \A x \in Member : lock'[x] = r <=> s.pc \in {"balance", "pay", "paid"} /\ s.who = x
    BY <2>1, <2>2, <2>3, <2>4 DEF IInv, TypeOK
  <2>7. \A x \in Member, q \in Req \ {r} : lock'[x] = q <=> lock[x] = q
    BY <2>1, <2>2, NoneAssumption DEF IInv, TypeOK
  <2> QED
    BY <2>1, <2>3, <2>5, <2>6, <2>7, MoveInv
<1> QED
  BY <1>1, <1>2

\* The balance is read and the entry inserted, still uncommitted.
LEMMA PendingEntryInv ==
  ASSUME IInv, NEW r \in Req, ReadBalance(r) \/ InsertEntry(r)
  PROVE  IInv'
<1>1. txn[r].pc \in {"balance", "pay", "spend"} /\ txn[r].who \in Member
  BY TxnFacts DEF ReadBalance, InsertEntry, TxnKnows
<1>2. PICK s \in TxnRec : /\ TxnKnows(s) /\ txn' = [txn EXCEPT ![r] = s] /\ s.who = txn[r].who
                          /\ s.pc \in {"balance", "pay", "paid"}
                               <=> txn[r].pc \in {"balance", "pay", "paid"}
  <2>1. CASE ReadBalance(r)
    <3> DEFINE n == LastBalance(txn[r].who) + Award
               s == [txn[r] EXCEPT !.pc = "pay", !.sum = n]
    <3>1. n \in Int /\ n >= 0
      BY <1>1, LastBalanceNat, AmountAssumption
    <3>2. txn' = [txn EXCEPT ![r] = s] /\ txn[r].pc = "balance"
      BY <2>1 DEF ReadBalance, IInv, TypeOK
    <3> HIDE DEF n
    <3>3. s \in TxnRec /\ TxnKnows(s) /\ s.who = txn[r].who /\ s.pc = "pay"
      BY <3>1, <3>2, TxnFacts DEF TxnRec, TxnKnows, Exists
    <3> HIDE DEF s
    <3> QED
      BY <3>2, <3>3
  <2>2. CASE InsertEntry(r)
    <3> DEFINE s == [txn[r] EXCEPT !.pc = IF txn[r].pc = "pay" THEN "paid" ELSE "spent",
                                   !.at = stamp + 1]
    <3>1. stamp + 1 \in 0..MaxTx /\ stamp + 1 # 0
      BY <2>2, AmountAssumption DEF InsertEntry, IInv, TypeOK
    <3>2. txn' = [txn EXCEPT ![r] = s] /\ txn[r].pc \in {"pay", "spend"}
      BY ZenonT(40), <2>2 DEF InsertEntry, IInv, TypeOK
    <3>3. s \in TxnRec /\ TxnKnows(s) /\ s.who = txn[r].who
            /\ s.pc = IF txn[r].pc = "pay" THEN "paid" ELSE "spent"
      BY <3>1, <3>2, TxnFacts DEF TxnRec, TxnKnows, Exists
    <3> HIDE DEF s
    <3> QED
      BY <3>2, <3>3
  <2> QED
    BY <2>1, <2>2
<1>3. task' = task /\ claim' = claim /\ ledger' = ledger /\ lock' = lock
  BY DEF ReadBalance, InsertEntry
<1>4. stamp' \in 0..MaxTx
  BY AmountAssumption DEF ReadBalance, InsertEntry, IInv, TypeOK
<1>5. lock' \in [Member -> Req \cup {None}]
        /\ \A x \in Member : lock'[x] = r <=> s.pc \in {"balance", "pay", "paid"} /\ s.who = x
  BY <1>2, <1>3 DEF IInv, TypeOK
<1> QED
  BY <1>2, <1>3, <1>4, <1>5, MoveInv

\* The two commits that publish an entry.
LEMMA CommitInv ==
  ASSUME IInv, NEW r \in Req, CommitApproval(r) \/ CommitSpending(r)
  PROVE  IInv'
<1> DEFINE m == txn[r].who
<1>1. /\ m \in Member /\ txn[r].at \in 1..MaxTx /\ txn[r].id \in 0..MaxClaim
      /\ txn[r].sum \in Int /\ txn[r].sum >= 0
  BY TxnFacts, AmountAssumption DEF CommitApproval, CommitSpending, TxnKnows, TxnRec
<1>2. CASE CommitApproval(r)
  <2> DEFINE e == [at |-> txn[r].at, amount |-> Award, after |-> txn[r].sum,
                   claim |-> txn[r].id]
  <2>1. e \in Entry /\ e.after >= 0 /\ e.claim = txn[r].id
    BY <1>1, AmountAssumption DEF Entry
  <2>2. claim[m].id = txn[r].id /\ lock[m] = r
    BY <1>1, <1>2, TxnFacts DEF CommitApproval, TxnKnows, Exists, IInv, TypeOK
  <2>3. /\ ledger' = [ledger EXCEPT ![m] = @ \cup {e}]
        /\ claim' = [claim EXCEPT ![m].status = "approved"]
        /\ Finish(r) /\ lock' = Released(r) /\ UNCHANGED <<task, stamp>>
    BY <1>2 DEF CommitApproval
  <2> HIDE DEF e, m
  <2> QED
    BY <1>1, <2>1, <2>2, <2>3, EntryInv
<1>3. CASE CommitSpending(r)
  <2> DEFINE e == [at |-> txn[r].at, amount |-> -Price, after |-> txn[r].sum, claim |-> 0]
  <2>1. e \in Entry /\ e.after >= 0
    BY <1>1, AmountAssumption DEF Entry
  <2>2. /\ ledger' = [ledger EXCEPT ![m] = @ \cup {e}] /\ claim' = claim
        /\ Finish(r) /\ lock' = lock /\ UNCHANGED <<task, stamp>>
    BY <1>3 DEF CommitSpending
  <2>3. lock' = Released(r)
    BY <1>3, <2>2 DEF CommitSpending, Released, IInv, TypeOK
  <2> HIDE DEF e, m
  <2> QED
    BY <1>1, <2>1, <2>2, <2>3, EntryInv
<1> QED
  BY <1>2, <1>3

\* Administrators edit and delete the task; no claim or entry is touched.
LEMMA TaskInv ==
  ASSUME IInv, EditTask \/ DeleteTask
  PROVE  IInv'
<1>1. task' \in Task
  BY DEF EditTask, DeleteTask, IInv, TypeOK, Task
<1>2. UNCHANGED <<claim, ledger, stamp, lock, txn>>
  BY DEF EditTask, DeleteTask
<1> QED
  BY <1>1, <1>2
  DEF IInv, TypeOK, ApprovedIsPaid, NeverOverdrawn, LastEntryExists, TxnKnows, Exists

\* All of them together.
LEMMA NextInv == IInv /\ [Next]_vars => IInv'
<1> SUFFICES ASSUME IInv, [Next]_vars PROVE IInv'
  OBVIOUS
<1>1. CASE EditTask \/ DeleteTask
  BY <1>1, TaskInv
<1>2. ASSUME NEW r \in Req, NEW m \in Member,
             ClaimBegin(r, m) \/ ReadClaim(r, m) \/ ReviewBegin(r, m) \/ SpendBegin(r, m)
      PROVE  IInv'
  BY <1>2, ReadStepInv
<1>3. ASSUME NEW r \in Req, ClaimExists(r) \/ ClaimCount(r) PROVE IInv'
  <2>1. txn[r].who \in Member
    BY <1>3, TxnFacts DEF ClaimExists, ClaimCount, TxnKnows
  <2> QED
    BY <1>3, <2>1, ReadStepInv
<1>4. ASSUME NEW r \in Req,
             \/ ClaimInsert(r) \/ CancelClaim(r) \/ SubmitClaim(r) \/ RejectClaim(r)
             \/ ApproveClaim(r) \/ ReadBalance(r) \/ InsertEntry(r)
             \/ CommitApproval(r) \/ CommitSpending(r) \/ Abort(r)
      PROVE  IInv'
  BY <1>4, ClaimStepInv, ApproveClaimInv, PendingEntryInv, CommitInv, RollbackInv DEF Abort
<1>5. CASE UNCHANGED vars
  BY <1>5 DEF vars, IInv, TypeOK, ApprovedIsPaid, NeverOverdrawn, LastEntryExists,
     TxnKnows, Exists
<1> QED
  BY <1>1, <1>2, <1>3, <1>4, <1>5 DEF Next

\* Types, locks and the balances of the ledger hold in every reachable state.
THEOREM SpecIInv == Spec => []IInv
BY InitIInv, NextInv, PTL DEF Spec

\* review_claim approves and pays in one commit: whatever reviews, deletions
\* and crashes interleave, an approved claim has its entry in the ledger.
THEOREM SpecApprovedIsPaid == Spec => []ApprovedIsPaid
<1>1. IInv => ApprovedIsPaid
  BY DEF IInv
<1> QED
  BY <1>1, SpecIInv, PTL

\* No entry stores a negative balance, although deduct_points compares with a
\* balance that may be stale when it commits.
THEOREM SpecNeverOverdrawn == Spec => []NeverOverdrawn
<1>1. IInv => NeverOverdrawn
  BY DEF IInv
<1> QED
  BY <1>1, SpecIInv, PTL

-----------------------------------------------------------------------------
(* Sums over finite sets of entries.                                         *)

\* A set of numbers that has 0 and with each number the next has them all.
LEMMA SetInduction ==
  ASSUME NEW T, 0 \in T, \A n \in Nat : n \in T => n + 1 \in T
  PROVE  Nat \subseteq T
<1> SUFFICES ASSUME Nat \ T # {} PROVE FALSE
  OBVIOUS
<1>1. PICK R : R = {ss \in Nat \X Nat : ss[1] < ss[2]}
  OBVIOUS
<1>2. IsWellFoundedOn(R, Nat)
  BY <1>1, NatLessThanWellFounded, Zenon DEF OpToRel
<1>3. PICK S : S = Nat \ T
  OBVIOUS
<1>4. S \subseteq Nat /\ S # {}
  BY <1>3
<1>5. PICK x \in S : \A y \in S : ~(<<y, x>> \in R)
  BY <1>2, <1>4, WFMin
<1>6. x \in Nat /\ x \notin T /\ x # 0 /\ x - 1 \in Nat
  BY <1>3
<1>7. x - 1 \in S
  BY <1>3, <1>6
<1>8. <<x - 1, x>> \in R
  BY <1>1, <1>6
<1> QED
  BY <1>5, <1>7, <1>8

\* The sum of the amounts, the element a fold takes first, and the partial sums.
Total(S) == MapThenSumSet(LAMBDA e : e.amount, S)
First(s) == CHOOSE x \in s : TRUE
Sums(S, h) ==
    h = [s \in SUBSET S |-> IF s = {} THEN 0 ELSE First(s).amount + h[s \ {First(s)}]]

Amounts(S) == IsFiniteSet(S) /\ \A e \in S : e.amount \in Int

LEMMA TotalIs == ASSUME NEW S PROVE Total(S) = (CHOOSE h : Sums(S, h))[S]
BY DEF Total, MapThenSumSet, MapThenFoldSet, First, Sums

\* What the fold takes first is an element, and one less remains.
LEMMA FirstTaken ==
  ASSUME NEW S, Amounts(S), NEW s \in SUBSET S, s # {}
  PROVE  /\ First(s) \in s /\ First(s).amount \in Int
         /\ s \ {First(s)} \in SUBSET S
         /\ Cardinality(s) \in Nat \ {0}
         /\ Cardinality(s \ {First(s)}) = Cardinality(s) - 1
<1>1. First(s) \in s
  BY DEF First
<1>2. IsFiniteSet(s)
  BY FS_Subset DEF Amounts
<1>3. Cardinality(s) \in Nat /\ Cardinality(s) # 0
  BY <1>2, FS_CardinalityType, FS_EmptySet
<1>4. Cardinality(s \ {First(s)}) = Cardinality(s) - 1
  BY <1>1, <1>2, FS_RemoveElement
<1> QED
  BY <1>1, <1>3, <1>4 DEF Amounts

LEMMA NoElement ==
  ASSUME NEW S, Amounts(S), NEW s \in SUBSET S, Cardinality(s) <= 0
  PROVE  s = {}
<1> SUFFICES ASSUME s # {} PROVE FALSE
  OBVIOUS
<1>1. Cardinality(s) \in Nat \ {0}
  BY FirstTaken
<1> QED
  BY <1>1

\* The partial sums up to a cardinality.
SumsUpTo(S, h, n) ==
    \A s \in SUBSET S : Cardinality(s) <= n =>
        h[s] = IF s = {} THEN 0 ELSE First(s).amount + h[s \ {First(s)}]

\* There are partial sums.
LEMMA SumsExist ==
  ASSUME NEW S, Amounts(S)
  PROVE  \E h \in [SUBSET S -> Int] : Sums(S, h)
<1> DEFINE T == {n \in Nat : \E h \in [SUBSET S -> Int] : SumsUpTo(S, h, n)}
<1>1. 0 \in T
  <2>1. PICK h : h = [s \in SUBSET S |-> 0]
    OBVIOUS
  <2>2. ASSUME NEW s \in SUBSET S, Cardinality(s) <= 0 PROVE s = {}
    BY <2>2, NoElement
  <2>3. SumsUpTo(S, h, 0) /\ h \in [SUBSET S -> Int]
    BY <2>1, <2>2 DEF SumsUpTo
  <2> QED
    BY <2>3
<1>2. ASSUME NEW n \in Nat, n \in T PROVE n + 1 \in T
  <2>1. PICK h \in [SUBSET S -> Int] : SumsUpTo(S, h, n)
    BY <1>2
  <2>2. PICK g : g = [s \in SUBSET S |-> IF Cardinality(s) <= n \/ s = {} THEN h[s]
                                        ELSE First(s).amount + h[s \ {First(s)}]]
    OBVIOUS
  <2>3. g \in [SUBSET S -> Int]
    <3>1. ASSUME NEW s \in SUBSET S, s # {}
          PROVE  First(s).amount + h[s \ {First(s)}] \in Int
      <4>1. First(s).amount \in Int /\ s \ {First(s)} \in SUBSET S
        BY <3>1, FirstTaken
      <4>2. h[s \ {First(s)}] \in Int
        BY <2>1, <4>1
      <4> QED
        BY <4>1, <4>2
    <3> QED
      BY <2>2, <3>1
  <2>4. SumsUpTo(S, g, n + 1)
    <3> SUFFICES ASSUME NEW s \in SUBSET S, Cardinality(s) <= n + 1
                 PROVE  g[s] = IF s = {} THEN 0 ELSE First(s).amount + g[s \ {First(s)}]
      BY DEF SumsUpTo
    <3>1. CASE s = {}
      <4>1. Cardinality(s) = 0
        BY <3>1, FS_EmptySet
      <4>2. h[s] = 0
        BY <2>1, <3>1, <4>1 DEF SumsUpTo
      <4> QED
        BY <2>2, <3>1, <4>2
    <3>2. CASE s # {}
      <4>1. /\ s \ {First(s)} \in SUBSET S /\ Cardinality(s) \in Nat
            /\ Cardinality(s \ {First(s)}) = Cardinality(s) - 1
        BY <3>2, FirstTaken
      <4>2. Cardinality(s \ {First(s)}) <= n
        BY <4>1
      <4>3. g[s \ {First(s)}] = h[s \ {First(s)}]
        BY <2>2, <4>1, <4>2
      <4>4. Cardinality(s) <= n => h[s] = First(s).amount + h[s \ {First(s)}]
        BY <2>1, <3>2 DEF SumsUpTo
      <4> QED
        BY <2>2, <3>2, <4>3, <4>4
    <3> QED
      BY <3>1, <3>2
  <2> QED
    BY <2>3, <2>4
<1>3. Nat \subseteq T
  <2> HIDE DEF T
  <2> QED
    BY <1>1, <1>2, SetInduction
<1>4. Cardinality(S) \in T
  BY <1>3, FS_CardinalityType DEF Amounts
<1>5. PICK h \in [SUBSET S -> Int] : SumsUpTo(S, h, Cardinality(S))
  BY <1>4
<1>6. ASSUME NEW s \in SUBSET S PROVE Cardinality(s) <= Cardinality(S)
  BY FS_Subset DEF Amounts
<1>7. Sums(S, h)
  BY <1>5, <1>6 DEF SumsUpTo, Sums
<1> QED
  BY <1>7

\* They are determined by the amounts.
LEMMA SumsUnique ==
  ASSUME NEW S, Amounts(S), NEW U, S \subseteq U, NEW h, NEW g, Sums(S, h), Sums(U, g)
  PROVE  h[S] = g[S]
<1> DEFINE T == {n \in Nat : \A s \in SUBSET S : Cardinality(s) <= n => h[s] = g[s]}
<1>1. ASSUME NEW s \in SUBSET S
      PROVE  /\ h[s] = IF s = {} THEN 0 ELSE First(s).amount + h[s \ {First(s)}]
             /\ g[s] = IF s = {} THEN 0 ELSE First(s).amount + g[s \ {First(s)}]
  <2>1. s \in SUBSET U
    OBVIOUS
  <2> QED
    BY <2>1 DEF Sums
<1>2. 0 \in T
  <2> SUFFICES ASSUME NEW s \in SUBSET S, Cardinality(s) <= 0 PROVE h[s] = g[s]
    OBVIOUS
  <2>1. s = {}
    BY NoElement
  <2> QED
    BY <1>1, <2>1
<1>3. ASSUME NEW n \in Nat, n \in T PROVE n + 1 \in T
  <2> SUFFICES ASSUME NEW s \in SUBSET S, Cardinality(s) <= n + 1 PROVE h[s] = g[s]
    OBVIOUS
  <2>1. CASE s = {}
    BY <1>1, <2>1
  <2>2. CASE s # {}
    <3>1. s \ {First(s)} \in SUBSET S /\ Cardinality(s \ {First(s)}) <= n
      BY <2>2, FirstTaken
    <3>2. h[s \ {First(s)}] = g[s \ {First(s)}]
      BY <1>3, <3>1
    <3> QED
      BY <1>1, <2>2, <3>2
  <2> QED
    BY <2>1, <2>2
<1>4. Nat \subseteq T
  <2> HIDE DEF T
  <2> QED
    BY <1>2, <1>3, SetInduction
<1>5. Cardinality(S) \in Nat
  BY FS_CardinalityType DEF Amounts
<1> QED
  BY <1>4, <1>5

\* The sum can be read off any partial sums.
LEMMA TotalBy ==
  ASSUME NEW S, Amounts(S), NEW U, S \subseteq U, NEW g, Sums(U, g)
  PROVE  Total(S) = g[S]
<1>1. PICK h : h = CHOOSE hh : Sums(S, hh)
  OBVIOUS
<1>2. Sums(S, h)
  BY <1>1, SumsExist
<1> QED
  BY <1>1, <1>2, SumsUnique, TotalIs

\* It does not matter which element is taken first.
LEMMA AnyFirst ==
  ASSUME NEW S, Amounts(S), NEW h \in [SUBSET S -> Int], Sums(S, h), NEW x \in S
  PROVE  h[S] = x.amount + h[S \ {x}]
<1> DEFINE T == {n \in Nat : \A s \in SUBSET S : Cardinality(s) <= n =>
                                \A y \in s : h[s] = y.amount + h[s \ {y}]}
<1>1. ASSUME NEW s \in SUBSET S, s # {}
      PROVE  h[s] = First(s).amount + h[s \ {First(s)}]
  BY <1>1 DEF Sums
<1>2. 0 \in T
  <2>1. ASSUME NEW s \in SUBSET S, Cardinality(s) <= 0 PROVE s = {}
    BY <2>1, NoElement
  <2> QED
    BY <2>1
<1>3. ASSUME NEW n \in Nat, n \in T PROVE n + 1 \in T
  <2> SUFFICES ASSUME NEW s \in SUBSET S, Cardinality(s) <= n + 1, NEW y \in s
               PROVE  h[s] = y.amount + h[s \ {y}]
    OBVIOUS
  <2>1. PICK f : f = First(s)
    OBVIOUS
  <2>2. /\ f \in s /\ f.amount \in Int /\ s \ {f} \in SUBSET S
        /\ Cardinality(s) \in Nat /\ Cardinality(s \ {f}) = Cardinality(s) - 1
        /\ h[s] = f.amount + h[s \ {f}]
    BY <1>1, <2>1, FirstTaken
  <2>3. CASE y = f
    BY <2>2, <2>3
  <2>4. CASE y # f
    <3>1. y \in s \ {f} /\ f \in s \ {y} /\ s \ {y} \in SUBSET S /\ (s \ {f}) \ {y} = (s \ {y}) \ {f}
      BY <2>2, <2>4
    <3>2. IsFiniteSet(s)
      BY FS_Subset DEF Amounts
    <3>3. Cardinality(s \ {y}) = Cardinality(s) - 1
      BY <3>2, FS_RemoveElement
    <3>4. h[s \ {f}] = y.amount + h[(s \ {f}) \ {y}]
      BY <1>3, <2>2, <3>1
    <3>5. h[s \ {y}] = f.amount + h[(s \ {y}) \ {f}]
      BY <1>3, <2>2, <3>1, <3>3
    <3>6. h[(s \ {f}) \ {y}] \in Int /\ y.amount \in Int
      BY <3>1 DEF Amounts
    <3>7. PICK i, j, k \in Int : i = f.amount /\ j = y.amount /\ k = h[(s \ {f}) \ {y}]
      BY <2>2, <3>6
    <3>8. h[s \ {f}] = j + k /\ h[s \ {y}] = i + k
      BY <3>1, <3>4, <3>5, <3>7
    <3>9. h[s] = i + (j + k)
      BY <2>2, <3>7, <3>8
    <3> QED
      BY <3>7, <3>8, <3>9
  <2> QED
    BY <2>3, <2>4
<1>4. Nat \subseteq T
  <2> HIDE DEF T
  <2> QED
    BY <1>2, <1>3, SetInduction
<1>5. Cardinality(S) \in Nat
  BY FS_CardinalityType DEF Amounts
<1> QED
  BY <1>4, <1>5

\* The sum of no entry is 0, and an entry adds its amount.
LEMMA TotalEmpty == Total({}) = 0
<1>1. Amounts({})
  BY FS_EmptySet DEF Amounts
<1>2. PICK h \in [SUBSET {} -> Int] : Sums({}, h)
  BY <1>1, SumsExist
<1>3. h[{}] = 0
  BY <1>2 DEF Sums
<1> QED
  BY <1>1, <1>2, <1>3, TotalBy

LEMMA TotalAdd ==
  ASSUME NEW S, Amounts(S), NEW e, e \notin S, e.amount \in Int
  PROVE  Total(S \cup {e}) = Total(S) + e.amount
<1>1. PICK U : U = S \cup {e}
  OBVIOUS
<1>2. Amounts(U) /\ S \subseteq U /\ e \in U /\ U \ {e} = S
  BY <1>1, FS_AddElement DEF Amounts
<1>3. PICK h \in [SUBSET U -> Int] : Sums(U, h)
  BY <1>2, SumsExist
<1>4. h[U] = e.amount + h[U \ {e}]
  BY <1>2, <1>3, AnyFirst
<1>5. Total(U) = h[U] /\ Total(S) = h[S]
  BY <1>2, <1>3, TotalBy
<1>6. PICK i, j \in Int : i = h[S] /\ j = e.amount
  BY <1>2, <1>3
<1>7. h[U] = j + i
  BY <1>2, <1>4, <1>6
<1> QED
  BY <1>1, <1>5, <1>6, <1>7
-----------------------------------------------------------------------------
(* The books while nothing has overlapped.                                   *)

\* The balance that a ledger shows.
Shown(S) == IF S = {} THEN 0 ELSE (CHOOSE e \in S : \A d \in S : d.at <= e.at).after

InOrder == \A m \in Member : Shown(ledger[m]) = Total(ledger[m])

LEMMA SumIs == BalanceIsSum <=> InOrder
BY DEF LastBalance, Shown, BalanceIsSum, Total, InOrder

LEMMA BalanceIs ==
  /\ \A m \in Member : LastBalance(m) = Shown(ledger[m])
  /\ BalanceIsSum <=> \A m \in Member : Shown(ledger[m]) = Total(ledger[m])
  /\ BalanceIsSum' <=> \A m \in Member : Shown(ledger'[m]) = Total(ledger'[m])
<1>1. \A m \in Member : LastBalance(m) = Shown(ledger[m])
  BY DEF LastBalance, Shown
<1>2. (BalanceIsSum <=> InOrder)'
  BY SumIs, PTL
<1>3. InOrder' <=> \A m \in Member : Shown(ledger'[m]) = Total(ledger'[m])
  BY DEF InOrder
<1> QED
  BY <1>1, <1>2, <1>3, SumIs DEF InOrder

\* An entry younger than all others is the last one.
LEMMA YoungestShown ==
  ASSUME NEW S, NEW e, e.at \in Int, \A d \in S : d.at \in Int /\ d.at < e.at
  PROVE  Shown(S \cup {e}) = e.after
<1>1. PICK U : U = S \cup {e}
  OBVIOUS
<1>2. \A d \in U : d.at <= e.at
  BY <1>1
<1>3. PICK l : l = CHOOSE x \in U : \A d \in U : d.at <= x.at
  OBVIOUS
<1>4. l \in U /\ \A d \in U : d.at <= l.at
  BY <1>1, <1>2, <1>3
<1>5. l = e
  BY <1>1, <1>4
<1> QED
  BY <1>1, <1>3, <1>5 DEF Shown

\* A request moves, and what it knows afterwards is so.
Moves(r, s) ==
    /\ txn' = [txn EXCEPT ![r] = s]
    /\ txn[r].pc # "idle" \/ s.pc # "idle"
    /\ BooksKnown(s)'

\* The others are idle, so every request knows what is so.
LEMMA AllKnown ==
  ASSUME IInv, Alone, Alone', NEW r \in Req, NEW s, Moves(r, s)
  PROVE  \A q \in Req : BooksKnown(txn[q])'
<1> SUFFICES ASSUME NEW q \in Req PROVE BooksKnown(txn[q])'
  OBVIOUS
<1>1. txn'[r] = s /\ (q # r => txn'[q] = txn[q])
  BY DEF Moves, IInv, TypeOK
<1>2. CASE q = r
  BY <1>1, <1>2 DEF Moves, BooksKnown
<1>3. CASE q # r
  <2>1. txn'[q].pc = "idle"
    BY <1>1, <1>3 DEF Moves, Alone, Idle
  <2> QED
    BY <2>1 DEF BooksKnown
<1> QED
  BY <1>2, <1>3

\* What a request knows depends on the rows only.
LEMMA SameKnown ==
  ASSUME UNCHANGED <<task, claim, ledger>>, NEW s, BooksKnown(s)
  PROVE  BooksKnown(s)'
<1>1. LastBalance(s.who)' = LastBalance(s.who) /\ ActiveClaims' = ActiveClaims
  BY DEF LastBalance, ActiveClaims
<1> QED
  BY <1>1 DEF BooksKnown, Exists

LEMMA IdleKnown ==
  /\ BooksKnown(IdleTxn)
  /\ BooksKnown(IdleTxn)'
BY IdleTyped DEF BooksKnown

\* A transaction whose fields are set one after another is set to one record.
LEMMA ThreeFields ==
  ASSUME NEW T, NEW f \in [Req -> T], NEW r \in Req, NEW a, NEW b, NEW c
  PROVE  /\ [f EXCEPT ![r].pc = a, ![r].who = b, ![r].max = c]
            = [f EXCEPT ![r] = [f[r] EXCEPT !.pc = a, !.who = b, !.max = c]]
         /\ [f EXCEPT ![r].pc = a, ![r].who = b, ![r].id = c]
            = [f EXCEPT ![r] = [f[r] EXCEPT !.pc = a, !.who = b, !.id = c]]
         /\ [f EXCEPT ![r].pc = a, ![r].who = b, ![r].sum = c]
            = [f EXCEPT ![r] = [f[r] EXCEPT !.pc = a, !.who = b, !.sum = c]]
<1>1. [f EXCEPT ![r].pc = a, ![r].who = b, ![r].max = c]
      = [f EXCEPT ![r] = [f[r] EXCEPT !.pc = a, !.who = b, !.max = c]]
  OBVIOUS
<1>2. [f EXCEPT ![r].pc = a, ![r].who = b, ![r].id = c]
      = [f EXCEPT ![r] = [f[r] EXCEPT !.pc = a, !.who = b, !.id = c]]
  OBVIOUS
<1>3. [f EXCEPT ![r].pc = a, ![r].who = b, ![r].sum = c]
      = [f EXCEPT ![r] = [f[r] EXCEPT !.pc = a, !.who = b, !.sum = c]]
  OBVIOUS
<1> QED
  BY <1>1, <1>2, <1>3

\* A request that reads or prepares leaves the rows alone and knows them.
LEMMA BeginKnown ==
  ASSUME IInv, NEW r \in Req, NEW m \in Member,
         ClaimBegin(r, m) \/ ReadClaim(r, m) \/ ReviewBegin(r, m) \/ SpendBegin(r, m)
  PROVE  UNCHANGED <<task, claim, ledger, stamp>> /\ \E s : Moves(r, s) /\ s.at = txn[r].at
<1>0. txn[r] \in TxnRec
  BY TxnFacts
<1>a. txn \in [Req -> TxnRec]
  BY DEF IInv, TypeOK
<1>1. CASE ClaimBegin(r, m)
  <2>1. PICK s : s = [txn[r] EXCEPT !.pc = "exists", !.who = m, !.max = task.max]
    OBVIOUS
  <2>2. s.pc = "exists" /\ s.max = task.max /\ s.at = txn[r].at
    BY <1>0, <2>1 DEF TxnRec
  <2>3. BooksKnown(s)
    BY <2>2 DEF BooksKnown
  <2>a. UNCHANGED <<task, claim, ledger, stamp>>
    BY <1>1 DEF ClaimBegin
  <2>b. txn' = [txn EXCEPT ![r].pc = "exists", ![r].who = m, ![r].max = task.max]
    BY <1>1 DEF ClaimBegin
  <2>c. [txn EXCEPT ![r].pc = "exists", ![r].who = m, ![r].max = task.max]
        = [txn EXCEPT ![r] = [txn[r] EXCEPT !.pc = "exists", !.who = m, !.max = task.max]]
    BY <1>a, ThreeFields
  <2>d. txn' = [txn EXCEPT ![r] = s]
    BY <2>b, <2>c, <2>1
  <2>4. txn' = [txn EXCEPT ![r] = s] /\ UNCHANGED <<task, claim, ledger, stamp>>
    BY <2>a, <2>d
  <2>5. Moves(r, s)
    BY <2>2, <2>3, <2>4, SameKnown DEF Moves
  <2> QED
    BY <2>2, <2>4, <2>5
<1>2. CASE ReadClaim(r, m) \/ ReviewBegin(r, m)
  <2>1. PICK pc \in {"delete", "submit", "reject", "approve"} : Begin(r, pc, m)
    BY <1>2 DEF ReadClaim, ReviewBegin
  <2>2. PICK s : s = [txn[r] EXCEPT !.pc = pc, !.who = m, !.id = claim[m].id]
    OBVIOUS
  <2>3. s.pc = pc /\ s.who = m /\ s.id = claim[m].id /\ s.at = txn[r].at
    BY <1>0, <2>2 DEF TxnRec
  <2>4. Exists(m, claim[m].id) /\ Reviewable(claim[m].status)
    BY <1>2 DEF ReadClaim, ReviewBegin, Exists, Reviewable
  <2>5. BooksKnown(s)
    BY <2>1, <2>3, <2>4 DEF BooksKnown
  <2>a. UNCHANGED <<task, claim, ledger, stamp>>
    BY <1>2 DEF ReadClaim, ReviewBegin
  <2>b. txn' = [txn EXCEPT ![r].pc = pc, ![r].who = m, ![r].id = claim[m].id]
    BY <2>1 DEF Begin
  <2>c. [txn EXCEPT ![r].pc = pc, ![r].who = m, ![r].id = claim[m].id]
        = [txn EXCEPT ![r] = [txn[r] EXCEPT !.pc = pc, !.who = m, !.id = claim[m].id]]
    BY ZenonT(40), <1>a, ThreeFields
  <2>d. txn' = [txn EXCEPT ![r] = s]
    BY <2>b, <2>c, <2>2
  <2>6. txn' = [txn EXCEPT ![r] = s] /\ UNCHANGED <<task, claim, ledger, stamp>>
    BY <2>a, <2>d
  <2>7. Moves(r, s)
    BY <2>1, <2>3, <2>5, <2>6, SameKnown DEF Moves
  <2> QED
    BY <2>3, <2>6, <2>7
<1>3. CASE SpendBegin(r, m)
  <2>1. PICK s : s = [txn[r] EXCEPT !.pc = "spend", !.who = m, !.sum = LastBalance(m) - Price]
    OBVIOUS
  <2>2. s.pc = "spend" /\ s.who = m /\ s.sum = LastBalance(m) - Price /\ s.at = txn[r].at
    BY <1>0, <2>1 DEF TxnRec
  <2>3. BooksKnown(s)
    BY <2>2 DEF BooksKnown
  <2>a. UNCHANGED <<task, claim, ledger, stamp>>
    BY <1>3 DEF SpendBegin
  <2>b. txn' = [txn EXCEPT ![r].pc = "spend", ![r].who = m, ![r].sum = LastBalance(m) - Price]
    BY <1>3 DEF SpendBegin
  <2>c. [txn EXCEPT ![r].pc = "spend", ![r].who = m, ![r].sum = LastBalance(m) - Price]
        = [txn EXCEPT ![r] = [txn[r] EXCEPT !.pc = "spend", !.who = m, !.sum = LastBalance(m) - Price]]
    BY <1>a, ThreeFields
  <2>d. txn' = [txn EXCEPT ![r] = s]
    BY <2>b, <2>c, <2>1
  <2>4. txn' = [txn EXCEPT ![r] = s] /\ UNCHANGED <<task, claim, ledger, stamp>>
    BY <2>a, <2>d
  <2>5. Moves(r, s)
    BY <2>2, <2>3, <2>4, SameKnown DEF Moves
  <2> QED
    BY <2>2, <2>4, <2>5
<1> QED
  BY <1>1, <1>2, <1>3

\* The same of a request that goes on, gives up or is rolled back.
LEMMA PrepareKnown ==
  ASSUME IInv, NEW r \in Req, ~Idle(r),
         ClaimExists(r) \/ ClaimCount(r) \/ ApproveClaim(r) \/ ReadBalance(r) \/ Rollback(r),
         BooksKnown(txn[r])
  PROVE  UNCHANGED <<task, claim, ledger, stamp>> /\ \E s : Moves(r, s) /\ s.at \in {0, txn[r].at}
<1>0. txn[r] \in TxnRec
  BY TxnFacts
<1>1. UNCHANGED <<task, claim, ledger, stamp>>
  BY DEF ClaimExists, ClaimCount, ApproveClaim, ReadBalance, Rollback
<1>2. CASE Finish(r)
  <2>1. Moves(r, IdleTxn)
    BY <1>2, IdleKnown DEF Finish, Moves, Idle
  <2>2. IdleTxn.at = 0
    BY DEF IdleTxn
  <2> QED
    BY <1>1, <2>1, <2>2
<1>3. CASE ClaimExists(r) /\ ~Finish(r)
  <2>1. PICK s : s = [txn[r] EXCEPT !.pc = "count"]
    OBVIOUS
  <2>2. s.pc = "count" /\ s.max = txn[r].max /\ s.at = txn[r].at /\ txn[r].pc = "exists"
    BY <1>0, <1>3, <2>1 DEF TxnRec, ClaimExists
  <2>3. BooksKnown(s)
    BY <2>2 DEF BooksKnown
  <2>4. txn' = [txn EXCEPT ![r] = s]
    BY <1>3, <2>1 DEF ClaimExists, Goto, IInv, TypeOK
  <2>5. Moves(r, s)
    BY <1>1, <2>2, <2>3, <2>4, SameKnown DEF Moves
  <2> QED
    BY <1>1, <2>2, <2>5
<1>4. CASE ClaimCount(r) /\ ~Finish(r)
  <2>1. PICK s : s = [txn[r] EXCEPT !.pc = "insert"]
    OBVIOUS
  <2>2. s.pc = "insert" /\ s.max = txn[r].max /\ s.at = txn[r].at /\ txn[r].pc = "count"
    BY <1>0, <1>4, <2>1 DEF TxnRec, ClaimCount
  <2>3. HasRoom(Cardinality(ActiveClaims), s.max)
    BY <1>4, <2>2 DEF ClaimCount
  <2>4. BooksKnown(s)
    BY <2>2, <2>3 DEF BooksKnown
  <2>5. txn' = [txn EXCEPT ![r] = s]
    BY <1>4, <2>1 DEF ClaimCount, Goto, IInv, TypeOK
  <2>6. Moves(r, s)
    BY <1>1, <2>2, <2>4, <2>5, SameKnown DEF Moves
  <2> QED
    BY <1>1, <2>2, <2>6
<1>5. CASE ApproveClaim(r) /\ ~Finish(r)
  <2>1. PICK s : s = [txn[r] EXCEPT !.pc = "balance"]
    OBVIOUS
  <2>2. /\ s.pc = "balance" /\ s.who = txn[r].who /\ s.id = txn[r].id /\ s.at = txn[r].at
        /\ txn[r].pc = "approve"
    BY <1>0, <1>5, <2>1 DEF TxnRec, ApproveClaim
  <2>3. BooksKnown(s)
    BY <2>2 DEF BooksKnown
  <2>4. txn' = [txn EXCEPT ![r] = s]
    BY <1>5, <2>1 DEF ApproveClaim, Rollback, Goto, IInv, TypeOK
  <2>5. Moves(r, s)
    BY <1>1, <2>2, <2>3, <2>4, SameKnown DEF Moves
  <2> QED
    BY <1>1, <2>2, <2>5
<1>6. CASE ReadBalance(r)
  <2>1. PICK s : s = [txn[r] EXCEPT !.pc = "pay", !.sum = LastBalance(txn[r].who) + Award]
    OBVIOUS
  <2>2. /\ s.pc = "pay" /\ s.who = txn[r].who /\ s.id = txn[r].id /\ s.at = txn[r].at
        /\ s.sum = LastBalance(txn[r].who) + Award /\ txn[r].pc = "balance"
    BY <1>0, <1>6, <2>1 DEF TxnRec, ReadBalance
  <2>3. BooksKnown(s)
    BY <2>2 DEF BooksKnown
  <2>4. txn' = [txn EXCEPT ![r] = s]
    BY <1>6, <2>1 DEF ReadBalance, IInv, TypeOK
  <2>5. Moves(r, s)
    BY <1>1, <2>2, <2>3, <2>4, SameKnown DEF Moves
  <2> QED
    BY <1>1, <2>2, <2>5
<1> QED
  BY <1>2, <1>3, <1>4, <1>5, <1>6 DEF Rollback

\* The clock gives the pending entry a time after all others.
LEMMA InsertKnown ==
  ASSUME IInv, NEW r \in Req, InsertEntry(r), BooksFinite
  PROVE  /\ UNCHANGED <<task, claim, ledger>> /\ stamp' = stamp + 1 /\ stamp \in Nat
         /\ \E s : txn' = [txn EXCEPT ![r] = s] /\ s.at = stamp' /\ (BooksKnown(txn[r]) => Moves(r, s))
<1>0. txn[r] \in TxnRec /\ txn[r].who \in Member
  BY TxnFacts DEF InsertEntry, TxnKnows
<1>1. PICK s : s = [txn[r] EXCEPT !.pc = IF txn[r].pc = "pay" THEN "paid" ELSE "spent",
                                  !.at = stamp + 1]
  OBVIOUS
<1>2. /\ s.pc = (IF txn[r].pc = "pay" THEN "paid" ELSE "spent") /\ s.who = txn[r].who
      /\ s.id = txn[r].id /\ s.sum = txn[r].sum /\ s.at = stamp + 1
  BY <1>0, <1>1 DEF TxnRec
<1>3. UNCHANGED <<task, claim, ledger>> /\ stamp' = stamp + 1 /\ txn[r].pc \in {"pay", "spend"}
  BY DEF InsertEntry
<1>4. stamp \in Nat /\ \A e \in ledger[s.who] : e.at \in Int /\ e.at < s.at
  BY <1>0, <1>2, AmountAssumption DEF BooksFinite, IInv, TypeOK, Entry
<1>5. txn' = [txn EXCEPT ![r] = s]
  BY <1>1 DEF InsertEntry, IInv, TypeOK
<1>6. BooksKnown(txn[r]) => BooksKnown(s)
  BY <1>2, <1>3, <1>4 DEF BooksKnown
<1>7. BooksKnown(txn[r]) => Moves(r, s)
  BY <1>2, <1>3, <1>5, <1>6, SameKnown DEF Moves
<1> QED
  BY <1>2, <1>3, <1>4, <1>5, <1>7
\* The promise of one step.
BooksStep == RoomForNewClaim /\ BalanceIsSum' /\ PaidOnce' /\ PaidIsPast'

\* Nothing changes in the books while claims and ledgers stay.
LEMMA QuietStep ==
  ASSUME UNCHANGED <<claim, ledger>>, BalanceIsSum, PaidOnce, PaidIsPast
  PROVE  BooksStep
<1>1. BalanceIsSum'
  BY BalanceIs
<1>2. RoomForNewClaim /\ PaidOnce' /\ PaidIsPast'
  BY DEF RoomForNewClaim, PaidOnce, PaidIsPast
<1> QED
  BY <1>1, <1>2 DEF BooksStep

\* A claim that a request writes: a new row has room, and no entry is of it.
LEMMA WriteStep ==
  ASSUME IInv, BooksFinite, NEW r \in Req, BooksKnown(txn[r]),
         ClaimInsert(r) \/ CancelClaim(r) \/ SubmitClaim(r) \/ RejectClaim(r),
         BalanceIsSum, PaidOnce, PaidIsPast
  PROVE  BooksStep
<1>1. PICK m \in Member : m = txn[r].who
  BY TxnFacts DEF TxnKnows, ClaimInsert, CancelClaim, SubmitClaim, RejectClaim
<1>2. ledger' = ledger /\ task' = task /\ claim \in [Member -> Claim]
  BY DEF ClaimInsert, CancelClaim, SubmitClaim, RejectClaim, IInv, TypeOK
<1>3. BalanceIsSum' /\ PaidOnce'
  BY <1>2, BalanceIs DEF PaidOnce
<1>4. CASE claim' = claim
  BY <1>2, <1>4, QuietStep
<1>5. CASE ClaimInsert(r) /\ claim' # claim
  <2>1. /\ claim[m].status = "none" /\ txn[r].pc = "insert"
        /\ claim' = [claim EXCEPT ![m] = [status |-> "claimed", id |-> claim[m].id + 1]]
    BY <1>1, <1>5 DEF ClaimInsert
  <2>2. \A x \in Member : x # m => claim'[x] = claim[x]
    BY <1>2, <2>1
  <2>3. claim'[m].status = "claimed" /\ claim'[m].id = claim[m].id + 1
    BY <1>2, <2>1
  <2>4. claim[m].id \in Nat /\ \A e \in ledger[m] : e.claim \in Int
    BY <1>2, AmountAssumption DEF Claim, IInv, TypeOK, Entry
  <2>5. PaidIsPast'
    <3> SUFFICES ASSUME NEW x \in Member, NEW e \in ledger[x]
                 PROVE  /\ e.claim <= claim'[x].id
                        /\ e.claim = claim'[x].id /\ e.claim # 0 => claim'[x].status = "approved"
      BY <1>2 DEF PaidIsPast
    <3>1. e.claim <= claim[x].id
      BY DEF PaidIsPast
    <3> QED
      BY <2>2, <2>3, <2>4, <3>1 DEF PaidIsPast
  <2>6. ActiveClaims' = ActiveClaims \cup {m} /\ m \notin ActiveClaims
    BY <2>1, <2>2, <2>3 DEF ActiveClaims
  <2>7. Cardinality(ActiveClaims') = Cardinality(ActiveClaims) + 1 /\ Cardinality(ActiveClaims) \in Nat
    BY <2>6, FS_AddElement, FS_CardinalityType DEF BooksFinite
  <2>8. Cardinality(ActiveClaims) < task.max /\ task.max \in Nat
    BY <2>1, AmountAssumption DEF BooksKnown, HasRoom, IInv, TypeOK, Task
  <2>9. RoomForNewClaim
    BY <2>7, <2>8 DEF RoomForNewClaim
  <2> QED
    BY <1>3, <2>5, <2>9 DEF BooksStep
<1>6. CASE ~ClaimInsert(r) /\ claim' # claim
  <2>1. PICK st \in {"none", "submitted", "rejected"} : claim' = [claim EXCEPT ![m].status = st]
    BY <1>1, <1>6 DEF CancelClaim, SubmitClaim, RejectClaim
  <2>2. claim[m].status \in {"claimed", "submitted"}
    BY <1>1, <1>6 DEF BooksKnown, Reviewable, CancelClaim, SubmitClaim, RejectClaim
  <2>3. /\ \A x \in Member : x # m => claim'[x] = claim[x]
        /\ claim'[m].status = st /\ claim'[m].id = claim[m].id
    BY <1>2, <2>1 DEF Claim
  <2>4. PaidIsPast'
    <3> SUFFICES ASSUME NEW x \in Member, NEW e \in ledger[x]
                 PROVE  /\ e.claim <= claim'[x].id
                        /\ e.claim = claim'[x].id /\ e.claim # 0 => claim'[x].status = "approved"
      BY <1>2 DEF PaidIsPast
    <3> QED
      BY <2>2, <2>3 DEF PaidIsPast
  <2>5. RoomForNewClaim
    BY <2>2, <2>3 DEF RoomForNewClaim
  <2> QED
    BY <1>3, <2>4, <2>5 DEF BooksStep
<1> QED
  BY <1>4, <1>5, <1>6

\* A commit adds one entry to one ledger.
LEMMA CommitWrites ==
  ASSUME IInv, NEW r \in Req, CommitApproval(r) \/ CommitSpending(r)
  PROVE  \E m \in Member, e \in Entry :
           /\ m = txn[r].who /\ e.at = txn[r].at /\ e.after = txn[r].sum
           /\ IF CommitApproval(r) THEN e.amount = Award /\ e.claim = txn[r].id
                                   ELSE e.amount = -Price /\ e.claim = 0
           /\ ledger' = [ledger EXCEPT ![m] = ledger[m] \cup {e}]
           /\ claim' = IF CommitApproval(r) THEN [claim EXCEPT ![m].status = "approved"] ELSE claim
<1>1. PICK m \in Member : m = txn[r].who
  BY TxnFacts DEF TxnKnows, CommitApproval, CommitSpending
<1>2. txn[r].at \in 1..MaxTx /\ txn[r].id \in 0..MaxClaim /\ txn[r].sum \in Int
  BY TxnFacts, AmountAssumption DEF CommitApproval, CommitSpending, TxnKnows, TxnRec
<1>3. CASE CommitApproval(r)
  <2>1. PICK e : e = [at |-> txn[r].at, amount |-> Award, after |-> txn[r].sum, claim |-> txn[r].id]
    OBVIOUS
  <2>2. e \in Entry
    BY <1>2, <2>1, AmountAssumption DEF Entry
  <2>3. ledger' = [ledger EXCEPT ![m] = ledger[m] \cup {e}]
        /\ claim' = [claim EXCEPT ![m].status = "approved"]
    BY <1>1, <1>3, <2>1 DEF CommitApproval
  <2>4. e.at = txn[r].at /\ e.after = txn[r].sum /\ e.amount = Award /\ e.claim = txn[r].id
    BY <2>1
  <2> QED
    BY <1>1, <1>3, <2>2, <2>3, <2>4
<1>4. CASE ~CommitApproval(r)
  <2>1. PICK e : e = [at |-> txn[r].at, amount |-> -Price, after |-> txn[r].sum, claim |-> 0]
    OBVIOUS
  <2>2. e \in Entry
    BY <1>2, <2>1, AmountAssumption DEF Entry
  <2>3. ledger' = [ledger EXCEPT ![m] = ledger[m] \cup {e}] /\ claim' = claim
    BY <1>1, <1>4, <2>1 DEF CommitSpending
  <2>4. e.at = txn[r].at /\ e.after = txn[r].sum /\ e.amount = -Price /\ e.claim = 0
    BY <2>1
  <2> QED
    BY <1>1, <1>4, <2>2, <2>3, <2>4
<1> QED
  BY <1>3, <1>4

\* The new entry is the last, stores the old sum and its amount, and pays a claim
\* that nobody has paid.
LEMMA CommitStep ==
  ASSUME IInv, BooksFinite, NEW r \in Req, BooksKnown(txn[r]),
         CommitApproval(r) \/ CommitSpending(r),
         BalanceIsSum, PaidOnce, PaidIsPast
  PROVE  BooksStep
<1>1. PICK m \in Member, e \in Entry :
           /\ m = txn[r].who /\ e.at = txn[r].at /\ e.after = txn[r].sum
           /\ IF CommitApproval(r) THEN e.amount = Award /\ e.claim = txn[r].id
                                   ELSE e.amount = -Price /\ e.claim = 0
           /\ ledger' = [ledger EXCEPT ![m] = ledger[m] \cup {e}]
           /\ claim' = IF CommitApproval(r) THEN [claim EXCEPT ![m].status = "approved"] ELSE claim
  BY CommitWrites
<1>2. PICK S : S = ledger[m]
  OBVIOUS
<1>3. /\ ledger'[m] = S \cup {e} /\ \A x \in Member : x # m => ledger'[x] = ledger[x]
      /\ S \subseteq Entry /\ IsFiniteSet(S)
  BY <1>1, <1>2 DEF IInv, TypeOK, BooksFinite
<1>4. e.at \in Int /\ \A d \in S : d.at \in Int /\ d.at < e.at
  BY <1>1, <1>2, <1>3 DEF BooksKnown, CommitApproval, CommitSpending, Entry
<1>5. e \notin S /\ e.amount \in Int /\ Amounts(S)
  BY <1>3, <1>4 DEF Amounts, Entry
<1>6. Shown(S \cup {e}) = e.after
  BY <1>4, YoungestShown
<1>7. Total(S \cup {e}) = Total(S) + e.amount
  BY <1>5, TotalAdd
<1>8. LastBalance(m) = Total(S) /\ LastBalance(m) \in Nat
  BY <1>2, BalanceIs, LastBalanceNat
<1>9. e.after = LastBalance(m) + e.amount
  <2>1. CASE CommitApproval(r)
    BY <1>1, <2>1 DEF BooksKnown, CommitApproval
  <2>2. CASE ~CommitApproval(r)
    <3>1. e.after = LastBalance(m) - Price /\ e.amount = -Price
      BY <1>1, <2>2 DEF BooksKnown, CommitSpending
    <3> QED
      BY <1>8, <3>1, AmountAssumption
  <2> QED
    BY <2>1, <2>2
<1>10. BalanceIsSum'
  BY <1>3, <1>6, <1>7, <1>8, <1>9, BalanceIs
<1>11. CASE CommitApproval(r)
  <2>1. claim[m].id = e.claim /\ claim[m].status \in {"claimed", "submitted"}
    BY <1>1, <1>11 DEF BooksKnown, Exists, Reviewable, CommitApproval
  <2>2. /\ \A x \in Member : x # m => claim'[x] = claim[x]
        /\ claim'[m].status = "approved" /\ claim'[m].id = claim[m].id
    BY <1>1, <1>11 DEF IInv, TypeOK, Claim
  <2>3. \A d \in S : d.claim = e.claim => d.claim = 0
    BY <1>2, <2>1 DEF PaidIsPast
  <2>4. PaidOnce'
    <3> SUFFICES ASSUME NEW x \in Member, NEW d \in ledger'[x], NEW f \in ledger'[x],
                        d.claim = f.claim, d.claim # 0
                 PROVE  d = f
      BY DEF PaidOnce
    <3>1. CASE x = m
      BY <1>2, <1>3, <2>3, <3>1 DEF PaidOnce
    <3>2. CASE x # m
      BY <1>3, <3>2 DEF PaidOnce
    <3> QED
      BY <3>1, <3>2
  <2>5. PaidIsPast'
    <3> SUFFICES ASSUME NEW x \in Member, NEW d \in ledger'[x]
                 PROVE  /\ d.claim <= claim'[x].id
                        /\ d.claim = claim'[x].id /\ d.claim # 0 => claim'[x].status = "approved"
      BY DEF PaidIsPast
    <3>1. CASE x = m
      <4>1. claim[m].id \in Int
        BY DEF IInv, TypeOK, Claim
      <4> QED
        BY <1>2, <1>3, <2>1, <2>2, <3>1, <4>1 DEF PaidIsPast
    <3>2. CASE x # m
      BY <1>3, <2>2, <3>2 DEF PaidIsPast
    <3> QED
      BY <3>1, <3>2
  <2>6. RoomForNewClaim
    BY <2>1, <2>2 DEF RoomForNewClaim
  <2> QED
    BY <1>10, <2>4, <2>5, <2>6 DEF BooksStep
<1>12. CASE ~CommitApproval(r)
  <2>1. claim' = claim /\ e.claim = 0
    BY <1>1, <1>12
  <2>2. PaidOnce'
    <3> SUFFICES ASSUME NEW x \in Member, NEW d \in ledger'[x], NEW f \in ledger'[x],
                        d.claim = f.claim, d.claim # 0
                 PROVE  d = f
      BY DEF PaidOnce
    <3>1. CASE x = m
      BY <1>2, <1>3, <2>1, <3>1 DEF PaidOnce
    <3>2. CASE x # m
      BY <1>3, <3>2 DEF PaidOnce
    <3> QED
      BY <3>1, <3>2
  <2>3. PaidIsPast'
    <3> SUFFICES ASSUME NEW x \in Member, NEW d \in ledger'[x]
                 PROVE  /\ d.claim <= claim[x].id
                        /\ d.claim = claim[x].id /\ d.claim # 0 => claim[x].status = "approved"
      BY <2>1 DEF PaidIsPast
    <3>1. claim[x].id >= 0
      BY DEF IInv, TypeOK, Claim
    <3> QED
      BY <1>2, <1>3, <2>1, <3>1 DEF PaidIsPast
  <2>4. RoomForNewClaim
    BY <2>1 DEF RoomForNewClaim
  <2> QED
    BY <1>10, <2>2, <2>3, <2>4 DEF BooksStep
<1> QED
  BY <1>11, <1>12

\* An administrator's edit touches no claim and no entry.
LEMMA EditStep ==
  ASSUME EditTask \/ DeleteTask
  PROVE  UNCHANGED <<claim, ledger, stamp, lock, txn>>
BY DEF EditTask, DeleteTask

\* The steps of a request.
Prepares(r) ==
    \/ \E m \in Member : ClaimBegin(r, m) \/ ReadClaim(r, m) \/ ReviewBegin(r, m) \/ SpendBegin(r, m)
    \/ ~Idle(r) /\ (ClaimExists(r) \/ ClaimCount(r) \/ ApproveClaim(r) \/ ReadBalance(r) \/ Rollback(r))
Writes(r) == ClaimInsert(r) \/ CancelClaim(r) \/ SubmitClaim(r) \/ RejectClaim(r)
Commits(r) == CommitApproval(r) \/ CommitSpending(r)

LEMMA StepCases ==
  ASSUME [Next]_vars
  PROVE  \/ UNCHANGED vars
         \/ EditTask \/ DeleteTask
         \/ \E r \in Req : Prepares(r) \/ InsertEntry(r) \/ Writes(r) \/ Commits(r)
<1>1. ASSUME NEW r \in Req, ClaimExists(r) \/ ClaimCount(r) \/ ApproveClaim(r) \/ ReadBalance(r)
      PROVE  Prepares(r)
  BY <1>1 DEF Prepares, Idle, ClaimExists, ClaimCount, ApproveClaim, ReadBalance
<1>2. ASSUME NEW r \in Req, Abort(r) PROVE Prepares(r)
  BY <1>2 DEF Prepares, Abort
<1>3. ASSUME NEW r \in Req, NEW m \in Member,
             ClaimBegin(r, m) \/ ReadClaim(r, m) \/ ReviewBegin(r, m) \/ SpendBegin(r, m)
      PROVE  Prepares(r)
  BY <1>3 DEF Prepares
<1> QED
  BY <1>1, <1>2, <1>3 DEF Next, Writes, Commits

\* Claims and entries stay finitely many, and behind the clock.
LEMMA FiniteKept ==
  ASSUME IInv, BooksFinite, [Next]_vars
  PROVE  BooksFinite'
<1>0. stamp \in Nat /\ \A r \in Req : txn[r].at \in Nat
  BY AmountAssumption, TxnFacts DEF IInv, TypeOK, TxnRec
<1>1. ASSUME UNCHANGED <<claim, ledger, stamp>>, NEW r \in Req, NEW s,
             txn' = [txn EXCEPT ![r] = s], s.at \in {0, txn[r].at}
      PROVE  BooksFinite'
  <2>1. \A q \in Req : txn'[q].at <= stamp
    BY <1>0, <1>1 DEF IInv, TypeOK, BooksFinite
  <2> QED
    BY <1>1, <2>1 DEF BooksFinite, ActiveClaims
<1>2. CASE UNCHANGED vars \/ EditTask \/ DeleteTask
  <2>1. UNCHANGED <<claim, ledger, stamp, txn>>
    BY <1>2, EditStep DEF vars
  <2> QED
    BY <2>1 DEF BooksFinite, ActiveClaims
<1>3. ASSUME NEW r \in Req, NEW m \in Member,
             ClaimBegin(r, m) \/ ReadClaim(r, m) \/ ReviewBegin(r, m) \/ SpendBegin(r, m)
      PROVE  BooksFinite'
  <2>1. UNCHANGED <<task, claim, ledger, stamp>> /\ \E s : Moves(r, s) /\ s.at = txn[r].at
    BY <1>3, BeginKnown
  <2> QED
    BY <1>1, <2>1 DEF Moves
<1>4. ASSUME NEW r \in Req, ~Idle(r),
             ClaimExists(r) \/ ClaimCount(r) \/ ApproveClaim(r) \/ ReadBalance(r) \/ Rollback(r)
      PROVE  BooksFinite'
  <2>1. UNCHANGED <<claim, ledger, stamp>>
    BY <1>4 DEF ClaimExists, ClaimCount, ApproveClaim, ReadBalance, Rollback
  <2>2. \A q \in Req : txn'[q].at \in {0, txn[q].at}
    BY <1>4 DEF ClaimExists, ClaimCount, ApproveClaim, ReadBalance, Rollback, Finish, Goto, IdleTxn,
       IInv, TypeOK, TxnRec
  <2>3. \A q \in Req : txn'[q].at <= stamp
    BY <1>0, <2>2 DEF BooksFinite
  <2> QED
    BY <2>1, <2>3 DEF BooksFinite, ActiveClaims
<1>5. ASSUME NEW r \in Req, InsertEntry(r) PROVE BooksFinite'
  <2>1. /\ UNCHANGED <<task, claim, ledger>> /\ stamp' = stamp + 1
        /\ \E s : txn' = [txn EXCEPT ![r] = s] /\ s.at = stamp'
    BY <1>5, InsertKnown
  <2>2. \A q \in Req : txn'[q].at <= stamp'
    BY <1>0, <2>1 DEF IInv, TypeOK, BooksFinite
  <2>3. \A m \in Member : \A e \in ledger[m] : e.at <= stamp'
    BY <1>0, <2>1 DEF IInv, TypeOK, Entry, BooksFinite
  <2> QED
    BY <2>1, <2>2, <2>3 DEF BooksFinite, ActiveClaims
<1>6. ASSUME NEW r \in Req, Writes(r) PROVE BooksFinite'
  <2>1. ledger' = ledger /\ stamp' = stamp /\ txn' = [txn EXCEPT ![r] = IdleTxn] /\ IdleTxn.at = 0
    BY <1>6 DEF Writes, ClaimInsert, CancelClaim, SubmitClaim, RejectClaim, Finish, IdleTxn
  <2>2. \A q \in Req : txn'[q].at <= stamp
    BY <1>0, <2>1 DEF IInv, TypeOK, BooksFinite
  <2>3. \A x \in Member : x # txn[r].who => claim'[x] = claim[x]
    BY <1>6 DEF Writes, ClaimInsert, CancelClaim, SubmitClaim, RejectClaim, IInv, TypeOK
  <2>4. ActiveClaims' \subseteq ActiveClaims \cup {txn[r].who}
    BY <2>3 DEF ActiveClaims
  <2>5. IsFiniteSet(ActiveClaims')
    BY <2>4, FS_AddElement, FS_Subset DEF BooksFinite
  <2> QED
    BY <2>1, <2>2, <2>5 DEF BooksFinite
<1>7. ASSUME NEW r \in Req, Commits(r) PROVE BooksFinite'
  <2>1. PICK m \in Member, e \in Entry :
             /\ m = txn[r].who /\ e.at = txn[r].at
             /\ ledger' = [ledger EXCEPT ![m] = ledger[m] \cup {e}]
             /\ claim' = IF CommitApproval(r) THEN [claim EXCEPT ![m].status = "approved"] ELSE claim
    BY <1>7, CommitWrites DEF Commits
  <2>2. stamp' = stamp /\ txn' = [txn EXCEPT ![r] = IdleTxn] /\ IdleTxn.at = 0
    BY <1>7 DEF Commits, CommitApproval, CommitSpending, Finish, IdleTxn
  <2>3. \A q \in Req : txn'[q].at <= stamp
    BY <1>0, <2>2 DEF IInv, TypeOK, BooksFinite
  <2>4. ActiveClaims' \subseteq ActiveClaims
    BY <2>1 DEF ActiveClaims, IInv, TypeOK
  <2>5. \A x \in Member : IsFiniteSet(ledger'[x]) /\ \A d \in ledger'[x] : d.at <= stamp
    BY <1>0, <2>1, FS_AddElement DEF IInv, TypeOK, BooksFinite
  <2>6. IsFiniteSet(ActiveClaims')
    BY <2>4, FS_Subset DEF BooksFinite
  <2> QED
    BY <2>2, <2>3, <2>5, <2>6 DEF BooksFinite
<1> QED
  BY <1>2, <1>3, <1>4, <1>5, <1>6, <1>7, StepCases DEF Prepares

\* While nothing overlaps the step of a request keeps its promise, and what every
\* request knows is so.
LEMMA SerialStep ==
  ASSUME IInv, BooksFinite, [Next]_vars, Alone, Alone', task' # task => \A r \in Req : Idle(r),
         BalanceIsSum, PaidOnce, PaidIsPast, \A r \in Req : BooksKnown(txn[r])
  PROVE  BooksStep /\ \A r \in Req : BooksKnown(txn[r])'
<1>1. CASE UNCHANGED vars
  <2>1. UNCHANGED <<task, claim, ledger, txn>>
    BY <1>1 DEF vars
  <2>2. \A r \in Req : BooksKnown(txn[r])'
    <3> SUFFICES ASSUME NEW r \in Req PROVE BooksKnown(txn[r])'
      OBVIOUS
    <3>1. LastBalance(txn[r].who)' = LastBalance(txn[r].who) /\ ActiveClaims' = ActiveClaims
      BY <2>1 DEF LastBalance, ActiveClaims
    <3> QED
      BY <2>1, <3>1 DEF BooksKnown, Exists
  <2> QED
    BY <2>1, <2>2, QuietStep
<1>2. CASE EditTask \/ DeleteTask
  <2>1. UNCHANGED <<claim, ledger, txn>>
    BY <1>2, EditStep
  <2>2. \A r \in Req : BooksKnown(txn[r])'
    <3> SUFFICES ASSUME NEW r \in Req PROVE BooksKnown(txn[r])'
      OBVIOUS
    <3>1. LastBalance(txn[r].who)' = LastBalance(txn[r].who) /\ ActiveClaims' = ActiveClaims
      BY <2>1 DEF LastBalance, ActiveClaims
    <3>2. task' = task \/ txn[r].pc = "idle"
      BY DEF Idle
    <3> QED
      BY <2>1, <3>1, <3>2 DEF BooksKnown, Exists
  <2> QED
    BY <2>1, <2>2, QuietStep
<1>3. ASSUME NEW r \in Req, Prepares(r)
      PROVE  BooksStep /\ \A q \in Req : BooksKnown(txn[q])'
  <2>1. UNCHANGED <<task, claim, ledger>> /\ \E s : Moves(r, s)
    BY <1>3, BeginKnown, PrepareKnown DEF Prepares
  <2> QED
    BY <2>1, QuietStep, AllKnown
<1>4. ASSUME NEW r \in Req, InsertEntry(r)
      PROVE  BooksStep /\ \A q \in Req : BooksKnown(txn[q])'
  <2>1. UNCHANGED <<task, claim, ledger>> /\ \E s : Moves(r, s)
    BY <1>4, InsertKnown
  <2> QED
    BY <2>1, QuietStep, AllKnown
<1>5. ASSUME NEW r \in Req, Writes(r) \/ Commits(r)
      PROVE  BooksStep /\ \A q \in Req : BooksKnown(txn[q])'
  <2>1. txn[r].pc # "idle" /\ txn' = [txn EXCEPT ![r] = IdleTxn]
    BY <1>5 DEF Writes, Commits, ClaimInsert, CancelClaim, SubmitClaim, RejectClaim, CommitApproval,
       CommitSpending, Finish
  <2>2. Moves(r, IdleTxn)
    BY <2>1, IdleKnown DEF Moves
  <2>3. BooksStep
    BY <1>5, WriteStep, CommitStep DEF Writes, Commits
  <2> QED
    BY <2>2, <2>3, AllKnown
<1> QED
  BY <1>1, <1>2, <1>3, <1>4, <1>5, StepCases

\* The books are in order at first, and stay so.
LEMMA SerialStarts == SerialInit => IInv /\ SerialInv
<1> SUFFICES ASSUME SerialInit PROVE IInv /\ SerialInv
  OBVIOUS
<1>1. IInv
  BY InitIInv DEF SerialInit
<1>2. /\ \A m \in Member : ledger[m] = {} /\ claim[m].status = "none"
      /\ \A r \in Req : txn[r] = IdleTxn
      /\ stamp = 0
  BY DEF SerialInit, Init
<1>3. ActiveClaims = {}
  BY <1>2 DEF ActiveClaims
<1>4. BooksFinite
  <2>1. IdleTxn.at = 0
    BY DEF IdleTxn
  <2> QED
    BY <1>2, <1>3, <2>1, FS_EmptySet DEF BooksFinite
<1>5. BalanceIsSum
  BY <1>2, TotalEmpty, BalanceIs DEF Shown
<1>6. PaidOnce /\ PaidIsPast
  BY <1>2 DEF PaidOnce, PaidIsPast
<1>7. Alone
  BY <1>2, IdleTyped DEF Alone, Idle
<1> QED
  BY <1>1, <1>2, <1>4, <1>5, <1>6, <1>7, IdleKnown DEF SerialInv

LEMMA SerialKept ==
  IInv /\ SerialInv /\ [SerialNext]_<<vars, serial>> =>
    /\ IInv' /\ SerialInv'
    /\ serial' => RoomForNewClaim /\ BalanceIsSum' /\ PaidOnce'
<1> SUFFICES ASSUME IInv, SerialInv, [SerialNext]_<<vars, serial>>
             PROVE  /\ IInv' /\ SerialInv'
                    /\ serial' => RoomForNewClaim /\ BalanceIsSum' /\ PaidOnce'
  OBVIOUS
<1>1. [Next]_vars
  BY DEF SerialNext
<1>2. IInv' /\ BooksFinite'
  BY <1>1, NextInv, FiniteKept DEF SerialInv
<1>3. CASE serial'
  <2>1. serial /\ Alone /\ Alone' /\ (task' # task => \A r \in Req : Idle(r))
    <3>1. CASE SerialNext
      BY <1>3, <3>1 DEF SerialNext, SerialInv
    <3>2. CASE UNCHANGED <<vars, serial>>
      BY <1>3, <3>2 DEF SerialInv, Alone, Idle, vars
    <3> QED
      BY <3>1, <3>2
  <2>2. BooksStep /\ \A r \in Req : BooksKnown(txn[r])'
    BY <1>1, <2>1, SerialStep DEF SerialInv
  <2> QED
    BY <1>2, <2>1, <2>2 DEF SerialInv, BooksStep
<1>4. CASE ~serial'
  BY <1>2, <1>4 DEF SerialInv
<1> QED
  BY <1>3, <1>4

\* As long as requests come one at a time, and no edit of the task comes between two
\* statements of a request, every balance is the sum of its ledger, a claim is
\* paid for once and a task is claimed by no more than its limit.
THEOREM SpecSerialBooksKept == SerialSpec => SerialBooksKept
<1>1. SerialSpec => [](IInv /\ SerialInv)
  BY SerialStarts, SerialKept, PTL DEF SerialSpec
<1>2. IInv /\ SerialInv /\ [SerialNext]_<<vars, serial>> =>
        [serial' => RoomForNewClaim /\ BalanceIsSum' /\ PaidOnce']_<<vars, serial>>
  BY SerialKept
<1> QED
  BY <1>1, <1>2, PTL DEF SerialSpec, SerialBooksKept
=============================================================================

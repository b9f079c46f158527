----------------------------- MODULE TaskPoints -----------------------------
(***************************************************************************)
(* Claims on a task and the points they earn: app/services/task_service.py, *)
(* app/services/points_service.py and their repositories in                 *)
(* app/repositories/tools_repo.py.                                          *)
(*                                                                          *)
(* Claims on different tasks share nothing but the ledger, so one task is   *)
(* modelled.  Every request runs one READ COMMITTED transaction: each read  *)
(* is an action of its own, and the last write and its commit are one.      *)
(***************************************************************************)
EXTENDS Integers, FiniteSets, FiniteSetsExt

CONSTANTS
    Member,   \* users who claim
    Req,      \* request slots
    None,     \* "nobody"
    Limits,   \* the values of max_claimants an administrator sets
    Award,    \* points of the task
    Price,    \* the amount deduct_points is called with
    MaxClaim, \* bound on the claims of one member
    MaxTx     \* bound on ledger entries

ASSUME NoneAssumption == None \notin Member \cup Req
ASSUME AmountAssumption ==
    /\ Award \in Nat \ {0}
    /\ Price \in Nat \ {0}
    /\ Limits \in SUBSET Nat /\ Limits # {}
    /\ MaxClaim \in Nat
    /\ MaxTx \in Nat

VARIABLES
    task,   \* row of tasks
    claim,  \* task_claims: at most one row per member (ux_task_claims_unique)
    ledger, \* points_transactions of each member
    stamp,  \* created_at of the last ledger entry inserted, committed or not
    lock,   \* row lock on a member's claim
    txn     \* the open transaction of each request slot

vars == <<task, claim, ledger, stamp, lock, txn>>

ClaimStatus == {"none", "claimed", "submitted", "approved", "rejected"}

Task == [status: {"draft", "published", "closed", "deleted"}, max: Limits]

\* `id` tells a member's successive rows apart.
Claim == [status: ClaimStatus, id: 0..MaxClaim]

\* `claim` is the claim the entry pays, 0 for none.
Entry == [at: 1..MaxTx, amount: Int, after: Int, claim: 0..MaxClaim]

TxnRec == [pc: {"idle", "exists", "count", "insert", "delete", "submit", "reject",
                "approve", "balance", "pay", "paid", "spend", "spent"},
           who: Member \cup {None}, id: 0..MaxClaim, max: Limits, sum: Int, at: 0..MaxTx]

IdleTxn == [pc |-> "idle", who |-> None, id |-> 0,
            max |-> CHOOSE n \in Limits : TRUE, sum |-> 0, at |-> 0]

Init ==
    /\ task \in [status: {"draft"}, max: Limits]
    /\ claim = [m \in Member |-> [status |-> "none", id |-> 0]]
    /\ ledger = [m \in Member |-> {}]
    /\ stamp = 0
    /\ lock = [m \in Member |-> None]
    /\ txn = [r \in Req |-> IdleTxn]

-----------------------------------------------------------------------------
(* Reads. *)

Idle(r) == txn[r].pc = "idle"

\* count_active_claims
ActiveClaims == {m \in Member : claim[m].status \in {"claimed", "submitted"}}

\* Mistake: one claim too many.
HasRoomOffByOne(n, max) == n <= max

HasRoom(n, max) == n < max

\* Mistake: the highest balance instead of the last one.
LastBalanceHighest(m) ==
    IF ledger[m] = {} THEN 0 ELSE Max({e.after : e \in ledger[m]})

\* PointsRepository.last_balance: the entry with the latest created_at.
LastBalance(m) ==
    IF ledger[m] = {} THEN 0
    ELSE (CHOOSE e \in ledger[m] : \A d \in ledger[m] : d.at <= e.at).after

\* PointsRepository.leaderboard takes max(balance_after).
LeaderboardBalance(m) ==
    IF ledger[m] = {} THEN 0 ELSE Max({e.after : e \in ledger[m]})

Exists(m, id) == claim[m].status # "none" /\ claim[m].id = id

Finish(r) == txn' = [txn EXCEPT ![r] = IdleTxn]
Goto(r, pc) == txn' = [txn EXCEPT ![r].pc = pc]
Begin(r, pc, m) == txn' = [txn EXCEPT ![r].pc = pc, ![r].who = m, ![r].id = claim[m].id]

Released(r) == [m \in Member |-> IF lock[m] = r THEN None ELSE lock[m]]

\* The transaction is dropped with its writes and locks.
Rollback(r) ==
    /\ Finish(r)
    /\ lock' = Released(r)
    /\ UNCHANGED <<task, claim, ledger, stamp>>

-----------------------------------------------------------------------------
(* Administration of the task. *)

\* create_task, publish_task, close_task and update_task: one row is read and
\* written; an edit sets status and limit to what the form holds.
EditTask ==
    /\ task.status # "deleted"
    /\ \E s \in {"draft", "published", "closed"}, n \in Limits :
         task' = [status |-> s, max |-> n]
    /\ UNCHANGED <<claim, ledger, stamp, lock, txn>>

\* delete_task: the foreign key of task_claims forbids it while there are
\* claims.
DeleteTask ==
    /\ task.status # "deleted"
    /\ \A m \in Member : claim[m].status = "none"
    /\ task' = [task EXCEPT !.status = "deleted"]
    /\ UNCHANGED <<claim, ledger, stamp, lock, txn>>

-----------------------------------------------------------------------------
(* claim_task: four statements, no lock. *)

ClaimBegin(r, m) ==
    /\ Idle(r) /\ task.status = "published" /\ claim[m].id < MaxClaim
    /\ txn' = [txn EXCEPT ![r].pc = "exists", ![r].who = m, ![r].max = task.max]
    /\ UNCHANGED <<task, claim, ledger, stamp, lock>>

ClaimExists(r) ==
    /\ txn[r].pc = "exists"
    /\ IF claim[txn[r].who].status = "none" THEN Goto(r, "count") ELSE Finish(r)
    /\ UNCHANGED <<task, claim, ledger, stamp, lock>>

ClaimCount(r) ==
    /\ txn[r].pc = "count"
    /\ IF HasRoom(Cardinality(ActiveClaims), txn[r].max) THEN Goto(r, "insert") ELSE Finish(r)
    /\ UNCHANGED <<task, claim, ledger, stamp, lock>>

\* The INSERT fails when the member's row exists or the task is gone; it
\* waits for an open transaction on the same member's row.
ClaimInsert(r) ==
    /\ txn[r].pc = "insert" /\ lock[txn[r].who] = None /\ claim[txn[r].who].id < MaxClaim
    /\ LET m == txn[r].who IN
         claim' = IF claim[m].status = "none" /\ task.status # "deleted"
                    THEN [claim EXCEPT ![m] = [status |-> "claimed", id |-> @.id + 1]]
                    ELSE claim
    /\ Finish(r)
    /\ UNCHANGED <<task, ledger, stamp, lock>>

-----------------------------------------------------------------------------
(* The member's other operations: the status is read first, the row is      *)
(* written by its id later.                                                 *)

ReadClaim(r, m) ==
    /\ Idle(r) /\ claim[m].status = "claimed"
    /\ \E pc \in {"delete", "submit"} : Begin(r, pc, m)
    /\ UNCHANGED <<task, claim, ledger, stamp, lock>>

\* cancel_claim and cancel_task_claim.
CancelClaim(r) ==
    /\ txn[r].pc = "delete" /\ lock[txn[r].who] = None
    /\ LET m == txn[r].who IN
         claim' = IF Exists(m, txn[r].id) THEN [claim EXCEPT ![m].status = "none"] ELSE claim
    /\ Finish(r)
    /\ UNCHANGED <<task, ledger, stamp, lock>>

SubmitClaim(r) ==
    /\ txn[r].pc = "submit" /\ lock[txn[r].who] = None
    /\ LET m == txn[r].who IN
         claim' = IF Exists(m, txn[r].id) THEN [claim EXCEPT ![m].status = "submitted"] ELSE claim
    /\ Finish(r)
    /\ UNCHANGED <<task, ledger, stamp, lock>>

-----------------------------------------------------------------------------
(* review_claim and the ledger. *)

Reviewable(s) == s \in {"claimed", "submitted"}

ReviewBegin(r, m) ==
    /\ Idle(r) /\ Reviewable(claim[m].status)
    /\ \E pc \in {"reject", "approve"} : Begin(r, pc, m)
    /\ UNCHANGED <<task, claim, ledger, stamp, lock>>

RejectClaim(r) ==
    /\ txn[r].pc = "reject" /\ lock[txn[r].who] = None
    /\ LET m == txn[r].who IN
         claim' = IF Exists(m, txn[r].id) THEN [claim EXCEPT ![m].status = "rejected"] ELSE claim
    /\ Finish(r)
    /\ UNCHANGED <<task, ledger, stamp, lock>>

\* Mistake: the new status is committed before the points are added.
ApproveCommitted(r) ==
    /\ txn[r].pc = "approve" /\ lock[txn[r].who] = None
    /\ \/ /\ Exists(txn[r].who, txn[r].id)
          /\ claim' = [claim EXCEPT ![txn[r].who].status = "approved"]
          /\ Goto(r, "balance")
          /\ UNCHANGED <<task, ledger, stamp, lock>>
       \/ ~Exists(txn[r].who, txn[r].id) /\ Rollback(r)

\* The UPDATE of the claim is flushed (get_task runs a query) and holds the
\* row lock; it fails when the row is gone.
ApproveClaim(r) ==
    /\ txn[r].pc = "approve" /\ lock[txn[r].who] = None
    /\ \/ /\ Exists(txn[r].who, txn[r].id)
          /\ lock' = [lock EXCEPT ![txn[r].who] = r]
          /\ Goto(r, "balance")
          /\ UNCHANGED <<task, claim, ledger, stamp>>
       \/ ~Exists(txn[r].who, txn[r].id) /\ Rollback(r)

\* add_points reads the balance, without a lock on it.
ReadBalance(r) ==
    /\ txn[r].pc = "balance"
    /\ txn' = [txn EXCEPT ![r].pc = "pay", ![r].sum = LastBalance(txn[r].who) + Award]
    /\ UNCHANGED <<task, claim, ledger, stamp, lock>>

\* create_transaction: created_at is taken by the INSERT, not by the commit.
InsertEntry(r) ==
    /\ txn[r].pc \in {"pay", "spend"} /\ stamp < MaxTx
    /\ stamp' = stamp + 1
    /\ txn' = [txn EXCEPT ![r].pc = IF @ = "pay" THEN "paid" ELSE "spent",
                          ![r].at = stamp + 1]
    /\ UNCHANGED <<task, claim, ledger, lock>>

\* The commit of review_claim: the entry appears with the claim's new status.
CommitApproval(r) ==
    /\ txn[r].pc = "paid"
    /\ LET s == txn[r] IN
         /\ ledger' = [ledger EXCEPT ![s.who] = @ \cup
              {[at |-> s.at, amount |-> Award, after |-> s.sum, claim |-> s.id]}]
         /\ claim' = [claim EXCEPT ![s.who].status = "approved"]
    /\ Finish(r)
    /\ lock' = Released(r)
    /\ UNCHANGED <<task, stamp>>

\* Mistake: the balance is not compared with the amount.
AffordableAlways(balance) == balance >= 0

Affordable(balance) == balance >= Price

\* deduct_points
SpendBegin(r, m) ==
    /\ Idle(r) /\ Affordable(LastBalance(m))
    /\ txn' = [txn EXCEPT ![r].pc = "spend", ![r].who = m,
                          ![r].sum = LastBalance(m) - Price]
    /\ UNCHANGED <<task, claim, ledger, stamp, lock>>

\* The commit of deduct_points.
CommitSpending(r) ==
    /\ txn[r].pc = "spent"
    /\ LET s == txn[r] IN
         ledger' = [ledger EXCEPT ![s.who] = @ \cup
              {[at |-> s.at, amount |-> -Price, after |-> s.sum, claim |-> 0]}]
    /\ Finish(r)
    /\ UNCHANGED <<task, claim, stamp, lock>>

-----------------------------------------------------------------------------

Abort(r) == ~Idle(r) /\ Rollback(r)

Next ==
    \/ EditTask \/ DeleteTask
    \/ \E r \in Req :
         \/ \E m \in Member : ClaimBegin(r, m) \/ ReadClaim(r, m) \/ ReviewBegin(r, m)
                                \/ SpendBegin(r, m)
         \/ ClaimExists(r) \/ ClaimCount(r) \/ ClaimInsert(r)
         \/ CancelClaim(r) \/ SubmitClaim(r) \/ RejectClaim(r)
         \/ ApproveClaim(r) \/ ReadBalance(r) \/ InsertEntry(r)
         \/ CommitApproval(r) \/ CommitSpending(r)
         \/ Abort(r)

Spec == Init /\ [][Next]_vars

-----------------------------------------------------------------------------
(* Properties. *)

\* The rows have the shapes of their tables, and a claim is locked by the
\* one open approval of it.
TypeOK ==
    /\ task \in Task
    /\ claim \in [Member -> Claim]
    /\ ledger \in [Member -> SUBSET Entry]
    /\ stamp \in 0..MaxTx
    /\ lock \in [Member -> Req \cup {None}]
    /\ txn \in [Req -> TxnRec]
    /\ \A m \in Member, r \in Req :
         lock[m] = r <=> txn[r].pc \in {"balance", "pay", "paid"} /\ txn[r].who = m

\* An approved claim has its points: approval and payment are one commit,
\* also when reviews, cancellations and crashes interleave.
ApprovedIsPaid ==
    \A m \in Member :
        claim[m].status = "approved" => \E e \in ledger[m] : e.claim = claim[m].id

\* No stored balance is negative, also when deductions start from a balance
\* that is stale.
NeverOverdrawn == \A m \in Member : \A e \in ledger[m] : e.after >= 0

\* What a transaction knows at each point of its code: whose claim it is
\* about, that the claim it approves is still there, when its entry was
\* inserted, and that the balance it will store is not negative.
TxnKnows(s) ==
    /\ s.pc # "idle" => s.who \in Member
    /\ s.pc \in {"balance", "pay", "paid"} => Exists(s.who, s.id)
    /\ s.pc \in {"paid", "spent"} => s.at # 0
    /\ s.pc \in {"pay", "paid", "spend", "spent"} => s.sum >= 0

\* Every ledger that has entries has a last one.
LastEntryExists ==
    \A m \in Member : ledger[m] # {} =>
        \E e \in ledger[m] : \A d \in ledger[m] : d.at <= e.at

\* The inductive invariant behind ApprovedIsPaid and NeverOverdrawn.
IInv ==
    /\ TypeOK /\ ApprovedIsPaid /\ NeverOverdrawn /\ LastEntryExists
    /\ \A r \in Req : TxnKnows(txn[r])

\* A claim that a step adds has room in the task.
RoomForNewClaim ==
    \A m \in Member :
        claim[m].status = "none" /\ claim'[m].status = "claimed"
          => Cardinality(ActiveClaims') <= task.max

\* A claim is only added while the task has room for it.
ClaimHasRoom == [][RoomForNewClaim]_vars

\* What PointsTransaction says of balance_after: the balance after the change.
BalanceIsSum ==
    \A m \in Member : LastBalance(m) = MapThenSumSet(LAMBDA e : e.amount, ledger[m])

\* A claim is paid for once.
PaidOnce ==
    \A m \in Member : \A d, e \in ledger[m] : d.claim = e.claim /\ d.claim # 0 => d = e

\* What leaderboard says it returns: members with their balance.
LeaderboardShowsBalance == \A m \in Member : LeaderboardBalance(m) = LastBalance(m)

=============================================================================

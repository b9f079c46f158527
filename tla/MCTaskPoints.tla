---------------------------- MODULE MCTaskPoints ----------------------------
(* Small instances of TaskPoints for TLC. *)
EXTENDS TaskPoints, TLC

SymmetryMembers == Permutations(Member)
Symmetry == Permutations(Member) \cup Permutations(Req)

\* History: no two requests, edits of the task among them, have been under way
\* at the same time so far.
VARIABLE serial

Alone == \A r, q \in Req : ~Idle(r) /\ ~Idle(q) => r = q

SerialInit == Init /\ serial = TRUE
SerialNext ==
    /\ Next
    /\ serial' = (serial /\ Alone' /\ (task' # task => \A r \in Req : Idle(r)))
SerialSpec == SerialInit /\ [][SerialNext]_<<vars, serial>>

\* Requests that do not overlap keep every balance the sum of its ledger, pay a
\* claim once and respect the limit of the task, through cancellations, new claims
\* and reviews of stale claims.
SerialBooksKept ==
    [][serial' => RoomForNewClaim /\ BalanceIsSum' /\ PaidOnce']_<<vars, serial>>

\* What holds while nothing has overlapped, and makes the property so: what a
\* request has read is still what the tables hold.

\* The claims that count and the entries of a ledger are finitely many, and the
\* clock has reached every entry.
BooksFinite ==
    /\ IsFiniteSet(ActiveClaims)
    /\ \A m \in Member : IsFiniteSet(ledger[m]) /\ \A e \in ledger[m] : e.at <= stamp
    /\ \A r \in Req : txn[r].at <= stamp

\* A claim that has been paid for is approved, or an older row.
PaidIsPast ==
    \A m \in Member : \A e \in ledger[m] :
        /\ e.claim <= claim[m].id
        /\ e.claim = claim[m].id /\ e.claim # 0 => claim[m].status = "approved"

\* What an open request knows.
BooksKnown(s) ==
    /\ s.pc \in {"delete", "submit", "reject", "approve", "balance", "pay", "paid"} =>
         Exists(s.who, s.id) /\ Reviewable(claim[s.who].status)
    /\ s.pc \in {"pay", "paid"} => s.sum = LastBalance(s.who) + Award
    /\ s.pc \in {"spend", "spent"} => s.sum = LastBalance(s.who) - Price
    /\ s.pc \in {"paid", "spent"} => \A e \in ledger[s.who] : e.at < s.at
    /\ s.pc \in {"exists", "count", "insert"} => s.max = task.max
    /\ s.pc = "insert" => HasRoom(Cardinality(ActiveClaims), s.max)

SerialInv ==
    /\ BooksFinite
    /\ serial => /\ Alone /\ BalanceIsSum /\ PaidOnce /\ PaidIsPast
                 /\ \A r \in Req : BooksKnown(txn[r])

\* The task is open, one member's claim was approved and nothing else happened.
RewardedInit ==
    \E m \in Member :
      /\ task \in [status: {"published"}, max: Limits]
      /\ claim = [x \in Member |-> IF x = m THEN [status |-> "approved", id |-> 1]
                                   ELSE [status |-> "none", id |-> 0]]
      /\ ledger = [x \in Member |-> IF x = m
                     THEN {[at |-> 1, amount |-> Award, after |-> Award, claim |-> 1]}
                     ELSE {}]
      /\ stamp = 1
      /\ lock = [x \in Member |-> None]
      /\ txn = [r \in Req |-> IdleTxn]
      /\ serial = TRUE

RewardedSpec == RewardedInit /\ [][SerialNext]_<<vars, serial>>
=============================================================================

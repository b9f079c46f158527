--------------------------- MODULE Community_proofs ---------------------------
(***************************************************************************)
(* Whatever overlaps, the like and favourite counters never show more than  *)
(* there are marks; and while nothing has overlapped every counter is the   *)
(* number of its rows.  For every number of users, posts, comments and      *)
(* requests.                                                                *)
(***************************************************************************)
EXTENDS MCCommunity, FiniteSetTheorems, TLAPS

\* A request that ended.
LEMMA IdleTyped == IdleTxn \in TxnRec /\ IdleTxn.op = "none"
  BY DEF IdleTxn, TxnRec

\* The statuses reviews write.
LEMMA ReviewTyped == DOMAIN Review = {"hide", "restore", "publish", "archive"}
                     /\ \A op \in DOMAIN Review : Review[op] \in Status
  BY DEF Review, Status

\* A counter stays a number.
LEMMA AdjustedTyped == ASSUME NEW n \in Nat, NEW d \in Int PROVE Adjusted(n, d) \in Nat
  BY DEF Adjusted

\* Removing an element.
LEMMA Removed ==
    ASSUME NEW S, NEW e, IsFiniteSet(S)
    PROVE  /\ Cardinality(S) \in Nat /\ Cardinality(S \ {e}) \in Nat
           /\ Cardinality(S \ {e}) >= Cardinality(S) - 1
<1>1. IsFiniteSet(S \ {e}) /\ Cardinality(S) \in Nat
  BY FS_RemoveElement, FS_CardinalityType
<1>2. Cardinality(S \ {e}) \in Nat
  BY <1>1, FS_CardinalityType
<1>3. CASE e \in S
  <2>1. Cardinality(S \ {e}) = Cardinality(S) - 1
    BY <1>3, FS_RemoveElement
  <2> QED
    BY <1>1, <1>2, <2>1
<1>4. CASE e \notin S
  <2>1. S \ {e} = S
    BY <1>4
  <2> QED
    BY <1>1, <1>2, <2>1
<1> QED
  BY <1>3, <1>4

\* A cascade removes the rows it starts from, and only rows.
LEMMA CascadeStarts == ASSUME NEW S, S \subseteq Target
                       PROVE  S \subseteq Cascade(S) /\ Cascade(S) \subseteq Target
  BY DEF Cascade

\* The initial states are well formed.
LEMMA InitIInv == Init => IInv
<1> SUFFICES ASSUME Init PROVE IInv
  OBVIOUS
<1>1. TypeOK
  <2>1. PICK p \in Post, u \in User, c \in Category \cup {None} :
          /\ status = [t \in Target |-> IF t = p THEN "published" ELSE "none"]
          /\ author = [t \in Target |-> IF t = p THEN u ELSE None]
          /\ under = [t \in Target |-> IF t = p THEN c ELSE None]
          /\ posts = [k \in Category |-> IF k = c THEN 1 ELSE 0]
    BY DEF Init
  <2>2. /\ status \in [Target -> Status \cup {"none", "gone"}]
        /\ author \in [Target -> User \cup {None}]
        /\ under \in [Target -> Post \cup Category \cup {None}]
        /\ posts \in [Category -> Nat \cup {None}]
    BY <2>1 DEF Status
  <2>3. /\ \A q \in Post : under[q] \in Category \cup {None}
        /\ \A k \in Comment : under[k] \in Post \cup {None}
    BY <2>1, TargetAssumption DEF Target
  <2>4. /\ parent \in [Comment -> Comment \cup {None}]
        /\ by \in [Mark -> [Target -> SUBSET User]]
        /\ count \in [Mark -> [Target -> Nat]]
        /\ erased \in [Mark -> [Target -> Nat]]
        /\ replies \in [Target -> Nat]
        /\ txn \in [Req -> TxnRec]
    BY IdleTyped DEF Init
  <2> QED
    BY <2>2, <2>3, <2>4 DEF TypeOK
<1>2. TxnOK
  BY IdleTyped, ReviewTyped DEF Init, TxnOK
<1>3. Placed
  BY NoneAssumption, TargetAssumption DEF Init, Placed, Exists, Status, Target
<1>4. CountsCovered
  <2>1. Cardinality({}) = 0
    BY FS_EmptySet
  <2> QED
    BY <2>1 DEF Init, CountsCovered
<1>5. MarksReal
  BY IdleTyped DEF Init, MarksReal, Mark
<1> QED
  BY <1>1, <1>2, <1>3, <1>4, <1>5 DEF IInv

\* The beginnings of the operations: a request loads and nothing else changes.
LEMMA BeginTyped ==
    ASSUME IInv, NEW r \in Req, Begin(r)
    PROVE  /\ txn' \in [Req -> TxnRec] /\ TxnOK' /\ txn' = [txn EXCEPT ![r] = txn'[r]]
           /\ txn'[r].op \in Mark => status[txn'[r].target] # "none"
           /\ UNCHANGED <<rows, marks, replies, posts>>
<1> USE DEF IInv, TypeOK
<1> DEFINE Good == /\ txn' \in [Req -> TxnRec] /\ TxnOK' /\ txn' = [txn EXCEPT ![r] = txn'[r]]
                   /\ txn'[r].op \in Mark => status[txn'[r].target] # "none"
<1>1. ASSUME NEW x, x \in TxnRec, Starts(r, x),
             x.op \in Mark => status[x.target] # "none",
             x.op # "none" => x.user \in User /\ x.target \in Target,
             x.op = "create" => x.target \in Post /\ x.new \in Status,
             x.op \in {"create", "delete", "hardDelete"} => x.place \in Category \cup {None},
             x.op = "comment" => x.target \in Comment /\ x.place \in Post,
             x.op \in {"deleteComment", "hardDeleteComment"} => x.place \in Post \cup {None},
             x.op \in DOMAIN Review \cup {"update", "delete", "hardDelete",
                                    "deleteComment", "hardDeleteComment"} => x.new \in Status
      PROVE  Good
  BY <1>1 DEF Starts, TxnOK
<1> HIDE DEF Good
<1>2. PICK u \in User :
      \/ \E k \in Mark, t \in Target : BeginToggle(r, k, u, t)
      \/ \E p \in Post :
           \/ \E c \in Category \cup {None}, st \in Status : BeginCreate(r, u, p, c, st)
           \/ \E op \in {"delete", "hardDelete"} : BeginDelete(r, op, u, p)
           \/ \E c \in Comment, q \in Comment \cup {None} : BeginComment(r, u, c, p, q)
      \/ \E op \in DOMAIN Review \cup {"update"}, t \in Target, st \in Status :
           BeginSetStatus(r, op, u, t, st)
      \/ \E op \in {"deleteComment", "hardDeleteComment"}, c \in Comment :
           BeginDeleteComment(r, op, u, c)
  BY DEF Begin
<1>3. ASSUME NEW k \in Mark, NEW t \in Target, BeginToggle(r, k, u, t)
      PROVE  Good
  <2> DEFINE b == u \in by[k][t]
  <2> DEFINE x == [IdleTxn EXCEPT !.op = k, !.user = u, !.target = t, !.had = b]
  <2>0. b \in BOOLEAN
    OBVIOUS
  <2> HIDE DEF b
  <2>1. x \in TxnRec
    BY <2>0 DEF IdleTxn, TxnRec, OpName
  <2>2. x.op = k /\ x.user = u /\ x.target = t
    BY DEF IdleTxn
  <2>3. Starts(r, x)
    BY <1>3 DEF BeginToggle, b
  <2>4. k \notin {"create", "delete", "hardDelete", "comment", "deleteComment",
                  "hardDeleteComment", "update", "hide", "restore", "publish", "archive", "none"}
    BY DEF Mark
  <2> HIDE DEF x
  <2>5. x.op \notin DOMAIN Review
    BY <2>2, <2>4, ReviewTyped
  <2>6. status[t] = "published"
    BY <1>3 DEF BeginToggle
  <2> QED
    BY <2>1, <2>2, <2>3, <2>4, <2>5, <2>6, <1>1
<1>4. ASSUME NEW p \in Post, NEW c \in Category \cup {None}, NEW st \in Status,
             BeginCreate(r, u, p, c, st)
      PROVE  Good
  <2> DEFINE n == IF c = None THEN 0 ELSE posts[c]
  <2> DEFINE x == [IdleTxn EXCEPT !.op = "create", !.user = u, !.target = p, !.new = st,
                                  !.place = c, !.n = n]
  <2>0. n \in Nat
    BY <1>4 DEF BeginCreate
  <2>3. Starts(r, x)
    BY <1>4 DEF BeginCreate
  <2> HIDE DEF n
  <2>1. x \in TxnRec
    BY <2>0 DEF IdleTxn, TxnRec, OpName, PostOp, Target
  <2>2. x.op = "create" /\ x.user = u /\ x.target = p /\ x.new = st /\ x.place = c
    BY DEF IdleTxn
  <2> HIDE DEF x
  <2> QED
    BY <2>1, <2>2, <2>3, <1>1, ReviewTyped DEF Target, Mark
<1>5. ASSUME NEW p \in Post, NEW op \in {"delete", "hardDelete"}, BeginDelete(r, op, u, p)
      PROVE  Good
  <2> DEFINE c == IF status[p] \in {"published", "hidden"} THEN under[p] ELSE None
  <2> DEFINE n == IF c = None THEN 0 ELSE posts[c]
  <2> DEFINE x == [IdleTxn EXCEPT !.op = op, !.user = u, !.target = p, !.old = status[p],
                                  !.new = "deleted", !.place = c, !.n = n]
  <2>3. Starts(r, x) /\ status[p] \in Status
    BY <1>5 DEF BeginDelete, Exists
  <2>0. n \in Nat /\ c \in Category \cup {None}
    BY <2>3 DEF Placed, Exists
  <2> HIDE DEF n, c
  <2>1. x \in TxnRec
    BY <2>0, <2>3 DEF IdleTxn, TxnRec, OpName, PostOp, Target, Status
  <2>2. x.op = op /\ x.user = u /\ x.target = p /\ x.new = "deleted" /\ x.place = c
    BY DEF IdleTxn
  <2> HIDE DEF x
  <2> QED
    BY <2>0, <2>1, <2>2, <2>3, <1>1, ReviewTyped DEF Target, Status, Mark
<1>6. ASSUME NEW p \in Post, NEW c \in Comment, NEW q \in Comment \cup {None},
             BeginComment(r, u, c, p, q)
      PROVE  Good
  <2> DEFINE m == IF q = None THEN 0 ELSE replies[q]
  <2> DEFINE x == [IdleTxn EXCEPT !.op = "comment", !.user = u, !.target = c, !.place = p,
                                  !.parent = q, !.n = replies[p], !.m = m]
  <2>0. m \in Nat /\ replies[p] \in Nat
    BY DEF Target
  <2>3. Starts(r, x)
    BY <1>6 DEF BeginComment
  <2> HIDE DEF m
  <2>1. x \in TxnRec
    BY <2>0 DEF IdleTxn, TxnRec, OpName, CommentOp, Target
  <2>2. x.op = "comment" /\ x.user = u /\ x.target = c /\ x.place = p
    BY DEF IdleTxn
  <2> HIDE DEF x
  <2> QED
    BY <2>1, <2>2, <2>3, <1>1, ReviewTyped DEF Target, Mark
<1>7. ASSUME NEW op \in DOMAIN Review \cup {"update"}, NEW t \in Target, NEW st \in Status,
             BeginSetStatus(r, op, u, t, st)
      PROVE  Good
  <2> DEFINE x == [IdleTxn EXCEPT !.op = op, !.user = u, !.target = t,
                                  !.old = status[t], !.new = st]
  <2>3. Starts(r, x) /\ status[t] \in Status
    BY <1>7 DEF BeginSetStatus, Exists
  <2>1. x \in TxnRec
    BY <2>3 DEF IdleTxn, TxnRec, OpName, PostOp
  <2>2. x.op = op /\ x.user = u /\ x.target = t /\ x.new = st
    BY DEF IdleTxn
  <2> HIDE DEF x
  <2> QED
    BY <2>1, <2>2, <2>3, <1>1, ReviewTyped DEF Mark
<1>8. ASSUME NEW op \in {"deleteComment", "hardDeleteComment"}, NEW c \in Comment,
             BeginDeleteComment(r, op, u, c)
      PROVE  Good
  <2> DEFINE p == IF op = "deleteComment" THEN under[c] ELSE None
  <2> DEFINE n == IF op = "deleteComment" THEN replies[under[c]] ELSE 0
  <2> DEFINE x == [IdleTxn EXCEPT !.op = op, !.user = u, !.target = c, !.old = status[c],
                                  !.new = "deleted", !.place = p, !.n = n]
  <2>3. Starts(r, x) /\ status[c] \in Status
    BY <1>8 DEF BeginDeleteComment, Exists
  <2>4. under[c] \in Post
    BY <2>3 DEF Placed, Exists
  <2>0. n \in Nat /\ p \in Post \cup {None}
    BY <2>4 DEF Target
  <2> HIDE DEF n, p
  <2>1. x \in TxnRec
    BY <2>0, <2>3 DEF IdleTxn, TxnRec, OpName, CommentOp, Target, Status
  <2>2. x.op = op /\ x.user = u /\ x.target = c /\ x.new = "deleted" /\ x.place = p
    BY DEF IdleTxn
  <2> HIDE DEF x
  <2> QED
    BY <2>0, <2>1, <2>2, <2>3, <1>1, ReviewTyped DEF Target, Status, Mark
<1>9. Good
  BY <1>2, <1>3, <1>4, <1>5, <1>6, <1>7, <1>8
<1>10. UNCHANGED <<rows, marks, replies, posts>>
  BY <1>2 DEF BeginToggle, BeginCreate, BeginDelete, BeginComment, BeginSetStatus,
              BeginDeleteComment
<1> QED
  BY <1>9, <1>10 DEF Good

\* A request that ends leaves the others as they are.
LEMMA EndsTyped ==
    ASSUME IInv, NEW r \in Req, Ends(r)
    PROVE  txn' \in [Req -> TxnRec] /\ TxnOK'
  BY IdleTyped, ReviewTyped DEF Ends, IInv, TypeOK, TxnOK

\* No step but a cascade touches what exists, and new rows are where they belong.
LEMMA PlacedKept ==
    ASSUME IInv, status' \in [Target -> Status \cup {"none", "gone"}],
           UNCHANGED <<under, posts>>, \A t \in Target : Exists(t)' => Exists(t)
    PROVE  Placed'
  BY DEF IInv, Placed, Target, Exists

\* Toggling a mark keeps its counter covered: the counter moves by at most what
\* the set of marks moves by, or it falls.
LEMMA ToggleCovered ==
    ASSUME IInv, NEW r \in Req, CommitToggle(r)
    PROVE  TypeOK' /\ CountsCovered'
<1> DEFINE x == txn[r]
<1> USE DEF IInv, TypeOK
<1>1. /\ x.op \in Mark /\ x.user \in User /\ x.target \in Target /\ x \in TxnRec
      /\ x.had \/ x.user \notin by[x.op][x.target]
      /\ by' = [by EXCEPT ![x.op][x.target] = IF x.had THEN @ \ {x.user} ELSE @ \cup {x.user}]
      /\ AdjustCount(x.op, x.target, IF x.had THEN -1 ELSE 1)
      /\ Ends(r)
      /\ UNCHANGED <<rows, erased, replies, posts>>
  <2>1. x.op \in Mark /\ x.op # "none" /\ Unique(x)
    BY DEF CommitToggle, Mark
  <2> QED
    BY <2>1 DEF CommitToggle, Unique, TxnOK
<1> HIDE DEF x
<1> DEFINE d == IF x.had THEN -1 ELSE 1
<1>2. by' \in [Mark -> [Target -> SUBSET User]]
  BY <1>1
<1>3. count' \in [Mark -> [Target -> Nat]]
  <2> DEFINE n == count[x.op][x.target]
  <2> DEFINE v == IF Exists(x.target) THEN Adjusted(n, d) ELSE n
  <2>1. count' = [count EXCEPT ![x.op][x.target] = v]
    BY <1>1 DEF AdjustCount
  <2>2. v \in Nat
    <3>1. n \in Nat /\ d \in Int
      BY <1>1
    <3> QED
      BY <3>1, AdjustedTyped
  <2> HIDE DEF v
  <2> QED
    BY <1>1, <2>1, <2>2
<1>4. TypeOK'
  BY <1>1, <1>2, <1>3, EndsTyped DEF rows
<1>5. ASSUME NEW k \in Mark, NEW t \in Target, status[t] # "gone"
      PROVE  count'[k][t] <= Cardinality(by'[k][t]) + erased[k][t]
  <2>0. t = x.target /\ k = x.op => Exists(t)
    BY <1>1, <1>5 DEF Exists, MarksReal, x
  <2>1. CASE k = x.op /\ t = x.target
    <3>1. IsFiniteSet(by[k][t]) /\ Cardinality(by[k][t]) \in Nat
      BY UserAssumption, FS_Subset, FS_CardinalityType
    <3>5. count[k][t] \in Nat /\ erased[k][t] \in Nat
      OBVIOUS
    <3>2. count[k][t] <= Cardinality(by[k][t]) + erased[k][t]
      BY <1>5 DEF CountsCovered
    <3>3. CASE x.had
      <4>1. by'[k][t] = by[k][t] \ {x.user} /\ count'[k][t] = Adjusted(count[k][t], -1)
        BY <1>1, <2>0, <2>1, <3>3 DEF AdjustCount
      <4>2. Cardinality(by[k][t] \ {x.user}) >= Cardinality(by[k][t]) - 1
            /\ Cardinality(by[k][t] \ {x.user}) \in Nat
        BY <3>1, Removed
      <4> QED
        BY <3>1, <3>2, <3>5, <4>1, <4>2 DEF Adjusted
    <3>4. CASE ~x.had
      <4>1. by'[k][t] = by[k][t] \cup {x.user} /\ count'[k][t] = Adjusted(count[k][t], 1)
        BY <1>1, <2>0, <2>1, <3>4 DEF AdjustCount
      <4>2. Cardinality(by[k][t] \cup {x.user}) = Cardinality(by[k][t]) + 1
        BY <1>1, <2>1, <3>1, <3>4, FS_AddElement
      <4> QED
        BY <3>1, <3>2, <4>1, <4>2 DEF Adjusted
    <3> QED
      BY <3>3, <3>4
  <2>2. CASE ~(k = x.op /\ t = x.target)
    <3>1. by'[k][t] = by[k][t] /\ count'[k][t] = count[k][t]
      BY <1>1, <2>2 DEF AdjustCount
    <3> QED
      BY <1>5, <3>1 DEF CountsCovered
  <2> QED
    BY <2>1, <2>2
<1> QED
  BY <1>1, <1>4, <1>5 DEF CountsCovered, Exists, rows

\* An erased account takes its marks along, which the history accounts for.
LEMMA EraseCovered ==
    ASSUME IInv, NEW u \in User, EraseUser(u)
    PROVE  CountsCovered' /\ TypeOK' /\ Placed'
<1> USE DEF IInv, TypeOK
<1> DEFINE S == {t \in Target : Exists(t) /\ author[t] = u}
<1>0. status' = [t \in Target |-> IF t \in Cascade(S) THEN "gone" ELSE status[t]]
  BY DEF EraseUser, Remove
<1> HIDE DEF S
<1>1. status' \in [Target -> Status \cup {"none", "gone"}]
  BY <1>0
<1>2. \A t \in Target : Exists(t)' => Exists(t)
  BY <1>0 DEF Exists, Status
<1>3. by' \in [Mark -> [Target -> SUBSET User]] /\ erased' \in [Mark -> [Target -> Nat]]
  BY DEF EraseUser
<1>4. TypeOK'
  BY <1>1, <1>3 DEF EraseUser
<1>5. Placed'
  BY <1>1, <1>2, PlacedKept DEF EraseUser
<1>6. ASSUME NEW k \in Mark, NEW t \in Target, status[t] # "gone"
      PROVE  count'[k][t] <= Cardinality(by'[k][t]) + erased'[k][t]
  <2>1. IsFiniteSet(by[k][t]) /\ Cardinality(by[k][t]) \in Nat
    BY UserAssumption, FS_Subset, FS_CardinalityType
  <2>2. count[k][t] <= Cardinality(by[k][t]) + erased[k][t]
    BY <1>6 DEF CountsCovered
  <2>3. /\ by'[k][t] = by[k][t] \ {u} /\ count'[k][t] = count[k][t]
        /\ erased'[k][t] = IF u \in by[k][t] THEN erased[k][t] + 1 ELSE erased[k][t]
    BY DEF EraseUser
  <2>4. CASE u \in by[k][t]
    <3>1. Cardinality(by[k][t] \ {u}) = Cardinality(by[k][t]) - 1
      BY <2>1, <2>4, FS_RemoveElement
    <3> QED
      BY <2>1, <2>2, <2>3, <2>4, <3>1
  <2>5. CASE u \notin by[k][t]
    <3>1. by'[k][t] = by[k][t]
      BY <2>3, <2>5
    <3> QED
      BY <2>2, <2>3, <2>5, <3>1
  <2> QED
    BY <2>4, <2>5
<1>7. \A t \in Target : status'[t] # "gone" => status[t] # "gone"
  BY <1>0
<1> QED
  BY <1>4, <1>5, <1>6, <1>7 DEF CountsCovered

\* The counters of marks and the marks are left alone.
LEMMA CoveredKept ==
    ASSUME IInv, UNCHANGED marks, \A k \in Mark, t \in Target :
             status'[t] # "gone" => status[t] # "gone"
    PROVE  CountsCovered'
  BY DEF IInv, CountsCovered, marks

\* The statuses a step writes: a row is never un-created and never comes back
\* from a cascade.
LEMMA MarksRealKept ==
    ASSUME IInv, TxnOK', NEW r \in Req,
           \A t \in Target : status[t] # "none" => status'[t] # "none",
           txn' = [txn EXCEPT ![r] = txn'[r]],
           txn'[r].op \in Mark => status[txn'[r].target] # "none"
    PROVE  MarksReal'
<1> SUFFICES ASSUME NEW q \in Req, txn'[q].op \in Mark
             PROVE  status'[txn'[q].target] # "none"
  BY DEF MarksReal
<1>1. txn'[q].target \in Target
  BY DEF TxnOK, Mark
<1>2. status[txn'[q].target] # "none"
  BY DEF MarksReal, IInv, TypeOK
<1> QED
  BY <1>1, <1>2

\* Every operation of a request keeps the invariant.
LEMMA RequestKeeps ==
    ASSUME IInv, NEW r \in Req, Begin(r) \/ Commit(r) \/ Abort(r)
    PROVE  IInv'
<1> USE DEF IInv, TypeOK
<1> DEFINE x == txn[r]
<1>1. CASE Begin(r)
  <2>1. /\ txn' \in [Req -> TxnRec] /\ TxnOK' /\ txn' = [txn EXCEPT ![r] = txn'[r]]
        /\ txn'[r].op \in Mark => status[txn'[r].target] # "none"
        /\ UNCHANGED <<rows, marks, replies, posts>>
    BY <1>1, BeginTyped
  <2>2. TypeOK'
    BY <2>1 DEF rows, marks
  <2>3. Placed'
    BY <2>1 DEF Placed, Exists, rows
  <2>4. CountsCovered'
    BY <2>1, CoveredKept DEF rows
  <2>7. MarksReal'
    BY <2>1, MarksRealKept DEF rows
  <2> QED
    BY <2>1, <2>2, <2>3, <2>4, <2>7
<1>2. ASSUME Ends(r), status' \in [Target -> Status \cup {"none", "gone"}],
             \A t \in Target : status[t] # "none" => status'[t] # "none"
      PROVE  TxnOK' /\ MarksReal'
  <2>1. TxnOK' /\ txn'[r] = IdleTxn /\ txn' = [txn EXCEPT ![r] = txn'[r]]
    BY <1>2, EndsTyped DEF Ends
  <2> QED
    BY <1>2, <2>1, IdleTyped, MarksRealKept DEF Mark
<1>3. CASE Abort(r)
  <2>1. Ends(r) /\ UNCHANGED <<rows, marks, replies, posts>>
    BY <1>3 DEF Abort
  <2>2. TypeOK' /\ Placed'
    BY <2>1, EndsTyped DEF rows, marks, Placed, Exists
  <2>3. CountsCovered'
    BY <2>1, CoveredKept DEF rows
  <2> QED
    BY <1>2, <2>1, <2>2, <2>3 DEF rows
<1>4. CASE CommitToggle(r)
  <2>1. Ends(r) /\ UNCHANGED <<rows, posts>>
    BY <1>4 DEF CommitToggle
  <2>2. Placed'
    BY <2>1 DEF rows, Placed, Exists
  <2> QED
    BY <1>2, <1>4, <2>1, <2>2, ToggleCovered DEF rows
<1>5. CASE CommitCreate(r)
  <2>1. /\ x.target \in Post /\ x.new \in Status /\ x.place \in Category \cup {None}
        /\ x.user \in User /\ x.n \in Nat
    BY <1>5 DEF CommitCreate, TxnOK, TxnRec
  <2>2. /\ status[x.target] = "none" /\ Ends(r)
        /\ x.place # None => posts[x.place] # None
        /\ status' = [status EXCEPT ![x.target] = x.new]
        /\ author' = [author EXCEPT ![x.target] = x.user]
        /\ under' = [under EXCEPT ![x.target] = x.place]
        /\ posts' = IF x.place = None THEN posts ELSE [posts EXCEPT ![x.place] = x.n + 1]
        /\ UNCHANGED <<parent, marks, replies>>
    BY <1>5 DEF CommitCreate
  <2> HIDE DEF x
  <2>6. /\ status' \in [Target -> Status \cup {"none", "gone"}]
        /\ author' \in [Target -> User \cup {None}]
        /\ under' \in [Target -> Post \cup Category \cup {None}]
        /\ posts' \in [Category -> Nat \cup {None}]
    BY <2>1, <2>2 DEF Target
  <2>7. /\ \A p \in Post : under'[p] \in Category \cup {None}
        /\ \A c \in Comment : under'[c] \in Post \cup {None}
    BY <2>1, <2>2, TargetAssumption DEF Target
  <2>3. TypeOK'
    BY <2>2, <2>6, <2>7, EndsTyped DEF marks
  <2>4. Placed'
    BY <2>1, <2>2, NoneAssumption, TargetAssumption DEF Placed, Exists, Target, Status
  <2>5. CountsCovered'
    BY <2>1, <2>2, CoveredKept DEF Target, Status
  <2> QED
    BY <1>2, <2>1, <2>2, <2>3, <2>4, <2>5 DEF Target, Status
<1>6. CASE CommitSetStatus(r)
  <2>1. /\ x.target \in Target /\ x.new \in Status /\ Exists(x.target) /\ Ends(r)
        /\ status' = [status EXCEPT ![x.target] = Flushed(@, x.old, x.new)]
        /\ UNCHANGED <<author, under, parent, marks, replies, posts>>
    BY <1>6, ReviewTyped DEF CommitSetStatus, TxnOK
  <2> HIDE DEF x
  <2>2. status' \in [Target -> Status \cup {"none", "gone"}]
        /\ \A t \in Target : Exists(t)' <=> Exists(t)
    BY <2>1 DEF Flushed, Exists
  <2>3. \A t \in Target : (status[t] # "none" => status'[t] # "none")
                          /\ (status'[t] # "gone" => status[t] # "gone")
    BY <2>1 DEF Flushed, Exists, Status
  <2>4. TypeOK' /\ Placed'
    BY <2>1, <2>2, EndsTyped, PlacedKept DEF marks
  <2> QED
    BY <1>2, <2>1, <2>2, <2>3, <2>4, CoveredKept
<1>7. CASE CommitDelete(r)
  <2>1. /\ x.target \in Target /\ x.new \in Status /\ Exists(x.target) /\ Ends(r)
        /\ x.n \in Nat /\ x.place \in Category \cup {None}
        /\ status' = [status EXCEPT ![x.target] = Flushed(@, x.old, x.new)]
        /\ posts' = IF x.place = None THEN posts
                    ELSE [posts EXCEPT ![x.place] = Flushed(@, x.n, Adjusted(x.n, -1))]
        /\ UNCHANGED <<author, under, parent, marks, replies>>
    BY <1>7 DEF CommitDelete, TxnOK, TxnRec
  <2> HIDE DEF x
  <2>0. Adjusted(x.n, -1) \in Nat
    BY <2>1 DEF Adjusted
  <2>2. status' \in [Target -> Status \cup {"none", "gone"}]
        /\ \A t \in Target : Exists(t)' <=> Exists(t)
    BY <2>1 DEF Flushed, Exists
  <2>3. \A t \in Target : (status[t] # "none" => status'[t] # "none")
                          /\ (status'[t] # "gone" => status[t] # "gone")
    BY <2>1 DEF Flushed, Exists, Status
  <2>5. posts' \in [Category -> Nat \cup {None}]
        /\ \A c \in Category : posts[c] # None => posts'[c] # None
    BY <2>0, <2>1, NoneAssumption DEF Flushed
  <2>4. TypeOK'
    BY <2>1, <2>2, <2>5, EndsTyped DEF marks
  <2>6. Placed'
    BY <2>1, <2>2, <2>5 DEF Placed, Target
  <2> QED
    BY <1>2, <2>1, <2>2, <2>3, <2>4, <2>6, CoveredKept
<1>8. CASE CommitComment(r)
  <2>1. /\ x.target \in Comment /\ x.place \in Post /\ x.parent \in Comment \cup {None}
        /\ x.user \in User /\ x.n \in Nat /\ x.m \in Nat
    BY <1>8 DEF CommitComment, TxnOK, TxnRec
  <2>2. /\ status[x.target] = "none" /\ Ends(r)
        /\ status' = [status EXCEPT ![x.target] = "published"]
        /\ author' = [author EXCEPT ![x.target] = x.user]
        /\ under' = [under EXCEPT ![x.target] = x.place]
        /\ parent' = [parent EXCEPT ![x.target] = x.parent]
        /\ replies' = [t \in Target |-> CASE t = x.place -> x.n + 1
                                         [] t = x.parent -> x.m + 1
                                         [] OTHER -> replies[t]]
        /\ UNCHANGED <<marks, posts>>
    BY <1>8 DEF CommitComment
  <2> HIDE DEF x
  <2>7. replies' \in [Target -> Nat]
    BY <2>1, <2>2
  <2>3. TypeOK'
    BY <2>1, <2>2, <2>7, EndsTyped, TargetAssumption DEF marks, Target, Status
  <2>4. Placed'
    BY <2>1, <2>2, TargetAssumption DEF Placed, Exists, Target, Status
  <2>5. CountsCovered'
    BY <2>1, <2>2, CoveredKept DEF Target, Status
  <2> QED
    BY <1>2, <2>1, <2>2, <2>3, <2>4, <2>5 DEF Target, Status
<1>9. CASE CommitDeleteComment(r)
  <2>1. /\ x.target \in Target /\ x.new \in Status /\ Exists(x.target) /\ Ends(r)
        /\ x.n \in Nat /\ x.place \in Post \cup {None}
        /\ status' = [status EXCEPT ![x.target] = Flushed(@, x.old, x.new)]
        /\ replies' = IF x.place = None THEN replies
                      ELSE [replies EXCEPT ![x.place] = Flushed(@, x.n, Adjusted(x.n, -1))]
        /\ UNCHANGED <<author, under, parent, marks, posts>>
    BY <1>9 DEF CommitDeleteComment, TakeReply, TxnOK, TxnRec
  <2> HIDE DEF x
  <2>0. Adjusted(x.n, -1) \in Nat
    BY <2>1 DEF Adjusted
  <2>2. status' \in [Target -> Status \cup {"none", "gone"}]
        /\ \A t \in Target : Exists(t)' <=> Exists(t)
    BY <2>1 DEF Flushed, Exists
  <2>3. \A t \in Target : (status[t] # "none" => status'[t] # "none")
                          /\ (status'[t] # "gone" => status[t] # "gone")
    BY <2>1 DEF Flushed, Exists, Status
  <2>5. replies' \in [Target -> Nat]
    BY <2>0, <2>1 DEF Flushed
  <2>4. TypeOK' /\ Placed'
    BY <2>1, <2>2, <2>5, EndsTyped, PlacedKept DEF marks
  <2> QED
    BY <1>2, <2>1, <2>2, <2>3, <2>4, CoveredKept
<1> QED
  BY <1>1, <1>3, <1>4, <1>5, <1>6, <1>7, <1>8, <1>9 DEF Commit

\* A category takes its posts along.
LEMMA DeleteCategoryKeeps ==
    ASSUME IInv, NEW c \in Category, DeleteCategory(c)
    PROVE  IInv'
<1> USE DEF IInv, TypeOK
<1> DEFINE S == {p \in Post : Exists(p) /\ under[p] = c}
<1>1. /\ posts' = [posts EXCEPT ![c] = None]
      /\ status' = [t \in Target |-> IF t \in Cascade(S) THEN "gone" ELSE status[t]]
      /\ UNCHANGED <<author, under, parent, marks, replies, txn>>
  BY DEF DeleteCategory, Remove
<1>2. S \subseteq Cascade(S)
  BY CascadeStarts DEF Target
<1>3. /\ status' \in [Target -> Status \cup {"none", "gone"}]
      /\ \A t \in Target : Exists(t)' => Exists(t)
      /\ \A t \in Target : (status[t] # "none" => status'[t] # "none")
                          /\ (status'[t] # "gone" => status[t] # "gone")
  BY <1>1 DEF Exists, Status
<1>4. \A p \in Post : Exists(p)' => Exists(p) /\ under[p] # c
  BY <1>1, <1>2, <1>3 DEF Exists, Status, Target
<1> HIDE DEF S
<1>5. TypeOK'
  BY <1>1, <1>3 DEF marks
<1>6. Placed'
  BY <1>1, <1>3, <1>4 DEF Placed, Target
<1>7. TxnOK' /\ MarksReal'
  <2>1. TxnOK'
    BY <1>1 DEF TxnOK
  <2> QED
    BY <1>1, <1>3, <2>1 DEF MarksReal, TxnOK, Mark
<1> QED
  BY <1>1, <1>3, <1>5, <1>6, <1>7, CoveredKept

\* An erased account leaves the open requests as they are.
LEMMA EraseKeeps ==
    ASSUME IInv, NEW u \in User, EraseUser(u)
    PROVE  IInv'
<1>1. txn' = txn /\ \A t \in Target : status[t] # "none" => status'[t] # "none"
  BY DEF EraseUser, Remove
<1>2. TxnOK'
  BY <1>1 DEF IInv, TxnOK
<1>3. MarksReal'
  BY <1>1, <1>2 DEF IInv, MarksReal, TxnOK, Mark
<1> QED
  BY <1>2, <1>3, EraseCovered DEF IInv

\* The inductive invariant: types, what each open request holds, posts and comments
\* that exist are in a category and under a post that exist, and no counter of likes
\* or favourites exceeds its marks and those erased with accounts, for every number
\* of members, contents and requests.  Of the other counters it says their type.
THEOREM Invariance == Spec => []IInv
<1>1. IInv /\ [Next]_vars => IInv'
  <2> SUFFICES ASSUME IInv, [Next]_vars PROVE IInv'
    OBVIOUS
  <2>1. CASE UNCHANGED vars
    BY <2>1 DEF vars, rows, marks, IInv, TypeOK, TxnOK, Placed, MarksReal, CountsCovered, Exists
  <2>2. CASE Next
    BY <2>2, RequestKeeps, DeleteCategoryKeeps, EraseKeeps DEF Next
  <2> QED
    BY <2>1, <2>2
<1> QED
  BY <1>1, InitIInv, PTL DEF Spec

\* A like or favourite counter never shows more than the marks there are and
\* those that went with an account.
THEOREM CountsAreCovered == Spec => []CountsCovered
<1>1. IInv => CountsCovered
  BY DEF IInv
<1> QED
  BY <1>1, Invariance, PTL

-----------------------------------------------------------------------------
(* Requests that come one at a time. *)

\* A set of at most one element has no two.
LEMMA OneAtMost ==
  ASSUME NEW S, IsFiniteSet(S), Cardinality(S) <= 1, NEW x \in S, NEW y \in S
  PROVE  x = y
<1>1. Cardinality({x}) = 1 /\ Cardinality({y}) = 1
  BY FS_Singleton
<1>2. Cardinality(S) \in Nat /\ Cardinality({x}) <= Cardinality(S)
  BY FS_CardinalityType, FS_Subset
<1>3. {x} = S
  BY <1>1, <1>2, FS_Subset
<1> QED
  BY <1>3

\* A step is about one request, or about none.
LEMMA OneMoves ==
  ASSUME IInv, Next
  PROVE  \/ UNCHANGED txn
         \/ \E r \in Req : txn' = [txn EXCEPT ![r] = txn'[r]] 
                      /\ (Begin(r) \/ (~Idle(r) /\ txn'[r] = IdleTxn))
<1>1. ASSUME NEW r \in Req, Begin(r)
      PROVE  txn' = [txn EXCEPT ![r] = txn'[r]]
  BY <1>1, BeginTyped
<1>2. ASSUME NEW r \in Req, Commit(r) \/ Abort(r)
      PROVE  txn' = [txn EXCEPT ![r] = txn'[r]] /\ txn'[r] = IdleTxn /\ ~Idle(r)
  <2>1. Ends(r) /\ ~Idle(r)
    BY <1>2, ReviewTyped DEF Idle, Mark, Commit, Abort, CommitToggle, CommitCreate, CommitSetStatus, CommitDelete,
       CommitComment, CommitDeleteComment
  <2> QED
    BY <2>1 DEF Ends, IInv, TypeOK
<1>3. ASSUME NEW c \in Category, DeleteCategory(c)
      PROVE  UNCHANGED txn
  BY <1>3 DEF DeleteCategory
<1>4. ASSUME NEW u \in User, EraseUser(u)
      PROVE  UNCHANGED txn
  BY <1>4 DEF EraseUser
<1> QED
  BY <1>1, <1>2, <1>3, <1>4 DEF Next

\* While requests come one at a time, no two are open.
LEMMA OpenKept ==
  ASSUME SerialInv, SerialNext
  PROVE  /\ IsFiniteSet({r \in Req : ~Idle(r)})'
         /\ serial' => serial /\ \A q, r \in Req : ~Idle(q)' /\ ~Idle(r)' => q = r
<1> DEFINE S == {r \in Req : ~Idle(r)}
           T == {r \in Req : txn'[r].op # "none"}
<1>1. IsFiniteSet(S) /\ Next
  BY DEF SerialInv, SerialNext
<1>2. IsFiniteSet(T)
  <2>1. CASE UNCHANGED txn
    <3>1. T = S
      BY <2>1 DEF Idle
    <3> QED
      BY <1>1, <3>1
  <2>2. CASE \E r \in Req : txn' = [txn EXCEPT ![r] = txn'[r]]
    <3>1. PICK r \in Req : txn' = [txn EXCEPT ![r] = txn'[r]]
      BY <2>2
    <3>2. T \subseteq S \cup {r}
      BY <3>1 DEF Idle, SerialInv, IInv, TypeOK
    <3>3. IsFiniteSet(S \cup {r})
      BY <1>1, FS_AddElement
    <3> QED
      BY <3>2, <3>3, FS_Subset
  <2> QED
    BY <1>1, <2>1, <2>2, OneMoves DEF SerialInv
<1>3. serial' => serial /\ Cardinality(T) <= 1
  BY DEF SerialNext
<1>4. serial' => serial /\ \A q, r \in T : q = r
  <2> SUFFICES ASSUME serial', NEW q \in T, NEW r \in T PROVE serial /\ q = r
    BY <1>3
  <2>1. serial /\ Cardinality(T) <= 1
    BY <1>3
  <2> HIDE DEF T
  <2> QED
    BY <1>2, <2>1, OneAtMost
<1> QED
  BY <1>2, <1>4 DEF Idle
\* A request that begins has loaded what the rows say.
LEMMA BeginLoads ==
  ASSUME SerialInv, NEW r \in Req, Begin(r)
  PROVE  About(r)' /\ Loaded(r)' /\ ~Idle(r)'
<1> USE DEF SerialInv, IInv, TypeOK
<1> DEFINE x == txn'[r]
<1>0. UNCHANGED <<status, author, under, parent, by, count, erased, replies, posts>>
  BY BeginTyped DEF rows, marks
<1>1. ASSUME x.op \in Mark, x.had = (x.user \in by[x.op][x.target])
      PROVE  About(r)' /\ Loaded(r)' /\ ~Idle(r)'
  <2>1. x.op \notin DOMAIN Review \cup PostOp \cup CommentOp
                   \cup {"publish", "archive", "hide", "restore", "none"}
    BY <1>1, ReviewTyped DEF Mark, PostOp, CommentOp
  <2> QED
    BY <1>0, <1>1, <2>1 DEF Idle, About, Loaded, CommentOp
<1>2. ASSUME x.op \in PostOp \cup {"publish", "archive"}, x.target \in Post,
             x.op \in {"publish", "archive"} => x.new # "deleted"
      PROVE  About(r)' /\ Loaded(r)' /\ ~Idle(r)'
  <2>1. x.op \notin Mark \cup CommentOp \cup {"hide", "restore", "none"}
    BY <1>2 DEF Mark, PostOp, CommentOp
  <2>2. x.op \in DOMAIN Review => x.op \in {"publish", "archive"}
    BY <2>1, ReviewTyped
  <2> QED
    BY <1>2, <2>1, <2>2 DEF Idle, About, Loaded, CommentOp
<1>3. ASSUME x.op \in {"hide", "restore"}, x.new # "deleted", x.old = status[x.target]
      PROVE  About(r)' /\ Loaded(r)' /\ ~Idle(r)'
  <2>1. x.op \notin Mark \cup CommentOp \cup PostOp \cup {"publish", "archive"}
    BY <1>3 DEF Mark, PostOp, CommentOp
  <2> QED
    BY <1>0, <1>3, <2>1 DEF Idle, About, Loaded, CommentOp
<1>4. ASSUME x.op = "comment", x.target \in Comment, x.n = replies[x.place]
      PROVE  About(r)' /\ Loaded(r)' /\ ~Idle(r)'
  <2>1. x.op \notin Mark \cup PostOp \cup DOMAIN Review
    BY <1>4, ReviewTyped DEF Mark, PostOp
  <2> QED
    BY <1>0, <1>4, <2>1 DEF Idle, About, Loaded
<1>5. ASSUME x.op \in {"deleteComment", "hardDeleteComment"}, x.target \in Comment,
             x.old = status[x.target], x.new = "deleted",
             x.op = "hardDeleteComment" => x.place = None,
             x.op = "deleteComment" => /\ x.old # "deleted" /\ x.place = under[x.target]
                                       /\ x.n = replies[x.place]
      PROVE  About(r)' /\ Loaded(r)' /\ ~Idle(r)'
  <2>1. x.op \notin Mark \cup PostOp \cup DOMAIN Review
    BY <1>5, ReviewTyped DEF Mark, PostOp
  <2> QED
    BY <1>0, <1>5, <2>1 DEF Idle, About, Loaded
<1>6. ASSUME NEW z, Starts(r, z) PROVE x = z
  BY <1>6 DEF Starts
<1> HIDE DEF x
<1>7. PICK u \in User :
      \/ \E k \in Mark, t \in Target : BeginToggle(r, k, u, t)
      \/ \E p \in Post :
           \/ \E c \in Category \cup {None}, st \in Status : BeginCreate(r, u, p, c, st)
           \/ \E op \in {"delete", "hardDelete"} : BeginDelete(r, op, u, p)
           \/ \E c \in Comment, q \in Comment \cup {None} : BeginComment(r, u, c, p, q)
      \/ \E op \in DOMAIN Review \cup {"update"}, t \in Target, st \in Status :
           BeginSetStatus(r, op, u, t, st)
      \/ \E op \in {"deleteComment", "hardDeleteComment"}, c \in Comment :
           BeginDeleteComment(r, op, u, c)
  BY DEF Begin
<1>8. ASSUME NEW k \in Mark, NEW t \in Target, BeginToggle(r, k, u, t)
      PROVE  About(r)' /\ Loaded(r)' /\ ~Idle(r)'
  <2>1. PICK z : z = [IdleTxn EXCEPT !.op = k, !.user = u, !.target = t, !.had = u \in by[k][t]]
    OBVIOUS
  <2>2. x = z
    BY <1>6, <1>8, <2>1 DEF BeginToggle
  <2>3. z.op = k /\ z.user = u /\ z.target = t /\ z.had = (u \in by[k][t])
    BY <2>1 DEF IdleTxn
  <2> QED
    BY <1>1, <2>2, <2>3
<1>9. ASSUME NEW p \in Post, NEW c \in Category \cup {None}, NEW st \in Status,
             BeginCreate(r, u, p, c, st)
      PROVE  About(r)' /\ Loaded(r)' /\ ~Idle(r)'
  <2>1. PICK z : z = [IdleTxn EXCEPT !.op = "create", !.user = u, !.target = p, !.new = st,
                        !.place = c, !.n = IF c = None THEN 0 ELSE posts[c]]
    OBVIOUS
  <2>2. x = z
    BY <1>6, <1>9, <2>1 DEF BeginCreate
  <2>3. z.op = "create" /\ z.target = p
    BY <2>1 DEF IdleTxn
  <2> QED
    BY <1>2, <2>2, <2>3 DEF PostOp
<1>10. ASSUME NEW p \in Post, NEW op \in {"delete", "hardDelete"}, BeginDelete(r, op, u, p)
       PROVE  About(r)' /\ Loaded(r)' /\ ~Idle(r)'
  <2>0. PICK c : c = IF status[p] \in {"published", "hidden"} THEN under[p] ELSE None
    OBVIOUS
  <2>1. PICK z : z = [IdleTxn EXCEPT !.op = op, !.user = u, !.target = p, !.old = status[p],
                        !.new = "deleted", !.place = c, !.n = IF c = None THEN 0 ELSE posts[c]]
    OBVIOUS
  <2>2. x = z
    BY <1>6, <1>10, <2>0, <2>1 DEF BeginDelete
  <2>3. z.op = op /\ z.target = p
    BY <2>1 DEF IdleTxn
  <2> QED
    BY <1>2, <2>2, <2>3 DEF PostOp
<1>11. ASSUME NEW p \in Post, NEW c \in Comment, NEW q \in Comment \cup {None},
              BeginComment(r, u, c, p, q)
       PROVE  About(r)' /\ Loaded(r)' /\ ~Idle(r)'
  <2>1. PICK z : z = [IdleTxn EXCEPT !.op = "comment", !.user = u, !.target = c, !.place = p,
                        !.parent = q, !.n = replies[p],
                        !.m = IF q = None THEN 0 ELSE replies[q]]
    OBVIOUS
  <2>2. x = z
    BY <1>6, <1>11, <2>1 DEF BeginComment
  <2>3. z.op = "comment" /\ z.target = c /\ z.place = p /\ z.n = replies[p]
    BY <2>1 DEF IdleTxn
  <2> QED
    BY <1>4, <2>2, <2>3
<1>12. ASSUME NEW op \in DOMAIN Review \cup {"update"}, NEW t \in Target, NEW st \in Status,
              BeginSetStatus(r, op, u, t, st)
       PROVE  About(r)' /\ Loaded(r)' /\ ~Idle(r)'
  <2>1. PICK z : z = [IdleTxn EXCEPT !.op = op, !.user = u, !.target = t,
                                     !.old = status[t], !.new = st]
    OBVIOUS
  <2>2. x = z
    BY <1>6, <1>12, <2>1 DEF BeginSetStatus
  <2>3. z.op = op /\ z.target = t /\ z.old = status[t] /\ z.new = st
    BY <2>1 DEF IdleTxn
  <2>4. op \in {"update", "publish", "archive"} => t \in Post
    BY <1>12 DEF BeginSetStatus
  <2>5. op \in DOMAIN Review => st # "deleted"
    BY <1>12 DEF BeginSetStatus, Review
  <2>6. op \in {"update", "publish", "archive"} \/ op \in {"hide", "restore"}
    BY ReviewTyped
  <2> QED
    BY <1>2, <1>3, <2>2, <2>3, <2>4, <2>5, <2>6, ReviewTyped DEF PostOp
<1>13. ASSUME NEW op \in {"deleteComment", "hardDeleteComment"}, NEW c \in Comment,
              BeginDeleteComment(r, op, u, c)
       PROVE  About(r)' /\ Loaded(r)' /\ ~Idle(r)'
  <2>1. PICK z : z = [IdleTxn EXCEPT !.op = op, !.user = u, !.target = c, !.old = status[c],
                        !.new = "deleted",
                        !.place = IF op = "deleteComment" THEN under[c] ELSE None,
                        !.n = IF op = "deleteComment" THEN replies[under[c]] ELSE 0]
    OBVIOUS
  <2>2. x = z
    BY <1>6, <1>13, <2>1 DEF BeginDeleteComment
  <2>3. /\ z.op = op /\ z.target = c /\ z.old = status[c] /\ z.new = "deleted"
        /\ z.place = IF op = "deleteComment" THEN under[c] ELSE None
        /\ z.n = IF op = "deleteComment" THEN replies[under[c]] ELSE 0
    BY <2>1 DEF IdleTxn
  <2>4. op = "deleteComment" => status[c] # "deleted"
    BY <1>13 DEF BeginDeleteComment
  <2> QED
    BY <1>5, <2>2, <2>3, <2>4
<1>14. (\E k \in Mark, t \in Target : BeginToggle(r, k, u, t)) => About(r)' /\ Loaded(r)' /\ ~Idle(r)'
  BY <1>8
<1>15. (\E p \in Post :
           \/ \E c \in Category \cup {None}, st \in Status : BeginCreate(r, u, p, c, st)
           \/ \E op \in {"delete", "hardDelete"} : BeginDelete(r, op, u, p)
           \/ \E c \in Comment, q \in Comment \cup {None} : BeginComment(r, u, c, p, q))
         => About(r)' /\ Loaded(r)' /\ ~Idle(r)'
  BY <1>9, <1>10, <1>11
<1> QED
  BY <1>7, <1>12, <1>13, <1>14, <1>15
MarksEqual == \A k \in Mark, t \in Target :
                status[t] # "gone" => count[k][t] = Cardinality(by[k][t]) + erased[k][t]

\* A toggle that has read its user's mark moves the counter with the marks.
LEMMA ToggleExact ==
  ASSUME IInv, MarksEqual, NEW r \in Req, CommitToggle(r), Loaded(r)
  PROVE  MarksEqual'
<1> USE DEF IInv, TypeOK
<1> DEFINE x == txn[r]
<1>1. /\ x.op \in Mark /\ x.user \in User /\ x.target \in Target
      /\ x.had = (x.user \in by[x.op][x.target]) /\ x.had \in BOOLEAN
      /\ by' = [by EXCEPT ![x.op][x.target] = IF x.had THEN @ \ {x.user} ELSE @ \cup {x.user}]
      /\ AdjustCount(x.op, x.target, IF x.had THEN -1 ELSE 1)
      /\ UNCHANGED <<status, erased>>
  <2>1. x.op \in Mark /\ x.op # "none" /\ x \in TxnRec
    BY DEF CommitToggle, Mark
  <2>2. x.had \in BOOLEAN
    BY <2>1 DEF TxnRec
  <2> QED
    BY <2>1, <2>2 DEF CommitToggle, TxnOK, Loaded, rows
<1> HIDE DEF x
<1> SUFFICES ASSUME NEW k \in Mark, NEW t \in Target, status[t] # "gone"
             PROVE  count'[k][t] = Cardinality(by'[k][t]) + erased[k][t]
  BY <1>1 DEF MarksEqual
<1>2. CASE k = x.op /\ t = x.target
  <2>1. Exists(t)
    BY <1>1, <1>2 DEF Exists, MarksReal, x
  <2>2. IsFiniteSet(by[k][t]) /\ Cardinality(by[k][t]) \in Nat
    BY UserAssumption, FS_Subset, FS_CardinalityType
  <2>3. count[k][t] \in Nat /\ erased[k][t] \in Nat
        /\ count[k][t] = Cardinality(by[k][t]) + erased[k][t]
    BY DEF MarksEqual
  <2>4. CASE x.had
    <3>1. by'[k][t] = by[k][t] \ {x.user} /\ count'[k][t] = Adjusted(count[k][t], -1)
      BY <1>1, <1>2, <2>1, <2>4 DEF AdjustCount
    <3>2. Cardinality(by[k][t] \ {x.user}) = Cardinality(by[k][t]) - 1
          /\ Cardinality(by[k][t] \ {x.user}) \in Nat
      BY ZenonT(40), <1>1, <1>2, <2>2, <2>4, FS_RemoveElement, FS_CardinalityType
    <3> QED
      BY <2>2, <2>3, <3>1, <3>2 DEF Adjusted
  <2>5. CASE ~x.had
    <3>1. by'[k][t] = by[k][t] \cup {x.user} /\ count'[k][t] = Adjusted(count[k][t], 1)
      BY <1>1, <1>2, <2>1, <2>5 DEF AdjustCount
    <3>2. Cardinality(by[k][t] \cup {x.user}) = Cardinality(by[k][t]) + 1
      BY <1>1, <1>2, <2>2, <2>5, FS_AddElement
    <3> QED
      BY <2>2, <2>3, <3>1, <3>2 DEF Adjusted
  <2> QED
    BY <2>4, <2>5
<1>3. CASE ~(k = x.op /\ t = x.target)
  <2>1. by'[k][t] = by[k][t] /\ count'[k][t] = count[k][t]
    BY <1>1, <1>3 DEF AdjustCount
  <2> QED
    BY <2>1 DEF MarksEqual
<1> QED
  BY <1>2, <1>3

\* An erased account moves its marks to the history.
LEMMA EraseExact ==
  ASSUME IInv, MarksEqual, NEW u \in User, EraseUser(u)
  PROVE  MarksEqual'
<1> USE DEF IInv, TypeOK
<1>1. \A t \in Target : status'[t] # "gone" => status[t] # "gone"
  BY DEF EraseUser, Remove
<1> SUFFICES ASSUME NEW k \in Mark, NEW t \in Target, status[t] # "gone"
             PROVE  count'[k][t] = Cardinality(by'[k][t]) + erased'[k][t]
  BY <1>1 DEF MarksEqual
<1>2. IsFiniteSet(by[k][t]) /\ Cardinality(by[k][t]) \in Nat
  BY UserAssumption, FS_Subset, FS_CardinalityType
<1>3. count[k][t] = Cardinality(by[k][t]) + erased[k][t] /\ erased[k][t] \in Nat
  BY DEF MarksEqual
<1>4. /\ by'[k][t] = by[k][t] \ {u} /\ count'[k][t] = count[k][t]
      /\ erased'[k][t] = IF u \in by[k][t] THEN erased[k][t] + 1 ELSE erased[k][t]
  BY DEF EraseUser
<1>5. CASE u \in by[k][t]
  <2>1. Cardinality(by[k][t] \ {u}) = Cardinality(by[k][t]) - 1
    BY <1>2, <1>5, FS_RemoveElement
  <2>2. Cardinality(by'[k][t]) = Cardinality(by[k][t]) - 1 /\ erased'[k][t] = erased[k][t] + 1
    BY <1>4, <1>5, <2>1
  <2>3. PICK n \in Nat, e \in Nat : n = Cardinality(by[k][t]) /\ e = erased[k][t]
    BY <1>2, <1>3
  <2>4. count'[k][t] = n + e
    BY <1>3, <1>4, <2>3
  <2>5. Cardinality(by'[k][t]) = n - 1 /\ erased'[k][t] = e + 1
    BY <2>2, <2>3
  <2> QED
    BY <2>3, <2>4, <2>5
<1>6. CASE u \notin by[k][t]
  <2>1. by'[k][t] = by[k][t]
    BY <1>4, <1>6
  <2> QED
    BY <1>3, <1>4, <1>6, <2>1
<1> QED
  BY <1>5, <1>6

\* All other steps leave marks and their counters alone.
LEMMA MarksExactKept ==
  ASSUME SerialInv, SerialNext, serial'
  PROVE  MarksEqual'
<1>1. serial /\ MarksEqual /\ IInv /\ \A r \in Req : Loaded(r)
  BY OpenKept DEF SerialInv, MarksEqual
<1>2. ASSUME UNCHANGED marks, \A t \in Target : status'[t] # "gone" => status[t] # "gone"
      PROVE  MarksEqual'
  BY <1>1, <1>2 DEF MarksEqual, marks
<1>3. ASSUME NEW r \in Req, Begin(r) \/ Abort(r)
      PROVE  MarksEqual'
  <2>1. UNCHANGED marks /\ status' = status
    BY <1>1, <1>3, BeginTyped DEF Abort, rows
  <2> QED
    BY <1>2, <2>1
<1>4. ASSUME NEW r \in Req, Commit(r), ~CommitToggle(r)
      PROVE  MarksEqual'
  <2> DEFINE x == txn[r]
  <2>1. UNCHANGED marks
    BY <1>4 DEF Commit, CommitCreate, CommitSetStatus, CommitDelete, CommitComment,
       CommitDeleteComment
  <2>2. /\ x.target \in Target
        /\ \E st \in Status : status' = [status EXCEPT ![x.target] = st]
                              \/ status' = [status EXCEPT ![x.target] = Flushed(@, x.old, st)]
        /\ status[x.target] = "none" \/ Exists(x.target)
    <3>1. CASE CommitCreate(r)
      BY <1>1, <3>1 DEF CommitCreate, IInv, TxnOK
    <3>2. CASE CommitSetStatus(r)
      BY <1>1, <3>2, ReviewTyped DEF CommitSetStatus, IInv, TxnOK
    <3>3. CASE CommitDelete(r)
      BY <1>1, <3>3 DEF CommitDelete, IInv, TxnOK
    <3>4. CASE CommitComment(r)
      BY <1>1, <3>4 DEF CommitComment, IInv, TxnOK, Status
    <3>5. CASE CommitDeleteComment(r)
      BY <1>1, <3>5 DEF CommitDeleteComment, IInv, TxnOK
    <3> QED
      BY <1>4, <3>1, <3>2, <3>3, <3>4, <3>5 DEF Commit
  <2> HIDE DEF x
  <2>3. \A t \in Target : status'[t] # "gone" => status[t] # "gone"
    BY <1>1, <2>2 DEF IInv, TypeOK, Exists, Status, Flushed
  <2> QED
    BY <1>2, <2>1, <2>3
<1>5. ASSUME NEW r \in Req, CommitToggle(r)
      PROVE  MarksEqual'
  BY <1>1, <1>5, ToggleExact
<1>6. ASSUME NEW c \in Category, DeleteCategory(c)
      PROVE  MarksEqual'
  BY <1>2, <1>6 DEF DeleteCategory, Remove
<1>7. ASSUME NEW u \in User, EraseUser(u)
      PROVE  MarksEqual'
  BY <1>1, <1>7, EraseExact
<1> QED
  BY <1>3, <1>4, <1>5, <1>6, <1>7 DEF SerialNext, Next
\* While nothing is untidy, cascades remove nothing.
LEMMA TidyStep ==
  ASSUME SerialInv, SerialNext, tidy'
  PROVE  /\ tidy /\ \A t \in Target : status'[t] # "gone"
         /\ \A r \in Req : ~Untidy(r)
         /\ \A S : Remove(S) => status' = status
<1>1. tidy /\ (\A t \in Target : status'[t] # "gone") /\ \A r \in Req : ~Untidy(r)
  BY DEF SerialNext
<1>2. ASSUME NEW S, Remove(S) PROVE status' = status
  <2>1. status' = [t \in Target |-> IF t \in Cascade(S) THEN "gone" ELSE status[t]]
    BY <1>2 DEF Remove
  <2>2. \A t \in Target : status'[t] = status[t]
    BY <1>1, <2>1
  <2> QED
    BY <2>1, <2>2 DEF SerialInv, IInv, TypeOK
<1> QED
  BY <1>1, <1>2

\* The comments of a post stay the same if none of them changes.
LEMMA CountedSame ==
  ASSUME NEW p,
         \A c \in Comment :
           /\ Exists(c)' /\ status'[c] # "deleted" /\ under'[c] = p
                => Exists(c) /\ status[c] # "deleted" /\ under[c] = p
           /\ Exists(c) /\ status[c] # "deleted" /\ under[c] = p
                => Exists(c)' /\ status'[c] # "deleted" /\ under'[c] = p
  PROVE  Counted(p)' = Counted(p)
BY DEF Counted

\* A request that is alone counts comments as they come and go.
LEMMA RepliesKept ==
  ASSUME SerialInv, SerialNext, serial', tidy', NEW p \in Post
  PROVE  replies'[p] = Cardinality(Counted(p)')
<1> USE DEF IInv, TypeOK
<1>1. /\ IInv /\ serial /\ tidy /\ replies[p] = Cardinality(Counted(p))
      /\ p \in Target /\ p \notin Comment \cup {None}
      /\ IsFiniteSet({c \in Comment : status[c] # "none"})
      /\ \A r \in Req : Loaded(r) /\ About(r) /\ ~Untidy(r)
  BY OpenKept, TidyStep, TargetAssumption, NoneAssumption DEF SerialInv, Target
<1>2. IsFiniteSet(Counted(p)) /\ Cardinality(Counted(p)) \in Nat
  <2>1. Counted(p) \subseteq {c \in Comment : status[c] # "none"}
    BY DEF Counted, Exists, Status
  <2> QED
    BY <1>1, <2>1, FS_Subset, FS_CardinalityType
<1>3. ASSUME replies' = replies, under' = under, status' = status
      PROVE  replies'[p] = Cardinality(Counted(p)')
  <2>1. Counted(p)' = Counted(p)
    BY <1>3 DEF Counted, Exists
  <2> QED
    BY <1>1, <1>3, <2>1
<1>4. ASSUME NEW r \in Req, Begin(r) \/ Abort(r) \/ CommitToggle(r)
      PROVE  replies'[p] = Cardinality(Counted(p)')
  <2>1. replies' = replies /\ under' = under /\ status' = status
    BY <1>1, <1>4, BeginTyped DEF Abort, CommitToggle, rows
  <2> QED
    BY <1>3, <2>1
<1>5. ASSUME NEW r \in Req, CommitCreate(r) \/ CommitSetStatus(r) \/ CommitDelete(r),
             txn[r].target \in Post
      PROVE  replies'[p] = Cardinality(Counted(p)')
  <2>1. /\ replies' = replies
        /\ \A c \in Comment : status'[c] = status[c] /\ under'[c] = under[c]
    <3>1. \A c \in Comment : c # txn[r].target /\ c \in Target
      BY <1>5, TargetAssumption DEF Target
    <3> QED
      BY <1>1, <1>5, <3>1 DEF CommitCreate, CommitSetStatus, CommitDelete
  <2>2. Counted(p)' = Counted(p)
    BY <2>1 DEF Counted, Exists
  <2> QED
    BY <1>1, <2>1, <2>2
<1>6. ASSUME NEW r \in Req, CommitCreate(r) \/ CommitDelete(r)
      PROVE  replies'[p] = Cardinality(Counted(p)')
  <2>1. txn[r].target \in Post
    BY <1>1, <1>6 DEF CommitCreate, CommitDelete, About, PostOp
  <2> QED
    BY <1>5, <1>6, <2>1
<1>7. ASSUME NEW r \in Req, CommitSetStatus(r)
      PROVE  replies'[p] = Cardinality(Counted(p)')
  <2> DEFINE x == txn[r]
  <2>1. /\ x.op \in DOMAIN Review \cup {"update"} /\ Exists(x.target) /\ x.target \in Target
        /\ status' = [status EXCEPT ![x.target] = Flushed(@, x.old, x.new)] /\ x.new \in Status
        /\ replies' = replies /\ under' = under
    BY <1>1, <1>7, ReviewTyped DEF CommitSetStatus, TxnOK
  <2>2. CASE x.target \in Post
    BY <1>5, <1>7, <2>2
  <2>3. CASE x.target \notin Post
    <3>1. x.op \in {"hide", "restore"}
      BY <1>1, <2>1, <2>3, ReviewTyped DEF About, PostOp
    <3>2. x.old = status[x.target] /\ x.old # "deleted" /\ x.new # "deleted"
      BY <1>1, <3>1, ReviewTyped DEF Loaded, Untidy, About
    <3> HIDE DEF x
    <3>3. /\ \A c \in Target : c # x.target => status'[c] = status[c]
          /\ status'[x.target] = x.new
      BY <1>1, <2>1, <3>2 DEF Flushed
    <3>4. Counted(p)' = Counted(p)
      BY <2>1, <3>2, <3>3, CountedSame DEF Exists, Target
    <3> QED
      BY <1>1, <2>1, <3>4
  <2> QED
    BY <2>2, <2>3
<1>8. ASSUME NEW r \in Req, CommitComment(r)
      PROVE  replies'[p] = Cardinality(Counted(p)')
  <2> DEFINE x == txn[r]
  <2>1. /\ x.target \in Comment /\ x.place \in Post /\ x.parent \in Comment \cup {None}
        /\ x.n = replies[x.place]
    BY <1>1, <1>8 DEF CommitComment, TxnOK, TxnRec, Loaded
  <2>2. /\ status[x.target] = "none"
        /\ status' = [status EXCEPT ![x.target] = "published"]
        /\ under' = [under EXCEPT ![x.target] = x.place]
        /\ replies' = [t \in Target |-> CASE t = x.place -> x.n + 1
                                         [] t = x.parent -> x.m + 1
                                         [] OTHER -> replies[t]]
    BY <1>8 DEF CommitComment
  <2> HIDE DEF x
  <2>3. x.target \in Target /\ x.target \notin Counted(p)
    BY <2>1, <2>2 DEF Counted, Exists, Status, Target
  <2>4. CASE p = x.place
    <3>1. Counted(p)' = Counted(p) \cup {x.target}
      BY <1>1, <2>1, <2>2, <2>3, <2>4 DEF Counted, Exists, Status, Target
    <3>2. replies'[p] = replies[p] + 1
      BY <1>1, <2>1, <2>2, <2>4
    <3>3. Cardinality(Counted(p) \cup {x.target}) = Cardinality(Counted(p)) + 1
      BY <1>2, <2>3, FS_AddElement
    <3> QED
      BY <1>1, <3>1, <3>2, <3>3
  <2>5. CASE p # x.place
    <3>1. Counted(p)' = Counted(p)
      BY <1>1, <2>1, <2>2, <2>3, <2>5 DEF Counted, Exists, Status, Target
    <3>2. replies'[p] = replies[p]
      BY <1>1, <2>1, <2>2, <2>5
    <3> QED
      BY <1>1, <3>1, <3>2
  <2> QED
    BY <2>4, <2>5
<1>9. ASSUME NEW r \in Req, CommitDeleteComment(r)
      PROVE  replies'[p] = Cardinality(Counted(p)')
  <2> DEFINE x == txn[r]
  <2>1. /\ x.op \in {"deleteComment", "hardDeleteComment"} /\ Exists(x.target)
        /\ x.target \in Comment /\ x.target \in Target /\ x.old = status[x.target]
        /\ x.new = "deleted"
        /\ status' = [status EXCEPT ![x.target] = Flushed(@, x.old, x.new)]
        /\ replies' = IF x.place = None THEN replies
                      ELSE [replies EXCEPT ![x.place] = Flushed(@, x.n, Adjusted(x.n, -1))]
        /\ under' = under
    BY <1>1, <1>9 DEF CommitDeleteComment, TakeReply, About, Loaded, CommentOp, Target
  <2>2. CASE x.op = "hardDeleteComment"
    <3>1. x.old = "deleted" /\ x.place = None
      BY <1>1, <2>2 DEF Untidy, About
    <3>2. status' = status /\ replies' = replies
      BY <1>1, <2>1, <3>1 DEF Flushed
    <3> QED
      BY <1>3, <2>1, <3>2
  <2>3. CASE x.op = "deleteComment"
    <3>1. /\ x.old # "deleted" /\ x.place = under[x.target] /\ x.n = replies[x.place]
          /\ x.place \in Post
      BY <1>1, <2>1, <2>3 DEF Loaded, Placed
    <3> HIDE DEF x
    <3>2. status' = [status EXCEPT ![x.target] = "deleted"]
      BY <2>1, <3>1 DEF Flushed
    <3>3. CASE p = x.place
      <4>1. x.target \in Counted(p)
        BY <2>1, <3>1, <3>3 DEF Counted
      <4>2. Counted(p)' = Counted(p) \ {x.target}
        BY <1>1, <2>1, <3>2 DEF Counted, Exists, Status, Target
      <4>3. Cardinality(Counted(p) \ {x.target}) = Cardinality(Counted(p)) - 1
            /\ Cardinality(Counted(p) \ {x.target}) \in Nat
        BY <1>2, <4>1, FS_RemoveElement, FS_CardinalityType
      <4>4. PICK n \in Nat : n = replies[p]
        BY <1>1
      <4>5. Adjusted(n, -1) = n - 1 /\ n # n - 1
        BY <1>1, <1>2, <4>3, <4>4 DEF Adjusted
      <4>6. replies'[p] = n - 1
        BY <1>1, <2>1, <3>1, <3>3, <4>4, <4>5, NoneAssumption DEF Flushed
      <4> QED
        BY <1>1, <4>2, <4>3, <4>4, <4>6
    <3>4. CASE p # x.place
      <4>1. Counted(p)' = Counted(p)
        BY <2>1, <3>1, <3>2, <3>4 DEF Counted, Exists, Status, Target
      <4>2. replies'[p] = replies[p]
        BY <1>1, <2>1, <3>4
      <4> QED
        BY <1>1, <4>1, <4>2
    <3> QED
      BY <3>3, <3>4
  <2> QED
    BY <2>1, <2>2, <2>3
<1>10. ASSUME NEW c \in Category, DeleteCategory(c)
       PROVE  replies'[p] = Cardinality(Counted(p)')
  BY <1>3, <1>10, TidyStep DEF DeleteCategory
<1>11. ASSUME NEW u \in User, EraseUser(u)
       PROVE  replies'[p] = Cardinality(Counted(p)')
  BY <1>3, <1>11, TidyStep DEF EraseUser
<1> QED
  BY <1>4, <1>6, <1>7, <1>8, <1>9, <1>10, <1>11 DEF SerialNext, Next, Commit
\* While nothing is untidy, finitely many comments have been made.
LEMMA TidyKept ==
  ASSUME SerialInv, SerialNext, tidy'
  PROVE  /\ \A t \in Target : status'[t] # "gone"
         /\ IsFiniteSet({c \in Comment : status'[c] # "none"})
<1> DEFINE S == {c \in Comment : status[c] # "none"}
           T == {c \in Comment : status'[c] # "none"}
<1>1. IsFiniteSet(S) /\ IInv
  BY TidyStep DEF SerialInv
<1>2. ASSUME NEW t, \A c \in Comment : c # t => status'[c] = status[c]
      PROVE  IsFiniteSet(T)
  <2>1. T \subseteq S \cup {t}
    BY <1>2
  <2>2. IsFiniteSet(S \cup {t})
    BY <1>1, FS_AddElement
  <2> QED
    BY <2>1, <2>2, FS_Subset
<1>3. \E t : \A c \in Comment : c # t => status'[c] = status[c]
  <2>1. ASSUME NEW r \in Req, Begin(r) \/ Abort(r) \/ CommitToggle(r)
        PROVE  status' = status
    BY <1>1, <2>1, BeginTyped DEF Abort, CommitToggle, rows
  <2>2. ASSUME NEW r \in Req, Commit(r), ~CommitToggle(r)
        PROVE  \A c \in Comment : c # txn[r].target => status'[c] = status[c]
    <3>1. Comment \subseteq Target /\ status \in [Target -> Status \cup {"none", "gone"}]
      BY <1>1 DEF Target, IInv, TypeOK
    <3> QED
      BY <2>2, <3>1 DEF Commit, CommitCreate, CommitSetStatus, CommitDelete, CommitComment,
         CommitDeleteComment
  <2>3. ASSUME NEW c \in Category, DeleteCategory(c)
        PROVE  status' = status
    BY <2>3, TidyStep DEF DeleteCategory
  <2>4. ASSUME NEW u \in User, EraseUser(u)
        PROVE  status' = status
    BY <2>4, TidyStep DEF EraseUser
  <2> QED
    BY <2>1, <2>2, <2>3, <2>4 DEF SerialNext, Next, Commit
<1>4. IsFiniteSet(T)
  BY <1>2, <1>3
<1> QED
  BY <1>4, TidyStep

\* A request begins only when no transaction of its is open.
LEMMA BeginIdle ==
  ASSUME NEW r \in Req, Begin(r)
  PROVE  Idle(r)
<1>1. PICK u \in User :
      \/ \E k \in Mark, t \in Target : BeginToggle(r, k, u, t)
      \/ \E p \in Post :
           \/ \E c \in Category \cup {None}, st \in Status : BeginCreate(r, u, p, c, st)
           \/ \E op \in {"delete", "hardDelete"} : BeginDelete(r, op, u, p)
           \/ \E c \in Comment, q \in Comment \cup {None} : BeginComment(r, u, c, p, q)
      \/ \E op \in DOMAIN Review \cup {"update"}, t \in Target, st \in Status :
           BeginSetStatus(r, op, u, t, st)
      \/ \E op \in {"deleteComment", "hardDeleteComment"}, c \in Comment :
           BeginDeleteComment(r, op, u, c)
  BY DEF Begin
<1>2. ASSUME NEW z, Starts(r, z) PROVE Idle(r)
  BY <1>2, Zenon DEF Starts
<1>3. ASSUME NEW k, NEW t, BeginToggle(r, k, u, t) PROVE Idle(r)
  BY <1>2, <1>3, Zenon DEF BeginToggle
<1>4. ASSUME NEW p, NEW c, NEW st, BeginCreate(r, u, p, c, st) PROVE Idle(r)
  BY <1>2, <1>4, Zenon DEF BeginCreate
<1>5. ASSUME NEW p, NEW op, BeginDelete(r, op, u, p) PROVE Idle(r)
  BY <1>2, <1>5, Zenon DEF BeginDelete
<1>6. ASSUME NEW p, NEW c, NEW q, BeginComment(r, u, c, p, q) PROVE Idle(r)
  BY <1>2, <1>6, Zenon DEF BeginComment
<1>7. ASSUME NEW t, NEW op, NEW st, BeginSetStatus(r, op, u, t, st) PROVE Idle(r)
  BY <1>2, <1>7, Zenon DEF BeginSetStatus
<1>8. ASSUME NEW c, NEW op, BeginDeleteComment(r, op, u, c) PROVE Idle(r)
  BY <1>2, <1>8, Zenon DEF BeginDeleteComment
<1> QED
  BY <1>1, <1>3, <1>4, <1>5, <1>6, <1>7, <1>8, Zenon

\* A request that is alone keeps what it has loaded, whatever is removed meanwhile.
LEMMA LoadedKept ==
  ASSUME SerialInv, SerialNext
  PROVE  /\ \A r \in Req : About(r)'
         /\ serial' => \A r \in Req : Loaded(r)'
<1> USE DEF SerialInv, IInv, TypeOK
<1>0. IInv /\ \A r \in Req : About(r)
  OBVIOUS
<1>1. ASSUME NEW r \in Req, txn'[r] = IdleTxn
      PROVE  About(r)' /\ Loaded(r)'
  <2>1. txn'[r].op = "none" /\ "none" \notin DOMAIN Review \cup PostOp \cup CommentOp \cup Mark
    BY <1>1, IdleTyped, ReviewTyped DEF PostOp, CommentOp, Mark
  <2> QED
    BY <2>1, ReviewTyped DEF About, Loaded, PostOp, CommentOp
<1>2. ASSUME NEW r \in Req, txn'[r] = txn[r]
      PROVE  About(r)'
  BY <1>0, <1>2 DEF About
<1>3. ASSUME NEW r \in Req, txn' = [txn EXCEPT ![r] = txn'[r]],
             Begin(r) \/ (~Idle(r) /\ txn'[r] = IdleTxn)
      PROVE  /\ \A q \in Req : About(q)'
             /\ serial' => \A q \in Req : Loaded(q)'
  <2>1. About(r)' /\ Loaded(r)'
    BY <1>1, <1>3, BeginLoads
  <2>2. ASSUME NEW q \in Req, q # r PROVE txn'[q] = txn[q]
    BY <1>3, <2>2
  <2>3. \A q \in Req : About(q)'
    BY <1>2, <2>1, <2>2
  <2>4. ASSUME NEW q \in Req, q # r, serial' PROVE Loaded(q)'
    <3>1. Idle(q)
      <4>1. CASE Begin(r)
        BY <2>2, <2>4, <4>1, BeginLoads, OpenKept DEF Idle
      <4>2. CASE ~Idle(r)
        BY <2>4, <4>2, OpenKept
      <4> QED
        BY <1>3, <4>1, <4>2
    <3>2. txn'[q].op = "none" /\ "none" \notin DOMAIN Review \cup PostOp \cup CommentOp \cup Mark
      BY <2>2, <2>4, <3>1, ReviewTyped DEF PostOp, CommentOp, Mark, Idle
    <3> QED
      BY <3>2, ReviewTyped DEF Loaded, PostOp, CommentOp
  <2> QED
    BY <2>1, <2>3, <2>4
<1>4. CASE UNCHANGED txn
  <2>1. \A q \in Req : About(q)'
    BY <1>0, <1>4 DEF About
  <2>2. ASSUME NEW q \in Req, serial' PROVE Loaded(q)'
    <3>1. Loaded(q) /\ IInv
      BY <2>2, OpenKept
    <3>2. /\ UNCHANGED <<replies, under>>
          /\ tidy' => tidy /\ status' = status
          /\ \A k \in Mark : txn[q].op = k =>
               (txn'[q].user \in by'[k][txn'[q].target]) = (txn[q].user \in by[k][txn[q].target])
      <4>1. ASSUME NEW c \in Category, DeleteCategory(c)
            PROVE  UNCHANGED <<replies, under, by>> /\ (tidy' => tidy /\ status' = status)
        BY <4>1, TidyStep DEF DeleteCategory, marks
      <4>2. ASSUME NEW u \in User, EraseUser(u)
            PROVE  /\ UNCHANGED <<replies, under>> /\ (tidy' => tidy /\ status' = status)
                   /\ ~Idle(q) => txn[q].user # u
                   /\ by' = [k \in Mark |-> [t \in Target |-> by[k][t] \ {u}]]
        <5>1. ~Idle(q) => txn[q].user # u
          BY <2>2, <4>2 DEF SerialNext
        <5> QED
          BY <4>2, <5>1, TidyStep DEF EraseUser
      <4>3. ASSUME NEW u \in User, EraseUser(u), NEW k \in Mark, txn[q].op = k
            PROVE  (txn'[q].user \in by'[k][txn'[q].target]) = (txn[q].user \in by[k][txn[q].target])
        <5>1. txn[q].target \in Target /\ ~Idle(q)
          BY <3>1, <4>3 DEF IInv, TxnOK, Mark, Idle
        <5> QED
          BY <1>4, <4>2, <4>3, <5>1
      <4>4. ASSUME NEW r \in Req, Begin(r) \/ Commit(r) \/ Abort(r) PROVE FALSE
        <5>1. CASE Begin(r)
          <6>1. Idle(r)
            BY <5>1, BeginIdle
          <6> QED
            BY <1>4, <5>1, <6>1, BeginLoads DEF Idle
        <5>2. CASE Commit(r) \/ Abort(r)
          <6>1. Ends(r) /\ ~Idle(r)
            BY <5>2, ReviewTyped DEF Idle, Mark, Commit, Abort, CommitToggle, CommitCreate,
               CommitSetStatus, CommitDelete, CommitComment, CommitDeleteComment
          <6> QED
            BY <1>4, <6>1, IdleTyped DEF Ends, Idle
        <5> QED
          BY <4>4, <5>1, <5>2
      <4> QED
        BY <1>4, <4>1, <4>2, <4>3, <4>4 DEF SerialNext, Next
    <3> QED
      BY <1>4, <3>1, <3>2 DEF Loaded
  <2> QED
    BY <2>1, <2>2
<1> QED
  BY <1>3, <1>4, OneMoves DEF SerialNext
\* Together.
LEMMA SerialKept == SerialInv /\ [SerialNext]_<<vars, serial, tidy>> => SerialInv'
<1>1. ASSUME SerialInv, SerialNext PROVE SerialInv'
  <2>1. IInv'
    BY <1>1, RequestKeeps, DeleteCategoryKeeps, EraseKeeps DEF SerialNext, Next, SerialInv
  <2>2. serial' => MarksEqual'
    BY <1>1, MarksExactKept
  <2>3. serial' /\ tidy' => \A p \in Post : replies'[p] = Cardinality(Counted(p)')
    BY <1>1, RepliesKept
  <2> QED
    BY <1>1, <2>1, <2>2, <2>3, OpenKept, LoadedKept, TidyKept DEF SerialInv, MarksEqual
<1>2. ASSUME SerialInv, UNCHANGED <<vars, serial, tidy>> PROVE SerialInv'
  <2>1. IInv'
    BY <1>2 DEF SerialInv, vars, rows, marks, IInv, TypeOK, TxnOK, Placed, MarksReal,
       CountsCovered, Exists
  <2>2. \A r \in Req : About(r)' = About(r) /\ Loaded(r)' = Loaded(r)
    BY <1>2 DEF vars, rows, marks, About, Loaded
  <2>3. \A p \in Post : Counted(p)' = Counted(p)
    BY <1>2 DEF vars, rows, Counted, Exists
  <2> QED
    BY <1>2, <2>1, <2>2, <2>3 DEF SerialInv, vars, rows, marks, Idle
<1> QED
  BY <1>1, <1>2

\* In the beginning there are no requests, no marks and no comments.
LEMMA SerialBegins == SerialInit => SerialInv
<1> SUFFICES ASSUME SerialInit PROVE SerialInv
  OBVIOUS
<1>1. IInv /\ Init /\ TypeOK
  BY InitIInv DEF SerialInit, IInv
<1>2. \A r \in Req : txn[r] = IdleTxn /\ txn[r].op = "none"
  BY <1>1, IdleTyped DEF Init
<1>3. {r \in Req : ~Idle(r)} = {}
  BY <1>2 DEF Idle
<1>4. \A r \in Req : About(r) /\ Loaded(r)
  <2>1. "none" \notin DOMAIN Review \cup PostOp \cup CommentOp \cup Mark
    BY ReviewTyped DEF PostOp, CommentOp, Mark
  <2> QED
    BY <1>2, <2>1, ReviewTyped DEF About, Loaded, PostOp, CommentOp
<1>5. \A t \in Target : status[t] # "gone" /\ (t \notin Post => status[t] = "none")
  BY <1>1 DEF Init
<1>6. {c \in Comment : status[c] # "none"} = {} /\ \A p \in Post : Counted(p) = {}
  BY <1>5, TargetAssumption DEF Counted, Exists, Status, Target
<1>7. Cardinality({}) = 0 /\ IsFiniteSet({})
  BY FS_EmptySet
<1>8. MarksEqual
  BY <1>1, <1>7 DEF Init, MarksEqual
<1>9. \A p \in Post : replies[p] = Cardinality(Counted(p))
  BY <1>1, <1>6, <1>7 DEF Init, Target
<1> QED
  BY <1>1, <1>2, <1>3, <1>4, <1>5, <1>6, <1>7, <1>8, <1>9 DEF SerialInv, MarksEqual, Idle

\* As long as requests do not overlap the counters of likes and favourites are exact
\* but for erased accounts, and while no comment is hard-deleted, hidden or restored
\* after its deletion and nothing removed by a cascade, so are those of comments.
THEOREM SpecSerialCountersExact == SerialSpec => []SerialCountersExact
<1>1. SerialInv => SerialCountersExact
  BY DEF SerialInv, SerialCountersExact, MarksCounted, RepliesCounted, Counted, Exists, Status
<1> QED
  BY <1>1, SerialBegins, SerialKept, PTL DEF SerialSpec
=============================================================================

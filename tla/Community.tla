------------------------------- MODULE Community -------------------------------
(***************************************************************************)
(* Posts, comments, likes and favourites of the community, and the counters *)
(* kept beside them: app/services/community/ over                           *)
(* app/repositories/community_repo.py.                                      *)
(*                                                                          *)
(* Every request runs one READ COMMITTED transaction: it loads its rows     *)
(* (Begin...), and its writes are one action with the commit.  reply_count  *)
(* and post_count are computed from the loaded row and written back;        *)
(* like_count and favorite_count are changed by an UPDATE that computes     *)
(* from the row as it is then.  A flush writes only the columns that differ *)
(* from the loaded row.                                                     *)
(***************************************************************************)
EXTENDS Integers, FiniteSets

CONSTANTS
    User, Moderator, \* users, and those with the moderation permissions
    Post, Comment,   \* identifiers of rows, used once
    Category,
    Req,             \* request slots
    None             \* SQL NULL

Target == Post \cup Comment

ASSUME UserAssumption == IsFiniteSet(User) /\ Moderator \subseteq User
ASSUME NoneAssumption == None \notin User \cup Target \cup Category /\ None \notin Nat
ASSUME TargetAssumption == Post \cap Comment = {}

\* community_reactions and community_favorites.
Mark == {"like", "favorite"}

Status == {"draft", "published", "archived", "hidden", "deleted"}

VARIABLES
    status, \* of each post and comment; "none" before it exists, "gone" after
            \* its row was removed by a cascade
    author, \* author_id
    under,  \* category_id of a post, post_id of a comment
    parent, \* parent_comment_id
    by,     \* rows of community_reactions and community_favorites: who marked what
    count,  \* like_count and favorite_count
    erased, \* history: marks that went with the account of their user
    replies,\* reply_count of posts and comments
    posts,  \* post_count of a category, or None once it is removed
    txn     \* the open transaction of each request slot

rows == <<status, author, under, parent>>
marks == <<by, count, erased>>
vars == <<rows, marks, replies, posts, txn>>

PostOp == {"create", "update", "delete", "hardDelete"}
CommentOp == {"comment", "deleteComment", "hardDeleteComment"}

\* Operations that write a status and nothing else this model keeps.
Review == [op \in {"hide", "restore", "publish", "archive"} |->
             CASE op = "hide" -> "hidden" [] op = "archive" -> "archived"
               [] OTHER -> "published"]

OpName == Mark \cup PostOp \cup CommentOp \cup DOMAIN Review

\* What a request has loaded: the status and the counters `n` (of the category
\* or the post) and `m` (of the parent comment), and whether the mark exists.
TxnRec == [op: OpName \cup {"none"}, user: User \cup {None}, target: Target \cup {None},
           old: Status \cup {"none"}, new: Status \cup {"none"},
           place: Post \cup Category \cup {None}, parent: Comment \cup {None},
           n: Nat, m: Nat, had: BOOLEAN]

IdleTxn == [op |-> "none", user |-> None, target |-> None, old |-> "none", new |-> "none",
            place |-> None, parent |-> None, n |-> 0, m |-> 0, had |-> FALSE]

\* A published post by some user in some category or in none.
Init ==
    /\ \E p \in Post, u \in User, c \in Category \cup {None} :
         /\ status = [t \in Target |-> IF t = p THEN "published" ELSE "none"]
         /\ author = [t \in Target |-> IF t = p THEN u ELSE None]
         /\ under = [t \in Target |-> IF t = p THEN c ELSE None]
         /\ posts = [k \in Category |-> IF k = c THEN 1 ELSE 0]
    /\ parent = [t \in Comment |-> None]
    /\ by = [k \in Mark |-> [t \in Target |-> {}]]
    /\ count = [k \in Mark |-> [t \in Target |-> 0]]
    /\ erased = [k \in Mark |-> [t \in Target |-> 0]]
    /\ replies = [t \in Target |-> 0]
    /\ txn = [r \in Req |-> IdleTxn]

-----------------------------------------------------------------------------

Idle(r) == txn[r].op = "none"

Exists(t) == status[t] \in Status

\* The caller may change a post or a comment of another author.
MayEdit(u, t) == u = author[t] \/ u \in Moderator

\* The row of a new post or comment is not in use by an open request.
Unused(t) == status[t] = "none" /\ \A r \in Req : txn[r].target # t

\* max(count + delta, 0) and func.greatest(column + delta, 0).
Adjusted(n, delta) == IF n + delta < 0 THEN 0 ELSE n + delta

\* The flush of a column computed from its loaded value.
Flushed(now, loaded, new) == IF new = loaded THEN now ELSE new

Starts(r, rec) == Idle(r) /\ txn' = [txn EXCEPT ![r] = rec]

Ends(r) == txn' = [txn EXCEPT ![r] = IdleTxn]

\* The request fails before its commit: a unique or foreign key is violated, a
\* row it writes is gone, or the connection is lost.
Abort(r) ==
    /\ ~Idle(r) /\ Ends(r)
    /\ UNCHANGED <<rows, marks, replies, posts>>

-----------------------------------------------------------------------------
(* Likes and favourites. *)

\* toggle_like and toggle_favorite: the target and the caller's row are read.
BeginToggle(r, k, u, t) ==
    /\ status[t] = "published"
    /\ k = "favorite" => t \in Post
    /\ Starts(r, [IdleTxn EXCEPT !.op = k, !.user = u, !.target = t,
                                 !.had = u \in by[k][t]])
    /\ UNCHANGED <<rows, marks, replies, posts>>

\* Mistake: no unique constraint.
Unchecked(x) == TRUE

\* A second row of the same user and target violates the unique constraint.
Unique(x) == x.had \/ x.user \notin by[x.op][x.target]

\* UPDATE ... SET n = greatest(n + delta, 0) WHERE id = target.
AdjustCount(k, t, delta) ==
    count' = [count EXCEPT ![k][t] = IF Exists(t) THEN Adjusted(@, delta) ELSE @]

CommitToggle(r) ==
    LET x == txn[r] IN
    /\ x.op \in Mark /\ Unique(x)
    /\ by' = [by EXCEPT ![x.op][x.target] = IF x.had THEN @ \ {x.user} ELSE @ \cup {x.user}]
    /\ AdjustCount(x.op, x.target, IF x.had THEN -1 ELSE 1)
    /\ Ends(r)
    /\ UNCHANGED <<rows, erased, replies, posts>>

-----------------------------------------------------------------------------
(* Posts. *)

\* create_post: the category is loaded; post_count counts posts of any status.
BeginCreate(r, u, p, c, st) ==
    /\ Unused(p)
    /\ c # None => posts[c] # None
    /\ Starts(r, [IdleTxn EXCEPT !.op = "create", !.user = u, !.target = p, !.new = st,
                                 !.place = c, !.n = IF c = None THEN 0 ELSE posts[c]])
    /\ UNCHANGED <<rows, marks, replies, posts>>

CommitCreate(r) ==
    LET x == txn[r] IN
    /\ x.op = "create" /\ status[x.target] = "none"
    /\ x.place # None => posts[x.place] # None
    /\ status' = [status EXCEPT ![x.target] = x.new]
    /\ author' = [author EXCEPT ![x.target] = x.user]
    /\ under' = [under EXCEPT ![x.target] = x.place]
    /\ posts' = IF x.place = None THEN posts ELSE [posts EXCEPT ![x.place] = x.n + 1]
    /\ Ends(r)
    /\ UNCHANGED <<parent, marks, replies>>

\* update_post (any status in the body), hide, restore, publish and archive.
BeginSetStatus(r, op, u, t, st) ==
    /\ Exists(t)
    /\ IF op = "update" THEN t \in Post /\ MayEdit(u, t) /\ status[t] # "deleted"
       ELSE u \in Moderator /\ st = Review[op]
    /\ op \in {"publish", "archive"} => t \in Post
    /\ Starts(r, [IdleTxn EXCEPT !.op = op, !.user = u, !.target = t,
                                 !.old = status[t], !.new = st])
    /\ UNCHANGED <<rows, marks, replies, posts>>

CommitSetStatus(r) ==
    LET x == txn[r] IN
    /\ x.op \in DOMAIN Review \cup {"update"} /\ Exists(x.target)
    /\ status' = [status EXCEPT ![x.target] = Flushed(@, x.old, x.new)]
    /\ Ends(r)
    /\ UNCHANGED <<author, under, parent, marks, replies, posts>>

\* delete_post and hard_delete_post: both set the status, and only the first
\* returns early.  The category is loaded if the post counted as visible.
BeginDelete(r, op, u, p) ==
    /\ Exists(p)
    /\ IF op = "delete" THEN MayEdit(u, p) /\ status[p] # "deleted" ELSE u \in Moderator
    /\ LET c == IF status[p] \in {"published", "hidden"} THEN under[p] ELSE None IN
         Starts(r, [IdleTxn EXCEPT !.op = op, !.user = u, !.target = p, !.old = status[p],
                                   !.new = "deleted", !.place = c,
                                   !.n = IF c = None THEN 0 ELSE posts[c]])
    /\ UNCHANGED <<rows, marks, replies, posts>>

CommitDelete(r) ==
    LET x == txn[r] IN
    /\ x.op \in {"delete", "hardDelete"} /\ Exists(x.target)
    /\ status' = [status EXCEPT ![x.target] = Flushed(@, x.old, x.new)]
    /\ posts' = IF x.place = None THEN posts
                ELSE [posts EXCEPT ![x.place] = Flushed(@, x.n, Adjusted(x.n, -1))]
    /\ Ends(r)
    /\ UNCHANGED <<author, under, parent, marks, replies>>

-----------------------------------------------------------------------------
(* Comments. *)

\* create_comment: the parent may be any comment, of any post and status.
BeginComment(r, u, c, p, q) ==
    /\ Unused(c)
    /\ status[p] = "published"
    /\ q # None => Exists(q)
    /\ Starts(r, [IdleTxn EXCEPT !.op = "comment", !.user = u, !.target = c, !.place = p,
                                 !.parent = q, !.n = replies[p],
                                 !.m = IF q = None THEN 0 ELSE replies[q]])
    /\ UNCHANGED <<rows, marks, replies, posts>>

CommitComment(r) ==
    LET x == txn[r] IN
    /\ x.op = "comment" /\ status[x.target] = "none" /\ Exists(x.place)
    /\ x.parent # None => Exists(x.parent)
    /\ status' = [status EXCEPT ![x.target] = "published"]
    /\ author' = [author EXCEPT ![x.target] = x.user]
    /\ under' = [under EXCEPT ![x.target] = x.place]
    /\ parent' = [parent EXCEPT ![x.target] = x.parent]
    /\ replies' = [t \in Target |-> CASE t = x.place -> x.n + 1
                                      [] t = x.parent -> x.m + 1
                                      [] OTHER -> replies[t]]
    /\ Ends(r)
    /\ UNCHANGED <<marks, posts>>

\* delete_comment takes the reply off its post (not off its parent comment);
\* hard_delete_comment sets the status only.
BeginDeleteComment(r, op, u, c) ==
    /\ Exists(c)
    /\ IF op = "deleteComment" THEN MayEdit(u, c) /\ status[c] # "deleted" ELSE u \in Moderator
    /\ Starts(r, [IdleTxn EXCEPT !.op = op, !.user = u, !.target = c, !.old = status[c],
                                 !.new = "deleted",
                                 !.place = IF op = "deleteComment" THEN under[c] ELSE None,
                                 !.n = IF op = "deleteComment" THEN replies[under[c]] ELSE 0])
    /\ UNCHANGED <<rows, marks, replies, posts>>

\* Mistake: the count is not adjusted when a comment is deleted.
KeepReply(x) == replies' = replies

\* The reply leaves the count of its post.
TakeReply(x) ==
    replies' = IF x.place = None THEN replies
               ELSE [replies EXCEPT ![x.place] = Flushed(@, x.n, Adjusted(x.n, -1))]

CommitDeleteComment(r) ==
    LET x == txn[r] IN
    /\ x.op \in {"deleteComment", "hardDeleteComment"} /\ Exists(x.target)
    /\ status' = [status EXCEPT ![x.target] = Flushed(@, x.old, x.new)]
    /\ TakeReply(x)
    /\ Ends(r)
    /\ UNCHANGED <<author, under, parent, marks, posts>>

-----------------------------------------------------------------------------
(* Cascades of foreign keys. *)

\* The rows removed with those of S: comments of a removed post, answers to a
\* removed comment.
Cascade(S) ==
    {t \in Target : \A D \in SUBSET Target :
        (S \subseteq D /\ \A c \in Comment : under[c] \in D \/ parent[c] \in D => c \in D)
          => t \in D}

Remove(S) == status' = [t \in Target |-> IF t \in Cascade(S) THEN "gone" ELSE status[t]]

\* delete_category: its posts go with it.
DeleteCategory(c) ==
    /\ posts[c] # None
    /\ posts' = [posts EXCEPT ![c] = None]
    /\ Remove({p \in Post : Exists(p) /\ under[p] = c})
    /\ UNCHANGED <<author, under, parent, marks, replies, txn>>

\* Requests that insert a row of their user.
Inserts(x) == x.op \in {"create", "comment"} \/ (x.op \in Mark /\ ~x.had)

\* An administrator deletes an account: its posts, comments and marks go with
\* it, and no counter changes.  Its open requests go on, but for those that would
\* insert a row: the foreign key makes them fail, whenever they get there, so they
\* have failed before (Abort).
EraseUser(u) ==
    /\ \A r \in Req : txn[r].user = u => ~Inserts(txn[r])
    /\ Remove({t \in Target : Exists(t) /\ author[t] = u})
    /\ by' = [k \in Mark |-> [t \in Target |-> by[k][t] \ {u}]]
    /\ erased' = [k \in Mark |-> [t \in Target |->
                    IF u \in by[k][t] THEN erased[k][t] + 1 ELSE erased[k][t]]]
    /\ UNCHANGED <<author, under, parent, count, replies, posts, txn>>

-----------------------------------------------------------------------------

Begin(r) ==
    \E u \in User :
      \/ \E k \in Mark, t \in Target : BeginToggle(r, k, u, t)
      \/ \E p \in Post :
           \/ \E c \in Category \cup {None}, st \in Status : BeginCreate(r, u, p, c, st)
           \/ \E op \in {"delete", "hardDelete"} : BeginDelete(r, op, u, p)
           \/ \E c \in Comment, q \in Comment \cup {None} : BeginComment(r, u, c, p, q)
      \/ \E op \in DOMAIN Review \cup {"update"}, t \in Target, st \in Status :
           BeginSetStatus(r, op, u, t, st)
      \/ \E op \in {"deleteComment", "hardDeleteComment"}, c \in Comment :
           BeginDeleteComment(r, op, u, c)

Commit(r) ==
    \/ CommitToggle(r)
    \/ CommitCreate(r) \/ CommitSetStatus(r) \/ CommitDelete(r)
    \/ CommitComment(r) \/ CommitDeleteComment(r)

Next ==
    \/ \E r \in Req : Begin(r) \/ Commit(r) \/ Abort(r)
    \/ \E c \in Category : DeleteCategory(c)
    \/ \E u \in User : EraseUser(u)

Spec == Init /\ [][Next]_vars

-----------------------------------------------------------------------------

TypeOK ==
    /\ status \in [Target -> Status \cup {"none", "gone"}]
    /\ author \in [Target -> User \cup {None}]
    /\ under \in [Target -> Post \cup Category \cup {None}]
    /\ \A p \in Post : under[p] \in Category \cup {None}
    /\ \A c \in Comment : under[c] \in Post \cup {None}
    /\ parent \in [Comment -> Comment \cup {None}]
    /\ by \in [Mark -> [Target -> SUBSET User]]
    /\ count \in [Mark -> [Target -> Nat]]
    /\ erased \in [Mark -> [Target -> Nat]]
    /\ replies \in [Target -> Nat]
    /\ posts \in [Category -> Nat \cup {None}]
    /\ txn \in [Req -> TxnRec]

\* A like or favourite counter never shows more than there are marks, except
\* for the marks that went with their user's account: two requests of one user
\* that take back the same mark lower it twice, and nothing raises it twice.
CountsCovered ==
    \A k \in Mark, t \in Target :
      status[t] # "gone" => count[k][t] <= Cardinality(by[k][t]) + erased[k][t]

\* Requests hold what their operation works on.
TxnOK ==
    \A r \in Req : LET x == txn[r] IN
      /\ x.op # "none" => x.user \in User /\ x.target \in Target
      /\ x.op = "create" => x.target \in Post /\ x.new \in Status
      /\ x.op \in {"create", "delete", "hardDelete"} => x.place \in Category \cup {None}
      /\ x.op = "comment" => x.target \in Comment /\ x.place \in Post
      /\ x.op \in {"deleteComment", "hardDeleteComment"} => x.place \in Post \cup {None}
      /\ x.op \in DOMAIN Review \cup {"update", "delete", "hardDelete",
                                    "deleteComment", "hardDeleteComment"} => x.new \in Status

\* What a request is about to mark was published when it looked.
MarksReal == \A r \in Req : txn[r].op \in Mark => status[txn[r].target] # "none"

\* A post that exists is in a category that exists, or in none, and a comment
\* that exists is under a post.
Placed ==
    /\ \A p \in Post : Exists(p) /\ under[p] # None => posts[under[p]] # None
    /\ \A c \in Comment : Exists(c) => under[c] \in Post

IInv == TypeOK /\ TxnOK /\ Placed /\ MarksReal /\ CountsCovered

\* A reply counter of a post equals its comments that were not deleted.
RepliesCounted ==
    \A p \in Post : Exists(p) =>
      replies[p] = Cardinality({c \in Comment : Exists(c) /\ under[c] = p /\ status[c] # "deleted"})

\* A like or favourite counter equals the marks, counting those erased with accounts.
MarksCounted ==
    \A k \in Mark, t \in Target :
      Exists(t) => count[k][t] = Cardinality(by[k][t]) + erased[k][t]

\* The post counter of a category equals its posts that were not deleted.
PostsCounted ==
    \A c \in Category : posts[c] # None =>
      posts[c] = Cardinality({p \in Post : Exists(p) /\ under[p] = c /\ status[p] # "deleted"})
=============================================================================

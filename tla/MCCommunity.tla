----------------------------- MODULE MCCommunity -----------------------------
(* Small instances of Community for TLC. *)
EXTENDS Community, TLC

\* `scene` says which operations the requests of a behaviour are: likes or
\* favourites, whose requests overlap, or threads of comments or the posts of a
\* category, whose requests follow each other (overlapping ones lose updates of
\* reply_count and post_count).
VARIABLES
    scene,
    serial, \* history: no two requests have been under way at the same time, and no
            \* account was deleted during a request of its own
    tidy    \* history: no comment was hard-deleted, or hidden or restored after its
            \* deletion, and no row was removed by a cascade

SceneOps ==
    [likes   |-> {"like", "comment"},
     favors  |-> {"favorite", "delete"},
     threads |-> CommentOp \cup {"hide", "restore"},
     board   |-> PostOp \cup DOMAIN Review]

\* Bounds: the marks one user erases with an account, and the comments marked.
MaxErased == 1
MaxMarked == 1

SerialInit == Init /\ serial = TRUE /\ tidy = TRUE

Untidy(r) ==
    \/ txn[r].op = "hardDeleteComment" /\ txn[r].old # "deleted"
    \/ txn[r].op \in {"hide", "restore"} /\ txn[r].old = "deleted"

\* With histories and without bounds.
SerialNext ==
    /\ Next
    /\ serial' = (serial /\ Cardinality({r \in Req : txn'[r].op # "none"}) <= 1
                         /\ ~\E r \in Req : ~Idle(r) /\ EraseUser(txn[r].user))
    /\ tidy' = (tidy /\ ~(\E t \in Target : status'[t] = "gone") /\ ~\E r \in Req : Untidy(r))

SerialSpec == SerialInit /\ [][SerialNext]_<<vars, serial, tidy>>

MCInit == SerialInit /\ scene \in DOMAIN SceneOps

MCNext ==
    /\ SerialNext
    /\ \A r \in Req : txn'[r].op \in SceneOps[scene] \cup {"none"}
    /\ (\E c \in Category : posts'[c] = None) => scene \in {"threads", "board"}
    /\ \A k \in Mark, t \in Target : erased'[k][t] <= MaxErased
    /\ scene = "likes" => Cardinality({c \in Comment : status'[c] # "none"}) <= MaxMarked
    /\ scene \notin {"likes", "favors"} => serial'
    /\ UNCHANGED scene

MCSpec == MCInit /\ [][MCNext]_<<vars, scene, serial, tidy>>

\* As long as requests do not overlap, the like and favourite counters are exact
\* but for erased accounts.  If besides no comment is hard-deleted, none is hidden
\* or restored after its deletion, and no account or category is removed, a post's
\* reply counter is the number of its comments that were not deleted, hidden ones
\* included.
SerialCountersExact == serial => MarksCounted /\ (tidy => RepliesCounted)

\* As long as requests do not overlap, the post counter of a category is the
\* number of its posts that were not deleted.
SerialPostsCounted == serial => PostsCounted

\* What a request has loaded is what the rows say, if it is alone.
Loaded(r) ==
    LET x == txn[r] IN
    /\ x.op \in Mark => x.had = (x.user \in by[x.op][x.target])
    /\ x.op \in {"comment", "deleteComment"} => x.n = replies[x.place]
    /\ x.op \in {"hide", "restore", "deleteComment", "hardDeleteComment"} /\ tidy =>
         x.old = status[x.target]
    /\ x.op = "deleteComment" => x.old # "deleted" /\ x.place = under[x.target]

\* Which rows an operation is about.
About(r) ==
    LET x == txn[r] IN
    /\ x.op \in PostOp \cup {"publish", "archive"} => x.target \in Post
    /\ x.op \in CommentOp => x.target \in Comment
    /\ x.op = "hardDeleteComment" => x.place = None
    /\ x.op \in {"deleteComment", "hardDeleteComment"} => x.new = "deleted"
    /\ x.op \in DOMAIN Review => x.new # "deleted"

\* The comments of a post that its counter is about.
Counted(p) == {c \in Comment : Exists(c) /\ under[c] = p /\ status[c] # "deleted"}

\* What makes SerialCountersExact inductive: of the rows a cascade removed nothing
\* is said, and of those that do not exist yet that they have neither marks nor comments.
SerialInv ==
    /\ IInv
    /\ IsFiniteSet({r \in Req : ~Idle(r)})
    /\ \A r \in Req : About(r)
    /\ serial => /\ \A q, r \in Req : ~Idle(q) /\ ~Idle(r) => q = r
                 /\ \A r \in Req : Loaded(r)
                 /\ \A k \in Mark, t \in Target :
                      status[t] # "gone" => count[k][t] = Cardinality(by[k][t]) + erased[k][t]
    /\ tidy => /\ \A t \in Target : status[t] # "gone"
               /\ IsFiniteSet({c \in Comment : status[c] # "none"})
    /\ serial /\ tidy => \A p \in Post : replies[p] = Cardinality(Counted(p))

Symmetry == Permutations(Post) \cup Permutations(Comment) \cup Permutations(Req)
            \cup Permutations(User \ Moderator)
=============================================================================

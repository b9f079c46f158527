------------------------------ MODULE MCViewCount ------------------------------
(* Small instances of ViewCount for TLC. *)
EXTENDS ViewCount, TLC

\* Bounds of a behaviour: failures (calls of the cache Redis does not answer,
\* flushes that fail, workers that stop), windows that end, views and posts.
Bounds ==
    [calm |-> [failures |-> 0, windows |-> 0, views |-> 3, posts |-> 2],
     repeated |-> [failures |-> 0, windows |-> 1, views |-> 3, posts |-> 1],
     failing |-> [failures |-> 2, windows |-> 1, views |-> 2, posts |-> 1]]

VARIABLES
    scene,
    failed, \* history: flushes that failed in the database
    stops,  \* history: workers that stopped
    windows \* history: windows that ended

\* Views, workers and posts are interchangeable until one is used: views are
\* taken in turn, and the first is at a fixed worker and post.
InTurn ==
    /\ \A v, x \in View : x < v /\ call[x].pc = "none" => call[v].pc = "none"
    /\ call[1].worker \in {None, CHOOSE w \in Worker : TRUE}
    /\ call[1].post \in {None, CHOOSE p \in Post : TRUE}

MCInit == Init /\ failed = 0 /\ stops = 0 /\ windows = 0 /\ scene \in DOMAIN Bounds

failures == outages + failed + stops

Within(b) ==
    /\ failures <= b.failures /\ windows <= b.windows
    /\ Cardinality({v \in View : call[v].pc # "none"}) <= b.views
    /\ Cardinality({call[v].post : v \in View} \ {None}) <= b.posts

MCNext ==
    /\ \/ /\ \/ \E v \in View : Request(v)
             \/ \E w \in Worker : Flush(w)
          /\ UNCHANGED <<failed, stops, windows>>
       \/ /\ \E p \in Post, u \in Viewer : WindowEnds(p, u)
          /\ windows' = windows + 1 /\ UNCHANGED <<failed, stops>>
       \/ /\ \E w \in Worker : FailWrite(w)
          /\ failed' = failed + 1 /\ UNCHANGED <<stops, windows>>
       \/ /\ \E w \in Worker : Stop(w)
          /\ stops' = stops + 1 /\ UNCHANGED <<failed, windows>>
    /\ UNCHANGED scene
    /\ Within(Bounds[scene])' /\ InTurn'

MCvars == <<vars, scene, failed, stops, windows>>

MCSpec == MCInit /\ [][MCNext]_MCvars /\ Fairness

\* While Redis answers, no flush fails in the database and no worker stops,
\* every view that is counted reaches view_count, unless it was counted between
\* the GETSET of its post and the end of that round of its worker, which forgets
\* the post.
CountedLands ==
    \A v \in View :
      (v \in held[Redis]) ~> (v \in landed \/ v \in raced \/ failures > 0)

\* What the module's docstring says of a flush that fails in the database: the
\* views stay in Redis and the next flush adds them.
FailedFlushLosesNothing ==
    stops + outages = 0 =>
      \A v \in View : call[v].pc = "done" =>
        \/ v \in landed
        \/ \E a \in Place : v \in held[a]
        \/ \E w \in Worker : v \in flush[w].taken
=============================================================================

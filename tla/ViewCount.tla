------------------------------- MODULE ViewCount -------------------------------
(***************************************************************************)
(* The view counter of community posts: app/services/view_count.py over     *)
(* app/core/cache.                                                          *)
(*                                                                          *)
(* A request raises two keys, one that tells repeated views of a viewer     *)
(* apart and one that counts; a task in every worker takes the counters     *)
(* with GETSET and adds them to the database.  A counter is modelled by the *)
(* set of views it holds, so its value is the size of that set and a view   *)
(* counted twice is a view in two places.                                   *)
(*                                                                          *)
(* Every call of the cache may be answered by Redis, by the memory of the   *)
(* worker when Redis is not asked or not reached, or by the memory after    *)
(* Redis obeyed and the reply was lost.                                     *)
(***************************************************************************)
EXTENDS Integers, FiniteSets

CONSTANTS
    Worker, \* processes of the web server
    View,   \* calls of record_view
    Post,
    Viewer, \* users and address hashes
    Redis,  \* the shared place of keys
    None

ASSUME PlaceAssumption == Redis \notin Worker /\ None \notin Viewer

VARIABLES
    call,    \* how far each call of record_view has come
    seen,    \* per place, post and viewer: what the dedup key holds (2 stands for more)
    ttl,     \* per place, post and viewer: whether that key ends with the window
    held,    \* per place: the views in its counters
    pending, \* _pending of each worker
    flush,   \* _flush_once of each worker
    landed,  \* view_count of the posts: the views added so far
    first,   \* history, per place: the views it counted as first in the window
    doubled, \* history: views whose count Redis obeyed without an answer
    raced,   \* history: views counted after their worker's flush took the counter
             \* of their post and before it forgot the post
    outages  \* history: calls of the cache that Redis did not answer

keys == <<seen, ttl, first>>
counters == <<held, landed, doubled, raced>>
vars == <<call, keys, counters, pending, flush, outages>>

Place == Worker \cup {Redis}

CallRec == [pc: {"none", "window", "count", "pend", "done", "skip", "lost"},
            worker: Worker \cup {None}, post: Post \cup {None}, viewer: Viewer \cup {None}]

FlushRec == [pc: {"idle", "take", "write"}, batch: SUBSET Post, left: SUBSET Post,
             taken: SUBSET View]

NoCall == [pc |-> "none", worker |-> None, post |-> None, viewer |-> None]
NoFlush == [pc |-> "idle", batch |-> {}, left |-> {}, taken |-> {}]

Init ==
    /\ call = [v \in View |-> NoCall]
    /\ seen = [a \in Place |-> [p \in Post |-> [u \in Viewer |-> 0]]]
    /\ ttl = [a \in Place |-> [p \in Post |-> [u \in Viewer |-> FALSE]]]
    /\ held = [a \in Place |-> {}]
    /\ pending = [w \in Worker |-> {}]
    /\ flush = [w \in Worker |-> NoFlush]
    /\ landed = {} /\ doubled = {} /\ raced = {}
    /\ first = [a \in Place |-> {}]
    /\ outages = 0

-----------------------------------------------------------------------------

\* DegradableCache.incr, getset and expire: the places the call changes and the
\* one that answers.
Answers(w) ==
    {[at |-> {Redis}, from |-> Redis],      \* Redis answers
     [at |-> {w}, from |-> w],              \* Redis is not asked or not reached
     [at |-> {Redis, w}, from |-> w]}       \* the reply is lost

Noted(o) == outages' = IF o.from = Redis THEN outages ELSE outages + 1

\* The views of S that are of post p.
Of(S, p) == {v \in S : call[v].post = p}

Moves(v, pc) == call' = [call EXCEPT ![v].pc = pc]

\* Mistake: the second view of a window passes too.
RepeatedTwice(n) == n > 2

\* record_view: `if n > 1: return False`.
Repeated(n) == n > 1

\* `if n == 1`: the key is new.
Opens(n) == n = 1

\* incr of the dedup key, without which an unidentified viewer goes on to count.
Record(v, w, p, u) ==
    /\ call[v].pc = "none"
    /\ \/ /\ u = None
          /\ call' = [call EXCEPT ![v] = [pc |-> "count", worker |-> w, post |-> p, viewer |-> u]]
          /\ UNCHANGED <<keys, outages>>
       \/ /\ u \in Viewer
          /\ \E o \in Answers(w) :
               LET n == seen[o.from][p][u] + 1 IN
               /\ call' = [call EXCEPT ![v] =
                    [pc |-> IF Repeated(n) THEN "skip" ELSE IF Opens(n) THEN "window" ELSE "count",
                     worker |-> w, post |-> p, viewer |-> u]]
               /\ seen' = [a \in Place |-> IF a \in o.at /\ seen[a][p][u] < 2
                                           THEN [seen[a] EXCEPT ![p][u] = @ + 1] ELSE seen[a]]
               /\ first' = IF Repeated(n) THEN first
                           ELSE [first EXCEPT ![o.from] = @ \cup {v}]
               /\ Noted(o) /\ UNCHANGED ttl
    /\ UNCHANGED <<counters, pending, flush>>

\* expire of the dedup key: nothing happens where the key does not exist.
Window(v) ==
    LET p == call[v].post  u == call[v].viewer IN
    /\ call[v].pc = "window" /\ Moves(v, "count")
    /\ \E o \in Answers(call[v].worker) :
         /\ ttl' = [a \in Place |-> IF a \in o.at /\ seen[a][p][u] > 0
                                    THEN [ttl[a] EXCEPT ![p][u] = TRUE] ELSE ttl[a]]
         /\ Noted(o)
    /\ UNCHANGED <<seen, first, counters, pending, flush>>

\* incr of the counter.
Count(v) ==
    LET w == call[v].worker IN
    /\ call[v].pc = "count" /\ Moves(v, "pend")
    /\ \E o \in Answers(w) :
         /\ held' = [a \in Place |-> IF a \in o.at THEN held[a] \cup {v} ELSE held[a]]
         /\ doubled' = IF o.at = {Redis, w} THEN doubled \cup {v} ELSE doubled
         /\ Noted(o)
    /\ raced' = IF call[v].post \in flush[w].batch \ flush[w].left
                THEN raced \cup {v} ELSE raced
    /\ UNCHANGED <<keys, landed, pending, flush>>

\* _pending.add.
Pend(v) ==
    /\ call[v].pc = "pend" /\ Moves(v, "done")
    /\ pending' = [pending EXCEPT ![call[v].worker] = @ \cup {call[v].post}]
    /\ UNCHANGED <<keys, counters, flush, outages>>

\* The window of 24 hours ends.  InMemoryCacheBackend.incr goes on counting in
\* a key that is past its end, so only keys of Redis begin again.
WindowEnds(p, u) ==
    /\ ttl[Redis][p][u]
    /\ seen' = [seen EXCEPT ![Redis][p][u] = 0]
    /\ ttl' = [ttl EXCEPT ![Redis][p][u] = FALSE]
    /\ first' = [first EXCEPT ![Redis] = {v \in @ : call[v].post # p \/ call[v].viewer # u}]
    /\ UNCHANGED <<call, counters, pending, flush, outages>>

-----------------------------------------------------------------------------

\* _flush_once: batch = list(_pending).
StartFlush(w) ==
    /\ flush[w].pc = "idle" /\ pending[w] # {}
    /\ flush' = [flush EXCEPT ![w] = [pc |-> "take", batch |-> pending[w], left |-> pending[w],
                                      taken |-> {}]]
    /\ UNCHANGED <<call, keys, counters, pending, outages>>

\* Mistake: the counter is read and not reset.
Unreset(p, S) == S

\* What GETSET(count key of p, 0) leaves of the views S of a place.
Emptied(p, S) == S \ Of(S, p)

\* getset of one post of the batch.
Take(w, p) ==
    /\ flush[w].pc = "take" /\ p \in flush[w].left
    /\ \E o \in Answers(w) :
         /\ flush' = [flush EXCEPT ![w].left = @ \ {p},
                                   ![w].taken = @ \cup Of(held[o.from], p)]
         /\ held' = [a \in Place |-> IF a \in o.at THEN Emptied(p, held[a]) ELSE held[a]]
         /\ Noted(o)
    /\ UNCHANGED <<call, keys, landed, doubled, raced, pending>>

\* Mistake: _pending.clear().
Cleared(w) == {}

\* _pending.difference_update(batch).
Forgotten(w) == pending[w] \ flush[w].batch

EndTake(w) ==
    /\ flush[w].pc = "take" /\ flush[w].left = {}
    /\ pending' = [pending EXCEPT ![w] = Forgotten(w)]
    /\ flush' = [flush EXCEPT ![w] = [NoFlush EXCEPT
                     !.pc = IF flush[w].taken = {} THEN "idle" ELSE "write",
                     !.taken = flush[w].taken]]
    /\ UNCHANGED <<call, keys, counters, outages>>

EndFlush(w) == flush[w].pc = "write" /\ flush' = [flush EXCEPT ![w] = NoFlush]

\* The UPDATEs and their one commit.
Write(w) ==
    /\ EndFlush(w) /\ landed' = landed \cup flush[w].taken
    /\ UNCHANGED <<call, keys, held, doubled, raced, pending, outages>>

\* The database fails: _flush_loop logs the error and goes on.
FailWrite(w) == EndFlush(w) /\ UNCHANGED <<call, keys, counters, pending, outages>>

\* A worker stops or dies; the shutdown hook does not flush again.
Stop(w) ==
    /\ call' = [v \in View |-> IF call[v].worker = w /\ call[v].pc \in {"window", "count", "pend"}
                               THEN [call[v] EXCEPT !.pc = "lost"] ELSE call[v]]
    /\ seen' = [seen EXCEPT ![w] = [p \in Post |-> [u \in Viewer |-> 0]]]
    /\ ttl' = [ttl EXCEPT ![w] = [p \in Post |-> [u \in Viewer |-> FALSE]]]
    /\ first' = [first EXCEPT ![w] = {}]
    /\ held' = [held EXCEPT ![w] = {}]
    /\ pending' = [pending EXCEPT ![w] = {}]
    /\ flush' = [flush EXCEPT ![w] = NoFlush]
    /\ UNCHANGED <<landed, doubled, raced, outages>>

-----------------------------------------------------------------------------

Request(v) ==
    \/ \E w \in Worker, p \in Post, u \in Viewer \cup {None} : Record(v, w, p, u)
    \/ Window(v) \/ Count(v) \/ Pend(v)

Flush(w) == StartFlush(w) \/ (\E p \in Post : Take(w, p)) \/ EndTake(w) \/ Write(w)

\* Steps in which no worker and no database fails.
Run ==
    \/ \E v \in View : Request(v)
    \/ \E p \in Post, u \in Viewer : WindowEnds(p, u)
    \/ \E w \in Worker : Flush(w)

Next == Run \/ \E w \in Worker : FailWrite(w) \/ Stop(w)

Spec == Init /\ [][Next]_vars

\* _flush_loop wakes up again and again, whatever failed before; a request that
\* is under way goes on.
Fairness ==
    /\ \A w \in Worker : WF_vars(Flush(w))
    /\ \A v \in View : WF_vars(Window(v)) /\ WF_vars(Count(v)) /\ WF_vars(Pend(v))

-----------------------------------------------------------------------------

TypeOK ==
    /\ call \in [View -> CallRec]
    /\ seen \in [Place -> [Post -> [Viewer -> 0 .. 2]]]
    /\ ttl \in [Place -> [Post -> [Viewer -> BOOLEAN]]]
    /\ held \in [Place -> SUBSET View]
    /\ pending \in [Worker -> SUBSET Post]
    /\ flush \in [Worker -> FlushRec]
    /\ landed \in SUBSET View /\ doubled \in SUBSET View /\ raced \in SUBSET View
    /\ first \in [Place -> SUBSET View]
    /\ outages \in Nat

CallsKnown ==
    \A v \in View : call[v].pc # "none" => call[v].worker \in Worker /\ call[v].post \in Post

\* A view is in a counter, in a flush or in the database only after it was counted.
OnlyCounted ==
    \A v \in View : call[v].pc \in {"none", "window", "count", "skip"} =>
      /\ \A a \in Place : v \notin held[a]
      /\ \A w \in Worker : v \notin flush[w].taken
      /\ v \notin landed /\ v \notin doubled

\* No view is added to view_count twice, whichever workers flush at the same
\* time and whatever fails between them: but for an increment that Redis obeyed
\* without an answer, a view is in one counter, in one flush or in the database.
CountedOnce ==
    \A v \in View \ doubled :
      /\ \A a, b \in Place : v \in held[a] /\ v \in held[b] => a = b
      /\ \A a \in Place : v \in held[a] =>
           v \notin landed /\ \A w \in Worker : v \notin flush[w].taken
      /\ \A w \in Worker : v \in flush[w].taken =>
           v \notin landed /\ \A x \in Worker : v \in flush[x].taken => w = x

\* The dedup key of whoever was counted in the window stands.
KeysStand ==
    \A a \in Place : \A v \in first[a] :
      call[v].pc # "none" /\ call[v].viewer \in Viewer /\ call[v].post \in Post
        /\ seen[a][call[v].post][call[v].viewer] > 0

\* Within a window every place of keys counts one view of a viewer and a post,
\* however the requests of that viewer overlap on however many workers.
OncePerWindow ==
    \A a \in Place : \A v, x \in first[a] :
      call[v].post = call[x].post /\ call[v].viewer = call[x].viewer => v = x

WindowsKnown == \A v \in View : call[v].pc = "window" => call[v].viewer \in Viewer

IInv ==
    /\ TypeOK /\ CallsKnown /\ WindowsKnown /\ OnlyCounted /\ CountedOnce
    /\ KeysStand /\ OncePerWindow
=============================================================================

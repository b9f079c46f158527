------------------------- MODULE RedisOutage_proofs -------------------------
(***************************************************************************)
(* Proofs about what works on without Redis, for any number of processes,   *)
(* calls, tokens and keys and any limits: the view counter (ViewCount), the *)
(* blacklist and the rate limiter (MCRedisOutage).                          *)
(***************************************************************************)
EXTENDS MCRedisOutage, ViewCount, FiniteSetTheorems, SequenceTheorems, TLAPS

-----------------------------------------------------------------------------
(* The view counter.                                                         *)

\* The operators of the model return what their names say.
LEMMA PatchedTyped ==
  ASSUME NEW S, NEW T, NEW V, NEW f \in [S -> [T -> V]], NEW p \in S, NEW u \in T, NEW x \in V
  PROVE  [f EXCEPT ![p][u] = x] \in [S -> [T -> V]]
  OBVIOUS

LEMMA AnswersAre ==
  ASSUME NEW w \in Worker, NEW o \in Answers(w)
  PROVE  /\ o.at \subseteq Place /\ o.from \in o.at /\ o.from \in Place
         /\ o.at = {Redis} \/ o.at = {w} \/ o.at = {Redis, w}
         /\ o.at = {Redis} => o.from = Redis
         /\ o.at # {Redis} => o.from = w
  BY PlaceAssumption DEF Answers, Place

LEMMA NotedTyped ==
  ASSUME NEW o, outages \in Nat, Noted(o)
  PROVE  outages' \in Nat
  BY DEF Noted

LEMMA MovesTyped ==
  ASSUME NEW v \in View, NEW pc \in {"count", "pend", "done"},
         call \in [View -> CallRec], Moves(v, pc)
  PROVE  call' \in [View -> CallRec]
  BY DEF Moves, CallRec

\* Only a move of v changes the call of v, and then only its pc.
LEMMA MovesKeep ==
  ASSUME NEW v \in View, NEW pc \in {"count", "pend", "done"}, call \in [View -> CallRec], Moves(v, pc)
  PROVE  /\ call'[v].pc = pc
         /\ \A x \in View : x # v => call'[x] = call[x]
         /\ \A x \in View : /\ call'[x].post = call[x].post
                            /\ call'[x].worker = call[x].worker
                            /\ call'[x].viewer = call[x].viewer
  BY DEF Moves, CallRec

-----------------------------------------------------------------------------

\* The invariant holds when nobody has viewed.
LEMMA InitIInv == Init => IInv
  BY PlaceAssumption
  DEF Init, IInv, TypeOK, CallsKnown, WindowsKnown, OnlyCounted, CountedOnce, KeysStand,
      OncePerWindow, CallRec, FlushRec, NoCall, NoFlush, Place

\* Each action keeps the types.
LEMMA RecordTyped ==
  ASSUME TypeOK, NEW v \in View, NEW w \in Worker, NEW p \in Post,
         NEW u \in Viewer \cup {None}, Record(v, w, p, u)
  PROVE  TypeOK'
<1>1. CASE u = None
  <2>1. call' \in [View -> CallRec]
    <3>1. call' = [call EXCEPT ![v] = [pc |-> "count", worker |-> w, post |-> p, viewer |-> u]]
      BY <1>1, PlaceAssumption DEF Record
    <3> QED
      BY <1>1, <3>1 DEF TypeOK, CallRec
  <2> QED
    BY <1>1, <2>1, PlaceAssumption DEF TypeOK, Record, keys, counters
<1>2. CASE u \in Viewer
  <2>1. PICK o \in Answers(w) :
          /\ call' = [call EXCEPT ![v] =
               [pc |-> IF Repeated(seen[o.from][p][u] + 1) THEN "skip"
                       ELSE IF Opens(seen[o.from][p][u] + 1) THEN "window" ELSE "count",
                worker |-> w, post |-> p, viewer |-> u]]
          /\ seen' = [a \in Place |-> IF a \in o.at /\ seen[a][p][u] < 2
                                      THEN [seen[a] EXCEPT ![p][u] = @ + 1] ELSE seen[a]]
          /\ first' = IF Repeated(seen[o.from][p][u] + 1) THEN first
                      ELSE [first EXCEPT ![o.from] = @ \cup {v}]
          /\ Noted(o) /\ UNCHANGED ttl
    BY <1>2, PlaceAssumption DEF Record
  <2>2. call' \in [View -> CallRec]
    BY <1>2, <2>1 DEF TypeOK, CallRec
  <2>3. seen' \in [Place -> [Post -> [Viewer -> 0 .. 2]]]
    <3>1. ASSUME NEW a \in Place, seen[a][p][u] < 2
          PROVE  [seen[a] EXCEPT ![p][u] = @ + 1] \in [Post -> [Viewer -> 0 .. 2]]
      <4>1. seen[a] \in [Post -> [Viewer -> 0 .. 2]]
        BY DEF TypeOK
      <4>2. seen[a][p][u] + 1 \in 0 .. 2
        BY <1>2, <3>1, <4>1
      <4>3. [seen[a] EXCEPT ![p][u] = seen[a][p][u] + 1] \in [Post -> [Viewer -> 0 .. 2]]
        BY <1>2, <4>1, <4>2, PatchedTyped
      <4> QED
        BY <4>3
    <3> QED
      BY <2>1, <3>1 DEF TypeOK
  <2>4. first' \in [Place -> SUBSET View]
    BY <2>1, AnswersAre DEF TypeOK
  <2> QED
    BY <1>2, <2>1, <2>2, <2>3, <2>4, NotedTyped DEF TypeOK, Record, counters
<1> QED
  BY <1>1, <1>2

LEMMA RequestTyped ==
  ASSUME TypeOK, CallsKnown, WindowsKnown, NEW v \in View, Request(v)
  PROVE  TypeOK'
<1>1. CASE \E w \in Worker, p \in Post, u \in Viewer \cup {None} : Record(v, w, p, u)
  BY <1>1, RecordTyped
<1>2. CASE Window(v)
  <2>1. call' \in [View -> CallRec]
    BY <1>2, MovesTyped DEF TypeOK, Window
  <2>2. ttl' \in [Place -> [Post -> [Viewer -> BOOLEAN]]]
    <3>1. PICK o : ttl' = [a \in Place |-> IF a \in o.at /\ seen[a][call[v].post][call[v].viewer] > 0
                             THEN [ttl[a] EXCEPT ![call[v].post][call[v].viewer] = TRUE] ELSE ttl[a]]
      BY <1>2 DEF Window
    <3>2. ASSUME NEW a \in Place
          PROVE  [ttl[a] EXCEPT ![call[v].post][call[v].viewer] = TRUE]
                   \in [Post -> [Viewer -> BOOLEAN]]
      <4>1. ttl[a] \in [Post -> [Viewer -> BOOLEAN]] /\ TRUE \in BOOLEAN
        BY DEF TypeOK
      <4>2. call[v].post \in Post /\ call[v].viewer \in Viewer
        BY <1>2 DEF Window, CallsKnown, WindowsKnown
      <4> QED
        BY <4>1, <4>2, PatchedTyped
    <3> QED
      BY <3>1, <3>2 DEF TypeOK
  <2>3. outages' \in Nat
    BY <1>2, NotedTyped DEF TypeOK, Window
  <2> QED
    BY <1>2, <2>1, <2>2, <2>3 DEF TypeOK, Window, counters
<1>3. CASE Count(v)
  <2>1. call' \in [View -> CallRec]
    BY <1>3, MovesTyped DEF TypeOK, Count
  <2>2. /\ held' \in [Place -> SUBSET View] /\ doubled' \subseteq View /\ raced' \subseteq View
        /\ outages' \in Nat
    BY <1>3, NotedTyped DEF TypeOK, Count
  <2> QED
    BY <1>3, <2>1, <2>2 DEF TypeOK, Count, keys
<1>4. CASE Pend(v)
  <2>1. call' \in [View -> CallRec]
    BY <1>4, MovesTyped DEF TypeOK, Pend
  <2>2. call[v].worker \in Worker /\ call[v].post \in Post
    BY <1>4 DEF Pend, CallsKnown
  <2>3. pending' \in [Worker -> SUBSET Post]
    BY <1>4, <2>2 DEF TypeOK, Pend
  <2> QED
    BY <1>4, <2>1, <2>3 DEF TypeOK, Pend, keys, counters
<1> QED
  BY <1>1, <1>2, <1>3, <1>4 DEF Request

LEMMA FlushTyped ==
  ASSUME TypeOK, NEW w \in Worker, Flush(w) \/ FailWrite(w) \/ Stop(w)
  PROVE  TypeOK'
<1>1. CASE StartFlush(w)
  BY <1>1 DEF TypeOK, StartFlush, FlushRec, keys, counters
<1>2. CASE \E p \in Post : Take(w, p)
  <2>1. PICK p \in Post : Take(w, p)
    BY <1>2
  <2>2. PICK o \in Answers(w) :
          /\ flush' = [flush EXCEPT ![w].left = @ \ {p},
                                    ![w].taken = @ \cup Of(held[o.from], p)]
          /\ held' = [a \in Place |-> IF a \in o.at THEN Emptied(p, held[a]) ELSE held[a]]
          /\ Noted(o)
    BY <2>1 DEF Take
  <2>3. flush' \in [Worker -> FlushRec]
    <3>1. Of(held[o.from], p) \subseteq View
      BY AnswersAre DEF TypeOK, Of
    <3> QED
      <4>1. flush[w] \in FlushRec
        BY DEF TypeOK
      <4>2. [flush[w] EXCEPT !.left = flush[w].left \ {p},
                             !.taken = flush[w].taken \cup Of(held[o.from], p)] \in FlushRec
        BY <3>1, <4>1 DEF FlushRec
      <4>3. flush' = [flush EXCEPT ![w] = [flush[w] EXCEPT
                        !.left = flush[w].left \ {p},
                        !.taken = flush[w].taken \cup Of(held[o.from], p)]]
        BY <2>2, <4>1 DEF TypeOK, FlushRec
      <4> QED
        BY <4>2, <4>3 DEF TypeOK
  <2>4. held' \in [Place -> SUBSET View]
    BY <2>2 DEF TypeOK, Emptied
  <2> QED
    BY <2>1, <2>2, <2>3, <2>4, NotedTyped DEF TypeOK, Take, keys
<1>3. CASE EndTake(w)
  BY <1>3 DEF TypeOK, EndTake, Forgotten, FlushRec, NoFlush, keys, counters
<1>4. CASE Write(w) \/ FailWrite(w)
  <2>1. flush' \in [Worker -> FlushRec]
    <3>1. NoFlush \in FlushRec
      BY DEF NoFlush, FlushRec
    <3>2. flush' = [flush EXCEPT ![w] = NoFlush]
      BY <1>4 DEF Write, FailWrite, EndFlush
    <3> QED
      BY <3>1, <3>2 DEF TypeOK
  <2>2. landed' \in SUBSET View
    <3>1. flush[w].taken \subseteq View
      BY DEF TypeOK, FlushRec
    <3> QED
      BY <1>4, <3>1 DEF TypeOK, Write, FailWrite, counters
  <2> QED
    BY <1>4, <2>1, <2>2 DEF TypeOK, Write, FailWrite, keys, counters
<1>5. CASE Stop(w)
  <2>1. call' \in [View -> CallRec]
    <3>1. \A x \in View : [call[x] EXCEPT !.pc = "lost"] \in CallRec
      BY ZenonT(40) DEF TypeOK, CallRec
    <3> QED
      BY <1>5, <3>1 DEF TypeOK, Stop
  <2>2. /\ seen' \in [Place -> [Post -> [Viewer -> 0 .. 2]]]
        /\ ttl' \in [Place -> [Post -> [Viewer -> BOOLEAN]]]
        /\ first' \in [Place -> SUBSET View]
        /\ held' \in [Place -> SUBSET View]
        /\ pending' \in [Worker -> SUBSET Post]
    <3>1. /\ [p \in Post |-> [u \in Viewer |-> 0]] \in [Post -> [Viewer -> 0 .. 2]]
          /\ [p \in Post |-> [u \in Viewer |-> FALSE]] \in [Post -> [Viewer -> BOOLEAN]]
      OBVIOUS
    <3> QED
      BY <1>5, <3>1 DEF TypeOK, Stop
  <2>3. flush' \in [Worker -> FlushRec]
    BY <1>5 DEF TypeOK, Stop, NoFlush, FlushRec
  <2> QED
    BY <1>5, <2>1, <2>2, <2>3 DEF TypeOK, Stop
<1> QED
  BY <1>1, <1>2, <1>3, <1>4, <1>5 DEF Flush

-----------------------------------------------------------------------------
(* What a step does to the calls. *)

Early == {"none", "window", "count", "skip"}

\* A step leaves a call alone, starts it, or moves it on.
CallMoved(x) ==
    \/ call'[x] = call[x]
    \/ /\ call[x].pc = "none" /\ call'[x].pc \in {"window", "count", "skip"}
       /\ call'[x].worker \in Worker /\ call'[x].post \in Post
       /\ call'[x].pc = "window" => call'[x].viewer \in Viewer
    \/ /\ call[x].pc \in {"window", "count", "pend"}
       /\ call'[x].pc \in {"count", "pend", "done", "lost"}
       /\ call'[x].pc = "count" => call[x].pc = "window"
       /\ call'[x].worker = call[x].worker /\ call'[x].post = call[x].post
       /\ call'[x].viewer = call[x].viewer

\* Where a view may go in one step.
LEMMA RecordMoves ==
  ASSUME TypeOK, NEW v \in View, NEW w \in Worker, NEW p \in Post,
         NEW u \in Viewer \cup {None}, Record(v, w, p, u)
  PROVE  \A x \in View : CallMoved(x)
<1>1. PICK pc \in {"window", "count", "skip"} :
        /\ call' = [call EXCEPT ![v] = [pc |-> pc, worker |-> w, post |-> p, viewer |-> u]]
        /\ pc = "window" => u \in Viewer
  BY PlaceAssumption DEF Record
<1>2. call[v].pc = "none" /\ call \in [View -> CallRec]
  BY DEF Record, TypeOK
<1> QED
  BY <1>1, <1>2 DEF CallMoved

LEMMA StepMoves ==
  ASSUME TypeOK, Next
  PROVE  \A x \in View : CallMoved(x)
<1>0. call \in [View -> CallRec]
  BY DEF TypeOK
<1>1. ASSUME NEW v \in View, Request(v) PROVE \A x \in View : CallMoved(x)
  <2>1. CASE \E w \in Worker, p \in Post, u \in Viewer \cup {None} : Record(v, w, p, u)
    BY <2>1, RecordMoves
  <2>2. CASE Window(v)
    <3>1. Moves(v, "count")
      BY <2>2 DEF Window
    <3> QED
      BY <1>0, <2>2, <3>1, MovesKeep DEF Window, CallMoved
  <2>3. CASE Count(v)
    <3>1. Moves(v, "pend")
      BY <2>3 DEF Count
    <3> QED
      BY <1>0, <2>3, <3>1, MovesKeep DEF Count, CallMoved
  <2>4. CASE Pend(v)
    <3>1. Moves(v, "done")
      BY <2>4 DEF Pend
    <3> QED
      BY <1>0, <2>4, <3>1, MovesKeep DEF Pend, CallMoved
  <2> QED
    BY <1>1, <2>1, <2>2, <2>3, <2>4 DEF Request
<1>2. ASSUME NEW p \in Post, NEW u \in Viewer, WindowEnds(p, u) PROVE \A x \in View : CallMoved(x)
  BY <1>2 DEF WindowEnds, CallMoved
<1>3. ASSUME NEW w \in Worker, Flush(w) \/ FailWrite(w) PROVE \A x \in View : CallMoved(x)
  BY <1>3 DEF Flush, StartFlush, Take, EndTake, Write, FailWrite, CallMoved
<1>4. ASSUME NEW w \in Worker, Stop(w) PROVE \A x \in View : CallMoved(x)
  BY <1>0, <1>4 DEF Stop, CallMoved, CallRec
<1> QED
  BY <1>1, <1>2, <1>3, <1>4 DEF Next, Run

LEMMA CallsKept ==
  ASSUME CallsKnown, WindowsKnown, \A x \in View : CallMoved(x)
  PROVE  /\ CallsKnown' /\ WindowsKnown'
         /\ \A x \in View : call'[x].pc \in Early => call[x].pc \in Early
         /\ \A x \in View : call[x].pc # "none" =>
              /\ call'[x].pc # "none" /\ call'[x].post = call[x].post
              /\ call'[x].viewer = call[x].viewer
  BY DEF CallsKnown, WindowsKnown, CallMoved, Early

-----------------------------------------------------------------------------
(* No view is counted twice. *)

Where == OnlyCounted /\ CountedOnce

\* Each step that moves views leaves each of them in one place.
LEMMA CountWhere ==
  ASSUME TypeOK, CallsKnown, Where, NEW v \in View, Count(v),
         \A x \in View : call'[x].pc \in Early => call[x].pc \in Early
  PROVE  Where'
<1> DEFINE w == call[v].worker
<1>1. w \in Worker /\ call[v].pc = "count" /\ call'[v].pc = "pend"
  BY DEF Count, CallsKnown, TypeOK, Moves, CallRec
<1>2. PICK o \in Answers(w) :
        /\ held' = [a \in Place |-> IF a \in o.at THEN held[a] \cup {v} ELSE held[a]]
        /\ doubled' = IF o.at = {Redis, w} THEN doubled \cup {v} ELSE doubled
  BY DEF Count
<1>3. landed' = landed /\ flush' = flush
  BY DEF Count
<1>4. \A a \in Place : held'[a] \subseteq held[a] \cup {v}
  BY <1>2
<1>5. doubled \subseteq doubled' /\ doubled' \subseteq doubled \cup {v}
  BY <1>2
<1>6. OnlyCounted'
  BY <1>1, <1>3, <1>4, <1>5 DEF Where, OnlyCounted, Early
<1>7. CountedOnce'
  <2>1. ASSUME NEW x \in View \ doubled', x # v
        PROVE  /\ \A a \in Place : x \in held'[a] <=> x \in held[a]
               /\ x \in View \ doubled
    BY <1>2, <1>4, <1>5, <2>1
  <2>2. v \notin doubled' => \E a \in Place : \A b \in Place : v \in held'[b] <=> b = a
    <3>1. \A b \in Place : v \notin held[b]
      BY <1>1 DEF Where, OnlyCounted
    <3>2. o.at = {Redis} \/ o.at = {w} \/ o.at = {Redis, w}
      BY <1>1, AnswersAre
    <3> QED
      BY <1>1, <1>2, <3>1, <3>2 DEF Place
  <2>3. v \notin landed /\ \A x \in Worker : v \notin flush[x].taken
    BY <1>1 DEF Where, OnlyCounted
  <2> QED
    BY <1>3, <2>1, <2>2, <2>3 DEF Where, CountedOnce
<1> QED
  BY <1>6, <1>7 DEF Where

LEMMA TakeWhere ==
  ASSUME TypeOK, Where, NEW w \in Worker, NEW p \in Post, Take(w, p)
  PROVE  Where'
<1>1. PICK o \in Answers(w) :
        /\ flush' = [flush EXCEPT ![w].left = @ \ {p},
                                  ![w].taken = @ \cup Of(held[o.from], p)]
        /\ held' = [a \in Place |-> IF a \in o.at THEN Emptied(p, held[a]) ELSE held[a]]
  BY DEF Take
<1>2. call' = call /\ landed' = landed /\ doubled' = doubled
  BY DEF Take, keys
<1>3. \A a \in Place : held'[a] \subseteq held[a]
  BY <1>1 DEF Emptied
<1>4. o.from \in Place /\ held'[o.from] = held[o.from] \ Of(held[o.from], p)
  BY <1>1, AnswersAre DEF Emptied
<1>5. /\ flush'[w].taken = flush[w].taken \cup Of(held[o.from], p)
      /\ \A x \in Worker : x # w => flush'[x].taken = flush[x].taken
  <2>1. flush[w] \in FlushRec
    BY DEF TypeOK
  <2> QED
    BY <1>1, <2>1 DEF TypeOK, FlushRec
<1>6. Of(held[o.from], p) \subseteq held[o.from]
  BY DEF Of
<1>7. OnlyCounted'
  BY <1>2, <1>3, <1>4, <1>5, <1>6 DEF Where, OnlyCounted
<1>8. CountedOnce'
  BY <1>2, <1>3, <1>4, <1>5, <1>6 DEF Where, CountedOnce
<1> QED
  BY <1>7, <1>8 DEF Where

LEMMA WriteWhere ==
  ASSUME TypeOK, Where, NEW w \in Worker, Write(w)
  PROVE  Where'
<1>1. /\ landed' = landed \cup flush[w].taken
      /\ call' = call /\ held' = held /\ doubled' = doubled
  BY DEF Write
<1>2. flush'[w].taken = {} /\ \A x \in Worker : x # w => flush'[x] = flush[x]
  BY DEF Write, EndFlush, TypeOK, NoFlush
<1> QED
  BY <1>1, <1>2 DEF Where, OnlyCounted, CountedOnce

\* A step that brings no view anywhere.
LEMMA NothingArrives ==
  ASSUME Where, doubled' = doubled,
         \A x \in View : call'[x].pc \in Early => call[x].pc \in Early,
         \A a \in Place : held'[a] \subseteq held[a],
         \A x \in Worker : flush'[x].taken \subseteq flush[x].taken,
         landed' = landed
  PROVE  Where'
  BY DEF Where, OnlyCounted, CountedOnce, Early

LEMMA WhereKept ==
  ASSUME TypeOK, CallsKnown, Where, Next,
         \A x \in View : call'[x].pc \in Early => call[x].pc \in Early
  PROVE  Where'
<1>1. ASSUME NEW v \in View, Request(v) PROVE Where'
  <2>1. CASE Count(v)
    BY <2>1, CountWhere
  <2>2. CASE ~Count(v)
    <3>1. UNCHANGED <<counters, flush>>
      BY <1>1, <2>2 DEF Request, Record, Window, Pend
    <3> QED
      BY <3>1, NothingArrives DEF counters
  <2> QED
    BY <2>1, <2>2
<1>2. ASSUME NEW p \in Post, NEW u \in Viewer, WindowEnds(p, u) PROVE Where'
  BY <1>2, NothingArrives DEF WindowEnds, counters
<1>3. ASSUME NEW w \in Worker, Flush(w) \/ FailWrite(w) \/ Stop(w) PROVE Where'
  <2>1. CASE \E p \in Post : Take(w, p)
    BY <2>1, TakeWhere
  <2>2. CASE Write(w)
    BY <2>2, WriteWhere
  <2>3. CASE StartFlush(w) \/ EndTake(w) \/ FailWrite(w)
    <3>1. \A x \in Worker : flush'[x].taken \subseteq flush[x].taken
      <4>1. CASE StartFlush(w)
        BY <4>1 DEF StartFlush, TypeOK
      <4>2. CASE EndTake(w)
        BY <4>2 DEF EndTake, TypeOK, NoFlush
      <4>3. CASE FailWrite(w)
        BY <4>3 DEF FailWrite, EndFlush, TypeOK, NoFlush
      <4> QED
        BY <2>3, <4>1, <4>2, <4>3
    <3> QED
      BY <2>3, <3>1, NothingArrives DEF StartFlush, EndTake, FailWrite, counters
  <2>4. CASE Stop(w)
    <3>1. \A x \in Worker : flush'[x].taken \subseteq flush[x].taken
      BY <2>4 DEF Stop, TypeOK, NoFlush
    <3>2. \A a \in Place : held'[a] \subseteq held[a]
      BY <2>4 DEF Stop, TypeOK
    <3> QED
      BY <2>4, <3>1, <3>2, NothingArrives DEF Stop
  <2> QED
    BY <1>3, <2>1, <2>2, <2>3, <2>4 DEF Flush
<1> QED
  BY <1>1, <1>2, <1>3 DEF Next, Run

-----------------------------------------------------------------------------
(* One view per window. *)

Windows == KeysStand /\ OncePerWindow

\* A viewer counted within a window keeps the key that says so.
LEMMA RecordWindows ==
  ASSUME TypeOK, Windows, NEW v \in View, NEW w \in Worker, NEW p \in Post,
         NEW u \in Viewer, Record(v, w, p, u)
  PROVE  Windows'
<1>1. PICK o \in Answers(w) :
        LET n == seen[o.from][p][u] + 1 IN
        /\ call' = [call EXCEPT ![v] =
             [pc |-> IF Repeated(n) THEN "skip" ELSE IF Opens(n) THEN "window" ELSE "count",
              worker |-> w, post |-> p, viewer |-> u]]
        /\ seen' = [a \in Place |-> IF a \in o.at /\ seen[a][p][u] < 2
                                    THEN [seen[a] EXCEPT ![p][u] = @ + 1] ELSE seen[a]]
        /\ first' = IF Repeated(n) THEN first ELSE [first EXCEPT ![o.from] = @ \cup {v}]
  BY PlaceAssumption DEF Record
<1>2. o.from \in o.at /\ o.from \in Place
  BY AnswersAre
<1>3. call[v].pc = "none" /\ \A x \in View : x # v => call'[x] = call[x]
  BY <1>1 DEF Record, TypeOK
<1>4. call'[v].pc # "none" /\ call'[v].post = p /\ call'[v].viewer = u
  BY <1>1 DEF TypeOK
<1>5. \A a \in Place, q \in Post, y \in Viewer : seen[a][q][y] > 0 => seen'[a][q][y] > 0
  <2>1. ASSUME NEW a \in Place PROVE seen[a] \in [Post -> [Viewer -> 0 .. 2]]
    BY DEF TypeOK
  <2>2. ASSUME NEW a \in Place, NEW q \in Post, NEW y \in Viewer
        PROVE  seen'[a][q][y] \in {seen[a][q][y], seen[a][q][y] + 1}
    BY <1>1, <2>1
  <2> QED
    BY <2>1, <2>2
<1>6. \A a \in Place : v \notin first[a]
  BY <1>3 DEF Windows, KeysStand
<1>7. CASE Repeated(seen[o.from][p][u] + 1)
  <2>1. first' = first
    BY <1>1, <1>7
  <2>2. \A a \in Place : \A x \in first[a] : x \in View /\ x # v /\ call'[x] = call[x]
    BY <1>3, <1>6 DEF TypeOK
  <2>3. KeysStand'
    BY <1>5, <2>1, <2>2 DEF Windows, KeysStand
  <2>4. OncePerWindow'
    BY <2>1, <2>2 DEF Windows, OncePerWindow
  <2> QED
    BY <2>3, <2>4 DEF Windows
<1>8. CASE ~Repeated(seen[o.from][p][u] + 1)
  <2>1. /\ first'[o.from] = first[o.from] \cup {v}
        /\ \A a \in Place : a # o.from => first'[a] = first[a]
    BY <1>1, <1>2, <1>8 DEF TypeOK
  <2>2. seen[o.from][p][u] = 0
    <3>1. seen[o.from][p][u] \in 0 .. 2
      BY <1>2 DEF TypeOK
    <3> QED
      BY <1>8, <3>1 DEF Repeated
  <2>3. \A x \in first[o.from] : call[x].post # p \/ call[x].viewer # u
    BY <1>2, <2>2 DEF Windows, KeysStand
  <2>4. \A a \in Place : \A x \in first[a] : x \in View /\ x # v /\ call'[x] = call[x]
    BY <1>3, <1>6 DEF TypeOK
  <2>5. seen'[o.from][p][u] > 0
    <3>1. seen[o.from] \in [Post -> [Viewer -> 0 .. 2]]
      BY <1>2 DEF TypeOK
    <3> QED
      BY <1>1, <1>2, <2>2, <3>1
  <2>6. KeysStand'
    BY <1>4, <1>5, <2>1, <2>4, <2>5 DEF Windows, KeysStand
  <2>7. OncePerWindow'
    BY <1>2, <1>4, <2>1, <2>3, <2>4 DEF Windows, OncePerWindow
  <2> QED
    BY <2>6, <2>7 DEF Windows
<1> QED
  BY <1>7, <1>8

LEMMA WindowsKept ==
  ASSUME TypeOK, Windows, Next,
         \A x \in View : call[x].pc # "none" =>
           /\ call'[x].pc # "none" /\ call'[x].post = call[x].post
           /\ call'[x].viewer = call[x].viewer
  PROVE  Windows'
<1>0. \A a \in Place : \A x \in first[a] :
        x \in View /\ call'[x].pc # "none" /\ call'[x].post = call[x].post
          /\ call'[x].viewer = call[x].viewer
  BY DEF TypeOK, Windows, KeysStand
<1>1. CASE UNCHANGED <<seen, first>>
  BY <1>0, <1>1 DEF Windows, KeysStand, OncePerWindow
<1>2. ASSUME NEW v \in View, Request(v) PROVE Windows'
  <2>1. ASSUME NEW w \in Worker, NEW p \in Post, NEW u \in Viewer \cup {None}, Record(v, w, p, u)
        PROVE  Windows'
    <3>1. CASE u \in Viewer
      BY <2>1, <3>1, RecordWindows
    <3>2. CASE u = None
      BY <1>1, <2>1, <3>2, PlaceAssumption DEF Record, keys
    <3> QED
      BY <3>1, <3>2
  <2>2. CASE Window(v) \/ Count(v) \/ Pend(v)
    BY <1>1, <2>2 DEF Window, Count, Pend, keys
  <2> QED
    BY <1>2, <2>1, <2>2 DEF Request
<1>3. ASSUME NEW p \in Post, NEW u \in Viewer, WindowEnds(p, u) PROVE Windows'
  <2>1. /\ first'[Redis] = {x \in first[Redis] : call[x].post # p \/ call[x].viewer # u}
        /\ \A a \in Place : a # Redis => first'[a] = first[a] /\ seen'[a] = seen[a]
    BY <1>3 DEF WindowEnds, TypeOK, Place
  <2>2. \A q \in Post, y \in Viewer : q # p \/ y # u => seen'[Redis][q][y] = seen[Redis][q][y]
    BY <1>3 DEF WindowEnds, TypeOK, Place
  <2>3. \A a \in Place : first'[a] \subseteq first[a]
    BY <2>1
  <2>4. KeysStand'
    BY <1>0, <2>1, <2>2, <2>3 DEF Windows, KeysStand
  <2>5. OncePerWindow'
    BY <1>0, <2>3 DEF Windows, OncePerWindow
  <2> QED
    BY <2>4, <2>5 DEF Windows
<1>4. ASSUME NEW w \in Worker, Flush(w) \/ FailWrite(w) PROVE Windows'
  BY <1>1, <1>4 DEF Flush, StartFlush, Take, EndTake, Write, FailWrite, keys
<1>5. ASSUME NEW w \in Worker, Stop(w) PROVE Windows'
  <2>1. /\ first'[w] = {}
        /\ \A a \in Place : a # w => first'[a] = first[a] /\ seen'[a] = seen[a]
    BY <1>5 DEF Stop, TypeOK, Place
  <2> QED
    BY <1>0, <2>1 DEF Windows, KeysStand, OncePerWindow
<1> QED
  BY <1>2, <1>3, <1>4, <1>5 DEF Next, Run

-----------------------------------------------------------------------------

LEMMA WindowEndsTyped ==
  ASSUME TypeOK, NEW p \in Post, NEW u \in Viewer, WindowEnds(p, u)
  PROVE  TypeOK'
<1>1. seen[Redis] \in [Post -> [Viewer -> 0 .. 2]] /\ ttl[Redis] \in [Post -> [Viewer -> BOOLEAN]]
  BY DEF TypeOK, Place
<1>2. /\ [seen[Redis] EXCEPT ![p][u] = 0] \in [Post -> [Viewer -> 0 .. 2]]
      /\ [ttl[Redis] EXCEPT ![p][u] = FALSE] \in [Post -> [Viewer -> BOOLEAN]]
  BY <1>1, PatchedTyped
<1>3. /\ seen' = [seen EXCEPT ![Redis] = [seen[Redis] EXCEPT ![p][u] = 0]]
      /\ ttl' = [ttl EXCEPT ![Redis] = [ttl[Redis] EXCEPT ![p][u] = FALSE]]
  BY <1>1 DEF WindowEnds, TypeOK
<1>4. first' \in [Place -> SUBSET View]
  BY DEF WindowEnds, TypeOK
<1> QED
  BY <1>2, <1>3, <1>4 DEF WindowEnds, TypeOK, counters

\* All of them together.
LEMMA StepIInv == IInv /\ [Next]_vars => IInv'
<1> SUFFICES ASSUME IInv, [Next]_vars PROVE IInv'
  OBVIOUS
<1>1. CASE Next
  <2>1. TypeOK'
    BY <1>1, RequestTyped, FlushTyped, WindowEndsTyped DEF IInv, Next, Run
  <2>2. \A x \in View : CallMoved(x)
    BY <1>1, StepMoves DEF IInv
  <2>3. /\ CallsKnown' /\ WindowsKnown'
        /\ \A x \in View : call'[x].pc \in Early => call[x].pc \in Early
        /\ \A x \in View : call[x].pc # "none" =>
             /\ call'[x].pc # "none" /\ call'[x].post = call[x].post
             /\ call'[x].viewer = call[x].viewer
    BY <2>2, CallsKept DEF IInv
  <2>4. Where'
    BY <1>1, <2>3, WhereKept DEF IInv, Where
  <2>5. Windows'
    BY <1>1, <2>3, WindowsKept DEF IInv, Windows
  <2> QED
    BY <2>1, <2>3, <2>4, <2>5 DEF IInv, Where, Windows
<1>2. CASE UNCHANGED vars
  BY <1>2 DEF vars, keys, counters, IInv, TypeOK, CallsKnown, WindowsKnown, OnlyCounted,
              CountedOnce, KeysStand, OncePerWindow
<1> QED
  BY <1>1, <1>2

\* The inductive invariant of the counters, the dedup keys and the flushes, for
\* any number of workers, posts and viewers and any failures.
THEOREM SpecIInv == Spec => []IInv
  BY InitIInv, StepIInv, PTL DEF Spec

\* No view is added to view_count twice, whichever workers flush together.
THEOREM SpecCountedOnce == Spec => []CountedOnce
<1>1. IInv => CountedOnce
  BY DEF IInv
<1> QED
  BY <1>1, SpecIInv, PTL

\* A place of keys counts one view of a viewer and a post in a window.
THEOREM SpecOncePerWindow == Spec => []OncePerWindow
<1>1. IInv => OncePerWindow
  BY DEF IInv
<1> QED
  BY <1>1, SpecIInv, PTL
-----------------------------------------------------------------------------
(* Induction over the numbers, and functions defined step by step.           *)

\* A set of numbers that has 0 and with each number the next has them all.
LEMMA SetInduction ==
  ASSUME NEW T, 0 \in T, \A n \in Nat : n \in T => n + 1 \in T
  PROVE  Nat \subseteq T
<1> SUFFICES ASSUME Nat \ T # {} PROVE FALSE
  OBVIOUS
<1>1. PICK R : R = {ss \in Nat \X Nat : ss[1] < ss[2]}
  OBVIOUS
<1>2. IsWellFoundedOn(R, Nat)
  BY <1>1, NatLessThanWellFounded, Zenon DEF OpToRel
<1>3. PICK S : S = Nat \ T
  OBVIOUS
<1>4. S \subseteq Nat /\ S # {}
  BY <1>3
<1>5. \E x \in S : \A y \in S : ~(<<y, x>> \in R)
  BY <1>2, <1>4, WFMin
<1>6. PICK x \in S : \A y \in S : ~(<<y, x>> \in R)
  BY <1>5
<1>7. \A y \in S : ~(y < x)
  BY <1>1, <1>4, <1>6
<1>8. x # 0 /\ x - 1 \in Nat /\ x - 1 \notin S
  BY <1>7, <1>4, <1>3
<1> QED
  BY <1>8, <1>3

\* What holds of 0 and is passed on up to n holds of n.
LEMMA UpTo ==
  ASSUME NEW n \in Nat, NEW T, 0 \in T, \A i \in 0..(n - 1) : i \in T => i + 1 \in T
  PROVE  0..n \subseteq T
<1>1. PICK U : U = {i \in Nat : i <= n => i \in T}
  OBVIOUS
<1>2. 0 \in U
  BY <1>1
<1>3. \A i \in Nat : i \in U => i + 1 \in U
  BY <1>1
<1>4. Nat \subseteq U
  BY <1>2, <1>3, SetInduction
<1> QED
  BY <1>1, <1>4

\* A function can be defined by what it is at 0 and how each value gives the next.
RunOf(f, a, step, n) == f[0] = a /\ \A i \in 1..n : f[i] = step[i][f[i - 1]]

\* There is such a function.
LEMMA RecursionExists ==
  ASSUME NEW V, NEW a \in V, NEW n \in Nat, NEW step \in [1..n -> [V -> V]]
  PROVE  \E f \in [0..n -> V] : RunOf(f, a, step, n)
<1>1. PICK T : T = {k \in 0..n : \E f \in [0..k -> V] : RunOf(f, a, step, k)}
  OBVIOUS
<1>2. 0 \in T
  <2>1. PICK f : f = [i \in 0..0 |-> a]
    OBVIOUS
  <2>2. f \in [0..0 -> V] /\ f[0] = a
    BY <2>1
  <2>3. RunOf(f, a, step, 0)
    BY <2>2 DEF RunOf
  <2> QED
    BY <1>1, <2>2, <2>3
<1>3. ASSUME NEW k \in 0..(n - 1), k \in T PROVE k + 1 \in T
  <2>1. PICK f \in [0..k -> V] : /\ f[0] = a
                                 /\ \A i \in 1..k : f[i] = step[i][f[i - 1]]
    BY <1>1, <1>3 DEF RunOf
  <2>2. PICK g : g = [i \in 0..(k + 1) |-> IF i <= k THEN f[i] ELSE step[k + 1][f[k]]]
    OBVIOUS
  <2>3. k + 1 \in 1..n /\ f[k] \in V
    OBVIOUS
  <2>4. step[k + 1] \in [V -> V]
    BY <2>3
  <2>5. step[k + 1][f[k]] \in V
    BY <2>3, <2>4
  <2>6. g \in [0..(k + 1) -> V] /\ g[0] = a
    BY <2>1, <2>2, <2>5
  <2>7. ASSUME NEW i \in 1..(k + 1) PROVE g[i] = step[i][g[i - 1]]
    <3>1. CASE i = k + 1
      <4>1. g[i] = step[k + 1][f[k]] /\ g[k] = f[k] /\ i - 1 = k
        BY <2>2, <3>1
      <4> QED
        BY <3>1, <4>1
    <3>2. CASE i # k + 1
      <4>1. i \in 1..k /\ g[i] = f[i] /\ g[i - 1] = f[i - 1]
        BY <2>2, <3>2
      <4> QED
        BY <2>1, <4>1
    <3> QED
      BY <3>1, <3>2
  <2>8. RunOf(g, a, step, k + 1)
    BY <2>6, <2>7 DEF RunOf
  <2>9. k + 1 \in 0..n
    BY <2>3
  <2> QED
    BY <1>1, <2>6, <2>8, <2>9
<1>4. 0..n \subseteq T
  BY <1>2, <1>3, UpTo
<1>5. n \in T
  BY <1>4
<1> QED
  BY <1>1, <1>5

-----------------------------------------------------------------------------
(* The blacklist.                                                            *)

\* What Only runs through: the elements of S among the first i of s.
OnlySteps(f, s, S) ==
    /\ f[0] = << >>
    /\ \A i \in 1..Len(s) : f[i] = IF s[i] \in S THEN Append(f[i - 1], s[i]) ELSE f[i - 1]

LEMMA OnlyIs ==
  ASSUME NEW E, NEW s \in Seq(E), NEW S
  PROVE  \E f \in [0..Len(s) -> Seq(E)] : OnlySteps(f, s, S) /\ Blacklist!Only(s, S) = f[Len(s)]
<1>1. PICK n \in Nat : n = Len(s)
  OBVIOUS
<1>2. \A i \in 1..n : s[i] \in E
  BY <1>1
<1>3. PICK step : step = [i \in 1..n |-> [q \in Seq(E) |->
                            IF s[i] \in S THEN Append(q, s[i]) ELSE q]]
  OBVIOUS
<1>4. step \in [1..n -> [Seq(E) -> Seq(E)]]
  BY <1>2, <1>3
<1>5. << >> \in Seq(E)
  OBVIOUS
<1>6. PICK f \in [0..n -> Seq(E)] : RunOf(f, << >>, step, n)
  BY <1>4, <1>5, RecursionExists
<1>7. OnlySteps(f, s, S)
  <2>1. ASSUME NEW i \in 1..n
        PROVE  f[i] = IF s[i] \in S THEN Append(f[i - 1], s[i]) ELSE f[i - 1]
    <3>1. f[i] = step[i][f[i - 1]] /\ f[i - 1] \in Seq(E)
      BY <1>6 DEF RunOf
    <3> QED
      BY <1>3, <3>1
  <2> QED
    BY <1>1, <1>6, <2>1 DEF OnlySteps, RunOf
<1>8. PICK K : K = CHOOSE kept : kept = [i \in 0..Len(s) |->
                      IF i = 0 THEN << >>
                      ELSE IF s[i] \in S THEN Append(kept[i - 1], s[i]) ELSE kept[i - 1]]
  OBVIOUS
<1>9. Blacklist!Only(s, S) = K[Len(s)]
  BY <1>8 DEF Blacklist!Only
<1>10. f = [i \in 0..Len(s) |-> IF i = 0 THEN << >>
                               ELSE IF s[i] \in S THEN Append(f[i - 1], s[i]) ELSE f[i - 1]]
  <2>1. ASSUME NEW i \in 0..Len(s)
        PROVE  f[i] = IF i = 0 THEN << >>
                      ELSE IF s[i] \in S THEN Append(f[i - 1], s[i]) ELSE f[i - 1]
    BY <1>7 DEF OnlySteps
  <2>2. PICK g : g = [i \in 0..Len(s) |-> IF i = 0 THEN << >>
                               ELSE IF s[i] \in S THEN Append(f[i - 1], s[i]) ELSE f[i - 1]]
    OBVIOUS
  <2>3. \A i \in 0..Len(s) : f[i] = g[i]
    BY <2>1, <2>2
  <2>4. f = g
    BY <1>1, <1>6, <2>2, <2>3
  <2> QED
    BY <2>2, <2>4
<1>11. K = [i \in 0..Len(s) |-> IF i = 0 THEN << >>
                               ELSE IF s[i] \in S THEN Append(K[i - 1], s[i]) ELSE K[i - 1]]
  BY <1>8, <1>10
<1>12. PICK T : T = {i \in 0..n : K[i] = f[i]}
  OBVIOUS
<1>13. 0 \in T
  BY <1>1, <1>10, <1>11, <1>12
<1>14. ASSUME NEW i \in 0..(n - 1), i \in T PROVE i + 1 \in T
  <2>1. i + 1 \in 0..Len(s) /\ i + 1 # 0 /\ (i + 1) - 1 = i
    BY <1>1
  <2>2. K[i + 1] = IF s[i + 1] \in S THEN Append(K[i], s[i + 1]) ELSE K[i]
    BY <1>11, <2>1
  <2>3. f[i + 1] = IF s[i + 1] \in S THEN Append(f[i], s[i + 1]) ELSE f[i]
    BY <1>10, <2>1
  <2>4. K[i] = f[i]
    BY <1>12, <1>14
  <2> QED
    BY <1>1, <1>12, <2>1, <2>2, <2>3, <2>4
<1>15. 0..n \subseteq T
  BY <1>13, <1>14, UpTo
<1>16. K[n] = f[n]
  BY <1>12, <1>15
<1> QED
  BY <1>1, <1>6, <1>7, <1>9, <1>16

\* r holds the elements of S among the first i of s, in whatever order, and nothing else;
\* if r is no shorter, every one of them is in S.
Holds(r, s, S, i) ==
    /\ Len(r) <= i
    /\ \A j \in 1..Len(r) : \E k \in 1..i : s[k] = r[j] /\ s[k] \in S
    /\ \A k \in 1..i : s[k] \in S => \E j \in 1..Len(r) : r[j] = s[k]
    /\ Len(r) = i => \A k \in 1..i : s[k] \in S

\* No two entries are of the same token.
Distinct(s) == \A i, j \in 1..Len(s) : s[i].tok = s[j].tok => i = j

LEMMA OnlyHolds ==
  ASSUME NEW E, NEW s \in Seq(E), NEW S
  PROVE  /\ Blacklist!Only(s, S) \in Seq(E)
         /\ Holds(Blacklist!Only(s, S), s, S, Len(s))
         /\ Distinct(s) => Distinct(Blacklist!Only(s, S))
<1>1. PICK f \in [0..Len(s) -> Seq(E)] : OnlySteps(f, s, S) /\ Blacklist!Only(s, S) = f[Len(s)]
  BY OnlyIs
<1>2. PICK n \in Nat : n = Len(s)
  OBVIOUS
<1>3. PICK T : T = {i \in 0..n : Holds(f[i], s, S, i) /\ (Distinct(s) => Distinct(f[i]))}
  OBVIOUS
<1>4. 0 \in T
  BY <1>1, <1>3 DEF OnlySteps, Holds, Distinct
<1>5. ASSUME NEW i \in 0..(n - 1), i \in T PROVE i + 1 \in T
  <2>1. i + 1 \in 1..Len(s) /\ i + 1 \in 0..n /\ (i + 1) - 1 = i
    BY <1>2
  <2>2. f[i + 1] = IF s[i + 1] \in S THEN Append(f[i], s[i + 1]) ELSE f[i]
    BY <1>1, <2>1 DEF OnlySteps
  <2>3. PICK q \in Seq(E) : q = f[i]
    BY <1>1, <1>2
  <2>4. PICK e \in E : e = s[i + 1]
    BY <2>1
  <2>5. Holds(q, s, S, i) /\ (Distinct(s) => Distinct(q))
    BY <1>3, <1>5, <2>3
  <2>6. CASE e \in S
    <3>1. PICK r \in Seq(E) : r = Append(q, e)
      BY SMTT(30)
    <3>2. /\ f[i + 1] = r /\ Len(r) = Len(q) + 1 /\ r[Len(q) + 1] = e
          /\ \A j \in 1..Len(q) : r[j] = q[j]
      BY <2>2, <2>3, <2>4, <2>6, <3>1
    <3>3. Holds(r, s, S, i + 1)
      <4>1. Len(r) <= i + 1
        BY <2>5, <3>2 DEF Holds
      <4>2. ASSUME NEW j \in 1..Len(r)
            PROVE  \E k \in 1..(i + 1) : s[k] = r[j] /\ s[k] \in S
        <5>1. CASE j \in 1..Len(q)
          <6>1. PICK k \in 1..i : s[k] = q[j] /\ s[k] \in S
            BY <2>5, <5>1 DEF Holds
          <6> QED
            BY <3>2, <5>1, <6>1
        <5>2. CASE j = Len(q) + 1
          BY <2>1, <2>4, <2>6, <3>2, <5>2
        <5> QED
          BY <3>2, <5>1, <5>2
      <4>3. ASSUME NEW k \in 1..(i + 1), s[k] \in S
            PROVE  \E j \in 1..Len(r) : r[j] = s[k]
        <5>1. CASE k \in 1..i
          <6>1. PICK j \in 1..Len(q) : q[j] = s[k]
            BY <2>5, <4>3, <5>1 DEF Holds
          <6> QED
            BY <3>2, <6>1
        <5>2. CASE k = i + 1
          BY <2>4, <3>2, <5>2
        <5> QED
          BY <5>1, <5>2
      <4>4. ASSUME Len(r) = i + 1, NEW k \in 1..(i + 1) PROVE s[k] \in S
        <5>1. Len(q) = i
          BY <3>2, <4>4
        <5>2. \A l \in 1..i : s[l] \in S
          BY <2>5, <5>1 DEF Holds
        <5> QED
          BY <2>4, <2>6, <5>2
      <4> QED
        BY <4>1, <4>2, <4>3, <4>4 DEF Holds
    <3>4. ASSUME Distinct(s), NEW j \in 1..Len(r), NEW l \in 1..Len(r), r[j].tok = r[l].tok
          PROVE  j = l
      <4>1. ASSUME NEW m \in 1..Len(q) PROVE q[m].tok # e.tok
        <5>1. PICK k \in 1..i : s[k] = q[m]
          BY <2>5 DEF Holds
        <5>2. k \in 1..Len(s) /\ k # i + 1
          BY <1>2
        <5> QED
          BY <2>1, <2>4, <3>4, <5>1, <5>2 DEF Distinct
      <4>2. CASE j \in 1..Len(q) /\ l \in 1..Len(q)
        BY <2>5, <3>2, <3>4, <4>2 DEF Distinct
      <4>3. CASE j = Len(q) + 1 /\ l \in 1..Len(q)
        BY <3>2, <3>4, <4>1, <4>3
      <4>4. CASE j \in 1..Len(q) /\ l = Len(q) + 1
        BY <3>2, <3>4, <4>1, <4>4
      <4> QED
        BY <3>2, <4>2, <4>3, <4>4
    <3>5. Distinct(s) => Distinct(r)
      BY <3>4 DEF Distinct
    <3> QED
      BY <1>3, <2>1, <3>2, <3>3, <3>5
  <2>7. CASE e \notin S
    <3>1. f[i + 1] = q
      BY <2>2, <2>3, <2>4, <2>7
    <3>2. Holds(q, s, S, i + 1)
      <4>1. Len(q) <= i
        BY <2>5 DEF Holds
      <4>2. ASSUME NEW k \in 1..(i + 1), s[k] \in S PROVE k \in 1..i
        BY <2>4, <2>7, <4>2
      <4> QED
        BY <2>5, <4>1, <4>2 DEF Holds
    <3> QED
      BY <1>3, <2>1, <2>5, <3>1, <3>2
  <2> QED
    BY <2>6, <2>7
<1>6. 0..n \subseteq T
  BY <1>4, <1>5, UpTo
<1>7. n \in T
  BY <1>6
<1>8. f[n] \in Seq(E)
  BY <1>1, <1>2
<1> QED
  BY <1>1, <1>2, <1>3, <1>7, <1>8
\* The types of the settings and of an entry.
LEMMA BlacklistSettings ==
  /\ Home \in [Call -> Process] /\ NoToken \notin Token
  /\ Capacity \in Nat \ {0} /\ Second \in Nat \ {0}
  /\ BlacklistRetry \in Nat /\ HasRedis \in BOOLEAN
  /\ BlacklistFallback \in {"memory", "open", "closed"} /\ BlacklistTime \in Nat
BY BlacklistAssumption DEF Blacklist!Settings

LEMMA EntryIs ==
  /\ \A e \in Blacklist!Entry : e.tok \in Token /\ e.till \in Nat
  /\ \A t \in Token, n \in Nat : /\ [tok |-> t, till |-> n] \in Blacklist!Entry
                                 /\ [tok |-> t, till |-> n].tok = t
                                 /\ [tok |-> t, till |-> n].till = n
BY DEF Blacklist!Entry

LEMMA LifeIs ==
  ASSUME NEW n \in Nat, NEW life \in Nat
  PROVE  n + life * Second \in Nat /\ (life > 0 => n < n + life * Second)
<1>1. PICK k \in Nat \ {0} : k = Second
  BY BlacklistSettings
<1>2. life * k \in Nat /\ (life > 0 => life * k > 0)
  OBVIOUS
<1>3. PICK p \in Nat : p = life * k
  BY <1>2
<1> QED
  BY <1>1, <1>2, <1>3

\* A sequence of entries that a memory may hold.
Store(s) == s \in Seq(Blacklist!Entry) /\ Len(s) <= Capacity /\ Distinct(s)

LEMMA BlacklistTypes ==
  ASSUME BlacklistInv
  PROVE  /\ now \in Nat /\ now \in 0..BlacklistTime /\ exp \in [Token -> Nat]
         /\ mem \in [Process -> Seq(Blacklist!Entry)] /\ told \in [Process -> [Token -> Nat]]
         /\ open \in [Call -> Blacklist!CallRec] /\ healthy \in [Process -> BOOLEAN]
         /\ nextRetry \in [Process -> Nat] /\ redis \in [Token -> Nat] /\ redisUp \in BOOLEAN
         /\ \A w \in Process : Store(mem[w])
BY DEF BlacklistInv, Blacklist!TypeOK, Store, Distinct

\* The entries that Only keeps are those of S.
LEMMA AliveKept ==
  ASSUME NEW s \in Seq(Blacklist!Entry), NEW a, a = Blacklist!Only(s, Blacklist!Alive(s)),
         Distinct(s)
  PROVE  /\ a \in Seq(Blacklist!Entry) /\ Len(a) <= Len(s) /\ Distinct(a)
         /\ \A j \in 1..Len(a) : now < a[j].till /\ \E k \in 1..Len(s) : s[k] = a[j]
         /\ \A k \in 1..Len(s) : now < s[k].till => \E j \in 1..Len(a) : a[j] = s[k]
<1>1. PICK S : S = Blacklist!Alive(s)
  OBVIOUS
<1>2. \A k \in 1..Len(s) : s[k] \in S <=> now < s[k].till
  BY <1>1 DEF Blacklist!Alive, Blacklist!Range
<1>3. a \in Seq(Blacklist!Entry) /\ Holds(a, s, S, Len(s)) /\ Distinct(a)
  BY <1>1, OnlyHolds
<1>4. Len(a) <= Len(s)
  BY <1>3 DEF Holds
<1>5. ASSUME NEW j \in 1..Len(a) PROVE now < a[j].till /\ \E k \in 1..Len(s) : s[k] = a[j]
  <2>1. PICK k \in 1..Len(s) : s[k] = a[j] /\ s[k] \in S
    BY <1>3 DEF Holds
  <2> QED
    BY <1>2, <2>1
<1>6. ASSUME NEW k \in 1..Len(s), now < s[k].till PROVE \E j \in 1..Len(a) : a[j] = s[k]
  BY <1>2, <1>3, <1>6 DEF Holds
<1> QED
  BY <1>3, <1>4, <1>5, <1>6

\* The tokens that worker w refuses by its own word once it refuses t too.
Word(w, t) == {u \in Token : u = t \/ now < told[w][u]}

\* A memory that is full of live entries is of as many tokens.
LEMMA FullOfWords ==
  ASSUME BlacklistInv, NEW w \in Process, NEW t \in Token,
         NEW a \in Seq(Blacklist!Entry), Distinct(a), Len(a) >= Capacity,
         \A j \in 1..Len(a) : now < a[j].till /\ a[j].tok # t /\ a[j].till = told[w][a[j].tok]
  PROVE  Cardinality(Word(w, t)) > Capacity
<1>1. PICK P : P = {u \in Token : told[w][u] # 0}
  OBVIOUS
<1>2. IsFiniteSet(P)
  BY <1>1 DEF BlacklistInv
<1>3. PICK W : W = Word(w, t)
  OBVIOUS
<1>4. now \in Nat /\ told[w] \in [Token -> Nat]
  BY BlacklistTypes
<1>5. W \subseteq P \cup {t} /\ t \in W
  BY <1>1, <1>3, <1>4 DEF Word
<1>6. IsFiniteSet(P \cup {t})
  BY <1>2, FS_AddElement
<1>7. IsFiniteSet(W)
  BY <1>5, <1>6, FS_Subset
<1>8. Cardinality(W) \in Nat /\ Cardinality(W \ {t}) = Cardinality(W) - 1 /\ IsFiniteSet(W \ {t})
  BY <1>5, <1>7, FS_RemoveElement, FS_CardinalityType
<1>9. PICK f : f = [j \in 1..Len(a) |-> a[j].tok]
  OBVIOUS
<1>10. ASSUME NEW j \in 1..Len(a) PROVE a[j].tok \in W \ {t}
  <2>1. a[j] \in Blacklist!Entry
    OBVIOUS
  <2>2. a[j].tok \in Token
    BY <2>1, EntryIs
  <2> QED
    BY <1>3, <2>2 DEF Word
<1>11. f \in [1..Len(a) -> W \ {t}]
  BY <1>9, <1>10
<1>12. IsFiniteSet(1..Len(a)) /\ Cardinality(1..Len(a)) = Len(a)
  <2>1. Len(a) \in Nat /\ Len(a) > 0
    BY BlacklistSettings
  <2> QED
    BY <2>1, FS_Interval
<1>13. ~(Cardinality(W \ {t}) < Cardinality(1..Len(a)))
  <2> SUFFICES ASSUME Cardinality(W \ {t}) < Cardinality(1..Len(a)) PROVE FALSE
    OBVIOUS
  <2>1. \E x, y \in 1..Len(a) : x # y /\ f[x] = f[y]
    BY <1>8, <1>11, <1>12, FS_PigeonHole
  <2>2. PICK x \in 1..Len(a), y \in 1..Len(a) : x # y /\ f[x] = f[y]
    BY <2>1
  <2> QED
    BY <1>9, <2>2 DEF Distinct
<1> QED
  BY <1>3, <1>8, <1>12, <1>13, BlacklistSettings
\* A sequence without its first n elements.
LEMMA LaterOnes ==
  ASSUME NEW E, NEW a \in Seq(E), NEW n \in Nat, NEW l \in Nat, l = Len(a), NEW b,
         b = SubSeq(a, 1 + n, l)
  PROVE  /\ b \in Seq(E) /\ Len(b) = (IF l >= n THEN l - n ELSE 0)
         /\ \A j \in 1..Len(b) : b[j] = a[j + n]
<1>1. \A i \in (1 + n)..l : i \in 1..Len(a)
  OBVIOUS
<1>2. /\ b \in Seq(E) /\ Len(b) = (IF 1 + n <= l THEN l - (1 + n) + 1 ELSE 0)
      /\ \A i \in 1..(l - (1 + n) + 1) : b[i] = a[(1 + n) + i - 1]
  BY <1>1, SubSeqProperties
<1>3. ASSUME NEW j \in 1..Len(b) PROVE b[j] = a[j + n]
  <2>1. j \in 1..(l - (1 + n) + 1) /\ (1 + n) + j - 1 = j + n
    BY <1>2
  <2> QED
    BY <1>2, <2>1
<1>4. Len(b) = (IF l >= n THEN l - n ELSE 0)
  BY <1>2
<1> QED
  BY <1>2, <1>3, <1>4

\* What is left in a memory that makes room.
LEMMA EvictedFits ==
  ASSUME BlacklistInv, NEW w \in Process, Len(mem[w]) >= Capacity,
         NEW t \in Token, ~Blacklist!Held(w, t), NEW b, b = Blacklist!Evicted(mem[w])
  PROVE  /\ b \in Seq(Blacklist!Entry) /\ Len(b) < Capacity /\ Distinct(b)
         /\ \A j \in 1..Len(b) : \E k \in 1..Len(mem[w]) : mem[w][k] = b[j]
         /\ \/ \A k \in 1..Len(mem[w]) : now < mem[w][k].till =>
                 \E j \in 1..Len(b) : b[j] = mem[w][k]
            \/ Cardinality(Word(w, t)) > Capacity
<1>1. PICK s \in Seq(Blacklist!Entry) : s = mem[w]
  BY BlacklistTypes
<1>2. Len(s) <= Capacity /\ Distinct(s)
  BY <1>1, BlacklistTypes DEF Store
<1>3. PICK a : a = Blacklist!Only(s, Blacklist!Alive(s))
  OBVIOUS
<1>4. /\ a \in Seq(Blacklist!Entry) /\ Len(a) <= Len(s) /\ Distinct(a)
      /\ \A j \in 1..Len(a) : now < a[j].till /\ \E k \in 1..Len(s) : s[k] = a[j]
      /\ \A k \in 1..Len(s) : now < s[k].till => \E j \in 1..Len(a) : a[j] = s[k]
  BY <1>2, <1>3, AliveKept
<1>5. PICK n : n = IF Capacity >= 20 THEN Capacity \div 10 ELSE 1
  OBVIOUS
<1>6. n \in Nat \ {0}
  <2>1. Capacity \in Nat
    BY BlacklistSettings
  <2> QED
    BY <1>5, <2>1
<1>7. b = IF Len(a) < Capacity THEN a ELSE SubSeq(a, 1 + n, Len(a))
  BY <1>1, <1>3, <1>5 DEF Blacklist!Evicted
<1>8. CASE Len(a) < Capacity
  BY <1>1, <1>4, <1>7, <1>8
<1>9. CASE Len(a) >= Capacity
  <2>1. PICK l \in Nat : l = Len(a)
    BY <1>4
  <2>2. l <= Capacity /\ l >= Capacity /\ Capacity \in Nat
    BY <1>2, <1>4, <1>9, <2>1, BlacklistSettings
  <2>a. ~(Len(a) < Capacity)
    BY <2>1, <2>2
  <2>3. b = SubSeq(a, 1 + n, l)
    BY <1>7, <2>1, <2>a
  <2>4. b \in Seq(Blacklist!Entry) /\ Len(b) = (IF l >= n THEN l - n ELSE 0)
        /\ \A j \in 1..Len(b) : b[j] = a[j + n]
    BY <1>4, <1>6, <2>1, <2>3, LaterOnes
  <2>5. Len(b) < Capacity
    BY <1>6, <2>2, <2>4, BlacklistSettings
  <2>6. \A j \in 1..Len(b) : j + n \in 1..Len(a)
    BY <1>6, <2>1, <2>4
  <2>7. Distinct(b)
    <3>1. ASSUME NEW i \in 1..Len(b), NEW j \in 1..Len(b), b[i].tok = b[j].tok PROVE i = j
      <4>1. i + n \in 1..Len(a) /\ j + n \in 1..Len(a) /\ a[i + n].tok = a[j + n].tok
        BY <2>4, <2>6, <3>1
      <4>2. i + n = j + n
        BY <1>4, <4>1 DEF Distinct
      <4> QED
        BY <1>6, <4>2
    <3> QED
      BY <3>1 DEF Distinct
  <2>8. \A j \in 1..Len(b) : \E k \in 1..Len(s) : s[k] = b[j]
    <3> SUFFICES ASSUME NEW j \in 1..Len(b) PROVE \E k \in 1..Len(s) : s[k] = b[j]
      OBVIOUS
    <3>1. PICK i : i = j + n
      OBVIOUS
    <3>2. i \in 1..Len(a) /\ b[j] = a[i]
      BY <2>4, <2>6, <3>1
    <3>3. \E k \in 1..Len(s) : s[k] = a[i]
      BY <1>4, <3>2
    <3> QED
      BY <3>2, <3>3
  <2>9. ASSUME NEW j \in 1..Len(a)
        PROVE  now < a[j].till /\ a[j].tok # t /\ a[j].till = told[w][a[j].tok]
    <3>1. PICK k \in 1..Len(s) : s[k] = a[j]
      BY <1>4
    <3>2. s[k].till = told[w][s[k].tok]
      BY <1>1, <3>1 DEF BlacklistInv, Blacklist!EntriesAsTold
    <3>3. s[k].tok # t
      BY <1>1, <3>1 DEF Blacklist!Held
    <3> QED
      BY <1>4, <3>1, <3>2, <3>3
  <2>10. Cardinality(Word(w, t)) > Capacity
    BY <1>4, <1>9, <2>9, FullOfWords
  <2> QED
    BY <1>1, <2>4, <2>5, <2>7, <2>8, <2>10
<1>10. Len(a) \in Nat /\ Capacity \in Nat
  BY <1>4, BlacklistSettings
<1> QED
  BY <1>8, <1>9, <1>10

\* Memory m of worker w after a call that told token t until x: an entry is t's new one or an
\* old one, and of the live ones all are still there, unless too much was promised.
Renewed(m, w, t, x) ==
    /\ Store(m)
    /\ \A i \in 1..Len(m) : \/ m[i].tok = t /\ m[i].till = x
                            \/ m[i].tok # t /\ \E k \in 1..Len(mem[w]) : mem[w][k] = m[i]
    /\ \E i \in 1..Len(m) : m[i].tok = t
    /\ \/ \A k \in 1..Len(mem[w]) : now < mem[w][k].till =>
            \E i \in 1..Len(m) : m[i].tok = mem[w][k].tok
       \/ Cardinality(Word(w, t)) > Capacity

LEMMA Appended ==
  ASSUME BlacklistInv, NEW w \in Process, NEW t \in Token, NEW x \in Nat, NEW e \in Blacklist!Entry,
         e.tok = t, e.till = x, ~Blacklist!Held(w, t),
         NEW b \in Seq(Blacklist!Entry), Len(b) < Capacity, Distinct(b),
         \A j \in 1..Len(b) : \E k \in 1..Len(mem[w]) : mem[w][k] = b[j],
         \/ \A k \in 1..Len(mem[w]) : now < mem[w][k].till => \E j \in 1..Len(b) : b[j] = mem[w][k]
         \/ Cardinality(Word(w, t)) > Capacity
  PROVE  Renewed(Append(b, e), w, t, x)
<1>0. Append(b, e) \in Seq(Blacklist!Entry)
  BY AppendProperties
<1>1. PICK m \in Seq(Blacklist!Entry) : m = Append(b, e)
  BY <1>0
<1>2. /\ Len(m) = Len(b) + 1 /\ m[Len(b) + 1] = e /\ Len(b) \in Nat
      /\ \A j \in 1..Len(b) : j \in 1..Len(m) /\ m[j] = b[j]
  BY <1>1
<1>3. \A j \in 1..Len(b) : b[j].tok # t
  BY DEF Blacklist!Held
<1>4. \A i \in 1..Len(m) : i \in 1..Len(b) \/ i = Len(b) + 1
  BY <1>2
<1>5. Distinct(m)
  <2>1. ASSUME NEW i \in 1..Len(m), NEW j \in 1..Len(m), m[i].tok = m[j].tok PROVE i = j
    <3>1. CASE i \in 1..Len(b) /\ j \in 1..Len(b)
      BY <1>2, <2>1, <3>1 DEF Distinct
    <3>2. CASE i = Len(b) + 1 /\ j \in 1..Len(b)
      BY <1>2, <1>3, <2>1, <3>2
    <3>3. CASE i \in 1..Len(b) /\ j = Len(b) + 1
      BY <1>2, <1>3, <2>1, <3>3
    <3> QED
      BY <1>4, <3>1, <3>2, <3>3
  <2> QED
    BY <2>1 DEF Distinct
<1>6. Store(m)
  BY <1>2, <1>5, BlacklistSettings DEF Store
<1>7. ASSUME NEW i \in 1..Len(m)
      PROVE  \/ m[i].tok = t /\ m[i].till = x
             \/ m[i].tok # t /\ \E k \in 1..Len(mem[w]) : mem[w][k] = m[i]
  <2>1. CASE i \in 1..Len(b)
    BY <1>2, <1>3, <2>1
  <2>2. CASE i = Len(b) + 1
    BY <1>2, <2>2
  <2> QED
    BY <1>4, <2>1, <2>2
<1>8. Len(b) + 1 \in 1..Len(m)
  BY <1>2
<1>9. ASSUME NEW k \in 1..Len(mem[w]), \E j \in 1..Len(b) : b[j] = mem[w][k]
      PROVE  \E i \in 1..Len(m) : m[i].tok = mem[w][k].tok
  BY <1>2, <1>9
<1> QED
  BY <1>1, <1>2, <1>6, <1>7, <1>8, <1>9 DEF Renewed

LEMMA Added ==
  ASSUME BlacklistInv, NEW w \in Process, NEW t \in Token, NEW life \in Nat
  PROVE  Renewed(Blacklist!MemAdded(w, t, life), w, t, now + life * Second)
<1>1. PICK x \in Nat : x = now + life * Second
  BY LifeIs, BlacklistTypes
<1>2. PICK e \in Blacklist!Entry : e = [tok |-> t, till |-> x]
  BY EntryIs
<1>3. e.tok = t /\ e.till = x
  BY <1>2
<1>4. PICK s \in Seq(Blacklist!Entry) : s = mem[w]
  BY BlacklistTypes
<1>5. Len(s) <= Capacity /\ Distinct(s) /\ Len(s) \in Nat
  BY <1>4, BlacklistTypes DEF Store
<1>6. CASE Blacklist!Held(w, t)
  <2>1. PICK m : m = [i \in DOMAIN s |-> IF s[i].tok = t THEN e ELSE s[i]]
    OBVIOUS
  <2>2. Blacklist!MemAdded(w, t, life) = m
    BY <1>1, <1>2, <1>4, <1>6, <2>1 DEF Blacklist!MemAdded
  <2>3. m \in Seq(Blacklist!Entry) /\ Len(m) = Len(s)
    BY <2>1
  <2>4. \A i \in 1..Len(s) : m[i] = IF s[i].tok = t THEN e ELSE s[i]
    BY <2>1
  <2>5. \A i \in 1..Len(s) : m[i].tok = s[i].tok
    BY <1>3, <2>4
  <2>6. Store(m)
    BY <1>5, <2>3, <2>5 DEF Store, Distinct
  <2>7. \E i \in 1..Len(m) : m[i].tok = t
    BY <1>4, <1>6, <2>3, <2>5 DEF Blacklist!Held
  <2>8. \A i \in 1..Len(m) : \/ m[i].tok = t /\ m[i].till = x
                             \/ m[i].tok # t /\ \E k \in 1..Len(s) : s[k] = m[i]
    BY <1>3, <2>3, <2>4
  <2>9. Renewed(m, w, t, x)
    BY <1>4, <2>3, <2>5, <2>6, <2>7, <2>8 DEF Renewed
  <2> QED
    BY <1>1, <2>2, <2>9
<1>7. CASE ~Blacklist!Held(w, t)
  <2>1. PICK b : b = IF Len(s) >= Capacity THEN Blacklist!Evicted(s) ELSE s
    OBVIOUS
  <2>2. Blacklist!MemAdded(w, t, life) = Append(b, e)
    BY <1>1, <1>2, <1>4, <1>7, <2>1 DEF Blacklist!MemAdded
  <2>3. /\ b \in Seq(Blacklist!Entry) /\ Len(b) < Capacity /\ Distinct(b)
        /\ \A j \in 1..Len(b) : \E k \in 1..Len(mem[w]) : mem[w][k] = b[j]
        /\ \/ \A k \in 1..Len(mem[w]) : now < mem[w][k].till =>
                \E j \in 1..Len(b) : b[j] = mem[w][k]
           \/ Cardinality(Word(w, t)) > Capacity
    <3>1. CASE Len(s) >= Capacity
      BY <1>4, <1>7, <2>1, <3>1, EvictedFits
    <3>2. CASE ~(Len(s) >= Capacity)
      BY <1>4, <1>5, <2>1, <3>2, BlacklistSettings
    <3> QED
      BY <3>1, <3>2
  <2>4. Renewed(Append(b, e), w, t, x)
    BY <1>3, <1>7, <2>3, Appended
  <2> QED
    BY <1>1, <2>2, <2>4
<1> QED
  BY <1>6, <1>7
\* The memory after a look-up.
LEMMA LookedFits ==
  ASSUME BlacklistInv, NEW w \in Process, NEW t \in Token, NEW m, m = Blacklist!MemLooked(w, t)
  PROVE  /\ Store(m)
         /\ \A j \in 1..Len(m) : \E k \in 1..Len(mem[w]) : mem[w][k] = m[j]
         /\ \A k \in 1..Len(mem[w]) : now < mem[w][k].till => \E j \in 1..Len(m) : m[j] = mem[w][k]
<1>1. PICK s \in Seq(Blacklist!Entry) : s = mem[w]
  BY BlacklistTypes
<1>2. Len(s) <= Capacity /\ Distinct(s) /\ Capacity \in Nat
  BY <1>1, BlacklistTypes, BlacklistSettings DEF Store
<1>3. PICK S : S = {e \in Blacklist!Range(s) : e.tok # t} \cup Blacklist!Alive(s)
  OBVIOUS
<1>4. m = Blacklist!Only(s, S)
  BY <1>1, <1>3 DEF Blacklist!MemLooked
<1>5. m \in Seq(Blacklist!Entry) /\ Holds(m, s, S, Len(s)) /\ Distinct(m)
  BY <1>2, <1>4, OnlyHolds
<1>6. \A k \in 1..Len(s) : now < s[k].till => s[k] \in S
  BY <1>3 DEF Blacklist!Alive, Blacklist!Range
<1>7. Len(m) <= Len(s) /\ Len(m) \in Nat /\ Len(s) \in Nat
  BY <1>5 DEF Holds
<1>8. Store(m)
  BY <1>2, <1>5, <1>7 DEF Store
<1>9. \A j \in 1..Len(m) : \E k \in 1..Len(s) : s[k] = m[j]
  BY <1>5 DEF Holds
<1>10. \A k \in 1..Len(s) : now < s[k].till => \E j \in 1..Len(m) : m[j] = s[k]
  BY <1>5, <1>6 DEF Holds
<1> QED
  BY <1>1, <1>8, <1>9, <1>10

\* The two parts of the invariant: memories and promises, and the rest.
MemoriesGood ==
    /\ mem \in [Process -> Seq(Blacklist!Entry)] /\ \A w \in Process : Store(mem[w])
    /\ told \in [Process -> [Token -> Nat]]
    /\ \A w \in Process : \A i \in 1..Len(mem[w]) : mem[w][i].till = told[w][mem[w][i].tok]
    /\ \A w \in Process : IsFiniteSet({t \in Token : told[w][t] # 0})
    /\ crowded \/ \A w \in Process, t \in Token :
                    now < told[w][t] => \E i \in 1..Len(mem[w]) : mem[w][i].tok = t

CallsGood ==
    /\ now \in 0..BlacklistTime /\ exp \in [Token -> Nat]
    /\ redisUp \in BOOLEAN /\ redis \in [Token -> Nat]
    /\ healthy \in [Process -> BOOLEAN] /\ nextRetry \in [Process -> Nat]
    /\ open \in [Call -> Blacklist!CallRec]
    /\ \A c \in Call : open[c].pc # "idle" =>
         open[c].tok \in Token /\ (open[c].op = "add" => open[c].ttl > 0)

LEMMA Parts == BlacklistInv <=> MemoriesGood /\ CallsGood
BY DEF BlacklistInv, MemoriesGood, CallsGood, Store, Distinct, Blacklist!TypeOK,
       Blacklist!EntriesAsTold, Blacklist!AddsLast, Blacklist!PromisesHeld, Blacklist!Held

LEMMA PartsKept == MemoriesGood' /\ CallsGood' => BlacklistInv'
<1>1. (BlacklistInv <=> MemoriesGood /\ CallsGood)'
  BY Parts, PTL
<1> QED
  BY <1>1

\* A step that leaves memories and promises alone keeps their part, and so does a restart.
LEMMA QuietMemories ==
  ASSUME BlacklistInv, UNCHANGED <<mem, told>>, now' \in Nat, now' >= now, crowded => crowded'
  PROVE  MemoriesGood'
<1>1. MemoriesGood /\ now \in Nat
  BY Parts, BlacklistTypes
<1>2. \A w \in Process, t \in Token : told[w][t] \in Nat
  BY <1>1 DEF MemoriesGood
<1>3. \A w \in Process, t \in Token : now' < told[w][t] => now < told[w][t]
  BY <1>1, <1>2
<1>4. crowded' \/ \A w \in Process, t \in Token :
                    now' < told[w][t] => \E i \in 1..Len(mem[w]) : mem[w][i].tok = t
  BY <1>1, <1>3 DEF MemoriesGood
<1> QED
  BY <1>1, <1>4 DEF MemoriesGood, Store

LEMMA RestartMemories ==
  ASSUME BlacklistInv, NEW w \in Process, Blacklist!Restart(w), crowded => crowded'
  PROVE  MemoriesGood'
<1>1. MemoriesGood /\ now \in Nat
  BY Parts, BlacklistTypes
<1>2. /\ mem' = [mem EXCEPT ![w] = << >>] /\ now' = now
      /\ told' = [told EXCEPT ![w] = [t \in Token |-> 0]]
  BY DEF Blacklist!Restart
<1>3. Store(<< >>)
  BY BlacklistSettings DEF Store, Distinct
<1>4. mem' \in [Process -> Seq(Blacklist!Entry)] /\ told' \in [Process -> [Token -> Nat]]
  BY <1>1, <1>2 DEF MemoriesGood
<1>5. /\ mem'[w] = << >> /\ told'[w] = [t \in Token |-> 0]
      /\ \A v \in Process : v # w => mem'[v] = mem[v] /\ told'[v] = told[v]
  BY <1>1, <1>2 DEF MemoriesGood
<1>6. \A v \in Process : Store(mem'[v])
  BY <1>1, <1>3, <1>5 DEF MemoriesGood
<1>7. \A v \in Process : \A i \in 1..Len(mem'[v]) : mem'[v][i].till = told'[v][mem'[v][i].tok]
  BY <1>1, <1>5 DEF MemoriesGood
<1>8. ASSUME NEW v \in Process PROVE IsFiniteSet({t \in Token : told'[v][t] # 0})
  <2>1. CASE v = w
    <3>1. {t \in Token : told'[v][t] # 0} = {}
      BY <1>5, <2>1
    <3> QED
      BY <3>1, FS_EmptySet
  <2>2. CASE v # w
    <3>1. {t \in Token : told'[v][t] # 0} = {t \in Token : told[v][t] # 0}
      BY <1>5, <2>2
    <3> QED
      BY <1>1, <3>1 DEF MemoriesGood
  <2> QED
    BY <2>1, <2>2
<1>9. ASSUME ~crowded', NEW v \in Process, NEW t \in Token, now < told'[v][t]
      PROVE  \E i \in 1..Len(mem'[v]) : mem'[v][i].tok = t
  <2>1. v # w
    BY <1>1, <1>5, <1>9
  <2>2. ~crowded
    BY <1>9
  <2>3. mem'[v] = mem[v] /\ now < told[v][t]
    BY <1>5, <1>9, <2>1
  <2>4. \E i \in 1..Len(mem[v]) : mem[v][i].tok = t
    BY <1>1, <2>2, <2>3 DEF MemoriesGood
  <2> QED
    BY <2>3, <2>4
<1> QED
  BY <1>2, <1>4, <1>6, <1>7, <1>8, <1>9, ZenonT(40) DEF MemoriesGood, Store

\* A look-up keeps the live entries.
LEMMA LookMemories ==
  ASSUME BlacklistInv, NEW w \in Process, NEW t \in Token, UNCHANGED <<told, now>>,
         mem' = [mem EXCEPT ![w] = Blacklist!MemLooked(w, t)], crowded => crowded'
  PROVE  MemoriesGood'
<1>1. MemoriesGood /\ now \in Nat
  BY Parts, BlacklistTypes
<1>2. PICK m : m = Blacklist!MemLooked(w, t)
  OBVIOUS
<1>3. /\ Store(m)
      /\ \A j \in 1..Len(m) : \E k \in 1..Len(mem[w]) : mem[w][k] = m[j]
      /\ \A k \in 1..Len(mem[w]) : now < mem[w][k].till => \E j \in 1..Len(m) : m[j] = mem[w][k]
  BY <1>2, LookedFits
<1>4. m \in Seq(Blacklist!Entry)
  BY <1>3 DEF Store
<1>5. mem' \in [Process -> Seq(Blacklist!Entry)]
  BY <1>1, <1>2, <1>4 DEF MemoriesGood
<1>6. mem'[w] = m /\ \A v \in Process : v # w => mem'[v] = mem[v]
  BY <1>1, <1>2 DEF MemoriesGood
<1>7. \A v \in Process : Store(mem'[v])
  BY <1>1, <1>3, <1>6 DEF MemoriesGood
<1>8. ASSUME NEW v \in Process, NEW i \in 1..Len(mem'[v])
      PROVE  mem'[v][i].till = told[v][mem'[v][i].tok]
  BY <1>1, <1>3, <1>6 DEF MemoriesGood
<1>9. ASSUME ~crowded', NEW v \in Process, NEW u \in Token, now < told[v][u]
      PROVE  \E i \in 1..Len(mem'[v]) : mem'[v][i].tok = u
  <2>1. PICK k \in 1..Len(mem[v]) : mem[v][k].tok = u
    BY <1>1, <1>9 DEF MemoriesGood
  <2>2. mem[v][k].till = told[v][u]
    BY <1>1, <2>1 DEF MemoriesGood
  <2>3. CASE v = w
    <3>1. PICK j \in 1..Len(m) : m[j] = mem[w][k]
      BY <1>3, <1>9, <2>1, <2>2, <2>3
    <3> QED
      BY <1>6, <2>1, <2>3, <3>1
  <2>4. CASE v # w
    BY <1>6, <2>1, <2>4
  <2> QED
    BY <2>3, <2>4
<1> QED
  BY <1>1, <1>5, <1>7, <1>8, <1>9 DEF MemoriesGood, Store

\* A call that adds a token keeps the live entries too, unless it promises too much.
LEMMA AddMemories ==
  ASSUME BlacklistInv, NEW w \in Process, NEW t \in Token, NEW life \in Nat, UNCHANGED now,
         life > 0,
         mem' = [mem EXCEPT ![w] = Blacklist!MemAdded(w, t, life)],
         Blacklist!Promised(w, t, now + life * Second),
         crowded' = (crowded \/ \E v \in Process :
                       Cardinality({u \in Token : now < told'[v][u]}) > Capacity)
  PROVE  MemoriesGood'
<1>1. MemoriesGood /\ now \in Nat
  BY Parts, BlacklistTypes
<1>2. PICK x \in Nat : x = now + life * Second /\ now < x
  BY <1>1, LifeIs
<1>3. PICK m : m = Blacklist!MemAdded(w, t, life)
  OBVIOUS
<1>4. Renewed(m, w, t, x)
  BY <1>2, <1>3, Added
<1>5. Store(m) /\ m \in Seq(Blacklist!Entry)
  BY <1>4 DEF Renewed, Store
<1>6. mem' \in [Process -> Seq(Blacklist!Entry)]
  BY <1>1, <1>3, <1>5 DEF MemoriesGood
<1>7. mem'[w] = m /\ \A v \in Process : v # w => mem'[v] = mem[v]
  BY <1>1, <1>3 DEF MemoriesGood
<1>8. told' = [told EXCEPT ![w][t] = x]
  BY <1>2 DEF Blacklist!Promised
<1>9. /\ told' \in [Process -> [Token -> Nat]]
      /\ \A v \in Process : v # w => told'[v] = told[v]
      /\ told'[w] = [told[w] EXCEPT ![t] = x]
  BY <1>1, <1>8 DEF MemoriesGood
<1>10. /\ told[w] \in [Token -> Nat] /\ told'[w][t] = x
       /\ \A u \in Token : u # t => told'[w][u] = told[w][u]
  BY <1>1, <1>9 DEF MemoriesGood
<1>11. \A v \in Process : Store(mem'[v])
  BY <1>1, <1>5, <1>7 DEF MemoriesGood
<1>12. ASSUME NEW v \in Process, NEW i \in 1..Len(mem'[v])
       PROVE  mem'[v][i].till = told'[v][mem'[v][i].tok]
  <2>1. CASE v # w
    BY <1>1, <1>7, <1>9, <2>1 DEF MemoriesGood
  <2>2. CASE v = w /\ m[i].tok = t /\ m[i].till = x
    BY <1>7, <1>10, <2>2
  <2>3. CASE v = w /\ m[i].tok # t /\ \E k \in 1..Len(mem[w]) : mem[w][k] = m[i]
    <3>1. PICK k \in 1..Len(mem[w]) : mem[w][k] = m[i]
      BY <2>3
    <3>2. mem[w][k].till = told[w][mem[w][k].tok]
      BY <1>1 DEF MemoriesGood
    <3>3. m[i] \in Blacklist!Entry
      BY <1>5, <1>7, <2>3
    <3>4. m[i].tok \in Token
      BY <3>3, EntryIs
    <3> QED
      BY <1>7, <1>10, <2>3, <3>1, <3>2, <3>4
  <2> QED
    BY <1>4, <1>7, <2>1, <2>2, <2>3 DEF Renewed
<1>13. ASSUME NEW v \in Process PROVE IsFiniteSet({u \in Token : told'[v][u] # 0})
  <2>1. IsFiniteSet({u \in Token : told[v][u] # 0} \cup {t})
    BY <1>1, FS_AddElement DEF MemoriesGood
  <2>2. {u \in Token : told'[v][u] # 0} \subseteq {u \in Token : told[v][u] # 0} \cup {t}
    BY <1>9, <1>10
  <2> QED
    BY <2>1, <2>2, FS_Subset
<1>14. Word(w, t) = {u \in Token : now < told'[w][u]}
  BY <1>2, <1>10 DEF Word
<1>15. ASSUME ~crowded', NEW v \in Process, NEW u \in Token, now < told'[v][u]
       PROVE  \E i \in 1..Len(mem'[v]) : mem'[v][i].tok = u
  <2>1. ~crowded /\ ~(Cardinality(Word(w, t)) > Capacity)
    BY <1>14, <1>15
  <2>2. CASE v # w
    BY <1>1, <1>7, <1>9, <1>15, <2>1, <2>2 DEF MemoriesGood
  <2>3. CASE v = w /\ u = t
    BY <1>4, <1>7, <2>3 DEF Renewed
  <2>4. CASE v = w /\ u # t
    <3>1. now < told[w][u]
      BY <1>10, <1>15, <2>4
    <3>2. PICK k \in 1..Len(mem[w]) : mem[w][k].tok = u
      BY <1>1, <2>1, <3>1 DEF MemoriesGood
    <3>3. mem[w][k].till = told[w][u]
      BY <1>1, <3>2 DEF MemoriesGood
    <3>4. \E i \in 1..Len(m) : m[i].tok = mem[w][k].tok
      BY <1>4, <2>1, <3>1, <3>3 DEF Renewed
    <3> QED
      BY <1>7, <2>4, <3>2, <3>4
  <2> QED
    BY <2>2, <2>3, <2>4
<1> QED
  BY <1>6, <1>9, <1>11, <1>12, <1>13, <1>15, ZenonT(40) DEF MemoriesGood, Store

\* Fields of a call, and what a call becomes.
LEMMA CallIs ==
  ASSUME NEW s \in Blacklist!CallRec
  PROVE  /\ s.pc \in {"idle", "sent", "answered", "failed"} /\ s.op \in {"none", "add", "contains"}
         /\ s.tok \in Token \cup {NoToken} /\ s.ttl \in Nat /\ s.hit \in BOOLEAN
BY DEF Blacklist!CallRec

LEMMA IdleIs == Blacklist!IdleCall \in Blacklist!CallRec /\ Blacklist!IdleCall.pc = "idle"
BY DEF Blacklist!CallRec, Blacklist!IdleCall

LEMMA ContainsCallIs ==
  ASSUME NEW t \in Token, NEW q,
         q = [Blacklist!IdleCall EXCEPT !.pc = "sent", !.op = "contains", !.tok = t]
  PROVE  q \in Blacklist!CallRec /\ q.op = "contains" /\ q.tok = t
BY DEF Blacklist!CallRec, Blacklist!IdleCall

\* A call is set to one that knows its token.
Knows(s) ==
    /\ s \in Blacklist!CallRec
    /\ s.pc # "idle" => s.tok \in Token /\ (s.op = "add" => s.ttl > 0)

LEMMA OpenKept ==
  ASSUME BlacklistInv, NEW c \in Call, NEW s, Knows(s), open' = [open EXCEPT ![c] = s]
  PROVE  /\ open' \in [Call -> Blacklist!CallRec]
         /\ \A d \in Call : open'[d].pc # "idle" =>
              open'[d].tok \in Token /\ (open'[d].op = "add" => open'[d].ttl > 0)
<1>1. \A d \in Call : Knows(open[d])
  BY Parts DEF CallsGood, Knows
<1>2. open \in [Call -> Blacklist!CallRec] /\ s \in Blacklist!CallRec
  BY BlacklistTypes DEF Knows
<1>3. \A d \in Call : open'[d] = IF d = c THEN s ELSE open[d]
  BY <1>2
<1>4. \A d \in Call : Knows(open'[d])
  BY <1>1, <1>3
<1> QED
  BY <1>2, <1>4 DEF Knows

\* What the blacklist does keeps its invariant.
LEMMA TickKept ==
  ASSUME BlacklistInv, Blacklist!Tick, crowded => crowded'
  PROVE  BlacklistInv'
<1>1. /\ now' = now + 1 /\ now < BlacklistTime
      /\ UNCHANGED <<exp, redisUp, redis, mem, healthy, nextRetry, open, told>>
  BY DEF Blacklist!Tick
<1>2. now' \in 0..BlacklistTime /\ now' >= now /\ now' \in Nat
  BY <1>1, BlacklistTypes, BlacklistSettings
<1>3. MemoriesGood'
  BY <1>1, <1>2, QuietMemories
<1>4. CallsGood'
  BY <1>1, <1>2, Parts DEF CallsGood
<1> QED
  BY <1>3, <1>4, PartsKept

LEMMA OutageKept ==
  ASSUME BlacklistInv, Blacklist!Outage, crowded => crowded'
  PROVE  BlacklistInv'
<1>1. UNCHANGED <<now, exp, redis, mem, healthy, nextRetry, open, told>> /\ redisUp' = ~redisUp
  BY DEF Blacklist!Outage
<1>2. now' >= now /\ now' \in Nat
  BY <1>1, BlacklistTypes
<1>3. MemoriesGood'
  BY <1>1, <1>2, QuietMemories
<1>4. CallsGood'
  BY <1>1, Parts DEF CallsGood
<1> QED
  BY <1>3, <1>4, PartsKept

LEMMA RestartKept ==
  ASSUME BlacklistInv, NEW w \in Process, Blacklist!Restart(w), crowded => crowded'
  PROVE  BlacklistInv'
<1>1. MemoriesGood'
  BY RestartMemories
<1>2. /\ healthy' = [healthy EXCEPT ![w] = HasRedis] /\ nextRetry' = [nextRetry EXCEPT ![w] = 0]
      /\ open' = [c \in Call |-> IF Home[c] = w THEN Blacklist!IdleCall ELSE open[c]]
      /\ UNCHANGED <<now, exp, redisUp, redis>>
  BY DEF Blacklist!Restart
<1>3. \A c \in Call : Knows(open[c])
  BY Parts DEF CallsGood, Knows
<1>4. \A c \in Call : Knows(open'[c])
  BY <1>2, <1>3, IdleIs DEF Knows
<1>5. open' \in [Call -> Blacklist!CallRec]
  <2>1. Blacklist!IdleCall \in Blacklist!CallRec
    BY IdleIs
  <2>2. \A c \in Call : open[c] \in Blacklist!CallRec
    BY <1>3 DEF Knows
  <2> QED
    BY <1>2, <2>1, <2>2
<1>6. healthy' \in [Process -> BOOLEAN] /\ nextRetry' \in [Process -> Nat]
  BY <1>2, BlacklistTypes, BlacklistSettings
<1>7. CallsGood'
  BY <1>2, <1>4, <1>5, <1>6, Parts DEF CallsGood, Knows
<1> QED
  BY <1>1, <1>7, PartsKept

LEMMA AddLocallyKept ==
  ASSUME BlacklistInv, NEW c \in Call, NEW t \in Token, Blacklist!AddLocally(c, t),
         crowded' = (crowded \/ \E v \in Process :
                       Cardinality({u \in Token : now < told'[v][u]}) > Capacity)
  PROVE  BlacklistInv'
<1>1. PICK w \in Process : w = Home[c]
  BY BlacklistSettings
<1>2. PICK life : life = Blacklist!Remaining(t)
  OBVIOUS
<1>3. /\ now < exp[t] /\ life > 0
      /\ mem' = [mem EXCEPT ![w] = Blacklist!MemAdded(w, t, life)]
      /\ Blacklist!Promised(w, t, now + life * Second)
      /\ UNCHANGED <<now, exp, redisUp, redis, healthy, nextRetry, open>>
  BY <1>1, <1>2 DEF Blacklist!AddLocally
<1>4. life \in Nat
  <2>1. PICK e \in Nat, s \in Nat \ {0} : e = exp[t] /\ s = Second
    BY BlacklistTypes, BlacklistSettings
  <2>2. life = (e - now) \div s
    BY <1>2, <2>1 DEF Blacklist!Remaining
  <2>3. now \in Nat
    BY BlacklistTypes
  <2> QED
    BY <1>3, <2>1, <2>2, <2>3
<1>5. MemoriesGood'
  BY <1>3, <1>4, AddMemories
<1>6. CallsGood'
  BY <1>3, Parts DEF CallsGood
<1> QED
  BY <1>5, <1>6, PartsKept
LEMMA SendKept ==
  ASSUME BlacklistInv, NEW c \in Call, NEW t \in Token,
         Blacklist!AddSend(c, t) \/ Blacklist!ContainsSend(c, t), crowded => crowded'
  PROVE  BlacklistInv'
<1>1. UNCHANGED <<now, exp, redisUp, redis, mem, healthy, nextRetry, told>>
  BY DEF Blacklist!AddSend, Blacklist!ContainsSend
<1>2. now' \in Nat /\ now' >= now
  BY <1>1, BlacklistTypes
<1>3. MemoriesGood'
  BY <1>1, <1>2, QuietMemories
<1>4. \E s : Knows(s) /\ open' = [open EXCEPT ![c] = s]
  <2>1. CASE Blacklist!AddSend(c, t)
    <3>1. PICK life : life = Blacklist!Remaining(t)
      OBVIOUS
    <3>2. PICK s : s = [Blacklist!IdleCall EXCEPT !.pc = "sent", !.op = "add", !.tok = t, !.ttl = life]
      OBVIOUS
    <3>3. open' = [open EXCEPT ![c] = s] /\ life > 0 /\ now < exp[t]
      BY <2>1, <3>1, <3>2 DEF Blacklist!AddSend
    <3>4. life \in Nat
      <4>1. PICK e \in Nat, d \in Nat \ {0} : e = exp[t] /\ d = Second
        BY BlacklistTypes, BlacklistSettings
      <4>2. life = (e - now) \div d
        BY <3>1, <4>1 DEF Blacklist!Remaining
      <4>3. now \in Nat
        BY BlacklistTypes
      <4> QED
        BY <3>3, <4>1, <4>2, <4>3
    <3>5. s \in Blacklist!CallRec /\ s.op = "add" /\ s.tok = t /\ s.ttl = life
      BY <3>2, <3>4 DEF Blacklist!CallRec, Blacklist!IdleCall
    <3> QED
      BY <3>3, <3>5 DEF Knows
  <2>2. CASE Blacklist!ContainsSend(c, t)
    <3>1. PICK s : s = [Blacklist!IdleCall EXCEPT !.pc = "sent", !.op = "contains", !.tok = t]
      OBVIOUS
    <3>2. open' = [open EXCEPT ![c] = s]
      BY <2>2, <3>1 DEF Blacklist!ContainsSend
    <3>3. s \in Blacklist!CallRec /\ s.op = "contains" /\ s.tok = t
      BY <3>1, ContainsCallIs
    <3> QED
      BY <3>2, <3>3 DEF Knows
  <2> QED
    BY <2>1, <2>2
<1>5. CallsGood'
  <2>1. PICK s : Knows(s) /\ open' = [open EXCEPT ![c] = s]
    BY <1>4
  <2>2. /\ open' \in [Call -> Blacklist!CallRec]
        /\ \A d \in Call : open'[d].pc # "idle" =>
             open'[d].tok \in Token /\ (open'[d].op = "add" => open'[d].ttl > 0)
    BY <2>1, OpenKept
  <2> QED
    BY <1>1, <2>2, Parts DEF CallsGood
<1> QED
  BY <1>3, <1>5, PartsKept

\* A call that Redis answers or that fails keeps what it is about.
LEMMA ServedKnows ==
  ASSUME BlacklistInv, NEW c \in Call, open[c].pc # "idle", NEW p \in {"answered", "failed"},
         NEW h \in BOOLEAN
  PROVE  Knows([open[c] EXCEPT !.pc = p, !.hit = h])
<1>1. PICK s \in Blacklist!CallRec : s = open[c]
  BY BlacklistTypes
<1>2. s.tok \in Token /\ (s.op = "add" => s.ttl > 0)
  BY <1>1, Parts DEF CallsGood
<1>3. PICK q : q = [s EXCEPT !.pc = p, !.hit = h]
  OBVIOUS
<1>4. q \in Blacklist!CallRec /\ q.op = s.op /\ q.tok = s.tok /\ q.ttl = s.ttl
  BY <1>3 DEF Blacklist!CallRec
<1>5. Knows(q)
  BY <1>2, <1>4 DEF Knows
<1> QED
  BY <1>1, <1>3, <1>5

LEMMA RedisKept ==
  ASSUME BlacklistInv, NEW c \in Call, Blacklist!RedisServes(c) \/ Blacklist!RedisFails(c),
         crowded => crowded'
  PROVE  BlacklistInv'
<1>1. UNCHANGED <<now, exp, redisUp, mem, healthy, nextRetry, told>> /\ open[c].pc # "idle"
  BY DEF Blacklist!RedisServes, Blacklist!RedisFails
<1>2. now' \in Nat /\ now' >= now
  BY <1>1, BlacklistTypes
<1>3. MemoriesGood'
  BY <1>1, <1>2, QuietMemories
<1>4. redis' \in [Token -> Nat] /\ \E s : Knows(s) /\ open' = [open EXCEPT ![c] = s]
  <2>1. CASE Blacklist!RedisServes(c)
    <3>1. PICK h \in BOOLEAN : h = (open[c].op = "contains" /\ now < redis[open[c].tok])
      OBVIOUS
    <3>2. open' = [open EXCEPT ![c].pc = "answered", ![c].hit = h]
      BY <2>1, <3>1 DEF Blacklist!RedisServes
    <3>3. open' = [open EXCEPT ![c] = [open[c] EXCEPT !.pc = "answered", !.hit = h]]
      BY <3>2, BlacklistTypes
    <3>4. Knows([open[c] EXCEPT !.pc = "answered", !.hit = h])
      BY <1>1, ServedKnows
    <3>5. PICK x : x = now + open[c].ttl * Second
      OBVIOUS
    <3>6. x \in Nat
      <4>0. open[c] \in Blacklist!CallRec
        BY BlacklistTypes
      <4>1. open[c].ttl \in Nat /\ now \in Nat
        BY <4>0, BlacklistTypes, CallIs
      <4> QED
        BY <3>5, <4>1, LifeIs
    <3>7. redis' = redis \/ redis' = [redis EXCEPT ![open[c].tok] = x]
      BY <2>1, <3>5 DEF Blacklist!RedisServes
    <3>8. redis' \in [Token -> Nat]
      BY <3>6, <3>7, BlacklistTypes
    <3> QED
      BY <3>3, <3>4, <3>8
  <2>2. CASE Blacklist!RedisFails(c)
    <3>1. open' = [open EXCEPT ![c].pc = "failed", ![c].hit = FALSE] /\ redis' = redis
      BY <2>2 DEF Blacklist!RedisFails
    <3>2. open' = [open EXCEPT ![c] = [open[c] EXCEPT !.pc = "failed", !.hit = FALSE]]
      BY <3>1, BlacklistTypes
    <3>3. Knows([open[c] EXCEPT !.pc = "failed", !.hit = FALSE])
      BY <1>1, ServedKnows
    <3> QED
      BY <3>1, <3>2, <3>3, BlacklistTypes
  <2> QED
    BY <2>1, <2>2
<1>5. CallsGood'
  <2>1. PICK s : Knows(s) /\ open' = [open EXCEPT ![c] = s]
    BY <1>4
  <2>2. /\ open' \in [Call -> Blacklist!CallRec]
        /\ \A d \in Call : open'[d].pc # "idle" =>
             open'[d].tok \in Token /\ (open'[d].op = "add" => open'[d].ttl > 0)
    BY <2>1, OpenKept
  <2> QED
    BY <1>1, <1>4, <2>2, Parts DEF CallsGood
<1> QED
  BY <1>3, <1>5, PartsKept

\* The end of a call.
LEMMA EndedCalls ==
  ASSUME BlacklistInv, NEW c \in Call, Blacklist!Marked(c), UNCHANGED <<now, exp, redisUp, redis>>,
         open' = [open EXCEPT ![c] = Blacklist!IdleCall]
  PROVE  CallsGood'
<1>1. PICK w \in Process : w = Home[c]
  BY BlacklistSettings
<1>2. /\ healthy' = [healthy EXCEPT ![w] = open[c].pc = "answered"]
      /\ nextRetry' = nextRetry \/ nextRetry' = [nextRetry EXCEPT ![w] = now + BlacklistRetry]
  BY <1>1 DEF Blacklist!Marked
<1>3. now + BlacklistRetry \in Nat
  BY BlacklistTypes, BlacklistSettings
<1>4. healthy' \in [Process -> BOOLEAN] /\ nextRetry' \in [Process -> Nat]
  BY <1>2, <1>3, BlacklistTypes
<1>5. Knows(Blacklist!IdleCall)
  BY IdleIs DEF Knows
<1>6. /\ open' \in [Call -> Blacklist!CallRec]
      /\ \A d \in Call : open'[d].pc # "idle" =>
           open'[d].tok \in Token /\ (open'[d].op = "add" => open'[d].ttl > 0)
  BY <1>5, OpenKept
<1> QED
  BY <1>4, <1>6, Parts DEF CallsGood

LEMMA AddReturnsKept ==
  ASSUME BlacklistInv, NEW c \in Call, Blacklist!AddReturns(c),
         crowded' = (crowded \/ \E v \in Process :
                       Cardinality({u \in Token : now < told'[v][u]}) > Capacity)
  PROVE  BlacklistInv'
<1>1. PICK w \in Process : w = Home[c]
  BY BlacklistSettings
<1>2. open[c].pc # "idle" /\ open[c].op = "add"
  BY DEF Blacklist!AddReturns
<1>3. PICK t \in Token, life \in Nat : t = open[c].tok /\ life = open[c].ttl /\ life > 0
  <2>1. open[c].tok \in Token /\ open[c].ttl > 0
    BY <1>2, Parts DEF CallsGood
  <2>0. open[c] \in Blacklist!CallRec
    BY BlacklistTypes
  <2>2. open[c].ttl \in Nat
    BY <2>0, CallIs
  <2> QED
    BY <2>1, <2>2
<1>4. /\ mem' = [mem EXCEPT ![w] = Blacklist!MemAdded(w, t, life)]
      /\ Blacklist!Promised(w, t, now + life * Second)
      /\ Blacklist!Marked(c) /\ open' = [open EXCEPT ![c] = Blacklist!IdleCall]
      /\ UNCHANGED <<now, exp, redisUp, redis>>
  BY <1>1, <1>3 DEF Blacklist!AddReturns
<1>5. MemoriesGood'
  BY <1>3, <1>4, AddMemories
<1>6. CallsGood'
  BY <1>4, EndedCalls
<1> QED
  BY <1>5, <1>6, PartsKept

LEMMA ContainsLocallyKept ==
  ASSUME BlacklistInv, NEW c \in Call, NEW t \in Token, Blacklist!ContainsLocally(c, t),
         crowded => crowded'
  PROVE  BlacklistInv'
<1>1. PICK w \in Process : w = Home[c]
  BY BlacklistSettings
<1>2. UNCHANGED <<now, exp, redisUp, redis, healthy, nextRetry, open, told>>
  BY DEF Blacklist!ContainsLocally
<1>3. mem' = [mem EXCEPT ![w] = Blacklist!MemLooked(w, t)] \/ mem' = mem
  BY <1>1, BlacklistTypes DEF Blacklist!ContainsLocally
<1>4. now' \in Nat /\ now' >= now
  BY <1>2, BlacklistTypes
<1>5. MemoriesGood'
  BY <1>2, <1>3, <1>4, LookMemories, QuietMemories
<1>6. CallsGood'
  BY <1>2, Parts DEF CallsGood
<1> QED
  BY <1>5, <1>6, PartsKept

LEMMA ContainsReturnsKept ==
  ASSUME BlacklistInv, NEW c \in Call, Blacklist!ContainsReturns(c), crowded => crowded'
  PROVE  BlacklistInv'
<1>1. PICK w \in Process : w = Home[c]
  BY BlacklistSettings
<1>2. /\ Blacklist!Marked(c) /\ open' = [open EXCEPT ![c] = Blacklist!IdleCall]
      /\ UNCHANGED <<now, exp, redisUp, redis, told>> /\ open[c].pc # "idle"
  BY DEF Blacklist!ContainsReturns
<1>3. PICK t \in Token : t = open[c].tok
  BY <1>2, Parts DEF CallsGood
<1>4. mem' = [mem EXCEPT ![w] = Blacklist!MemLooked(w, t)] \/ mem' = mem
  BY <1>1, <1>3, BlacklistTypes DEF Blacklist!ContainsReturns
<1>5. now' \in Nat /\ now' >= now
  BY <1>2, BlacklistTypes
<1>6. MemoriesGood'
  BY <1>2, <1>4, <1>5, LookMemories, QuietMemories
<1>7. CallsGood'
  BY <1>2, EndedCalls
<1> QED
  BY <1>6, <1>7, PartsKept

\* So does a step of the limiter, and nothing.
LEMMA QuietKept ==
  ASSUME BlacklistInv, UNCHANGED blacklistVars
  PROVE  BlacklistInv'
<1>1. UNCHANGED <<now, exp, redisUp, redis, mem, healthy, nextRetry, open, told, crowded>>
  BY DEF blacklistVars
<1>2. now' \in Nat /\ now' >= now
  BY <1>1, BlacklistTypes
<1>3. MemoriesGood'
  BY <1>1, <1>2, QuietMemories
<1>4. CallsGood'
  BY <1>1, Parts DEF CallsGood
<1> QED
  BY <1>3, <1>4, PartsKept

LEMMA BlacklistKept == BlacklistInv /\ BlacklistStep => BlacklistInv'
<1> SUFFICES ASSUME BlacklistInv, BlacklistStep PROVE BlacklistInv'
  OBVIOUS
<1>1. /\ Blacklist!Next
      /\ crowded' = (crowded \/ \E v \in Process :
                       Cardinality({u \in Token : now < told'[v][u]}) > Capacity)
  BY DEF BlacklistStep
<1>2. crowded => crowded'
  BY <1>1
<1>3. CASE Blacklist!Tick
  BY <1>2, <1>3, TickKept
<1>4. CASE Blacklist!Outage
  BY <1>2, <1>4, OutageKept
<1>5. ASSUME NEW w \in Process, Blacklist!Restart(w) PROVE BlacklistInv'
  BY <1>2, <1>5, RestartKept
<1>6. ASSUME NEW c \in Call, NEW t \in Token, Blacklist!AddLocally(c, t) PROVE BlacklistInv'
  BY <1>1, <1>6, AddLocallyKept
<1>7. ASSUME NEW c \in Call, NEW t \in Token,
             Blacklist!AddSend(c, t) \/ Blacklist!ContainsSend(c, t)
      PROVE  BlacklistInv'
  BY <1>2, <1>7, SendKept
<1>8. ASSUME NEW c \in Call, NEW t \in Token, Blacklist!ContainsLocally(c, t) PROVE BlacklistInv'
  BY <1>2, <1>8, ContainsLocallyKept
<1>9. ASSUME NEW c \in Call, Blacklist!RedisServes(c) \/ Blacklist!RedisFails(c)
      PROVE  BlacklistInv'
  BY <1>2, <1>9, RedisKept
<1>10. ASSUME NEW c \in Call, Blacklist!AddReturns(c) PROVE BlacklistInv'
  BY <1>1, <1>10, AddReturnsKept
<1>11. ASSUME NEW c \in Call, Blacklist!ContainsReturns(c) PROVE BlacklistInv'
  BY <1>2, <1>11, ContainsReturnsKept
<1> QED
  BY <1>1, <1>3, <1>4, <1>5, <1>6, <1>7, <1>8, <1>9, <1>10, <1>11 DEF Blacklist!Next
LEMMA BlacklistStarts == Blacklist!Init /\ crowded = FALSE => BlacklistInv
<1> SUFFICES ASSUME Blacklist!Init, crowded = FALSE PROVE BlacklistInv
  OBVIOUS
<1>1. /\ now = 0 /\ redisUp = HasRedis /\ redis = [t \in Token |-> 0]
      /\ mem = [w \in Process |-> << >>]
      /\ healthy = [w \in Process |-> HasRedis] /\ nextRetry = [w \in Process |-> 0]
      /\ open = [c \in Call |-> Blacklist!IdleCall]
      /\ told = [w \in Process |-> [t \in Token |-> 0]]
  BY DEF Blacklist!Init
<1>2. exp \in [Token -> Nat]
  <2>1. PICK S : S = {k * Second : k \in 1..(BlacklistTime \div Second)}
    OBVIOUS
  <2>2. ASSUME NEW x \in S PROVE x \in Nat
    <3>1. PICK d \in Nat : d = Second
      BY BlacklistSettings
    <3>2. PICK k \in 1..(BlacklistTime \div Second) : x = k * Second
      BY <2>1
    <3>3. k \in Nat
      BY <3>2, BlacklistSettings
    <3> QED
      BY <3>1, <3>2, <3>3
  <2>3. exp \in [Token -> S]
    BY <2>1 DEF Blacklist!Init
  <2> QED
    BY <2>2, <2>3
<1>3. CallsGood
  BY <1>1, <1>2, IdleIs, BlacklistSettings DEF CallsGood
<1>4. Store(<< >>)
  BY BlacklistSettings DEF Store, Distinct
<1>5. \A w \in Process : IsFiniteSet({t \in Token : told[w][t] # 0})
  <2>1. \A w \in Process : {t \in Token : told[w][t] # 0} = {}
    BY <1>1
  <2> QED
    BY <2>1, FS_EmptySet
<1>6. \A w \in Process, t \in Token : ~(now < told[w][t])
  BY <1>1
<1>7. MemoriesGood
  BY <1>1, <1>4, <1>5, <1>6 DEF MemoriesGood
<1> QED
  BY <1>3, <1>7, Parts

\* Who has told that a token is refused does not let it pass.
LEMMA BlacklistHolds == BlacklistInv => OwnRevocationsHoldWithRoom
<1> SUFFICES ASSUME BlacklistInv, ~crowded, BlacklistFallback # "open",
                    NEW c \in Call, NEW t \in Token, Blacklist!Passes(c, t)
             PROVE  told[Home[c]][t] <= now
  BY DEF OwnRevocationsHoldWithRoom, Blacklist!OwnRevocationsHold
<1>1. PICK w \in Process : w = Home[c]
  BY BlacklistSettings
<1>2. now \in Nat /\ told[w][t] \in Nat
  BY BlacklistTypes
<1>3. ~Blacklist!MemContains(w, t)
  BY <1>1, BlacklistSettings
  DEF Blacklist!Passes, Blacklist!SaysRevoked, Blacklist!RedisContains, Blacklist!FallbackContains
<1>4. ~(now < told[w][t])
  <2> SUFFICES ASSUME now < told[w][t] PROVE FALSE
    OBVIOUS
  <2>1. PICK i \in 1..Len(mem[w]) : mem[w][i].tok = t
    BY Parts DEF MemoriesGood
  <2>2. mem[w][i].till = told[w][t]
    BY <2>1, Parts DEF MemoriesGood
  <2> QED
    BY <1>3, <2>1, <2>2 DEF Blacklist!MemContains
<1> QED
  BY <1>1, <1>2, <1>4

\* The inductive invariant of the blacklist: every promise that stands has its entry.
THEOREM SpecBlacklistInv == ServiceSpec => []BlacklistInv
<1>1. ServiceInit => BlacklistInv
  BY BlacklistStarts DEF ServiceInit
<1>2. BlacklistInv /\ [ServiceNext]_<<blacklistVars, limiterVars>> => BlacklistInv'
  BY BlacklistKept, QuietKept DEF ServiceNext
<1> QED
  BY <1>1, <1>2, PTL DEF ServiceSpec

\* A worker refuses the tokens it has revoked itself as long as it said it would,
\* through outages, recoveries and calls in flight, while its memory has room.
THEOREM SpecOwnRevocationsHold == ServiceSpec => []OwnRevocationsHoldWithRoom
  BY SpecBlacklistInv, BlacklistHolds, PTL
-----------------------------------------------------------------------------
(* Sums over a log of requests.                                              *)

\* The element a fold takes first, and the partial sums of the values f.
Taken(s) == CHOOSE x \in s : TRUE
Sums(f, S, h) ==
    h = [s \in SUBSET S |-> IF s = {} THEN 0 ELSE f[Taken(s)] + h[s \ {Taken(s)}]]

Numbers(f, S) == IsFiniteSet(S) /\ \A e \in S : f[e] \in Int

LEMMA SumIs == ASSUME NEW f, NEW S PROVE Limiter!Sum(f, S) = (CHOOSE h : Sums(f, S, h))[S]
BY DEF Limiter!Sum, Limiter!MapThenSumSet, Limiter!MapThenFoldSet, Taken, Sums

\* What the fold takes first is an element, and one less remains.
LEMMA TakenOne ==
  ASSUME NEW f, NEW S, Numbers(f, S), NEW s \in SUBSET S, s # {}
  PROVE  /\ Taken(s) \in s /\ f[Taken(s)] \in Int
         /\ s \ {Taken(s)} \in SUBSET S
         /\ Cardinality(s) \in Nat \ {0}
         /\ Cardinality(s \ {Taken(s)}) = Cardinality(s) - 1
<1>1. Taken(s) \in s
  BY DEF Taken
<1>2. IsFiniteSet(s)
  BY FS_Subset DEF Numbers
<1>3. Cardinality(s) \in Nat /\ Cardinality(s) # 0
  BY <1>2, FS_CardinalityType, FS_EmptySet
<1>4. Cardinality(s \ {Taken(s)}) = Cardinality(s) - 1
  BY <1>1, <1>2, FS_RemoveElement
<1> QED
  BY <1>1, <1>3, <1>4 DEF Numbers

LEMMA NoElement ==
  ASSUME NEW f, NEW S, Numbers(f, S), NEW s \in SUBSET S, Cardinality(s) <= 0
  PROVE  s = {}
<1> SUFFICES ASSUME s # {} PROVE FALSE
  OBVIOUS
<1>1. Cardinality(s) \in Nat \ {0}
  BY TakenOne
<1> QED
  BY <1>1

\* The partial sums up to a cardinality.
SumsUpTo(f, S, h, n) ==
    \A s \in SUBSET S : Cardinality(s) <= n =>
        h[s] = IF s = {} THEN 0 ELSE f[Taken(s)] + h[s \ {Taken(s)}]

\* There are partial sums.
LEMMA SumsExist ==
  ASSUME NEW f, NEW S, Numbers(f, S)
  PROVE  \E h \in [SUBSET S -> Int] : Sums(f, S, h)
<1> DEFINE T == {n \in Nat : \E h \in [SUBSET S -> Int] : SumsUpTo(f, S, h, n)}
<1>1. 0 \in T
  <2>1. PICK h : h = [s \in SUBSET S |-> 0]
    OBVIOUS
  <2>2. ASSUME NEW s \in SUBSET S, Cardinality(s) <= 0 PROVE s = {}
    BY <2>2, NoElement
  <2>3. SumsUpTo(f, S, h, 0) /\ h \in [SUBSET S -> Int]
    BY <2>1, <2>2 DEF SumsUpTo
  <2> QED
    BY <2>3
<1>2. ASSUME NEW n \in Nat, n \in T PROVE n + 1 \in T
  <2>1. PICK h \in [SUBSET S -> Int] : SumsUpTo(f, S, h, n)
    BY <1>2
  <2>2. PICK g : g = [s \in SUBSET S |-> IF Cardinality(s) <= n \/ s = {} THEN h[s]
                                        ELSE f[Taken(s)] + h[s \ {Taken(s)}]]
    OBVIOUS
  <2>3. g \in [SUBSET S -> Int]
    <3>1. ASSUME NEW s \in SUBSET S, s # {}
          PROVE  f[Taken(s)] + h[s \ {Taken(s)}] \in Int
      <4>1. f[Taken(s)] \in Int /\ s \ {Taken(s)} \in SUBSET S
        BY <3>1, TakenOne
      <4>2. h[s \ {Taken(s)}] \in Int
        BY <2>1, <4>1
      <4> QED
        BY <4>1, <4>2
    <3> QED
      BY <2>2, <3>1
  <2>4. SumsUpTo(f, S, g, n + 1)
    <3> SUFFICES ASSUME NEW s \in SUBSET S, Cardinality(s) <= n + 1
                 PROVE  g[s] = IF s = {} THEN 0 ELSE f[Taken(s)] + g[s \ {Taken(s)}]
      BY DEF SumsUpTo
    <3>1. CASE s = {}
      <4>1. Cardinality(s) = 0
        BY <3>1, FS_EmptySet
      <4>2. h[s] = 0
        BY <2>1, <3>1, <4>1 DEF SumsUpTo
      <4> QED
        BY <2>2, <3>1, <4>2
    <3>2. CASE s # {}
      <4>1. /\ s \ {Taken(s)} \in SUBSET S /\ Cardinality(s) \in Nat
            /\ Cardinality(s \ {Taken(s)}) = Cardinality(s) - 1
        BY <3>2, TakenOne
      <4>2. Cardinality(s \ {Taken(s)}) <= n
        BY <4>1
      <4>3. g[s \ {Taken(s)}] = h[s \ {Taken(s)}]
        BY <2>2, <4>1, <4>2
      <4>4. Cardinality(s) <= n => h[s] = f[Taken(s)] + h[s \ {Taken(s)}]
        BY <2>1, <3>2 DEF SumsUpTo
      <4> QED
        BY <2>2, <3>2, <4>3, <4>4
    <3> QED
      BY <3>1, <3>2
  <2> QED
    BY <2>3, <2>4
<1>3. Nat \subseteq T
  <2> HIDE DEF T
  <2> QED
    BY <1>1, <1>2, SetInduction
<1>4. Cardinality(S) \in T
  BY <1>3, FS_CardinalityType DEF Numbers
<1>5. PICK h \in [SUBSET S -> Int] : SumsUpTo(f, S, h, Cardinality(S))
  BY <1>4
<1>6. ASSUME NEW s \in SUBSET S PROVE Cardinality(s) <= Cardinality(S)
  BY FS_Subset DEF Numbers
<1>7. Sums(f, S, h)
  BY <1>5, <1>6 DEF SumsUpTo, Sums
<1> QED
  BY <1>7

\* They are determined by the values.
LEMMA SumsUnique ==
  ASSUME NEW f, NEW S, Numbers(f, S), NEW U, S \subseteq U, NEW h, NEW g, Sums(f, S, h), Sums(f, U, g)
  PROVE  h[S] = g[S]
<1> DEFINE T == {n \in Nat : \A s \in SUBSET S : Cardinality(s) <= n => h[s] = g[s]}
<1>1. ASSUME NEW s \in SUBSET S
      PROVE  /\ h[s] = IF s = {} THEN 0 ELSE f[Taken(s)] + h[s \ {Taken(s)}]
             /\ g[s] = IF s = {} THEN 0 ELSE f[Taken(s)] + g[s \ {Taken(s)}]
  <2>1. s \in SUBSET U
    OBVIOUS
  <2> QED
    BY <2>1 DEF Sums
<1>2. 0 \in T
  <2> SUFFICES ASSUME NEW s \in SUBSET S, Cardinality(s) <= 0 PROVE h[s] = g[s]
    OBVIOUS
  <2>1. s = {}
    BY NoElement
  <2> QED
    BY <1>1, <2>1
<1>3. ASSUME NEW n \in Nat, n \in T PROVE n + 1 \in T
  <2> SUFFICES ASSUME NEW s \in SUBSET S, Cardinality(s) <= n + 1 PROVE h[s] = g[s]
    OBVIOUS
  <2>1. CASE s = {}
    BY <1>1, <2>1
  <2>2. CASE s # {}
    <3>1. s \ {Taken(s)} \in SUBSET S /\ Cardinality(s \ {Taken(s)}) <= n
      BY <2>2, TakenOne
    <3>2. h[s \ {Taken(s)}] = g[s \ {Taken(s)}]
      BY <1>3, <3>1
    <3> QED
      BY <1>1, <2>2, <3>2
  <2> QED
    BY <2>1, <2>2
<1>4. Nat \subseteq T
  <2> HIDE DEF T
  <2> QED
    BY <1>2, <1>3, SetInduction
<1>5. Cardinality(S) \in Nat
  BY FS_CardinalityType DEF Numbers
<1> QED
  BY <1>4, <1>5

\* The sum can be read off any partial sums.
LEMMA SumBy ==
  ASSUME NEW f, NEW S, Numbers(f, S), NEW U, S \subseteq U, NEW g, Sums(f, U, g)
  PROVE  Limiter!Sum(f, S) = g[S]
<1>1. PICK h : h = CHOOSE hh : Sums(f, S, hh)
  OBVIOUS
<1>2. Sums(f, S, h)
  BY <1>1, SumsExist
<1> QED
  BY <1>1, <1>2, SumsUnique, SumIs

\* It does not matter which element is taken first.
Splits(f, S, h, x) == h[S] = f[x] + h[S \ {x}]

LEMMA AnyFirst ==
  ASSUME NEW f, NEW S, Numbers(f, S), NEW h \in [SUBSET S -> Int], Sums(f, S, h), NEW x \in S
  PROVE  Splits(f, S, h, x)
<1> DEFINE T == {n \in Nat : \A s \in SUBSET S : Cardinality(s) <= n =>
                                \A y \in s : h[s] = f[y] + h[s \ {y}]}
<1>1. ASSUME NEW s \in SUBSET S, s # {}
      PROVE  h[s] = f[Taken(s)] + h[s \ {Taken(s)}]
  BY <1>1 DEF Sums
<1>2. 0 \in T
  <2>1. ASSUME NEW s \in SUBSET S, Cardinality(s) <= 0 PROVE s = {}
    BY <2>1, NoElement
  <2> QED
    BY <2>1
<1>3. ASSUME NEW n \in Nat, n \in T PROVE n + 1 \in T
  <2> SUFFICES ASSUME NEW s \in SUBSET S, Cardinality(s) <= n + 1, NEW y \in s
               PROVE  h[s] = f[y] + h[s \ {y}]
    OBVIOUS
  <2>0. \A q \in SUBSET S : Cardinality(q) <= n => \A x1 \in q : h[q] = f[x1] + h[q \ {x1}]
    BY <1>3
  <2>1. PICK z : z = Taken(s)
    OBVIOUS
  <2>2. /\ z \in s /\ f[z] \in Int /\ s \ {z} \in SUBSET S
        /\ Cardinality(s) \in Nat /\ Cardinality(s \ {z}) = Cardinality(s) - 1
        /\ h[s] = f[z] + h[s \ {z}]
    BY <1>1, <2>1, TakenOne
  <2>3. CASE y = z
    BY <2>2, <2>3
  <2>4. CASE y # z
    <3>1. y \in s \ {z} /\ z \in s \ {y} /\ s \ {y} \in SUBSET S /\ (s \ {z}) \ {y} = (s \ {y}) \ {z}
      BY <2>2, <2>4
    <3>2. IsFiniteSet(s)
      BY FS_Subset DEF Numbers
    <3>3. Cardinality(s \ {y}) = Cardinality(s) - 1
      BY <3>2, FS_RemoveElement
    <3>a. Cardinality(s \ {z}) <= n /\ Cardinality(s \ {y}) <= n
      BY <2>2, <3>3
    <3>4. h[s \ {z}] = f[y] + h[(s \ {z}) \ {y}]
      BY <2>0, <2>2, <3>1, <3>a
    <3>5. h[s \ {y}] = f[z] + h[(s \ {y}) \ {z}]
      BY <2>0, <3>1, <3>a
    <3>6. h[(s \ {z}) \ {y}] \in Int /\ f[y] \in Int
      BY <3>1 DEF Numbers
    <3>7. PICK i, j, k \in Int : i = f[z] /\ j = f[y] /\ k = h[(s \ {z}) \ {y}]
      BY <2>2, <3>6
    <3>8. h[s \ {z}] = j + k /\ h[s \ {y}] = i + k
      BY <3>1, <3>4, <3>5, <3>7
    <3>9. h[s] = i + (j + k)
      BY <2>2, <3>7, <3>8
    <3> QED
      BY <3>7, <3>8, <3>9
  <2> QED
    BY <2>3, <2>4
<1>4. Nat \subseteq T
  <2> HIDE DEF T
  <2> QED
    BY <1>2, <1>3, SetInduction
<1>5. Cardinality(S) \in Nat
  BY FS_CardinalityType DEF Numbers
<1> QED
  BY <1>4, <1>5 DEF Splits

\* The sum of no element is 0, and an element adds its value.
LEMMA SumEmpty == ASSUME NEW f PROVE Limiter!Sum(f, {}) = 0
<1>1. Numbers(f, {})
  BY FS_EmptySet DEF Numbers
<1>2. PICK h \in [SUBSET {} -> Int] : Sums(f, {}, h)
  BY <1>1, SumsExist
<1>3. h[{}] = 0
  BY <1>2 DEF Sums
<1> QED
  BY <1>1, <1>2, <1>3, SumBy

LEMMA SumAdd ==
  ASSUME NEW f, NEW S, Numbers(f, S), NEW e, e \notin S, f[e] \in Int
  PROVE  Limiter!Sum(f, S \cup {e}) = Limiter!Sum(f, S) + f[e]
<1>1. PICK U : U = S \cup {e}
  OBVIOUS
<1>2. Numbers(f, U) /\ S \subseteq U /\ e \in U /\ U \ {e} = S
  BY <1>1, FS_AddElement DEF Numbers
<1>3. PICK h \in [SUBSET U -> Int] : Sums(f, U, h)
  BY <1>2, SumsExist
<1>4. Splits(f, U, h, e)
  BY <1>2, <1>3, AnyFirst
<1>5. Limiter!Sum(f, U) = h[U] /\ Limiter!Sum(f, S) = h[S]
  BY <1>2, <1>3, SumBy
<1>6. PICK i, j \in Int : i = h[S] /\ j = f[e]
  BY <1>2, <1>3
<1>7. h[U] = j + i
  BY <1>2, <1>4, <1>6 DEF Splits
<1> QED
  BY <1>1, <1>5, <1>6, <1>7

\* Sums over logs.
Log == [Limiter!Time -> Nat]

LEMMA TimeIs == LimiterTime \in Nat /\ Limiter!Time = 0..LimiterTime /\ IsFiniteSet(Limiter!Time)
<1>1. LimiterTime \in Nat
  BY LimiterAssumption DEF Limiter!Settings
<1> QED
  BY <1>1, FS_Interval DEF Limiter!Time

LEMMA LogNumbers ==
  ASSUME NEW f \in Log, NEW S \in SUBSET Limiter!Time
  PROVE  Numbers(f, S)
<1>1. IsFiniteSet(S)
  BY TimeIs, FS_Subset
<1> QED
  BY <1>1 DEF Numbers, Log

\* The sum over S up to a time and the next one.
AddsNext(f, S, n) ==
    Limiter!Sum(f, S \cap 0..n) =
      Limiter!Sum(f, S \cap 0..(n - 1)) + IF n \in S THEN f[n] ELSE 0

LEMMA SumNext ==
  ASSUME NEW f \in Log, NEW S \in SUBSET Limiter!Time, NEW n \in Nat
  PROVE  AddsNext(f, S, n)
<1>1. PICK R \in SUBSET Limiter!Time : R = S \cap 0..(n - 1)
  OBVIOUS
<1>2. CASE n \in S
  <2>1. S \cap 0..n = R \cup {n} /\ n \notin R
    BY <1>1, <1>2
  <2>2. f[n] \in Int
    BY <1>2 DEF Log
  <2> QED
    BY <1>1, <1>2, <2>1, <2>2, LogNumbers, SumAdd DEF AddsNext
<1>3. CASE n \notin S
  <2>1. S \cap 0..n = R
    BY <1>1, <1>3
  <2>2. PICK h \in [SUBSET R -> Int] : Sums(f, R, h)
    BY LogNumbers, SumsExist
  <2>3. Limiter!Sum(f, R) = h[R]
    BY <2>2, LogNumbers, SumBy
  <2>4. PICK i \in Int : i = Limiter!Sum(f, R)
    BY <2>2, <2>3
  <2>5. Limiter!Sum(f, S \cap 0..n) = i /\ Limiter!Sum(f, S \cap 0..(n - 1)) = i
    BY <1>1, <2>1, <2>4
  <2> QED
    BY <1>3, <2>4, <2>5 DEF AddsNext
<1> QED
  BY <1>2, <1>3
\* Every time is before the end.
LEMMA TimeEnds ==
  ASSUME NEW S \in SUBSET Limiter!Time
  PROVE  S \cap 0..((LimiterTime + 1) - 1) = S
<1>1. (LimiterTime + 1) - 1 = LimiterTime
  BY TimeIs
<1>2. S \cap 0..LimiterTime = S
  BY TimeIs
<1> QED
  BY <1>1, <1>2

\* A sum over a log is a number.
LEMMA SumNat ==
  ASSUME NEW f \in Log, NEW S \in SUBSET Limiter!Time
  PROVE  Limiter!Sum(f, S) \in Nat
<1> DEFINE T == {n \in Nat : Limiter!Sum(f, S \cap 0..(n - 1)) \in Nat}
<1>1. 0 \in T
  <2>1. S \cap 0..(0 - 1) = {}
    OBVIOUS
  <2> QED
    BY <2>1, SumEmpty
<1>2. ASSUME NEW n \in Nat, n \in T PROVE n + 1 \in T
  <2>1. Limiter!Sum(f, S \cap 0..n) =
          Limiter!Sum(f, S \cap 0..(n - 1)) + IF n \in S THEN f[n] ELSE 0
    <3>1. AddsNext(f, S, n)
      BY SumNext
    <3> QED
      BY <3>1 DEF AddsNext
  <2>2. (IF n \in S THEN f[n] ELSE 0) \in Nat
    BY DEF Log
  <2>3. Limiter!Sum(f, S \cap 0..n) \in Nat
    BY <1>2, <2>1, <2>2
  <2>4. (n + 1) - 1 = n /\ n + 1 \in Nat
    OBVIOUS
  <2> QED
    BY <2>3, <2>4
<1>3. Nat \subseteq T
  <2> HIDE DEF T
  <2> QED
    BY <1>1, <1>2, SetInduction
<1>4. S \cap 0..((LimiterTime + 1) - 1) = S /\ LimiterTime + 1 \in Nat
  BY TimeIs, TimeEnds
<1>5. LimiterTime + 1 \in T
  BY <1>3, <1>4
<1> QED
  BY <1>4, <1>5

\* A sum is at most another when every number in it is 0 or at most the same in
\* the other.
Below(f, S, g, U) == \A u \in S : f[u] = 0 \/ (u \in U /\ f[u] <= g[u])

LEMMA SumMost ==
  ASSUME NEW f \in Log, NEW S \in SUBSET Limiter!Time,
         NEW g \in Log, NEW U \in SUBSET Limiter!Time, Below(f, S, g, U)
  PROVE  Limiter!Sum(f, S) <= Limiter!Sum(g, U)
<1> DEFINE T == {n \in Nat : Limiter!Sum(f, S \cap 0..(n - 1)) <= Limiter!Sum(g, U \cap 0..(n - 1))}
<1>1. 0 \in T
  <2>1. S \cap 0..(0 - 1) = {} /\ U \cap 0..(0 - 1) = {}
    OBVIOUS
  <2> QED
    BY <2>1, SumEmpty
<1>2. ASSUME NEW n \in Nat, n \in T PROVE n + 1 \in T
  <2>1. PICK i, j, k, l \in Nat :
          /\ i = Limiter!Sum(f, S \cap 0..(n - 1)) /\ j = IF n \in S THEN f[n] ELSE 0
          /\ k = Limiter!Sum(g, U \cap 0..(n - 1)) /\ l = IF n \in U THEN g[n] ELSE 0
    <3>1. Limiter!Sum(f, S \cap 0..(n - 1)) \in Nat
      BY SumNat
    <3>2. Limiter!Sum(g, U \cap 0..(n - 1)) \in Nat
      BY SumNat
    <3>3. (IF n \in S THEN f[n] ELSE 0) \in Nat /\ (IF n \in U THEN g[n] ELSE 0) \in Nat
      BY DEF Log
    <3> QED
      BY <3>1, <3>2, <3>3
  <2>2. j <= l
    BY <2>1 DEF Below, Log
  <2>a. AddsNext(f, S, n)
    BY SumNext
  <2>b. AddsNext(g, U, n)
    BY SumNext
  <2>3. Limiter!Sum(f, S \cap 0..n) = i + j
    BY <2>1, <2>a DEF AddsNext
  <2>4. Limiter!Sum(g, U \cap 0..n) = k + l
    BY <2>1, <2>b DEF AddsNext
  <2>5. i <= k
    BY <1>2, <2>1
  <2>6. Limiter!Sum(f, S \cap 0..n) <= Limiter!Sum(g, U \cap 0..n)
    BY <2>2, <2>3, <2>4, <2>5
  <2>7. (n + 1) - 1 = n /\ n + 1 \in Nat
    OBVIOUS
  <2> QED
    BY <2>6, <2>7
<1>3. Nat \subseteq T
  <2> HIDE DEF T
  <2> QED
    BY <1>1, <1>2, SetInduction
<1>4. /\ S \cap 0..((LimiterTime + 1) - 1) = S /\ U \cap 0..((LimiterTime + 1) - 1) = U
      /\ LimiterTime + 1 \in Nat
  BY TimeIs, TimeEnds
<1>5. LimiterTime + 1 \in T
  BY <1>3, <1>4
<1> QED
  BY <1>4, <1>5

\* One request more adds one to the sums its time is in.
LEMMA SumNoted ==
  ASSUME NEW f \in Log, NEW S \in SUBSET Limiter!Time, NEW a \in Limiter!Time
  PROVE  /\ Limiter!Noted(f, a) \in Log
         /\ Limiter!Sum(Limiter!Noted(f, a), S) = Limiter!Sum(f, S) + IF a \in S THEN 1 ELSE 0
<1>0. PICK g : g = Limiter!Noted(f, a)
  OBVIOUS
<1>1. g \in Log /\ g[a] = f[a] + 1 /\ \A u \in Limiter!Time : u # a => g[u] = f[u]
  BY <1>0 DEF Limiter!Noted, Log
<1> DEFINE One(n) == IF a \in S /\ a <= n - 1 THEN 1 ELSE 0
<1> DEFINE T == {n \in Nat : Limiter!Sum(g, S \cap 0..(n - 1)) = Limiter!Sum(f, S \cap 0..(n - 1)) + One(n)}
<1>a. a \in Nat /\ a <= LimiterTime
  BY TimeIs
<1>2. 0 \in T
  <2>1. S \cap 0..(0 - 1) = {} /\ One(0) = 0
    BY <1>a
  <2> HIDE DEF One
  <2> QED
    BY <2>1, SumEmpty
<1>3. ASSUME NEW n \in Nat, n \in T PROVE n + 1 \in T
  <2>1. PICK i \in Nat : i = Limiter!Sum(f, S \cap 0..(n - 1))
    BY SumNat
  <2>a. AddsNext(f, S, n)
    BY SumNext
  <2>b. AddsNext(g, S, n)
    BY <1>1, SumNext
  <2>2. Limiter!Sum(f, S \cap 0..n) = i + IF n \in S THEN f[n] ELSE 0
    BY <2>1, <2>a DEF AddsNext
  <2>3. Limiter!Sum(g, S \cap 0..n) = (i + One(n)) + IF n \in S THEN g[n] ELSE 0
    BY <1>3, <2>1, <2>b DEF AddsNext
  <2>4. PICK j, l \in Nat : j = (IF n \in S THEN f[n] ELSE 0) /\ l = (IF n \in S THEN g[n] ELSE 0)
    BY <1>1 DEF Log
  <2>5. One(n) + l = j + One(n + 1)
    <3>1. CASE n \in S /\ a = n
      BY <1>1, <2>4, <3>1
    <3>2. CASE n \in S /\ a # n
      <4>1. l = j
        BY <1>1, <2>4, <3>2
      <4>2. One(n) = One(n + 1)
        BY <1>a, <3>2
      <4> QED
        BY <4>1, <4>2
    <3>3. CASE n \notin S
      <4>1. l = j
        BY <2>4, <3>3
      <4>2. One(n) = One(n + 1)
        BY <1>a, <3>3
      <4> QED
        BY <4>1, <4>2
    <3> QED
      BY <3>1, <3>2, <3>3
  <2>6. One(n) \in Nat /\ One(n + 1) \in Nat
    OBVIOUS
  <2>7. Limiter!Sum(g, S \cap 0..n) = Limiter!Sum(f, S \cap 0..n) + One(n + 1)
    <3> HIDE DEF One
    <3> QED
      BY <2>2, <2>3, <2>4, <2>5, <2>6
  <2>8. (n + 1) - 1 = n /\ n + 1 \in Nat
    OBVIOUS
  <2> HIDE DEF One
  <2> QED
    BY <2>7, <2>8
<1>4. Nat \subseteq T
  <2> HIDE DEF T
  <2> QED
    BY <1>2, <1>3, SetInduction
<1>5. S \cap 0..((LimiterTime + 1) - 1) = S /\ LimiterTime + 1 \in Nat
  BY TimeIs, TimeEnds
<1>6. One(LimiterTime + 1) = IF a \in S THEN 1 ELSE 0
  BY <1>a, TimeIs
<1>7. LimiterTime + 1 \in T
  BY <1>4, <1>5
<1> HIDE DEF One
<1> QED
  BY <1>0, <1>1, <1>5, <1>6, <1>7
-----------------------------------------------------------------------------
(* The rate limiter.                                                         *)

\* The times of a stretch, and those after a time.
Stretch(t, length) == {u \in Limiter!Time : t - length < u /\ u <= t}
After(t) == {u \in Limiter!Time : t < u}

LEMMA StretchIs ==
  ASSUME NEW f, NEW t, NEW length
  PROVE  /\ Limiter!InWindow(f, t, length) = Limiter!Sum(f, Stretch(t, length))
         /\ Stretch(t, length) \in SUBSET Limiter!Time
  BY DEF Limiter!InWindow, Stretch

LEMMA LimiterTypes ==
  ASSUME Limiter!TypeOK
  PROVE  /\ clock \in Limiter!Time /\ clock \in Nat
         /\ LimiterTime \in Nat /\ Period \in Nat /\ MaxDelay \in Nat /\ Limit \in Nat
         /\ \A k \in Key : zset[k] \in Log /\ expires[k] \in Nat /\ admitted["redis"][k] \in Log
         /\ \A w \in Process, k \in Key : hits[w][k] \in Log /\ admitted[w][k] \in Log
         /\ \A w \in Process : w # "redis"
         /\ Limiter!NoRequests \in Log
<1>1. /\ LimiterTime \in Nat /\ Period \in Nat /\ MaxDelay \in Nat /\ Limit \in Nat
      /\ "redis" \notin Process
  BY LimiterAssumption DEF Limiter!Settings
<1>2. clock \in Limiter!Time /\ clock \in Nat
  BY TimeIs DEF Limiter!TypeOK
<1>3. \A k \in Key : zset[k] \in Log /\ expires[k] \in Nat /\ admitted["redis"][k] \in Log
  BY DEF Limiter!TypeOK, Limiter!Store, Log
<1>4. \A w \in Process, k \in Key : hits[w][k] \in Log /\ admitted[w][k] \in Log
  BY DEF Limiter!TypeOK, Limiter!Store, Log
<1>5. Limiter!NoRequests \in Log
  BY DEF Limiter!NoRequests, Log
<1> QED
  BY <1>1, <1>2, <1>3, <1>4, <1>5

\* What the two stores hold, and the two limits, key by key.
MemoryKept(w, k) ==
    \A t \in Limiter!Time : t > clock - Period => hits[w][k][t] = admitted[w][k][t]

MemoryLimited(w, k) ==
    \A t \in 0..clock : Limiter!Sum(admitted[w][k], Stretch(t, Period)) <= Limit

KnownSince(k, t) ==
    clock - Period <= t - MaxDelay =>
      Limiter!Sum(admitted["redis"][k], After(t))
        <= Limiter!Sum(Limiter!Standing(k), After(t - MaxDelay))

RedisKnows(k) == \A t \in (0 - Period)..LimiterTime : KnownSince(k, t)

RedisLimited(k) ==
    \A t \in 0..clock : Limiter!Sum(admitted["redis"][k], Stretch(t, Period - MaxDelay)) <= Limit

KeyOutlasts(k) ==
    \A t \in Limiter!Time : admitted["redis"][k][t] > 0 => t + Period < expires[k]

StoresTyped ==
    /\ hits \in [Process -> [Key -> Log]]
    /\ admitted \in [Process \cup {"redis"} -> [Key -> Log]]
    /\ zset \in [Key -> Log] /\ expires \in [Key -> Nat]

MemoriesInv == \A w \in Process, k \in Key : MemoryKept(w, k) /\ MemoryLimited(w, k)
RedisInv == \A k \in Key : RedisKnows(k) /\ RedisLimited(k) /\ KeyOutlasts(k)

AsksInv ==
    /\ clock \in Limiter!Time
    /\ well \in [Process -> BOOLEAN] /\ retryAt \in [Process -> Nat]
    /\ asking \in [Asker -> Limiter!Asking]
    /\ Limiter!AskedInTime

LimiterParts == AsksInv /\ StoresTyped /\ Limiter!NoneAhead /\ MemoriesInv /\ RedisInv

LEMMA LimitedParts ==
  ASSUME \A k \in Key : RedisLimited(k) /\ \A w \in Process : MemoryLimited(w, k)
  PROVE  Limiter!WindowsRespected
<1> SUFFICES ASSUME NEW k \in Key, NEW t \in 0..clock
             PROVE  /\ \A w \in Process : Limiter!InWindow(admitted[w][k], t, Period) <= Limit
                    /\ Limiter!InWindow(admitted["redis"][k], t, Period - MaxDelay) <= Limit
  BY DEF Limiter!WindowsRespected
<1> QED
  BY StretchIs DEF RedisLimited, MemoryLimited

LEMMA LimitedIn ==
  ASSUME Limiter!WindowsRespected
  PROVE  \A k \in Key : RedisLimited(k) /\ \A w \in Process : MemoryLimited(w, k)
<1>1. ASSUME NEW k \in Key, NEW t \in 0..clock
      PROVE  /\ \A w \in Process : Limiter!InWindow(admitted[w][k], t, Period) <= Limit
             /\ Limiter!InWindow(admitted["redis"][k], t, Period - MaxDelay) <= Limit
  BY DEF Limiter!WindowsRespected
<1> QED
  BY <1>1, StretchIs DEF RedisLimited, MemoryLimited

LEMMA LimiterInvIs == LimiterInv <=> LimiterParts
<1>1. Limiter!RedisLogs <=> \A k \in Key : RedisKnows(k)
  BY DEF Limiter!RedisLogs, RedisKnows, KnownSince, After
<1>2. Limiter!KeyLasts <=> \A k \in Key : KeyOutlasts(k)
  BY DEF Limiter!KeyLasts, KeyOutlasts
<1>3. Limiter!MemoryLogs <=> \A w \in Process, k \in Key : MemoryKept(w, k)
  BY DEF Limiter!MemoryLogs, MemoryKept
<1>4. Limiter!WindowsRespected
        <=> \A k \in Key : RedisLimited(k) /\ \A w \in Process : MemoryLimited(w, k)
  BY LimitedParts, LimitedIn
<1>5. Limiter!TypeOK /\ Limiter!AskedInTime <=> AsksInv /\ StoresTyped
  BY DEF Limiter!TypeOK, AsksInv, StoresTyped, Log, Limiter!Store
<1> QED
  BY <1>1, <1>2, <1>3, <1>4, <1>5 DEF LimiterInv, Limiter!IInv, LimiterParts, MemoriesInv, RedisInv
\* Nothing is let through at first.
LEMMA NothingSummed ==
  ASSUME NEW S \in SUBSET Limiter!Time, NEW g \in Log, NEW U \in SUBSET Limiter!Time
  PROVE  Limiter!Sum(Limiter!NoRequests, S) <= Limiter!Sum(g, U)
<1>1. Limiter!NoRequests \in Log
  BY DEF Limiter!NoRequests, Log
<1>2. Below(Limiter!NoRequests, S, g, U)
  BY DEF Below, Limiter!NoRequests
<1> QED
  BY <1>1, <1>2, SumMost

LEMMA LimiterStarts == Limiter!Init => LimiterParts
<1> SUFFICES ASSUME Limiter!Init PROVE LimiterParts
  OBVIOUS
<1>0. Limiter!Settings
  BY LimiterAssumption
<1>1. Limiter!NoRequests \in Log /\ Limit \in Nat
  BY <1>0 DEF Limiter!NoRequests, Log, Limiter!Settings
<1>2. StoresTyped
  BY <1>1 DEF Limiter!Init, StoresTyped, Limiter!Store
<1>3. AsksInv
  <2>1. clock \in Limiter!Time /\ retryAt \in [Process -> Nat]
    BY TimeIs DEF Limiter!Init
  <2>2. well \in [Process -> BOOLEAN]
    BY <1>0 DEF Limiter!Init, Limiter!Settings
  <2>3. asking \in [Asker -> Limiter!Asking] /\ Limiter!AskedInTime
    BY DEF Limiter!Init, Limiter!Asking, Limiter!Idle, Limiter!AskedInTime
  <2> QED
    BY <2>1, <2>2, <2>3 DEF AsksInv
<1>4. \A k \in Key : admitted["redis"][k] = Limiter!NoRequests /\ expires[k] = 0
  BY DEF Limiter!Init, Limiter!Store
<1>5. \A w \in Process, k \in Key : admitted[w][k] = Limiter!NoRequests /\ hits[w][k] = Limiter!NoRequests
  BY DEF Limiter!Init, Limiter!Store
<1>6. Limiter!NoneAhead
  BY <1>4, <1>5 DEF Limiter!NoneAhead, Limiter!NoRequests, Limiter!Store
<1>7. ASSUME NEW t, NEW length PROVE Limiter!Sum(Limiter!NoRequests, Stretch(t, length)) <= Limit
  <2>1. Stretch(t, length) \in SUBSET Limiter!Time /\ {} \in SUBSET Limiter!Time
    BY DEF Stretch
  <2>2. Limiter!Sum(Limiter!NoRequests, Stretch(t, length)) <= Limiter!Sum(Limiter!NoRequests, {})
    BY <1>1, <2>1, NothingSummed
  <2>3. Limiter!Sum(Limiter!NoRequests, {}) = 0
    BY SumEmpty
  <2>4. Limiter!Sum(Limiter!NoRequests, Stretch(t, length)) \in Nat
    BY <1>1, <2>1, SumNat
  <2> QED
    BY <1>1, <2>2, <2>3, <2>4
<1>8. MemoriesInv
  BY <1>5, <1>7 DEF MemoriesInv, MemoryKept, MemoryLimited
<1>9. ASSUME NEW k \in Key PROVE RedisKnows(k) /\ RedisLimited(k) /\ KeyOutlasts(k)
  <2>1. Limiter!Standing(k) \in Log
    BY <1>1, <1>2 DEF Limiter!Standing, StoresTyped
  <2>2. ASSUME NEW t PROVE After(t) \in SUBSET Limiter!Time
    BY DEF After
  <2>3. RedisKnows(k)
    BY <1>4, <2>1, <2>2, NothingSummed DEF RedisKnows, KnownSince
  <2>4. RedisLimited(k)
    BY <1>4, <1>7 DEF RedisLimited
  <2>5. KeyOutlasts(k)
    BY <1>4 DEF KeyOutlasts, Limiter!NoRequests
  <2> QED
    BY <2>3, <2>4, <2>5
<1> QED
  BY <1>2, <1>3, <1>6, <1>8, <1>9 DEF LimiterParts, RedisInv

\* Each step keeps the types and the times of the requests under way.
LEMMA AskIs ==
  ASSUME NEW a \in Limiter!Asking
  PROVE  /\ a.pc \in {"idle", "sent", "answered", "failed"}
         /\ a.pc # "idle" => a.key \in Key /\ a.stamp \in Limiter!Time
         /\ a.pc # "idle" => \A p \in {"answered", "failed"} :
              /\ [a EXCEPT !.pc = p] \in Limiter!Asking
              /\ [a EXCEPT !.pc = p].pc = p /\ [a EXCEPT !.pc = p].stamp = a.stamp
  BY DEF Limiter!Asking

LEMMA SentIs ==
  ASSUME NEW k \in Key, clock \in Limiter!Time
  PROVE  [pc |-> "sent", key |-> k, stamp |-> clock] \in Limiter!Asking
  BY DEF Limiter!Asking

LEMMA AsksKept ==
  ASSUME AsksInv, NEW r \in Asker, NEW a \in Limiter!Asking,
         clock' = clock, asking' = [asking EXCEPT ![r] = a],
         well' \in [Process -> BOOLEAN], retryAt' \in [Process -> Nat],
         a.pc # "idle" => a.stamp <= clock,
         a.pc = "sent" => clock <= a.stamp + MaxDelay
  PROVE  AsksInv'
<1>1. clock' \in Limiter!Time' /\ asking' \in [Asker -> Limiter!Asking']
  BY DEF AsksInv, Limiter!Time, Limiter!Asking
<1>2. Limiter!AskedInTime'
  BY DEF AsksInv, Limiter!AskedInTime
<1> QED
  BY <1>1, <1>2 DEF AsksInv
\* Asking a memory, or nothing, keeps what the stores hold.
LEMMA MemoryAsked ==
  ASSUME LimiterParts, NEW w \in Process, NEW k \in Key, Limiter!AskMemory(w, k), clock' = clock,
         zset' = zset, expires' = expires
  PROVE  StoresTyped' /\ Limiter!NoneAhead' /\ MemoriesInv' /\ RedisInv'
<1>0. /\ clock \in Limiter!Time /\ clock \in Nat /\ Period \in Nat /\ Limit \in Nat
      /\ "redis" \notin Process /\ Limiter!NoRequests \in Log
  BY LimiterAssumption, TimeIs DEF Limiter!Settings, LimiterParts, AsksInv, Limiter!NoRequests, Log
<1>1. hits[w][k] \in Log /\ admitted[w][k] \in Log
  BY DEF LimiterParts, StoresTyped
<1>2. PICK log : log = Limiter!Trimmed(hits[w][k], clock)
  OBVIOUS
<1>3. /\ log \in Log
      /\ \A u \in Limiter!Time : u > clock - Period => log[u] = admitted[w][k][u]
  BY <1>0, <1>1, <1>2 DEF Limiter!Trimmed, Log, LimiterParts, MemoriesInv, MemoryKept
<1>4. CASE Limiter!Full(log)
  <2>1. hits' = [hits EXCEPT ![w][k] = log] /\ admitted' = admitted
    BY <1>2, <1>4 DEF Limiter!AskMemory
  <2>2. StoresTyped'
    BY <1>3, <2>1 DEF LimiterParts, StoresTyped, Log, Limiter!Time
  <2>3. Limiter!NoneAhead'
    BY <2>1 DEF LimiterParts, Limiter!NoneAhead, Limiter!Store, Limiter!Time
  <2>4. ASSUME NEW v \in Process, NEW j \in Key PROVE MemoryKept(v, j)' /\ MemoryLimited(v, j)'
    <3>1. hits'[v][j] = IF v = w /\ j = k THEN log ELSE hits[v][j]
      BY <2>1 DEF LimiterParts, StoresTyped
    <3>2. MemoryKept(v, j) /\ MemoryLimited(v, j)
      BY DEF LimiterParts, MemoriesInv
    <3>3. MemoryKept(v, j)'
      BY <1>3, <2>1, <3>1, <3>2 DEF MemoryKept, Limiter!Time
    <3>4. MemoryLimited(v, j)'
      BY <2>1, <3>2 DEF MemoryLimited
    <3> QED
      BY <3>3, <3>4
  <2>5. RedisInv'
    BY <2>1 DEF LimiterParts, RedisInv, RedisKnows, KnownSince, RedisLimited, KeyOutlasts,
                Limiter!Standing
  <2> QED
    BY <2>2, <2>3, <2>4, <2>5 DEF MemoriesInv
<1>5. CASE ~Limiter!Full(log)
  <2>1. /\ hits' = [hits EXCEPT ![w][k] = Limiter!Noted(log, clock)]
        /\ admitted' = [admitted EXCEPT ![w][k][clock] = @ + 1]
    BY <1>2, <1>5 DEF Limiter!AskMemory, Limiter!Lets
  <2>2. Limiter!Noted(log, clock) \in Log /\ Limiter!Noted(admitted[w][k], clock) \in Log
    BY <1>0, <1>1, <1>3, SumNoted
  <2>3. /\ \A v \in Process, j \in Key :
             /\ admitted'[v][j] = IF v = w /\ j = k THEN Limiter!Noted(admitted[w][k], clock)
                                  ELSE admitted[v][j]
             /\ hits'[v][j] = IF v = w /\ j = k THEN Limiter!Noted(log, clock) ELSE hits[v][j]
        /\ admitted'["redis"] = admitted["redis"]
    BY <1>0, <2>1 DEF LimiterParts, StoresTyped, Limiter!Noted
  <2>4. StoresTyped'
    <3>1. admitted' = [admitted EXCEPT ![w][k] = Limiter!Noted(admitted[w][k], clock)]
      BY <2>1 DEF LimiterParts, StoresTyped, Limiter!Noted
    <3>2. admitted' \in [Process \cup {"redis"} -> [Key -> Log]]
      BY <2>2, <3>1, PatchedTyped DEF LimiterParts, StoresTyped
    <3>3. hits' \in [Process -> [Key -> Log]]
      BY <2>1, <2>2, PatchedTyped DEF LimiterParts, StoresTyped
    <3> QED
      BY <3>2, <3>3 DEF LimiterParts, StoresTyped, Log
  <2>5. Limiter!NoneAhead'
    BY <1>0, <2>3, <1>1 DEF LimiterParts, Limiter!NoneAhead, Limiter!Store, Limiter!Noted, Log
  <2>6. ASSUME NEW v \in Process, NEW j \in Key PROVE MemoryKept(v, j)' /\ MemoryLimited(v, j)'
    <3>2. MemoryKept(v, j) /\ MemoryLimited(v, j)
      BY DEF LimiterParts, MemoriesInv
    <3>3. CASE v = w /\ j = k
      <4>1. /\ admitted'[v][j] = Limiter!Noted(admitted[w][k], clock)
            /\ hits'[v][j] = Limiter!Noted(log, clock)
        BY <2>3, <3>3
      <4>2. MemoryKept(v, j)'
        BY <1>0, <1>1, <1>3, <4>1 DEF MemoryKept, Limiter!Noted, Log
      <4>3. ASSUME NEW t \in 0..clock
            PROVE  Limiter!Sum(Limiter!Noted(admitted[w][k], clock), Stretch(t, Period)) <= Limit
        <5>1. Stretch(t, Period) \in SUBSET Limiter!Time /\ Limiter!Time \in SUBSET Limiter!Time
          BY DEF Stretch
        <5>2. Limiter!Sum(Limiter!Noted(admitted[w][k], clock), Stretch(t, Period))
                = Limiter!Sum(admitted[w][k], Stretch(t, Period))
                    + IF clock \in Stretch(t, Period) THEN 1 ELSE 0
          BY <1>0, <1>1, <5>1, SumNoted
        <5>3. Limiter!Sum(admitted[w][k], Stretch(t, Period)) <= Limit
          BY <3>2, <3>3 DEF MemoryLimited
        <5>4. PICK i, l \in Nat : /\ i = Limiter!Sum(admitted[w][k], Stretch(t, Period))
                                  /\ l = Limiter!Sum(log, Limiter!Time)
          <6>1. Limiter!Sum(admitted[w][k], Stretch(t, Period)) \in Nat
            BY <1>1, <5>1, SumNat
          <6>2. Limiter!Sum(log, Limiter!Time) \in Nat
            BY <1>3, SumNat
          <6> QED
            BY <6>1, <6>2
        <5>5. CASE clock \notin Stretch(t, Period)
          BY <5>2, <5>3, <5>4, <5>5
        <5>6. CASE clock \in Stretch(t, Period)
          <6>1. t = clock
            BY <1>0, <5>6 DEF Stretch
          <6>2. Below(admitted[w][k], Stretch(t, Period), log, Limiter!Time)
            <7> SUFFICES ASSUME NEW u \in Stretch(t, Period)
                         PROVE  u \in Limiter!Time /\ admitted[w][k][u] <= log[u]
              BY DEF Below
            <7>1. u \in Limiter!Time /\ u > clock - Period
              BY <6>1 DEF Stretch
            <7>2. log[u] = admitted[w][k][u] /\ log[u] \in Nat
              BY <1>3, <7>1 DEF Log
            <7> QED
              BY <7>1, <7>2
          <6>3. i <= l
            BY <1>1, <1>3, <5>1, <5>4, <6>2, SumMost
          <6>4. l < Limit
            BY <1>0, <1>5, <5>4 DEF Limiter!Full, Limiter!Total
          <6> QED
            BY <1>0, <5>2, <5>4, <5>6, <6>3, <6>4
        <5> QED
          BY <5>5, <5>6
      <4>4. MemoryLimited(v, j)'
        BY <4>1, <4>3 DEF MemoryLimited
      <4> QED
        BY <4>2, <4>4
    <3>4. CASE ~(v = w /\ j = k)
      <4>1. admitted'[v][j] = admitted[v][j] /\ hits'[v][j] = hits[v][j]
        BY <2>3, <3>4
      <4> QED
        BY <3>2, <4>1 DEF MemoryKept, MemoryLimited
    <3> QED
      BY <3>3, <3>4
  <2>7. RedisInv'
    BY <2>3 DEF LimiterParts, RedisInv, RedisKnows, KnownSince, RedisLimited, KeyOutlasts,
                Limiter!Standing
  <2> QED
    BY <2>4, <2>5, <2>6, <2>7 DEF MemoriesInv
<1> QED
  BY <1>4, <1>5
\* A step that leaves the clock and the stores alone keeps what they hold.
LEMMA StoresQuiet ==
  ASSUME LimiterParts, clock' = clock, zset' = zset, expires' = expires, hits' = hits,
         admitted' = admitted
  PROVE  StoresTyped' /\ Limiter!NoneAhead' /\ MemoriesInv' /\ RedisInv'
<1>1. StoresTyped' /\ Limiter!NoneAhead'
  BY DEF LimiterParts, StoresTyped, Limiter!NoneAhead, Log
<1>2. MemoriesInv'
  BY DEF LimiterParts, MemoriesInv, MemoryKept, MemoryLimited
<1>3. RedisInv'
  BY DEF LimiterParts, RedisInv, RedisKnows, KnownSince, RedisLimited, KeyOutlasts,
         Limiter!Standing
<1> QED
  BY <1>1, <1>2, <1>3

LEMMA FellBack ==
  ASSUME LimiterParts, NEW w \in Process, NEW k \in Key, Limiter!FallBack(w, k),
         clock' = clock, zset' = zset, expires' = expires
  PROVE  StoresTyped' /\ Limiter!NoneAhead' /\ MemoriesInv' /\ RedisInv'
<1>1. CASE Limiter!AskMemory(w, k)
  BY <1>1, MemoryAsked
<1>2. CASE hits' = hits /\ admitted' = admitted
  BY <1>2, StoresQuiet
<1> QED
  BY <1>1, <1>2 DEF Limiter!FallBack

\* When the clock moves, no request is old enough to leave the window of Redis
\* with its key.
LEMMA ClockMoves == LimiterParts /\ Limiter!Tick => LimiterParts'
<1> SUFFICES ASSUME LimiterParts, Limiter!Tick PROVE LimiterParts'
  OBVIOUS
<1>0. /\ clock \in Nat /\ LimiterTime \in Nat /\ Period \in Nat /\ MaxDelay \in Nat
      /\ Limiter!Time = 0..LimiterTime /\ Limiter!NoRequests \in Log
  BY LimiterAssumption, TimeIs DEF Limiter!Settings, LimiterParts, AsksInv, Limiter!NoRequests, Log
<1>1. /\ clock < LimiterTime /\ clock' = clock + 1
      /\ zset' = zset /\ expires' = expires /\ hits' = hits /\ admitted' = admitted
      /\ well' = well /\ retryAt' = retryAt /\ asking' = asking
  BY <1>0 DEF Limiter!Tick
<1>2. AsksInv'
  <2>1. clock' \in Limiter!Time
    BY <1>0, <1>1
  <2>2. ASSUME NEW r \in Asker
        PROVE  /\ asking[r].pc # "idle" => asking[r].stamp <= clock + 1
               /\ asking[r].pc = "sent" => clock + 1 <= asking[r].stamp + MaxDelay
    <3>1. asking[r] \in Limiter!Asking
      BY DEF LimiterParts, AsksInv
    <3>2. /\ asking[r].pc # "idle" => asking[r].stamp <= clock
          /\ asking[r].pc = "sent" => clock < asking[r].stamp + MaxDelay
      BY DEF LimiterParts, AsksInv, Limiter!AskedInTime, Limiter!Tick
    <3>3. asking[r].pc # "idle" => asking[r].stamp \in Nat
      <4>1. asking[r].pc # "idle" => asking[r].stamp \in Limiter!Time
        BY <3>1, AskIs
      <4>2. Limiter!Time \subseteq Nat
        BY <1>0
      <4> QED
        BY <4>1, <4>2
    <3>4. asking[r].pc = "sent" => asking[r].pc # "idle"
      OBVIOUS
    <3> QED
      BY <1>0, <3>2, <3>3, <3>4
  <2>3. Limiter!AskedInTime'
    BY <1>1, <2>2 DEF Limiter!AskedInTime
  <2> QED
    BY <1>1, <2>1, <2>3 DEF LimiterParts, AsksInv
<1>3. StoresTyped'
  BY <1>1 DEF LimiterParts, StoresTyped, Log
<1>4. Limiter!NoneAhead'
  BY <1>0, <1>1 DEF LimiterParts, Limiter!NoneAhead
<1>5. ASSUME NEW f \in Log, NEW length \in Int,
             \A u \in Limiter!Time : u > clock => f[u] = 0,
             Limiter!Sum(f, Stretch(clock, length)) <= Limit
      PROVE  Limiter!Sum(f, Stretch(clock + 1, length)) <= Limit
  <2>1. Below(f, Stretch(clock + 1, length), f, Stretch(clock, length))
    <3> SUFFICES ASSUME NEW u \in Stretch(clock + 1, length)
                 PROVE  f[u] = 0 \/ (u \in Stretch(clock, length) /\ f[u] <= f[u])
      BY DEF Below
    <3>1. u \in Limiter!Time /\ u \in Nat /\ (clock + 1) - length < u /\ u <= clock + 1 /\ f[u] \in Nat
      BY <1>0 DEF Stretch, Log
    <3>2. CASE u > clock
      BY <1>5, <3>1, <3>2
    <3>3. CASE u <= clock
      <4>1. clock - length < u
        BY <1>0, <3>1, <1>5
      <4> QED
        BY <3>1, <3>3, <4>1 DEF Stretch
    <3> QED
      BY <1>0, <3>1, <3>2, <3>3
  <2>2. /\ Stretch(clock + 1, length) \in SUBSET Limiter!Time
        /\ Stretch(clock, length) \in SUBSET Limiter!Time
    BY DEF Stretch
  <2>3. PICK i, j \in Nat : /\ i = Limiter!Sum(f, Stretch(clock + 1, length))
                            /\ j = Limiter!Sum(f, Stretch(clock, length))
    <3>1. Limiter!Sum(f, Stretch(clock + 1, length)) \in Nat
      BY <2>2, SumNat
    <3>2. Limiter!Sum(f, Stretch(clock, length)) \in Nat
      BY <2>2, SumNat
    <3> QED
      BY <3>1, <3>2
  <2>4. i <= j
    BY <2>1, <2>2, <2>3, SumMost
  <2>5. Limit \in Nat
    BY LimiterAssumption DEF Limiter!Settings
  <2> QED
    BY <1>5, <2>3, <2>4, <2>5
<1>6. MemoriesInv'
  <2> SUFFICES ASSUME NEW w \in Process, NEW k \in Key PROVE MemoryKept(w, k)' /\ MemoryLimited(w, k)'
    BY DEF MemoriesInv
  <2>1. MemoryKept(w, k) /\ MemoryLimited(w, k) /\ admitted[w][k] \in Log
    BY DEF LimiterParts, MemoriesInv, StoresTyped
  <2>2. MemoryKept(w, k)'
    BY <1>0, <1>1, <2>1 DEF MemoryKept
  <2>3. \A u \in Limiter!Time : u > clock => admitted[w][k][u] = 0
    BY DEF LimiterParts, Limiter!NoneAhead, Limiter!Store
  <2>4. Limiter!Sum(admitted[w][k], Stretch(clock, Period)) <= Limit
    BY <1>0, <2>1 DEF MemoryLimited
  <2>5. Limiter!Sum(admitted[w][k], Stretch(clock + 1, Period)) <= Limit
    BY <1>0, <1>5, <2>1, <2>3, <2>4
  <2>6. \A t \in 0..(clock + 1) : t \in 0..clock \/ t = clock + 1
    BY <1>0
  <2>7. MemoryLimited(w, k)'
    BY <1>1, <2>1, <2>5, <2>6 DEF MemoryLimited
  <2> QED
    BY <2>2, <2>7
<1>7. RedisInv'
  <2> SUFFICES ASSUME NEW k \in Key PROVE RedisKnows(k)' /\ RedisLimited(k)' /\ KeyOutlasts(k)'
    BY DEF RedisInv
  <2>1. /\ RedisKnows(k) /\ RedisLimited(k) /\ KeyOutlasts(k) /\ admitted["redis"][k] \in Log
        /\ zset[k] \in Log /\ expires[k] \in Nat
    BY DEF LimiterParts, RedisInv, StoresTyped
  <2>2. KeyOutlasts(k)'
    BY <1>1, <2>1 DEF KeyOutlasts
  <2>3. \A u \in Limiter!Time : u > clock => admitted["redis"][k][u] = 0
    BY DEF LimiterParts, Limiter!NoneAhead, Limiter!Store
  <2>4. Limiter!Sum(admitted["redis"][k], Stretch(clock, Period - MaxDelay)) <= Limit
    BY <1>0, <2>1 DEF RedisLimited
  <2>5. Limiter!Sum(admitted["redis"][k], Stretch(clock + 1, Period - MaxDelay)) <= Limit
    BY <1>0, <1>5, <2>1, <2>3, <2>4
  <2>6. \A t \in 0..(clock + 1) : t \in 0..clock \/ t = clock + 1
    BY <1>0
  <2>7. RedisLimited(k)'
    BY <1>1, <2>1, <2>5, <2>6 DEF RedisLimited
  <2>8. RedisKnows(k)'
    <3> SUFFICES ASSUME NEW t \in (0 - Period)..LimiterTime, (clock + 1) - Period <= t - MaxDelay
                 PROVE  Limiter!Sum(admitted["redis"][k], After(t))
                          <= Limiter!Sum(Limiter!Standing(k)', After(t - MaxDelay))
      BY <1>1 DEF RedisKnows, KnownSince
    <3>1. clock - Period <= t - MaxDelay
      BY <1>0
    <3>2. Limiter!Sum(admitted["redis"][k], After(t))
            <= Limiter!Sum(Limiter!Standing(k), After(t - MaxDelay))
      BY <2>1, <3>1 DEF RedisKnows, KnownSince
    <3>3. Limiter!Standing(k)' = IF clock + 1 < expires[k] THEN zset[k] ELSE Limiter!NoRequests
      BY <1>1 DEF Limiter!Standing
    <3>4. CASE Limiter!Standing(k)' = Limiter!Standing(k)
      BY <3>2, <3>4
    <3>5. CASE Limiter!Standing(k)' # Limiter!Standing(k)
      <4>1. expires[k] = clock + 1
        BY <1>0, <2>1, <3>3, <3>5 DEF Limiter!Standing
      <4>2. Below(admitted["redis"][k], After(t), Limiter!Standing(k)', After(t - MaxDelay))
        <5> SUFFICES ASSUME NEW u \in After(t) PROVE admitted["redis"][k][u] = 0
          BY DEF Below
        <5>1. u \in Limiter!Time /\ u \in Nat /\ t < u /\ admitted["redis"][k][u] \in Nat
          BY <1>0, <2>1, SMTT(30) DEF After, Log
        <5>2. ~(u + Period < expires[k])
          BY <1>0, <3>1, <4>1, <5>1
        <5>3. ~(admitted["redis"][k][u] > 0)
          BY <2>1, <5>1, <5>2 DEF KeyOutlasts
        <5> QED
          BY <5>1, <5>3
      <4>3. Limiter!Standing(k)' \in Log
        BY <1>0, <2>1, <3>3
      <4>4. After(t) \in SUBSET Limiter!Time /\ After(t - MaxDelay) \in SUBSET Limiter!Time
        BY DEF After
      <4> QED
        BY <2>1, <4>2, <4>3, <4>4, SumMost
    <3> QED
      BY <3>4, <3>5
  <2> QED
    BY <2>2, <2>7, <2>8
<1> QED
  BY <1>2, <1>3, <1>4, <1>6, <1>7 DEF LimiterParts
\* Redis serves a request that set out at "at": what it trims is older than
\* what it let through in the period less the longest delay.
LEMMA RedisServes ==
  ASSUME LimiterParts, NEW r \in Asker, Limiter!Serve(r)
  PROVE  StoresTyped' /\ Limiter!NoneAhead' /\ MemoriesInv' /\ RedisInv'
<1>0. /\ clock \in Limiter!Time /\ clock \in Nat /\ LimiterTime \in Nat /\ Period \in Nat
      /\ MaxDelay \in Nat /\ Limit \in Nat /\ Limiter!Time = 0..LimiterTime
      /\ "redis" \notin Process /\ Limiter!NoRequests \in Log
  BY LimiterAssumption, TimeIs DEF Limiter!Settings, LimiterParts, AsksInv, Limiter!NoRequests, Log
<1>1. PICK k, at : k = asking[r].key /\ at = asking[r].stamp
  OBVIOUS
<1>2. k \in Key /\ at \in Limiter!Time /\ at \in Nat /\ at <= clock /\ clock <= at + MaxDelay
  <2>1. asking[r] \in Limiter!Asking /\ asking[r].pc = "sent" /\ asking[r].pc # "idle"
    BY DEF LimiterParts, AsksInv, Limiter!Serve
  <2>2. k \in Key /\ at \in Limiter!Time
    BY <1>1, <2>1, AskIs
  <2>3. at <= clock /\ clock <= at + MaxDelay
    BY <1>1, <2>1 DEF LimiterParts, AsksInv, Limiter!AskedInTime
  <2> QED
    BY <1>0, <2>2, <2>3
<1>3. PICK log : log = Limiter!Trimmed(Limiter!Standing(k), at)
  OBVIOUS
<1>4. /\ zset[k] \in Log /\ expires[k] \in Nat /\ admitted["redis"][k] \in Log
      /\ Limiter!Standing(k) \in Log
  BY <1>0, <1>2 DEF LimiterParts, StoresTyped, Limiter!Standing
<1>5. /\ log \in Log
      /\ \A u \in Limiter!Time : u > clock - Period => log[u] = Limiter!Standing(k)[u]
  BY <1>0, <1>2, <1>3, <1>4 DEF Limiter!Trimmed, Log
<1>6. clock' = clock /\ hits' = hits
  BY DEF Limiter!Serve
<1>7. RedisKnows(k) /\ RedisLimited(k) /\ KeyOutlasts(k)
  BY <1>2 DEF LimiterParts, RedisInv
\* Trimming keeps what is summed over the period.
<1>8. ASSUME NEW t \in Int, clock - Period <= t
      PROVE  Limiter!Sum(Limiter!Standing(k), After(t)) <= Limiter!Sum(log, After(t))
  <2>1. Below(Limiter!Standing(k), After(t), log, After(t))
    <3> SUFFICES ASSUME NEW u \in After(t) PROVE Limiter!Standing(k)[u] <= log[u]
      BY DEF Below
    <3>1. u \in Limiter!Time /\ u > clock - Period
      BY <1>0, <1>8 DEF After
    <3>2. log[u] = Limiter!Standing(k)[u] /\ log[u] \in Nat
      BY <1>5, <3>1 DEF Log
    <3> QED
      BY <3>2
  <2>2. After(t) \in SUBSET Limiter!Time
    BY DEF After
  <2> QED
    BY <1>4, <1>5, <2>1, <2>2, SumMost
\* Redis still knows all it let through.
<1>9. ASSUME NEW t \in (0 - Period)..LimiterTime, clock - Period <= t - MaxDelay
      PROVE  Limiter!Sum(admitted["redis"][k], After(t)) <= Limiter!Sum(log, After(t - MaxDelay))
  <2>1. After(t) \in SUBSET Limiter!Time /\ After(t - MaxDelay) \in SUBSET Limiter!Time
    BY DEF After
  <2>2. Limiter!Sum(admitted["redis"][k], After(t))
          <= Limiter!Sum(Limiter!Standing(k), After(t - MaxDelay))
    BY <1>7, <1>9 DEF RedisKnows, KnownSince
  <2>3. Limiter!Sum(Limiter!Standing(k), After(t - MaxDelay)) <= Limiter!Sum(log, After(t - MaxDelay))
    <3>1. t - MaxDelay \in Int
      BY <1>0
    <3> QED
      BY <1>8, <1>9, <3>1
  <2>4. PICK i, j, l \in Nat : /\ i = Limiter!Sum(admitted["redis"][k], After(t))
                               /\ j = Limiter!Sum(Limiter!Standing(k), After(t - MaxDelay))
                               /\ l = Limiter!Sum(log, After(t - MaxDelay))
    <3>1. Limiter!Sum(admitted["redis"][k], After(t)) \in Nat
      BY <1>4, <2>1, SumNat
    <3>2. Limiter!Sum(Limiter!Standing(k), After(t - MaxDelay)) \in Nat
      BY <1>4, <2>1, SumNat
    <3>3. Limiter!Sum(log, After(t - MaxDelay)) \in Nat
      BY <1>5, <2>1, SumNat
    <3> QED
      BY <3>1, <3>2, <3>3
  <2> QED
    BY <2>2, <2>3, <2>4
<1>10. CASE Limiter!Full(log)
  <2>1. zset' = [zset EXCEPT ![k] = log] /\ expires' = expires /\ admitted' = admitted
    BY <1>1, <1>3, <1>10 DEF Limiter!Serve, Limiter!Standing
  <2>2. StoresTyped' /\ Limiter!NoneAhead' /\ MemoriesInv'
    <3>1. StoresTyped'
      BY <1>5, <1>6, <2>1 DEF LimiterParts, StoresTyped, Log
    <3>2. Limiter!NoneAhead'
      BY <1>6, <2>1 DEF LimiterParts, Limiter!NoneAhead
    <3>3. MemoriesInv'
      BY <1>6, <2>1 DEF LimiterParts, MemoriesInv, MemoryKept, MemoryLimited
    <3> QED
      BY <3>1, <3>2, <3>3
  <2>3. ASSUME NEW j \in Key PROVE RedisKnows(j)' /\ RedisLimited(j)' /\ KeyOutlasts(j)'
    <3>1. RedisKnows(j) /\ RedisLimited(j) /\ KeyOutlasts(j)
      BY DEF LimiterParts, RedisInv
    <3>2. RedisLimited(j)' /\ KeyOutlasts(j)'
      BY <1>6, <2>1, <3>1 DEF RedisLimited, KeyOutlasts
    <3>3. CASE j # k \/ Limiter!Standing(k)' = Limiter!Standing(k)
      <4>1. Limiter!Standing(j)' = Limiter!Standing(j)
        BY <1>6, <2>1, <3>3 DEF Limiter!Standing, LimiterParts, StoresTyped
      <4> QED
        BY <1>6, <2>1, <3>1, <3>2, <4>1 DEF RedisKnows, KnownSince
    <3>4. CASE j = k /\ Limiter!Standing(k)' # Limiter!Standing(k)
      <4>1. Limiter!Standing(k)' = log
        BY <1>2, <1>6, <2>1, <3>4 DEF Limiter!Standing, LimiterParts, StoresTyped
      <4>2. RedisKnows(k)'
        BY <1>6, <1>9, <2>1, <4>1 DEF RedisKnows, KnownSince
      <4> QED
        BY <3>2, <3>4, <4>2
    <3> QED
      BY <3>3, <3>4
  <2> QED
    BY <2>2, <2>3 DEF RedisInv
<1>11. CASE ~Limiter!Full(log)
  <2>1. /\ zset' = [zset EXCEPT ![k] = Limiter!Noted(log, at)]
        /\ expires' = [expires EXCEPT ![k] = clock + Period + 1]
        /\ admitted' = [admitted EXCEPT !["redis"][k][clock] = @ + 1]
    BY <1>1, <1>3, <1>11 DEF Limiter!Serve, Limiter!Standing, Limiter!Lets
  <2>2. Limiter!Noted(log, at) \in Log /\ Limiter!Noted(admitted["redis"][k], clock) \in Log
    <3>1. Limiter!Noted(log, at) \in Log
      BY <1>2, <1>5, SumNoted, ZenonT(40)
    <3>2. Limiter!Noted(admitted["redis"][k], clock) \in Log
      BY <1>0, <1>4, SumNoted, ZenonT(40)
    <3> QED
      BY <3>1, <3>2
  <2>3. /\ admitted' = [admitted EXCEPT !["redis"][k] = Limiter!Noted(admitted["redis"][k], clock)]
        /\ \A j \in Key : admitted'["redis"][j] =
             IF j = k THEN Limiter!Noted(admitted["redis"][k], clock) ELSE admitted["redis"][j]
        /\ \A w \in Process : admitted'[w] = admitted[w]
    BY <1>0, <1>2, <2>1 DEF LimiterParts, StoresTyped, Limiter!Noted
  <2>4. StoresTyped'
    <3>1. admitted' \in [Process \cup {"redis"} -> [Key -> Log]]
      BY <1>2, <2>2, <2>3, PatchedTyped DEF LimiterParts, StoresTyped
    <3>2. zset' \in [Key -> Log]
      BY <2>1, <2>2 DEF LimiterParts, StoresTyped
    <3>3. clock + Period + 1 \in Nat
      BY <1>0
    <3>4. expires' \in [Key -> Nat]
      BY <2>1, <3>3 DEF LimiterParts, StoresTyped
    <3> QED
      BY <1>6, <3>1, <3>2, <3>4 DEF LimiterParts, StoresTyped, Log
  <2>5. Limiter!NoneAhead'
    <3> SUFFICES ASSUME NEW p \in Process \cup {"redis"}, NEW j \in Key, NEW u \in Limiter!Time, u > clock
                 PROVE  admitted'[p][j][u] = 0
      BY <1>6 DEF Limiter!NoneAhead, Limiter!Store
    <3>1. admitted[p][j][u] = 0
      BY DEF LimiterParts, Limiter!NoneAhead, Limiter!Store
    <3>2. CASE p = "redis" /\ j = k
      <4>1. u # clock /\ admitted["redis"][k][u] = 0
        BY <1>0, <3>1, <3>2
      <4>2. Limiter!Noted(admitted["redis"][k], clock)[u] = 0
        BY <1>4, <4>1 DEF Limiter!Noted, Log
      <4> QED
        BY <2>3, <3>2, <4>2
    <3>3. CASE ~(p = "redis" /\ j = k)
      BY <2>3, <3>1, <3>3
    <3> QED
      BY <3>2, <3>3
  <2>6. MemoriesInv'
    BY <1>6, <2>3 DEF LimiterParts, MemoriesInv, MemoryKept, MemoryLimited
  <2>7. RedisKnows(k)'
    <3>1. Limiter!Standing(k)' = Limiter!Noted(log, at)
      <4>1. expires'[k] = clock + Period + 1 /\ clock < clock + Period + 1
        BY <1>0, <1>2, <2>1 DEF LimiterParts, StoresTyped
      <4> QED
        BY <1>2, <1>6, <2>1, <4>1 DEF LimiterParts, StoresTyped, Limiter!Standing
    <3> SUFFICES ASSUME NEW t \in (0 - Period)..LimiterTime, clock - Period <= t - MaxDelay
                 PROVE  Limiter!Sum(Limiter!Noted(admitted["redis"][k], clock), After(t))
                          <= Limiter!Sum(Limiter!Noted(log, at), After(t - MaxDelay))
      BY <1>2, <1>6, <2>3, <3>1 DEF RedisKnows, KnownSince
    <3>2. After(t) \in SUBSET Limiter!Time /\ After(t - MaxDelay) \in SUBSET Limiter!Time
      BY DEF After
    <3>3. Limiter!Sum(Limiter!Noted(admitted["redis"][k], clock), After(t))
            = Limiter!Sum(admitted["redis"][k], After(t)) + IF clock \in After(t) THEN 1 ELSE 0
      BY <1>0, <1>4, <3>2, SumNoted
    <3>4. Limiter!Sum(Limiter!Noted(log, at), After(t - MaxDelay))
            = Limiter!Sum(log, After(t - MaxDelay)) + IF at \in After(t - MaxDelay) THEN 1 ELSE 0
      BY <1>2, <1>5, <3>2, SumNoted
    <3>5. clock \in After(t) => at \in After(t - MaxDelay)
      BY <1>0, <1>2 DEF After
    <3>6. Limiter!Sum(admitted["redis"][k], After(t)) <= Limiter!Sum(log, After(t - MaxDelay))
      BY <1>9
    <3>7. PICK i, l \in Nat : /\ i = Limiter!Sum(admitted["redis"][k], After(t))
                              /\ l = Limiter!Sum(log, After(t - MaxDelay))
      <4>1. Limiter!Sum(admitted["redis"][k], After(t)) \in Nat
        BY <1>4, <3>2, SumNat
      <4>2. Limiter!Sum(log, After(t - MaxDelay)) \in Nat
        BY <1>5, <3>2, SumNat
      <4> QED
        BY <4>1, <4>2
    <3> QED
      BY <3>3, <3>4, <3>5, <3>6, <3>7
  <2>8. RedisLimited(k)'
    <3> SUFFICES ASSUME NEW t \in 0..clock
                 PROVE  Limiter!Sum(Limiter!Noted(admitted["redis"][k], clock),
                                    Stretch(t, Period - MaxDelay)) <= Limit
      BY <1>2, <1>6, <2>3 DEF RedisLimited
    <3>1. Stretch(t, Period - MaxDelay) \in SUBSET Limiter!Time
      BY DEF Stretch
    <3>2. Limiter!Sum(Limiter!Noted(admitted["redis"][k], clock), Stretch(t, Period - MaxDelay))
            = Limiter!Sum(admitted["redis"][k], Stretch(t, Period - MaxDelay))
                + IF clock \in Stretch(t, Period - MaxDelay) THEN 1 ELSE 0
      BY <1>0, <1>4, <3>1, SumNoted
    <3>3. Limiter!Sum(admitted["redis"][k], Stretch(t, Period - MaxDelay)) <= Limit
      BY <1>7 DEF RedisLimited
    <3>4. PICK i \in Nat : i = Limiter!Sum(admitted["redis"][k], Stretch(t, Period - MaxDelay))
      BY <1>4, <3>1, SumNat
    <3>5. CASE clock \notin Stretch(t, Period - MaxDelay)
      BY <3>2, <3>3, <3>4, <3>5
    <3>6. CASE clock \in Stretch(t, Period - MaxDelay)
      <4>1. t = clock /\ Period - MaxDelay > 0
        BY <1>0, <3>6 DEF Stretch
      <4>2. PICK v \in (0 - Period)..LimiterTime : v = clock - (Period - MaxDelay)
        BY <1>0, <4>1
      <4>3. clock - Period <= v - MaxDelay
        BY <1>0, <4>2
      <4>4. Limiter!Sum(admitted["redis"][k], After(v)) <= Limiter!Sum(log, After(v - MaxDelay))
        BY <1>9, <4>3
      <4>5. /\ After(v) \in SUBSET Limiter!Time /\ After(v - MaxDelay) \in SUBSET Limiter!Time
            /\ Limiter!Time \in SUBSET Limiter!Time
        BY DEF After
      <4>6. Below(admitted["redis"][k], Stretch(t, Period - MaxDelay), admitted["redis"][k], After(v))
        <5> SUFFICES ASSUME NEW u \in Stretch(t, Period - MaxDelay)
                     PROVE  u \in After(v) /\ admitted["redis"][k][u] <= admitted["redis"][k][u]
          BY DEF Below
        <5>1. u \in Limiter!Time /\ clock - (Period - MaxDelay) < u
          BY <4>1 DEF Stretch
        <5>2. admitted["redis"][k][u] \in Nat
          BY <1>4, <5>1 DEF Log
        <5> QED
          BY <4>2, <5>1, <5>2 DEF After
      <4>7. Below(log, After(v - MaxDelay), log, Limiter!Time)
        <5> SUFFICES ASSUME NEW u \in After(v - MaxDelay)
                     PROVE  u \in Limiter!Time /\ log[u] <= log[u]
          BY DEF Below
        <5>1. u \in Limiter!Time
          BY DEF After
        <5>2. log[u] \in Nat
          BY <1>5, <5>1 DEF Log
        <5> QED
          BY <5>1, <5>2
      <4>8. PICK j, l, m \in Nat : /\ j = Limiter!Sum(admitted["redis"][k], After(v))
                                   /\ l = Limiter!Sum(log, After(v - MaxDelay))
                                   /\ m = Limiter!Sum(log, Limiter!Time)
        <5>1. Limiter!Sum(admitted["redis"][k], After(v)) \in Nat
          BY <1>4, <4>5, SumNat
        <5>2. Limiter!Sum(log, After(v - MaxDelay)) \in Nat
          BY <1>5, <4>5, SumNat
        <5>3. Limiter!Sum(log, Limiter!Time) \in Nat
          BY <1>5, SumNat
        <5> QED
          BY <5>1, <5>2, <5>3
      <4>9. i <= j
        BY <1>4, <3>1, <3>4, <4>5, <4>6, <4>8, SumMost
      <4>10. l <= m
        BY <1>5, <4>5, <4>7, <4>8, SumMost
      <4>11. m < Limit
        BY <1>0, <1>11, <4>8 DEF Limiter!Full, Limiter!Total
      <4> QED
        BY <1>0, <3>2, <3>4, <3>6, <4>4, <4>8, <4>9, <4>10, <4>11, SMTT(30)
    <3> QED
      BY <3>5, <3>6
  <2>9. KeyOutlasts(k)'
    <3> SUFFICES ASSUME NEW u \in Limiter!Time, Limiter!Noted(admitted["redis"][k], clock)[u] > 0
                 PROVE  u + Period < clock + Period + 1
      BY <1>2, <2>1, <2>3 DEF KeyOutlasts, LimiterParts, StoresTyped
    <3>1. CASE u = clock
      BY <1>0, <3>1
    <3>2. CASE u # clock
      <4>1. admitted["redis"][k][u] > 0
        BY <1>4, <3>2 DEF Limiter!Noted, Log
      <4>2. ~(u > clock)
        BY <1>2, <4>1 DEF LimiterParts, Limiter!NoneAhead, Limiter!Store
      <4> QED
        BY <1>0, <4>2
    <3> QED
      BY <3>1, <3>2
  <2>10. ASSUME NEW j \in Key PROVE RedisKnows(j)' /\ RedisLimited(j)' /\ KeyOutlasts(j)'
    <3>1. CASE j = k
      BY <2>7, <2>8, <2>9, <3>1
    <3>2. CASE j # k
      <4>1. /\ admitted'["redis"][j] = admitted["redis"][j] /\ zset'[j] = zset[j]
            /\ expires'[j] = expires[j]
        BY <2>1, <2>3, <3>2 DEF LimiterParts, StoresTyped
      <4>2. RedisKnows(j) /\ RedisLimited(j) /\ KeyOutlasts(j)
        BY DEF LimiterParts, RedisInv
      <4> QED
        BY <1>6, <4>1, <4>2 DEF RedisKnows, KnownSince, RedisLimited, KeyOutlasts, Limiter!Standing
    <3> QED
      BY <3>1, <3>2
  <2> QED
    BY <2>4, <2>5, <2>6, <2>10 DEF RedisInv
<1> QED
  BY <1>10, <1>11
\* A worker falls back on its memory, or sends, or takes an answer.
LEMMA LimiterMoves ==
  ASSUME LimiterParts, NEW r \in Asker,
         \/ \E k \in Key : Limiter!AskLocally(r, k) \/ Limiter!Send(r, k)
         \/ Limiter!Fail(r) \/ Limiter!Return(r)
  PROVE  LimiterParts'
<1>0. /\ AskedAt[r] \in Process /\ clock \in Limiter!Time /\ clock \in Nat /\ MaxDelay \in Nat
      /\ LimiterRetry \in Nat /\ Limiter!Time \subseteq Nat
      /\ well \in [Process -> BOOLEAN] /\ retryAt \in [Process -> Nat]
  BY LimiterAssumption, TimeIs DEF Limiter!Settings, LimiterParts, AsksInv
<1>1. PICK a \in Limiter!Asking : a = asking[r]
  BY DEF LimiterParts, AsksInv
<1>2. a.pc # "idle" => a.key \in Key /\ a.stamp \in Limiter!Time /\ a.stamp <= clock
  BY <1>1, AskIs DEF LimiterParts, AsksInv, Limiter!AskedInTime
<1>3. CASE \E k \in Key : Limiter!AskLocally(r, k)
  <2>1. PICK k \in Key : Limiter!AskLocally(r, k)
    BY <1>3
  <2>2. /\ clock' = clock /\ zset' = zset /\ expires' = expires /\ well' = well
        /\ retryAt' = retryAt /\ asking' = asking
        /\ Limiter!AskMemory(AskedAt[r], k) \/ Limiter!FallBack(AskedAt[r], k)
    BY <2>1 DEF Limiter!AskLocally
  <2>3. StoresTyped' /\ Limiter!NoneAhead' /\ MemoriesInv' /\ RedisInv'
    BY <1>0, <2>2, MemoryAsked, FellBack
  <2>4. AsksInv'
    BY <2>2 DEF LimiterParts, AsksInv, Limiter!AskedInTime
  <2> QED
    BY <2>3, <2>4 DEF LimiterParts
<1>4. CASE \E k \in Key : Limiter!Send(r, k)
  <2>1. PICK k \in Key : Limiter!Send(r, k)
    BY <1>4
  <2>2. PICK b : b = [pc |-> "sent", key |-> k, stamp |-> clock]
    OBVIOUS
  <2>3. b \in Limiter!Asking /\ b.stamp = clock
    BY <1>0, <2>2, SentIs
  <2>4. /\ clock' = clock /\ zset' = zset /\ expires' = expires /\ well' = well
        /\ retryAt' = retryAt /\ hits' = hits /\ admitted' = admitted
        /\ asking' = [asking EXCEPT ![r] = b]
    BY <2>1, <2>2 DEF Limiter!Send
  <2>5. b.stamp <= clock /\ clock <= b.stamp + MaxDelay
    BY <1>0, <2>3
  <2>6. AsksInv'
    BY <1>0, <2>3, <2>4, <2>5, AsksKept DEF LimiterParts
  <2> QED
    BY <2>4, <2>6, StoresQuiet DEF LimiterParts
<1>5. CASE Limiter!Fail(r)
  <2>1. /\ clock' = clock /\ zset' = zset /\ expires' = expires /\ well' = well
        /\ retryAt' = retryAt /\ hits' = hits /\ admitted' = admitted
        /\ asking' = [asking EXCEPT ![r].pc = "failed"] /\ a.pc \in {"sent", "answered"}
    BY <1>1, <1>5 DEF Limiter!Fail
  <2>2. PICK b : b = [a EXCEPT !.pc = "failed"]
    OBVIOUS
  <2>3. a.pc # "idle" /\ asking' = [asking EXCEPT ![r] = b]
    BY <1>1, <2>1, <2>2
  <2>4. b \in Limiter!Asking /\ b.pc = "failed" /\ b.stamp = a.stamp
    BY <2>2, <2>3, AskIs
  <2>5. b.stamp <= clock
    BY <1>2, <2>3, <2>4
  <2>6. AsksInv'
    BY <1>0, <2>1, <2>3, <2>4, <2>5, AsksKept DEF LimiterParts
  <2> QED
    BY <2>1, <2>6, StoresQuiet DEF LimiterParts
<1>6. CASE Limiter!Return(r)
  <2>1. /\ clock' = clock /\ zset' = zset /\ expires' = expires
        /\ well' = [well EXCEPT ![AskedAt[r]] = a.pc = "answered"]
        /\ asking' = [asking EXCEPT ![r] = Limiter!Idle] /\ a.pc \in {"answered", "failed"}
        /\ \/ retryAt' = retryAt /\ hits' = hits /\ admitted' = admitted
           \/ /\ retryAt' = [retryAt EXCEPT ![AskedAt[r]] = a.stamp + LimiterRetry]
              /\ Limiter!FallBack(AskedAt[r], a.key)
    BY <1>1, <1>6 DEF Limiter!Return
  <2>2. a.key \in Key /\ a.stamp + LimiterRetry \in Nat
    <3>1. a.key \in Key /\ a.stamp \in Limiter!Time
      BY <1>2, <2>1
    <3>2. a.stamp \in Nat
      BY <1>0, <3>1
    <3> QED
      BY <1>0, <3>1, <3>2
  <2>3. StoresTyped' /\ Limiter!NoneAhead' /\ MemoriesInv' /\ RedisInv'
    BY <1>0, <2>1, <2>2, StoresQuiet, FellBack
  <2>4. well' \in [Process -> BOOLEAN] /\ retryAt' \in [Process -> Nat]
    <3>1. (a.pc = "answered") \in BOOLEAN
      OBVIOUS
    <3>2. well' \in [Process -> BOOLEAN]
      BY <1>0, <2>1, <3>1
    <3>3. retryAt' \in [Process -> Nat]
      BY <1>0, <2>1, <2>2
    <3> QED
      BY <3>2, <3>3
  <2>5. Limiter!Idle \in Limiter!Asking /\ Limiter!Idle.pc = "idle"
    BY DEF Limiter!Idle, Limiter!Asking
  <2>6. AsksInv'
    BY <2>1, <2>4, <2>5, AsksKept DEF LimiterParts
  <2> QED
    BY <2>3, <2>6 DEF LimiterParts
<1> QED
  BY <1>3, <1>4, <1>5, <1>6

LEMMA LimiterServes == ASSUME LimiterParts, NEW r \in Asker, Limiter!Serve(r) PROVE LimiterParts'
<1>1. PICK a \in Limiter!Asking : a = asking[r]
  BY DEF LimiterParts, AsksInv
<1>2. /\ clock' = clock /\ well' = well /\ retryAt' = retryAt
      /\ asking' = [asking EXCEPT ![r].pc = "answered"] /\ a.pc = "sent"
  BY <1>1 DEF Limiter!Serve
<1>3. PICK b : b = [a EXCEPT !.pc = "answered"]
  OBVIOUS
<1>4. a.pc # "idle" /\ asking' = [asking EXCEPT ![r] = b]
  BY <1>1, <1>2, <1>3
<1>5. b \in Limiter!Asking /\ b.pc = "answered" /\ b.stamp = a.stamp
  BY <1>3, <1>4, AskIs
<1>6. b.stamp <= clock
  BY <1>1, <1>4, <1>5 DEF LimiterParts, AsksInv, Limiter!AskedInTime
<1>7. well' \in [Process -> BOOLEAN] /\ retryAt' \in [Process -> Nat]
  BY <1>2 DEF LimiterParts, AsksInv
<1>8. AsksInv'
  BY <1>2, <1>4, <1>5, <1>6, <1>7, AsksKept DEF LimiterParts
<1> QED
  BY <1>8, RedisServes DEF LimiterParts

LEMMA LimiterRests == LimiterParts /\ UNCHANGED limiterVars => LimiterParts'
<1> SUFFICES ASSUME LimiterParts, UNCHANGED limiterVars PROVE LimiterParts'
  OBVIOUS
<1>1. /\ clock' = clock /\ zset' = zset /\ expires' = expires /\ hits' = hits /\ well' = well
      /\ retryAt' = retryAt /\ asking' = asking /\ admitted' = admitted
  BY DEF limiterVars
<1>2. AsksInv'
  BY <1>1 DEF LimiterParts, AsksInv, Limiter!AskedInTime
<1> QED
  BY <1>1, <1>2, StoresQuiet DEF LimiterParts

LEMMA LimiterKept == LimiterParts /\ Limiter!Next => LimiterParts'
  BY ClockMoves, LimiterMoves, LimiterServes DEF Limiter!Next

\* The parts of the limiter's invariant are one inductive invariant: the types, the
\* times of the requests under way, what each store still knows of what it let
\* through, and the limits.
THEOREM SpecLimiterInv == ServiceSpec => []LimiterInv
<1>1. ServiceInit => LimiterParts
  BY LimiterStarts DEF ServiceInit
<1>2. LimiterParts /\ [ServiceNext]_<<blacklistVars, limiterVars>> => LimiterParts'
  BY LimiterKept, LimiterRests DEF ServiceNext
<1>3. ServiceSpec => []LimiterParts
  BY <1>1, <1>2, PTL DEF ServiceSpec
<1> QED
  BY <1>3, LimiterInvIs, PTL

\* No memory lets more than the limit through in any period, nor Redis in any
\* stretch as long as the period less the longest delay of a call, through
\* outages, lost answers and calls that overtake one another.
THEOREM SpecWindowsRespected == ServiceSpec => []WindowsRespected
<1>1. LimiterInv => WindowsRespected
  BY DEF LimiterInv, Limiter!IInv, WindowsRespected
<1> QED
  BY <1>1, SpecLimiterInv, PTL
=============================================================================

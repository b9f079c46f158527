--------------------------- MODULE TokenBlacklist ---------------------------
(***************************************************************************)
(* The blacklist of access tokens, app/core/security_blacklist.py, as       *)
(* blacklist_access_token and is_access_revoked of                          *)
(* app/services/auth/auth_service.py use it.                                *)
(*                                                                          *)
(* Every worker process keeps its own memory; Redis, if there is one, is    *)
(* shared.  A call that goes to Redis is suspended until the answer or the  *)
(* error arrives, and other calls of the same worker run meanwhile.  Time   *)
(* runs in ticks, Second ticks to a second: tokens expire at whole seconds, *)
(* time to live is counted in whole seconds, and calls come at any tick.    *)
(***************************************************************************)
EXTENDS Integers, Sequences, SequencesExt

CONSTANTS
    Worker,   \* processes
    Call,     \* calls that may be open at the same time
    Home,     \* Home[c]: the worker that call c runs in
    Token,    \* access tokens, by jti
    None,
    HasRedis, \* REDIS_URL is configured
    Fallback, \* TOKEN_BLACKLIST_FALLBACK
    Capacity, \* _MEMORY_BLACKLIST_MAX_ENTRIES
    Second,   \* ticks of a second
    Retry,    \* RATE_LIMIT_REDIS_RETRY_INTERVAL, in ticks
    MaxTime   \* bound on the clock

Settings ==
    /\ Home \in [Call -> Worker]
    /\ None \notin Token \cup Worker
    /\ HasRedis \in BOOLEAN
    /\ Fallback \in {"memory", "open", "closed"}
    /\ Capacity \in Nat \ {0} /\ Second \in Nat \ {0}
    /\ Retry \in Nat /\ MaxTime \in Nat

VARIABLES
    now,       \* the clock
    exp,       \* exp claim of each token, in ticks
    redisUp,   \* Redis answers
    redis,     \* until when Redis holds the key of a token
    mem,       \* each worker's _store, in insertion order
    healthy,   \* _healthy of each worker
    nextRetry, \* _next_retry of each worker
    call,      \* the open calls
    told       \* history: until when a worker has promised to refuse a token

vars == <<now, exp, redisUp, redis, mem, healthy, nextRetry, call, told>>

Entry == [tok: Token, till: Nat]

CallRec == [pc: {"idle", "sent", "answered", "failed"}, op: {"none", "add", "contains"},
            tok: Token \cup {None}, ttl: Nat, hit: BOOLEAN]

IdleCall == [pc |-> "idle", op |-> "none", tok |-> None, ttl |-> 0, hit |-> FALSE]

Init ==
    /\ now = 0
    /\ exp \in [Token -> {k * Second : k \in 1..(MaxTime \div Second)}]
    /\ redisUp = HasRedis
    /\ redis = [t \in Token |-> 0]
    /\ mem = [w \in Worker |-> << >>]
    /\ healthy = [w \in Worker |-> HasRedis]
    /\ nextRetry = [w \in Worker |-> 0]
    /\ call = [c \in Call |-> IdleCall]
    /\ told = [w \in Worker |-> [t \in Token |-> 0]]

-----------------------------------------------------------------------------
(* _MemoryBlacklist *)

Held(w, t) == \E i \in 1..Len(mem[w]) : mem[w][i].tok = t

\* What remains of s when only the elements of S stay: SelectSeq with a set.
Only(s, S) ==
    LET kept[i \in 0..Len(s)] ==
          IF i = 0 THEN << >>
          ELSE IF s[i] \in S THEN Append(kept[i - 1], s[i]) ELSE kept[i - 1]
    IN kept[Len(s)]

\* The entries of s that have not expired.
Alive(s) == {e \in Range(s) : now < e.till}

\* contains: an entry that has expired counts as absent.
MemContains(w, t) ==
    \E i \in 1..Len(mem[w]) : mem[w][i].tok = t /\ now < mem[w][i].till

\* Mistake: the oldest entries go first, expired or not.
EvictedOldest(s) == SubSeq(s, 1 + (IF Capacity >= 20 THEN Capacity \div 10 ELSE 1), Len(s))

\* _evict_to_make_room: the expired entries, and if none was, the oldest ones.
Evicted(s) ==
    LET alive == Only(s, Alive(s))
        count == IF Capacity >= 20 THEN Capacity \div 10 ELSE 1
    IN IF Len(alive) < Capacity THEN alive ELSE SubSeq(alive, 1 + count, Len(alive))

\* add: a key that is there keeps its place.
MemAdded(w, t, ttl) ==
    LET e == [tok |-> t, till |-> now + ttl * Second]
        s == mem[w]
    IN IF Held(w, t) THEN [i \in DOMAIN s |-> IF s[i].tok = t THEN e ELSE s[i]]
       ELSE Append(IF Len(s) >= Capacity THEN Evicted(s) ELSE s, e)

\* lazy removal of the entry that was looked up.
MemLooked(w, t) == Only(mem[w], {e \in Range(mem[w]) : e.tok # t} \cup Alive(mem[w]))

-----------------------------------------------------------------------------
(* TokenBlacklist *)

\* The worker does not ask Redis.
Local(w) == ~HasRedis \/ (~healthy[w] /\ now < nextRetry[w])

Idle(c) == call[c].pc = "idle"

\* blacklist_access_token: the remaining life of a valid token, rounded down
\* to whole seconds.
Remaining(t) == (exp[t] - now) \div Second

\* The last call decides: a second logout computes a new time to live.
Promised(w, t, till) == told' = [told EXCEPT ![w][t] = till]

\* An access token that verify_token accepts is revoked.
AddLocally(c, t) ==
    LET w == Home[c] IN
      /\ Idle(c) /\ now < exp[t] /\ Remaining(t) > 0 /\ Local(w)
      /\ mem' = [mem EXCEPT ![w] = MemAdded(w, t, Remaining(t))]
      /\ Promised(w, t, now + Remaining(t) * Second)
      /\ UNCHANGED <<now, exp, redisUp, redis, healthy, nextRetry, call>>

AddSend(c, t) ==
    /\ Idle(c) /\ now < exp[t] /\ Remaining(t) > 0 /\ ~Local(Home[c])
    /\ call' = [call EXCEPT ![c] = [IdleCall EXCEPT !.pc = "sent", !.op = "add", !.tok = t,
                                                    !.ttl = Remaining(t)]]
    /\ UNCHANGED <<now, exp, redisUp, redis, mem, healthy, nextRetry, told>>

\* setex or exists reaches Redis.
RedisServes(c) ==
    /\ call[c].pc = "sent" /\ redisUp
    /\ redis' = IF call[c].op = "add"
                  THEN [redis EXCEPT ![call[c].tok] = now + call[c].ttl * Second] ELSE redis
    /\ call' = [call EXCEPT ![c].pc = "answered",
                            ![c].hit = call[c].op = "contains" /\ now < redis[call[c].tok]]
    /\ UNCHANGED <<now, exp, redisUp, mem, healthy, nextRetry, told>>

\* An error, a timeout, or an answer that is lost on its way.
RedisFails(c) ==
    /\ call[c].pc \in {"sent", "answered"}
    /\ call' = [call EXCEPT ![c].pc = "failed", ![c].hit = FALSE]
    /\ UNCHANGED <<now, exp, redisUp, redis, mem, healthy, nextRetry, told>>

\* _mark_healthy and _mark_unhealthy
Marked(c) ==
    LET w == Home[c] IN
      /\ healthy' = [healthy EXCEPT ![w] = call[c].pc = "answered"]
      /\ nextRetry' = IF call[c].pc = "failed" THEN [nextRetry EXCEPT ![w] = now + Retry]
                      ELSE nextRetry

\* Both outcomes of setex write the memory too.
AddReturns(c) ==
    LET w == Home[c] IN
      /\ call[c].pc \in {"answered", "failed"} /\ call[c].op = "add"
      /\ Marked(c)
      /\ mem' = [mem EXCEPT ![w] = MemAdded(w, call[c].tok, call[c].ttl)]
      /\ Promised(w, call[c].tok, now + call[c].ttl * Second)
      /\ call' = [call EXCEPT ![c] = IdleCall]
      /\ UNCHANGED <<now, exp, redisUp, redis>>

\* _fallback_contains
FallbackContains(w, t) == Fallback = "closed" \/ (Fallback = "memory" /\ MemContains(w, t))

\* Redis answered; unless the operator chose "open" the memory covers what
\* was added while Redis was away.
RedisContains(c) == call[c].hit \/ (Fallback # "open" /\ MemContains(Home[c], call[c].tok))

\* What contains returns once Redis has answered or failed.
SaysRevoked(c) == IF call[c].pc = "answered" THEN RedisContains(c)
                  ELSE FallbackContains(Home[c], call[c].tok)

ContainsLocally(c, t) ==
    LET w == Home[c] IN
      /\ Idle(c) /\ now < exp[t] /\ Local(w)
      /\ mem' = [mem EXCEPT ![w] = IF Fallback = "memory" THEN MemLooked(w, t) ELSE @]
      /\ UNCHANGED <<now, exp, redisUp, redis, healthy, nextRetry, call, told>>

ContainsSend(c, t) ==
    /\ Idle(c) /\ now < exp[t] /\ ~Local(Home[c])
    /\ call' = [call EXCEPT ![c] = [IdleCall EXCEPT !.pc = "sent", !.op = "contains",
                                                    !.tok = t]]
    /\ UNCHANGED <<now, exp, redisUp, redis, mem, healthy, nextRetry, told>>

ContainsReturns(c) ==
    LET w == Home[c]
        looked == IF call[c].pc = "answered" THEN ~call[c].hit /\ Fallback # "open"
                  ELSE Fallback = "memory"
    IN /\ call[c].pc \in {"answered", "failed"} /\ call[c].op = "contains"
       /\ Marked(c)
       /\ mem' = [mem EXCEPT ![w] = IF looked THEN MemLooked(w, call[c].tok) ELSE @]
       /\ call' = [call EXCEPT ![c] = IdleCall]
       /\ UNCHANGED <<now, exp, redisUp, redis, told>>

\* The next step of c lets token t pass: contains, asked now or under way,
\* says that t is not revoked.
Passes(c, t) ==
    \/ Idle(c) /\ now < exp[t] /\ Local(Home[c]) /\ ~FallbackContains(Home[c], t)
    \/ /\ call[c].pc \in {"answered", "failed"} /\ call[c].op = "contains"
       /\ call[c].tok = t /\ ~SaysRevoked(c)

-----------------------------------------------------------------------------

Tick ==
    /\ now < MaxTime
    /\ now' = now + 1
    /\ UNCHANGED <<exp, redisUp, redis, mem, healthy, nextRetry, call, told>>

\* Redis goes down and comes back with its data.
Outage ==
    /\ HasRedis /\ redisUp' = ~redisUp
    /\ UNCHANGED <<now, exp, redis, mem, healthy, nextRetry, call, told>>

\* A worker starts over with an empty memory.
Restart(w) ==
    /\ mem' = [mem EXCEPT ![w] = << >>]
    /\ healthy' = [healthy EXCEPT ![w] = HasRedis]
    /\ nextRetry' = [nextRetry EXCEPT ![w] = 0]
    /\ call' = [c \in Call |-> IF Home[c] = w THEN IdleCall ELSE call[c]]
    /\ told' = [told EXCEPT ![w] = [t \in Token |-> 0]]
    /\ UNCHANGED <<now, exp, redisUp, redis>>

Next ==
    \/ Tick \/ Outage
    \/ \E w \in Worker : Restart(w)
    \/ \E c \in Call :
         \/ \E t \in Token : AddLocally(c, t) \/ AddSend(c, t)
                               \/ ContainsLocally(c, t) \/ ContainsSend(c, t)
         \/ RedisServes(c) \/ RedisFails(c) \/ AddReturns(c) \/ ContainsReturns(c)

Spec == Init /\ [][Next]_vars

-----------------------------------------------------------------------------
(* Properties. *)

\* The stores have their shapes, no store holds a token twice or outgrows its
\* capacity, and only a worker with Redis has calls to it.
TypeOK ==
    /\ now \in 0..MaxTime
    /\ exp \in [Token -> Nat]
    /\ redisUp \in BOOLEAN
    /\ redis \in [Token -> Nat]
    /\ mem \in [Worker -> Seq(Entry)]
    /\ \A w \in Worker :
         /\ Len(mem[w]) <= Capacity
         /\ \A i, j \in 1..Len(mem[w]) : mem[w][i].tok = mem[w][j].tok => i = j
    /\ healthy \in [Worker -> BOOLEAN]
    /\ nextRetry \in [Worker -> Nat]
    /\ call \in [Call -> CallRec]
    /\ told \in [Worker -> [Token -> Nat]]

\* A worker that has revoked a token refuses it as long as it said it would,
\* through outages and recoveries of Redis and calls in flight meanwhile, if
\* its memory has room for all it promises.
OwnRevocationsHold ==
    \A c \in Call, t \in Token : Passes(c, t) => told[Home[c]][t] <= now

\* An entry ends when the worker said that its token will be refused no more.
EntriesAsTold ==
    \A w \in Worker : \A i \in 1..Len(mem[w]) : mem[w][i].till = told[w][mem[w][i].tok]

\* Only a token with a life left is on its way into the blacklist.
AddsLast ==
    \A c \in Call : call[c].pc # "idle" =>
      call[c].tok \in Token /\ (call[c].op = "add" => call[c].ttl > 0)

\* Every promise that stands has its entry.
PromisesHeld == \A w \in Worker, t \in Token : now < told[w][t] => Held(w, t)

\* What the dependency says of logout: the token is refused from then on as
\* long as it has not expired.
LoggedOutIsRefused ==
    \A c \in Call, t \in Token :
        Passes(c, t) /\ told[Home[c]][t] # 0 => now >= exp[t]
=============================================================================

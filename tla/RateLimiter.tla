----------------------------- MODULE RateLimiter -----------------------------
(***************************************************************************)
(* Rate limits: app/core/rate_limit/ and app/middleware/rate_limit.py.      *)
(*                                                                          *)
(* Every request asks the limiter of its worker, which asks Redis or, in    *)
(* the cool-down after a failure, the worker's own memory.  Both keep a     *)
(* log of the requests they let through in the last period.  A request      *)
(* carries the worker's clock to Redis and may arrive after younger ones.   *)
(***************************************************************************)
EXTENDS Integers, FiniteSetsExt

CONSTANTS
    Worker,    \* processes
    Key,       \* clients or accounts in a limit's name space
    Request,   \* slots for requests under way
    Place,     \* Place[r]: the worker request r runs in
    HasRedis,  \* REDIS_URL is configured
    Fallback,  \* RATE_LIMIT_FALLBACK
    Calls,     \* the limit
    Period,    \* ... in so many ticks
    Retry,     \* RATE_LIMIT_REDIS_RETRY_INTERVAL
    MaxDelay,  \* REDIS_SOCKET_TIMEOUT: the longest a call is on its way
    MaxTime    \* bound on the clock

Settings ==
    /\ "redis" \notin Worker
    /\ Place \in [Request -> Worker]
    /\ HasRedis \in BOOLEAN
    /\ Fallback \in {"memory", "open"}
    /\ Calls \in Nat /\ Period \in Nat /\ Retry \in Nat
    /\ MaxDelay \in Nat /\ MaxTime \in Nat

VARIABLES
    clock,     \* the clock of all processes
    zset,      \* Redis: how many members of each key have a score
    expires,   \* Redis: when a key expires
    hits,      \* each worker's _hits: how many entries of each key have a time
    well,      \* _healthy of each worker
    retryAt,   \* _next_retry of each worker
    asking,    \* the requests under way
    admitted   \* history: how many requests each store let through, and when

vars == <<clock, zset, expires, hits, well, retryAt, asking, admitted>>

Time == 0..MaxTime
NoRequests == [t \in Time |-> 0]
Store == Worker \cup {"redis"}

Asking == [pc: {"idle"}] \cup
          [pc: {"sent", "answered", "failed"}, key: Key, stamp: Time]

Idle == [pc |-> "idle"]

Init ==
    /\ clock = 0
    /\ zset = [k \in Key |-> NoRequests]
    /\ expires = [k \in Key |-> 0]
    /\ hits = [w \in Worker |-> [k \in Key |-> NoRequests]]
    /\ well = [w \in Worker |-> HasRedis]
    /\ retryAt = [w \in Worker |-> 0]
    /\ asking = [r \in Request |-> Idle]
    /\ admitted = [s \in Store |-> [k \in Key |-> NoRequests]]

-----------------------------------------------------------------------------
(* The sliding window *)

Sum(log, S) == MapThenSumSet(LAMBDA t : log[t], S)

Total(log) == Sum(log, Time)

Full(log) == Total(log) >= Calls

\* Mistake: entries leave the window one tick early.
TrimmedEarly(log, at) == [t \in Time |-> IF t > at - Period + 1 THEN log[t] ELSE 0]

\* What is older than the period goes.
Trimmed(log, at) == [t \in Time |-> IF t > at - Period THEN log[t] ELSE 0]

Noted(log, at) == [log EXCEPT ![at] = @ + 1]

Lets(s, k) == admitted' = [admitted EXCEPT ![s][k][clock] = @ + 1]

\* InMemoryBackend.is_allowed.  _purge_expired_keys removes keys that hold
\* nothing of the last period, which is as if they were empty.
AskMemory(w, k) ==
    LET log == Trimmed(hits[w][k], clock) IN
      IF Full(log)
        THEN hits' = [hits EXCEPT ![w][k] = log] /\ admitted' = admitted
        ELSE hits' = [hits EXCEPT ![w][k] = Noted(log, clock)] /\ Lets(w, k)

\* _fallback_check
FallBack(w, k) ==
    IF Fallback = "memory" THEN AskMemory(w, k) ELSE UNCHANGED <<hits, admitted>>

-----------------------------------------------------------------------------
(* DegradableRateLimiter.is_allowed *)

CoolingDown(w) == ~well[w] /\ clock < retryAt[w]

AskLocally(r, k) ==
    LET w == Place[r] IN
      /\ asking[r].pc = "idle"
      /\ \/ ~HasRedis /\ AskMemory(w, k)
         \/ HasRedis /\ CoolingDown(w) /\ FallBack(w, k)
      /\ UNCHANGED <<clock, zset, expires, well, retryAt, asking>>

Send(r, k) ==
    /\ asking[r].pc = "idle" /\ HasRedis /\ ~CoolingDown(Place[r])
    /\ asking' = [asking EXCEPT ![r] = [pc |-> "sent", key |-> k, stamp |-> clock]]
    /\ UNCHANGED <<clock, zset, expires, hits, well, retryAt, admitted>>

\* What Redis holds of a key that has not expired.
Standing(k) == IF clock < expires[k] THEN zset[k] ELSE NoRequests

\* _SLIDING_WINDOW_LUA, with the time the request set out.
Serve(r) ==
    /\ asking[r].pc = "sent"
    /\ LET k == asking[r].key
           at == asking[r].stamp
           log == Trimmed(Standing(k), at)
       IN IF Full(log)
            THEN zset' = [zset EXCEPT ![k] = log] /\ UNCHANGED <<expires, admitted>>
            ELSE /\ zset' = [zset EXCEPT ![k] = Noted(log, at)]
                 /\ expires' = [expires EXCEPT ![k] = clock + Period + 1]
                 /\ Lets("redis", k)
    /\ asking' = [asking EXCEPT ![r].pc = "answered"]
    /\ UNCHANGED <<clock, hits, well, retryAt>>

\* Redis is away, or a timeout, also of an answer that is on its way.
Fail(r) ==
    /\ asking[r].pc \in {"sent", "answered"}
    /\ asking' = [asking EXCEPT ![r].pc = "failed"]
    /\ UNCHANGED <<clock, zset, expires, hits, well, retryAt, admitted>>

\* The answer ends the cool-down; an error begins one, counted from the time
\* the request set out, and the memory decides.
Return(r) ==
    LET w == Place[r] IN
      /\ asking[r].pc \in {"answered", "failed"}
      /\ well' = [well EXCEPT ![w] = asking[r].pc = "answered"]
      /\ IF asking[r].pc = "failed"
           THEN /\ retryAt' = [retryAt EXCEPT ![w] = asking[r].stamp + Retry]
                /\ FallBack(w, asking[r].key)
           ELSE UNCHANGED <<retryAt, hits, admitted>>
      /\ asking' = [asking EXCEPT ![r] = Idle]
      /\ UNCHANGED <<clock, zset, expires>>

-----------------------------------------------------------------------------

Tick ==
    /\ clock < MaxTime
    /\ \A r \in Request : asking[r].pc = "sent" => clock < asking[r].stamp + MaxDelay
    /\ clock' = clock + 1
    /\ UNCHANGED <<zset, expires, hits, well, retryAt, asking, admitted>>

Next ==
    \/ Tick
    \/ \E r \in Request :
         \/ \E k \in Key : AskLocally(r, k) \/ Send(r, k)
         \/ Serve(r) \/ Fail(r) \/ Return(r)

Spec == Init /\ [][Next]_vars

-----------------------------------------------------------------------------
(* Properties *)

TypeOK ==
    /\ clock \in Time
    /\ zset \in [Key -> [Time -> Nat]]
    /\ expires \in [Key -> Nat]
    /\ hits \in [Worker -> [Key -> [Time -> Nat]]]
    /\ well \in [Worker -> BOOLEAN]
    /\ retryAt \in [Worker -> Nat]
    /\ asking \in [Request -> Asking]
    /\ admitted \in [Store -> [Key -> [Time -> Nat]]]

InWindow(log, t, length) == Sum(log, {u \in Time : t - length < u /\ u <= t})

\* No memory lets more than the limit through in any period up to now.  Redis trims its
\* log by the clocks of requests that overtake one another, and still lets no
\* more through in any stretch as long as the period less the longest delay:
\* with every worker falling back, a client gets at most (1 + workers) * Calls.
WindowsRespected ==
    \A k \in Key, t \in 0..clock :
      /\ \A w \in Worker : InWindow(admitted[w][k], t, Period) <= Calls
      /\ InWindow(admitted["redis"][k], t, Period - MaxDelay) <= Calls

\* What the module says of both backends, without the delay.
FullWindowsRespected ==
    \A k \in Key, t \in 0..clock, s \in Store : InWindow(admitted[s][k], t, Period) <= Calls

\* A request was sent at a time that has come, and is not served later than the
\* longest delay.
AskedInTime ==
    \A r \in Request :
      /\ asking[r].pc # "idle" => asking[r].stamp <= clock
      /\ asking[r].pc = "sent" => clock <= asking[r].stamp + MaxDelay

NoneAhead == \A s \in Store, k \in Key, t \in Time : t > clock => admitted[s][k][t] = 0

\* A memory still knows all it let through in the last period.
MemoryLogs ==
    \A w \in Worker, k \in Key, t \in Time :
      t > clock - Period => hits[w][k][t] = admitted[w][k][t]

\* A key of Redis outlasts the period of whatever was let through.
KeyLasts ==
    \A k \in Key, t \in Time : admitted["redis"][k][t] > 0 => t + Period < expires[k]

\* Redis still knows all it let through in the period less the longest delay:
\* what it let through after t was sent not earlier than MaxDelay before.
RedisLogs ==
    \A k \in Key : \A t \in (0 - Period)..MaxTime : clock - Period <= t - MaxDelay =>
      Sum(admitted["redis"][k], {u \in Time : t < u})
        <= Sum(Standing(k), {u \in Time : t - MaxDelay < u})

IInv ==
    /\ TypeOK /\ AskedInTime /\ NoneAhead /\ MemoryLogs /\ KeyLasts /\ RedisLogs
    /\ WindowsRespected
=============================================================================

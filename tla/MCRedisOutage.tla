---------------------------- MODULE MCRedisOutage ----------------------------
(***************************************************************************)
(* What works on without Redis: the blacklist of access tokens              *)
(* (TokenBlacklist) and the rate limiter (RateLimiter) of the same worker   *)
(* processes, and small instances of the two for TLC, one in some           *)
(* behaviours and the other in the others.                                  *)
(***************************************************************************)
EXTENDS Integers, FiniteSets, TLC

CONSTANTS
    Process,           \* the worker processes of both
    HasRedis,          \* REDIS_URL is configured
    \* the blacklist: see TokenBlacklist
    Call, Home, Token, NoToken, BlacklistFallback, Capacity, Second, BlacklistRetry, BlacklistTime,
    \* the limiter: see RateLimiter
    Key, Asker, AskedAt, LimiterFallback, Limit, Period, LimiterRetry, MaxDelay, LimiterTime,
    \* TLC: the one process of the small instances and what moves in them
    w1, Scenes

VARIABLES
    now, exp, redisUp, redis, mem, healthy, nextRetry, open, told,
    crowded, \* history: a worker has promised to refuse more tokens at a time
             \* than its memory holds
    clock, zset, expires, hits, well, retryAt, asking, admitted,
    scene

Blacklist == INSTANCE TokenBlacklist
             WITH Worker <- Process, None <- NoToken, Fallback <- BlacklistFallback,
                  Retry <- BlacklistRetry, MaxTime <- BlacklistTime, call <- open
Limiter == INSTANCE RateLimiter
           WITH Worker <- Process, Request <- Asker, Place <- AskedAt,
                Fallback <- LimiterFallback, Calls <- Limit, Retry <- LimiterRetry,
                MaxTime <- LimiterTime

ASSUME BlacklistAssumption == Blacklist!Settings
ASSUME LimiterAssumption == Limiter!Settings

blacklistVars == <<now, exp, redisUp, redis, mem, healthy, nextRetry, open, told, crowded>>
limiterVars == <<clock, zset, expires, hits, well, retryAt, asking, admitted>>


BlacklistStep ==
    /\ Blacklist!Next
    /\ crowded' = (crowded \/ \E w \in Process :
                     Cardinality({t \in Token : now < told'[w][t]}) > Capacity)

ServiceInit == Blacklist!Init /\ crowded = FALSE /\ Limiter!Init

ServiceNext ==
    \/ BlacklistStep /\ UNCHANGED limiterVars
    \/ Limiter!Next /\ UNCHANGED blacklistVars

ServiceSpec == ServiceInit /\ [][ServiceNext]_<<blacklistVars, limiterVars>>

BlacklistInv ==
    /\ Blacklist!TypeOK /\ Blacklist!EntriesAsTold /\ Blacklist!AddsLast
    /\ \A w \in Process : IsFiniteSet({t \in Token : told[w][t] # 0})
    /\ crowded \/ Blacklist!PromisesHeld

LimiterInv == Limiter!IInv

-----------------------------------------------------------------------------
(* Small instances: in the blacklist one token expires first and the others *)
(* together, so that the memory holds expired and live entries at once.     *)

MCHome == [c \in Call |-> w1]
MCAskedAt == [r \in Asker |-> w1]

OutageInit ==
    /\ scene \in Scenes /\ ServiceInit
    /\ IF scene = "blacklist" THEN Cardinality({t \in Token : exp[t] = Second}) = 1
       ELSE \A t \in Token : exp[t] = Second

OutageNext ==
    /\ scene' = scene
    /\ \/ scene = "blacklist" /\ BlacklistStep /\ UNCHANGED limiterVars
       \/ scene = "limiter" /\ Limiter!Next /\ UNCHANGED blacklistVars

OutageSpec == OutageInit /\ [][OutageNext]_<<blacklistVars, limiterVars, scene>>

Symmetry == Permutations(Token) \cup Permutations(Call)

-----------------------------------------------------------------------------
(* Properties. *)

\* A worker that has revoked a token refuses it as long as it said it would,
\* through outages and recoveries of Redis and calls in flight meanwhile,
\* unless its memory was too small for what it promised or the operator lets
\* every token pass during an outage (TOKEN_BLACKLIST_FALLBACK "open").
OwnRevocationsHoldWithRoom ==
    ~crowded /\ BlacklistFallback # "open" => Blacklist!OwnRevocationsHold

\* No store of the rate limiter lets more than the limit through in any stretch as
\* long as the period, for Redis less the longest delay of a call, through
\* outages, lost answers and calls that overtake one another.
WindowsRespected == Limiter!WindowsRespected

\* What the dependency says of logout: the token is refused from then on as
\* long as it has not expired.
LoggedOutIsRefused == Blacklist!LoggedOutIsRefused

\* The same as WindowsRespected for Redis and the whole period, which backends.py
\* promises.
FullWindowsRespected == Limiter!FullWindowsRespected
=============================================================================

---------------------------- MODULE RateLimiter ----------------------------
(***************************************************************************)
(* The rate limiter of internal/api/ratelimit.go: token buckets by client, *)
(* looked up under a mutex and used after it, and a cleanup goroutine that *)
(* drops the buckets of idle clients.  A bucket is a rate.Limiter of       *)
(* golang.org/x/time/rate, modelled by its level: a token is Cost units, a *)
(* tick adds Refill.  Ages stand for time stamps.                          *)
(***************************************************************************)
EXTENDS Naturals, FiniteSets

CONSTANTS
    Client,           \* remote addresses
    Request,          \* request goroutines
    Bucket,           \* the memory rate.Limiters are allocated from
    Nobody, NoBucket, \* null values
    Burst, Cost, Refill,
    IdleTimeout,      \* limiterIdleTimeout, in ticks
    CleanupInterval,  \* limiterCleanupInterval, in ticks
    MaxStall          \* bound: a goroutine is delayed this long at most: a
                      \* request between limiterFor and limiter.Allow, the
                      \* cleanup after its ticker fired

\* Validate asks for a burst and a rate of at least one.
ASSUME LimiterAssumption ==
    /\ Burst \in Nat \ {0} /\ Cost \in Nat \ {0} /\ Refill \in Nat \ {0}
    /\ CleanupInterval \in Nat \ {0}
    /\ IdleTimeout \in Nat /\ MaxStall \in Nat
    /\ MaxStall < IdleTimeout
    /\ Nobody \notin Client /\ NoBucket \notin Bucket

\* A bucket fills up while its client is idle for long enough to be dropped:
\* true of the defaults (20 tokens, 100 a minute, 10 minutes), but Validate
\* does not ask for it.
BucketFits == Burst * Cost <= Refill * (IdleTimeout - MaxStall)

VARIABLES
    limiters,   \* the map: per client its bucket, or NoBucket
    idle,       \* ticks since lastSeen
    level,      \* units in each bucket
    asked,      \* per request: the client it came from, Nobody before limiterFor
    held,       \* per request: the bucket it looked up and has not used yet
    stall,      \* ticks since it looked it up
    verdict,    \* per request: "pending", "granted" or "refused"
    ticker      \* ticks since the cleanup ticker fired for the last tick that
                \* was received; from CleanupInterval on, one is in its channel

limiterVars == <<limiters, idle, level, asked, held, stall, verdict, ticker>>

Cap == Burst * Cost

Least(a, b) == IF a <= b THEN a ELSE b

LimiterInit ==
    /\ limiters = [c \in Client |-> NoBucket]
    /\ idle = [c \in Client |-> 0]
    /\ level = [b \in Bucket |-> Cap]
    /\ asked = [r \in Request |-> Nobody]
    /\ held = [r \in Request |-> NoBucket]
    /\ stall = [r \in Request |-> 0]
    /\ verdict = [r \in Request |-> "pending"]
    /\ ticker = 0

InUse == {limiters[c] : c \in Client} \cup {held[r] : r \in Request}

----------------------------------------------------------------------------
\* Mutant: the first request of a client comes on top of the burst.
FirstLevel_OneMore == Cap + Cost

\* rate.NewLimiter(l.rate, l.burst)
FirstLevel == Cap

\* limiterFor: under the mutex the client's bucket is found, or a full one
\* is put into the map, and lastSeen is set.
LimiterFor(r, c) ==
    /\ asked[r] = Nobody
    /\ asked' = [asked EXCEPT ![r] = c]
    /\ IF limiters[c] # NoBucket
       THEN /\ held' = [held EXCEPT ![r] = limiters[c]]
            /\ UNCHANGED <<limiters, level>>
       ELSE \E b \in Bucket \ InUse :
              /\ limiters' = [limiters EXCEPT ![c] = b]
              /\ level' = [level EXCEPT ![b] = FirstLevel]
              /\ held' = [held EXCEPT ![r] = b]
    /\ idle' = [idle EXCEPT ![c] = 0]
    /\ stall' = [stall EXCEPT ![r] = 0]
    /\ UNCHANGED <<verdict, ticker>>

HasToken(b) == level[b] >= Cost

\* limiter.Allow, outside the mutex: the bucket may have been dropped from
\* the map meanwhile.  A refusal leaves the bucket as it is.
Allow(r) ==
    /\ held[r] # NoBucket
    /\ IF HasToken(held[r])
       THEN /\ verdict' = [verdict EXCEPT ![r] = "granted"]
            /\ level' = [level EXCEPT ![held[r]] = @ - Cost]
       ELSE /\ verdict' = [verdict EXCEPT ![r] = "refused"]
            /\ UNCHANGED level
    /\ held' = [held EXCEPT ![r] = NoBucket]
    /\ stall' = [stall EXCEPT ![r] = 0]
    /\ UNCHANGED <<limiters, idle, asked, ticker>>

\* Mutants: a bucket is dropped as soon as it is not in use; an idle client
\* is kept for another timeout.
Expired_Unused(c) == idle[c] >= 1
Expired_Twice(c) == idle[c] > 2 * IdleTimeout

\* lastSeen.Before(cutoff)
Expired(c) == idle[c] > IdleTimeout

\* RunCleanup receives from the ticker and calls pruneIdle, maybe late: the
\* ticker keeps its pace, and drops what finds its channel full.
PruneIdle ==
    /\ ticker >= CleanupInterval
    /\ limiters' = [c \in Client |-> IF Expired(c) THEN NoBucket ELSE limiters[c]]
    /\ idle' = [c \in Client |-> IF Expired(c) THEN 0 ELSE idle[c]]
    /\ ticker' = ticker % CleanupInterval
    /\ UNCHANGED <<level, asked, held, stall, verdict>>

\* Time passes: no goroutine is delayed for longer than MaxStall.
Tick ==
    /\ ticker < CleanupInterval + MaxStall
    /\ \A r \in Request : held[r] # NoBucket => stall[r] < MaxStall
    /\ ticker' = ticker + 1
    /\ level' = [b \in Bucket |-> Least(Cap, level[b] + Refill)]
    /\ idle' = [c \in Client |-> IF limiters[c] = NoBucket THEN 0 ELSE idle[c] + 1]
    /\ stall' = [r \in Request |-> IF held[r] = NoBucket THEN 0 ELSE stall[r] + 1]
    /\ UNCHANGED <<limiters, asked, held, verdict>>

\* Mutant: the wait is rounded down.
RetryAfter_Floor == IF Cost \div Refill < 1 THEN 1 ELSE Cost \div Refill

\* retryAfter, rounded up to whole seconds by the middleware and at least
\* one; a tick is a second here.
RetryAfter == (Cost + Refill - 1) \div Refill

LimiterNext ==
    \/ \E r \in Request : (\E c \in Client : LimiterFor(r, c)) \/ Allow(r)
    \/ PruneIdle
    \/ Tick

LimiterSpec == LimiterInit /\ [][LimiterNext]_limiterVars

----------------------------------------------------------------------------
\* Everything has its type.
LimiterTypeOK ==
    /\ limiters \in [Client -> Bucket \cup {NoBucket}]
    /\ idle \in [Client -> Nat]
    /\ level \in [Bucket -> 0..Cap]
    /\ asked \in [Request -> Client \cup {Nobody}]
    /\ held \in [Request -> Bucket \cup {NoBucket}]
    /\ stall \in [Request -> 0..MaxStall]
    /\ verdict \in [Request -> {"pending", "granted", "refused"}]
    /\ ticker \in 0..CleanupInterval + MaxStall

\* "removed, bounding memory growth" (ratelimit.go:23-24): what the map holds
\* belongs to clients seen no longer ago than the timeout, a period of the
\* cleanup and its delay.
MemoryBounded ==
    \A c \in Client : limiters[c] # NoBucket => idle[c] <= IdleTimeout + CleanupInterval + MaxStall

\* A client that was told to retry after RetryAfter and stays away for that
\* long finds a token.  The delay of the requests it had under way comes on
\* top: they spend a token up to MaxStall after the client was last seen.
RetryAfterSuffices ==
    \A c \in Client :
        limiters[c] # NoBucket /\ idle[c] >= RetryAfter + MaxStall => HasToken(limiters[c])

\* The promise: decisions are those of one bucket per client that is never
\* dropped.  A client the map does not know has a full bucket.
Ideal == INSTANCE TokenBucket WITH
    credit <- [c \in Client |-> IF limiters[c] = NoBucket THEN Cap ELSE level[limiters[c]]],
    asked <- asked,
    verdict <- verdict

\* Neither the look-up outside the decision nor the pruning grants or
\* refuses anything the ideal bucket would not.
ImplementsTokenBucket == Ideal!Spec

----------------------------------------------------------------------------
\* The inductive invariant.  A request on its way to Allow holds the bucket
\* its client has in the map: it is too fresh to have been dropped.
HeldInv ==
    \A r \in Request :
        /\ asked[r] = Nobody => verdict[r] = "pending"
        /\ held[r] # NoBucket =>
             /\ asked[r] \in Client
             /\ limiters[asked[r]] = held[r]
             /\ idle[asked[r]] <= stall[r]
             /\ verdict[r] = "pending"

\* No two clients share a bucket.
DistinctInv ==
    \A c, d \in Client : c # d /\ limiters[c] = limiters[d] => limiters[c] = NoBucket

\* A client was seen within the timeout when the cleanup last ran.
IdleInv == \A c \in Client : limiters[c] # NoBucket => idle[c] <= IdleTimeout + ticker

\* What a client's idle time has put into its bucket, less the refill of a
\* stall: a token may be spent that much after the client was last seen.
LevelInv ==
    \A c \in Client : limiters[c] # NoBucket =>
        \/ level[limiters[c]] = Cap
        \/ Refill * idle[c] <= level[limiters[c]] + Refill * MaxStall

LimiterInv == LimiterTypeOK /\ HeldInv /\ DistinctInv /\ IdleInv /\ LevelInv
=============================================================================

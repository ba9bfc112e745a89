----------------------- MODULE RequestPipelineProofs -----------------------
(***************************************************************************)
(* Proofs about RequestPipeline and the RateLimiter it drives: first the   *)
(* limiter by itself, for any numbers of clients, requests and buckets,    *)
(* any burst and rate and any periods; then what the layers around it do   *)
(* to every request, and what the registry makes of them.                  *)
(***************************************************************************)
EXTENDS RequestPipeline, FiniteSetTheorems, TLAPS

----------------------------------------------------------------------------
(* The rate limiter.                                                       *)

\* Facts about products that the arithmetic below rests on.
LEMMA ProductStep == \A n, i \in Nat : n * (i + 1) = n * i + n
OBVIOUS

LEMMA ProductMonotone ==
    ASSUME NEW n \in Nat, NEW i \in Nat, NEW j \in Nat, i <= j
    PROVE  n * i <= n * j
<1>1. PICK d \in Nat : j = i + d
  BY j - i \in Nat
<1>2. n * (i + d) = n * i + n * d
  OBVIOUS
<1>3. n * d \in Nat /\ n * i \in Nat
  OBVIOUS
<1> QED
  BY <1>1, <1>2, <1>3

LEMMA CapIsNat == Cap \in Nat /\ Cost <= Cap
<1>1. Burst * Cost >= 1 * Cost
  BY ProductMonotone, LimiterAssumption
<1> QED
  BY <1>1, LimiterAssumption DEF Cap

----------------------------------------------------------------------------
\* The step lemmas: each action keeps the invariant.
LEMMA InitInv == LimiterInit => LimiterInv
BY LimiterAssumption, CapIsNat
   DEF LimiterInit, LimiterInv, LimiterTypeOK, HeldInv, DistinctInv, IdleInv, LevelInv

LEMMA LimiterForInv ==
    ASSUME LimiterInv, NEW r \in Request, NEW c \in Client, LimiterFor(r, c)
    PROVE  LimiterInv'
<1> USE LimiterAssumption, CapIsNat
<1>1. LimiterTypeOK'
  BY DEF LimiterInv, LimiterTypeOK, LimiterFor, FirstLevel
<1>2. PICK b \in Bucket :
        /\ held' = [held EXCEPT ![r] = b]
        /\ limiters' = [limiters EXCEPT ![c] = b]
        /\ \/ limiters[c] = b /\ UNCHANGED level
           \/ limiters[c] = NoBucket /\ b \notin InUse /\ level' = [level EXCEPT ![b] = Cap]
  BY DEF LimiterInv, LimiterTypeOK, LimiterFor, FirstLevel
<1>3. \A d \in Client : d # c => limiters[d] # b \/ limiters[d] = NoBucket
  BY <1>2 DEF LimiterInv, DistinctInv, InUse
<1>4. HeldInv'
  <2> SUFFICES ASSUME NEW q \in Request PROVE
        /\ asked'[q] = Nobody => verdict'[q] = "pending"
        /\ held'[q] # NoBucket =>
             /\ asked'[q] \in Client
             /\ limiters'[asked'[q]] = held'[q]
             /\ idle'[asked'[q]] <= stall'[q]
             /\ verdict'[q] = "pending"
    BY DEF HeldInv
  <2>1. CASE q = r
    BY <2>1, <1>2 DEF LimiterInv, LimiterTypeOK, HeldInv, LimiterFor, FirstLevel
  <2>2. CASE q # r
    <3>1. held'[q] = held[q] /\ asked'[q] = asked[q] /\ stall'[q] = stall[q]
          /\ verdict'[q] = verdict[q]
      BY <2>2, <1>2 DEF LimiterInv, LimiterTypeOK, LimiterFor, FirstLevel
    <3>2. CASE held[q] # NoBucket /\ asked[q] = c
      <4>1. held[q] = b
        BY <3>2, <1>2 DEF LimiterInv, HeldInv
      <4>2. limiters'[c] = b /\ idle'[c] = 0 /\ stall[q] \in Nat
        BY <1>2 DEF LimiterInv, LimiterTypeOK, LimiterFor, FirstLevel
      <4> QED
        BY <3>1, <3>2, <4>1, <4>2 DEF LimiterInv, HeldInv
    <3>3. CASE held[q] # NoBucket /\ asked[q] # c
      <4>1. asked[q] \in Client
        BY <3>3 DEF LimiterInv, HeldInv
      <4>2. limiters'[asked[q]] = limiters[asked[q]] /\ idle'[asked[q]] = idle[asked[q]]
        BY <3>3, <4>1, <1>2 DEF LimiterInv, LimiterTypeOK, LimiterFor, FirstLevel
      <4> QED
        BY <3>1, <3>3, <4>1, <4>2 DEF LimiterInv, HeldInv
    <3>4. CASE held[q] = NoBucket
      BY <3>1, <3>4 DEF LimiterInv, HeldInv
    <3> QED
      BY <3>2, <3>3, <3>4
  <2> QED
    BY <2>1, <2>2
<1>5. DistinctInv'
  <2> SUFFICES ASSUME NEW d \in Client, NEW e \in Client, d # e,
                      limiters'[d] = limiters'[e]
               PROVE  limiters'[d] = NoBucket
    BY DEF DistinctInv
  <2>1. \A x \in Client : limiters'[x] = IF x = c THEN b ELSE limiters[x]
    BY <1>2 DEF LimiterInv, LimiterTypeOK
  <2> QED
    BY <2>1, <1>3 DEF LimiterInv, DistinctInv
<1>6. IdleInv'
  <2> SUFFICES ASSUME NEW d \in Client, limiters'[d] # NoBucket
               PROVE  idle'[d] <= IdleTimeout + ticker'
    BY DEF IdleInv
  <2>1. CASE d = c
    BY <2>1 DEF LimiterInv, LimiterTypeOK, LimiterFor, FirstLevel
  <2>2. CASE d # c
    <3>1. limiters'[d] = limiters[d] /\ idle'[d] = idle[d] /\ ticker' = ticker
      BY <2>2, <1>2 DEF LimiterInv, LimiterTypeOK, LimiterFor, FirstLevel
    <3> QED
      BY <3>1 DEF LimiterInv, IdleInv
  <2> QED
    BY <2>1, <2>2
<1>7. LevelInv'
  <2> SUFFICES ASSUME NEW d \in Client, limiters'[d] # NoBucket
               PROVE  \/ level'[limiters'[d]] = Cap
                      \/ Refill * idle'[d] <= level'[limiters'[d]] + Refill * MaxStall
    BY DEF LevelInv
  <2>1. CASE d = c
    <3>1. limiters'[c] = b /\ idle'[c] = 0 /\ level'[b] \in Nat
      BY <1>2, <1>1 DEF LimiterInv, LimiterTypeOK, LimiterFor, FirstLevel
    <3>2. Refill * 0 = 0 /\ Refill * MaxStall \in Nat
      OBVIOUS
    <3> QED
      BY <2>1, <3>1, <3>2
  <2>2. CASE d # c
    <3>1. limiters'[d] = limiters[d] /\ idle'[d] = idle[d] /\ limiters[d] # b
      BY <2>2, <1>2, <1>3 DEF LimiterInv, LimiterTypeOK, LimiterFor, FirstLevel
    <3>2. level'[limiters[d]] = level[limiters[d]]
      BY <3>1, <1>2 DEF LimiterInv, LimiterTypeOK
    <3> QED
      BY <3>1, <3>2 DEF LimiterInv, LevelInv
  <2> QED
    BY <2>1, <2>2
<1> QED
  BY <1>1, <1>4, <1>5, <1>6, <1>7 DEF LimiterInv

LEMMA AllowInv ==
    ASSUME LimiterInv, NEW r \in Request, Allow(r)
    PROVE  LimiterInv'
<1> USE LimiterAssumption, CapIsNat
<1>1. LimiterTypeOK'
  <2>1. level' \in [Bucket -> 0..Cap]
    BY DEF LimiterInv, LimiterTypeOK, Allow, HasToken
  <2> QED
    BY <2>1 DEF LimiterInv, LimiterTypeOK, Allow
<1>2. PICK b \in Bucket : b = held[r] /\ limiters[asked[r]] = b /\ asked[r] \in Client
                         /\ idle[asked[r]] <= MaxStall
  BY DEF LimiterInv, LimiterTypeOK, HeldInv, Allow
<1>3. \A x \in Bucket : x # b => level'[x] = level[x]
  BY <1>2 DEF LimiterInv, LimiterTypeOK, Allow
<1>4. HeldInv'
  <2> SUFFICES ASSUME NEW q \in Request PROVE
        /\ asked'[q] = Nobody => verdict'[q] = "pending"
        /\ held'[q] # NoBucket =>
             /\ asked'[q] \in Client
             /\ limiters'[asked'[q]] = held'[q]
             /\ idle'[asked'[q]] <= stall'[q]
             /\ verdict'[q] = "pending"
    BY DEF HeldInv
  <2>1. CASE q = r
    BY <2>1, <1>2 DEF LimiterInv, LimiterTypeOK, Allow
  <2>2. CASE q # r
    BY <2>2 DEF LimiterInv, LimiterTypeOK, HeldInv, Allow
  <2> QED
    BY <2>1, <2>2
<1>5. DistinctInv' /\ IdleInv'
  BY DEF LimiterInv, DistinctInv, IdleInv, Allow
<1>6. LevelInv'
  <2> SUFFICES ASSUME NEW d \in Client, limiters[d] # NoBucket
               PROVE  \/ level'[limiters[d]] = Cap
                      \/ Refill * idle[d] <= level'[limiters[d]] + Refill * MaxStall
    BY DEF LevelInv, Allow
  <2>1. CASE limiters[d] = b
    <3>1. d = asked[r]
      BY <2>1, <1>2 DEF LimiterInv, DistinctInv
    <3>2. Refill * idle[d] <= Refill * MaxStall
      BY <3>1, <1>2, ProductMonotone DEF LimiterInv, LimiterTypeOK
    <3>3. level'[b] \in Nat /\ Refill * idle[d] \in Nat /\ Refill * MaxStall \in Nat
      BY <1>1 DEF LimiterInv, LimiterTypeOK
    <3> QED
      BY <2>1, <3>2, <3>3
  <2>2. CASE limiters[d] # b
    <3>1. level'[limiters[d]] = level[limiters[d]]
      BY <2>2, <1>3 DEF LimiterInv, LimiterTypeOK
    <3> QED
      BY <3>1 DEF LimiterInv, LevelInv
  <2> QED
    BY <2>1, <2>2
<1> QED
  BY <1>1, <1>4, <1>5, <1>6 DEF LimiterInv

\* No client with a request on its way to Allow is idle long enough.
LEMMA HeldNotExpired ==
    ASSUME LimiterInv, NEW r \in Request, held[r] # NoBucket
    PROVE  asked[r] \in Client /\ ~ Expired(asked[r])
BY LimiterAssumption DEF LimiterInv, LimiterTypeOK, HeldInv, Expired

LEMMA PruneIdleInv == LimiterInv /\ PruneIdle => LimiterInv'
<1> SUFFICES ASSUME LimiterInv, PruneIdle PROVE LimiterInv'
  OBVIOUS
<1> USE LimiterAssumption, CapIsNat
<1>1. \A c \in Client :
        /\ Expired(c) => limiters'[c] = NoBucket /\ idle'[c] = 0
        /\ ~ Expired(c) => limiters'[c] = limiters[c] /\ idle'[c] = idle[c]
  BY DEF PruneIdle
<1>2. LimiterTypeOK'
  BY DEF LimiterInv, LimiterTypeOK, PruneIdle
<1>3. HeldInv'
  <2> SUFFICES ASSUME NEW q \in Request PROVE
        /\ asked[q] = Nobody => verdict[q] = "pending"
        /\ held[q] # NoBucket =>
             /\ asked[q] \in Client
             /\ limiters'[asked[q]] = held[q]
             /\ idle'[asked[q]] <= stall[q]
             /\ verdict[q] = "pending"
    BY DEF HeldInv, PruneIdle
  <2>1. CASE held[q] # NoBucket
    BY <2>1, <1>1, HeldNotExpired DEF LimiterInv, HeldInv
  <2> QED
    BY <2>1 DEF LimiterInv, HeldInv
<1>4. DistinctInv'
  BY <1>1 DEF LimiterInv, DistinctInv
<1>5. IdleInv'
  BY <1>1 DEF LimiterInv, LimiterTypeOK, IdleInv, Expired, PruneIdle
<1>6. LevelInv'
  BY <1>1 DEF LimiterInv, LevelInv, PruneIdle
<1> QED
  BY <1>2, <1>3, <1>4, <1>5, <1>6 DEF LimiterInv

LEMMA TickInv == LimiterInv /\ Tick => LimiterInv'
<1> SUFFICES ASSUME LimiterInv, Tick PROVE LimiterInv'
  OBVIOUS
<1> USE LimiterAssumption, CapIsNat
<1>1. LimiterTypeOK'
  BY DEF LimiterInv, LimiterTypeOK, Tick, Least
<1>2. HeldInv'
  <2> SUFFICES ASSUME NEW q \in Request, held[q] # NoBucket
               PROVE  idle'[asked[q]] <= stall'[q]
    BY DEF LimiterInv, HeldInv, Tick
  <2>1. asked[q] \in Client /\ idle[asked[q]] <= stall[q] /\ limiters[asked[q]] # NoBucket
    BY DEF LimiterInv, HeldInv
  <2>2. idle'[asked[q]] = idle[asked[q]] + 1 /\ stall'[q] = stall[q] + 1
    BY <2>1 DEF Tick
  <2> QED
    BY <2>1, <2>2 DEF LimiterInv, LimiterTypeOK
<1>3. DistinctInv'
  BY DEF LimiterInv, DistinctInv, Tick
<1>4. IdleInv'
  BY DEF LimiterInv, LimiterTypeOK, IdleInv, Tick
<1>5. LevelInv'
  <2> SUFFICES ASSUME NEW c \in Client, limiters[c] # NoBucket
               PROVE  \/ level'[limiters[c]] = Cap
                      \/ Refill * idle'[c] <= level'[limiters[c]] + Refill * MaxStall
    BY DEF LevelInv, Tick
  <2>1. /\ level'[limiters[c]] = Least(Cap, level[limiters[c]] + Refill)
        /\ idle'[c] = idle[c] + 1
        /\ level[limiters[c]] \in 0..Cap
        /\ idle[c] \in Nat
    BY DEF LimiterInv, LimiterTypeOK, Tick
  <2>2. Refill * (idle[c] + 1) = Refill * idle[c] + Refill
    BY <2>1, ProductStep
  <2>3. Refill * idle[c] \in Nat /\ Refill * MaxStall \in Nat
    BY <2>1
  <2>4. CASE level[limiters[c]] = Cap
    BY <2>1, <2>4 DEF Least
  <2>5. CASE Refill * idle[c] <= level[limiters[c]] + Refill * MaxStall
    BY <2>1, <2>2, <2>3, <2>5 DEF Least
  <2> QED
    BY <2>4, <2>5 DEF LimiterInv, LevelInv
<1> QED
  BY <1>1, <1>2, <1>3, <1>4, <1>5 DEF LimiterInv

LEMMA LimiterStepInv == LimiterInv /\ [LimiterNext]_limiterVars => LimiterInv'
<1> SUFFICES ASSUME LimiterInv, [LimiterNext]_limiterVars PROVE LimiterInv'
  OBVIOUS
<1>1. CASE \E r \in Request, c \in Client : LimiterFor(r, c)
  BY <1>1, LimiterForInv
<1>2. CASE \E r \in Request : Allow(r)
  BY <1>2, AllowInv
<1>3. CASE PruneIdle
  BY <1>3, PruneIdleInv
<1>4. CASE Tick
  BY <1>4, TickInv
<1>5. CASE UNCHANGED limiterVars
  BY <1>5 DEF limiterVars, LimiterInv, LimiterTypeOK, HeldInv, DistinctInv, IdleInv, LevelInv
<1> QED
  BY <1>1, <1>2, <1>3, <1>4, <1>5 DEF LimiterNext

----------------------------------------------------------------------------
LEMMA LimiterAlways == LimiterSpec => []LimiterInv
<1> QED
  BY InitInv, LimiterStepInv, PTL DEF LimiterSpec

\* Whatever happens to the map and the requests, all of it keeps its type; in
\* particular no bucket is overdrawn and no level exceeds the burst.
THEOREM LimiterTypeCorrect == LimiterSpec => []LimiterTypeOK
<1>1. LimiterInv => LimiterTypeOK
  BY DEF LimiterInv
<1> QED
  BY <1>1, LimiterAlways, PTL

\* The map holds nothing of a client that was not seen within an idle timeout
\* and a cleanup period (ratelimit.go:21-24).
THEOREM MapStaysBounded == LimiterSpec => []MemoryBounded
<1>1. LimiterInv => MemoryBounded
  BY LimiterAssumption DEF LimiterInv, LimiterTypeOK, IdleInv, MemoryBounded
<1> QED
  BY <1>1, LimiterAlways, PTL

\* Waiting for RetryAfter refills at least one token.
LEMMA RetryAfterRefills == RetryAfter \in Nat /\ Refill * RetryAfter >= Cost
<1> USE LimiterAssumption
<1> DEFINE x == Cost + Refill - 1
<1>1. x \in Nat
  OBVIOUS
<1>2. x \div Refill \in Nat /\ x < Refill * (x \div Refill) + Refill
  BY <1>1
<1> QED
  BY <1>2 DEF RetryAfter

\* A client that stays away for as long as the Retry-After header says (and
\* for the delay of what it had under way) finds a token.
THEOREM WaitSuffices == LimiterSpec => []RetryAfterSuffices
<1>1. LimiterInv => RetryAfterSuffices
  <2> SUFFICES ASSUME LimiterInv, NEW c \in Client, limiters[c] # NoBucket,
                      idle[c] >= RetryAfter + MaxStall
               PROVE  level[limiters[c]] >= Cost
    BY DEF RetryAfterSuffices, HasToken
  <2>1. /\ level[limiters[c]] \in Nat /\ idle[c] \in Nat
        /\ MaxStall \in Nat /\ RetryAfter \in Nat /\ Refill \in Nat /\ Cost \in Nat
    BY CapIsNat, RetryAfterRefills, LimiterAssumption DEF LimiterInv, LimiterTypeOK
  <2>2. CASE level[limiters[c]] = Cap
    BY <2>2, <2>1, CapIsNat
  <2>3. CASE Refill * idle[c] <= level[limiters[c]] + Refill * MaxStall
    <3>1. Refill * (RetryAfter + MaxStall) <= Refill * idle[c]
      BY <2>1, ProductMonotone
    <3>2. Refill * (RetryAfter + MaxStall) = Refill * RetryAfter + Refill * MaxStall
      BY <2>1
    <3>3. /\ Refill * RetryAfter \in Nat /\ Refill * MaxStall \in Nat /\ Refill * idle[c] \in Nat
          /\ Refill * (RetryAfter + MaxStall) \in Nat
      BY <2>1
    <3> HIDE <2>1
    <3> QED
      BY <2>1, <2>3, <3>1, <3>2, <3>3, RetryAfterRefills
  <2> QED
    BY <2>2, <2>3 DEF LimiterInv, LevelInv
<1> QED
  BY <1>1, LimiterAlways, PTL

----------------------------------------------------------------------------
Credit == [c \in Client |-> IF limiters[c] = NoBucket THEN Cap ELSE level[limiters[c]]]

\* A bucket is full when its client's entry is dropped.
LEMMA DroppedFull ==
    ASSUME LimiterInv, BucketFits, NEW c \in Client, limiters[c] # NoBucket, Expired(c)
    PROVE  level[limiters[c]] = Cap
<1>1. /\ level[limiters[c]] \in 0..Cap /\ idle[c] \in Nat /\ Cap \in Nat
      /\ MaxStall \in Nat /\ IdleTimeout \in Nat /\ Refill \in Nat
      /\ idle[c] > IdleTimeout /\ MaxStall < IdleTimeout
  BY CapIsNat, LimiterAssumption DEF LimiterInv, LimiterTypeOK, Expired
<1>2. CASE Refill * idle[c] <= level[limiters[c]] + Refill * MaxStall
  <2>1. PICK d \in Nat : IdleTimeout = MaxStall + d
    BY <1>1, IdleTimeout - MaxStall \in Nat
  <2>2. IdleTimeout - MaxStall = d
    BY <2>1, <1>1
  <2>3. Cap <= Refill * d
    BY <2>2 DEF BucketFits, Cap
  <2>4. Refill * IdleTimeout <= Refill * idle[c]
    BY <1>1, ProductMonotone
  <2>5. Refill * IdleTimeout = Refill * MaxStall + Refill * d
    BY <2>1, <1>1
  <2>6. /\ Refill * IdleTimeout \in Nat /\ Refill * MaxStall \in Nat /\ Refill * d \in Nat
        /\ Refill * idle[c] \in Nat
    BY <1>1
  <2> QED
    BY <1>1, <1>2, <2>3, <2>4, <2>5, <2>6
<1> QED
  BY <1>2 DEF LimiterInv, LevelInv

LEMMA RefineInit == LimiterInit => Ideal!Init
BY DEF LimiterInit, Ideal!Init, Ideal!Cap, Cap

LEMMA RefineLimiterFor ==
    ASSUME LimiterInv, NEW r \in Request, NEW c \in Client, LimiterFor(r, c)
    PROVE  Ideal!Ask(r, c)
<1>1. PICK b \in Bucket :
        /\ limiters' = [limiters EXCEPT ![c] = b]
        /\ \/ limiters[c] = b /\ UNCHANGED level
           \/ limiters[c] = NoBucket /\ b \notin InUse /\ level' = [level EXCEPT ![b] = Cap]
  BY LimiterAssumption DEF LimiterInv, LimiterTypeOK, LimiterFor, FirstLevel
<1>2. ASSUME NEW d \in Client PROVE Credit'[d] = Credit[d]
  <2>1. CASE d = c
    BY <2>1, <1>1, LimiterAssumption DEF LimiterInv, LimiterTypeOK, Credit
  <2>2. CASE d # c
    <3>1. limiters'[d] = limiters[d]
      BY <2>2, <1>1 DEF LimiterInv, LimiterTypeOK
    <3>2. limiters[d] = NoBucket \/ limiters[d] # b
      BY <2>2, <1>1 DEF LimiterInv, DistinctInv, InUse
    <3>3. limiters[d] = NoBucket \/ level'[limiters[d]] = level[limiters[d]]
      BY <3>2, <1>1 DEF LimiterInv, LimiterTypeOK
    <3> QED
      BY <3>1, <3>3 DEF Credit
  <2> QED
    BY <2>1, <2>2
<1>3. Credit' = Credit
  BY <1>2 DEF Credit
<1> QED
  BY <1>3 DEF Ideal!Ask, Credit, LimiterFor, FirstLevel

LEMMA RefineAllow ==
    ASSUME LimiterInv, NEW r \in Request, Allow(r)
    PROVE  Ideal!Grant(r) \/ Ideal!Refuse(r)
<1> DEFINE c == asked[r]
<1>1. /\ c \in Client /\ limiters[c] = held[r] /\ verdict[r] = "pending"
      /\ held[r] # NoBucket /\ held[r] \in Bucket /\ c # Nobody
  BY LimiterAssumption DEF LimiterInv, LimiterTypeOK, HeldInv, Allow
<1>2. Credit[c] = level[held[r]]
  BY <1>1 DEF Credit
<1>3. CASE HasToken(held[r])
  <2>1. /\ level' = [level EXCEPT ![held[r]] = @ - Cost]
        /\ verdict' = [verdict EXCEPT ![r] = "granted"]
        /\ UNCHANGED <<limiters, asked>>
    BY <1>3 DEF Allow
  <2>2. \A d \in Client : Credit'[d] = IF d = c THEN Credit[c] - Cost ELSE Credit[d]
    <3> SUFFICES ASSUME NEW d \in Client
                 PROVE  Credit'[d] = IF d = c THEN Credit[c] - Cost ELSE Credit[d]
      OBVIOUS
    <3>1. CASE d = c
      BY <3>1, <2>1, <1>1, <1>2 DEF LimiterInv, LimiterTypeOK, Credit
    <3>2. CASE d # c
      <4>1. limiters[d] = NoBucket \/ limiters[d] # held[r]
        BY <3>2, <1>1 DEF LimiterInv, DistinctInv
      <4> QED
        BY <3>2, <4>1, <2>1 DEF LimiterInv, LimiterTypeOK, Credit
    <3> QED
      BY <3>1, <3>2
  <2>3. Credit' = [Credit EXCEPT ![c] = @ - Cost]
    BY <2>2, <1>1 DEF Credit
  <2> QED
    BY <1>1, <1>2, <1>3, <2>1, <2>3 DEF Ideal!Grant, Credit, HasToken
<1>4. CASE ~ HasToken(held[r])
  <2>1. /\ verdict' = [verdict EXCEPT ![r] = "refused"]
        /\ UNCHANGED <<limiters, asked, level>>
    BY <1>4 DEF Allow
  <2>2. Credit[c] < Cost
    BY <1>1, <1>2, <1>4, CapIsNat, LimiterAssumption DEF HasToken, LimiterInv, LimiterTypeOK
  <2> QED
    BY <1>1, <2>1, <2>2 DEF Ideal!Refuse, Credit
<1> QED
  BY <1>3, <1>4

LEMMA RefinePruneIdle ==
    ASSUME LimiterInv, BucketFits, PruneIdle
    PROVE  UNCHANGED Ideal!vars
<1>1. ASSUME NEW c \in Client PROVE Credit'[c] = Credit[c]
  <2>1. CASE Expired(c)
    BY <2>1, DroppedFull DEF Credit, PruneIdle
  <2>2. CASE ~ Expired(c)
    BY <2>2 DEF Credit, PruneIdle
  <2> QED
    BY <2>1, <2>2
<1>2. Credit' = Credit
  BY <1>1 DEF Credit
<1> QED
  BY <1>2 DEF Ideal!vars, Credit, PruneIdle

LEMMA RefineTick == ASSUME LimiterInv, Tick PROVE Ideal!Elapse
<1>1. ASSUME NEW c \in Client PROVE Credit'[c] = Least(Cap, Credit[c] + Refill)
  <2>1. CASE limiters[c] = NoBucket
    BY <2>1, CapIsNat, LimiterAssumption DEF Credit, Tick, Least
  <2>2. CASE limiters[c] # NoBucket
    BY <2>2 DEF Credit, Tick, LimiterInv, LimiterTypeOK
  <2> QED
    BY <2>1, <2>2
<1>2. Credit' = [c \in Client |-> Least(Cap, Credit[c] + Refill)]
  BY <1>1 DEF Credit
<1> QED
  BY <1>2 DEF Ideal!Elapse, Ideal!Least, Ideal!Cap, Least, Cap, Credit, Tick

\* The limiter implements one everlasting bucket per client: neither the gap
\* between look-up and decision (ratelimit.go:54-59) nor the cleanup
\* (ratelimit.go:102-112) can be told from outside, provided that a bucket
\* fills up within the idle timeout less the longest delay of a goroutine.
THEOREM Refinement == BucketFits => (LimiterSpec => ImplementsTokenBucket)
<1> SUFFICES ASSUME BucketFits PROVE LimiterSpec => Ideal!Spec
  BY DEF ImplementsTokenBucket
<1>1. LimiterInit => Ideal!Init
  BY RefineInit
<1>2. LimiterInv /\ [LimiterNext]_limiterVars => [Ideal!Next]_(Ideal!vars)
  <2> SUFFICES ASSUME LimiterInv, [LimiterNext]_limiterVars
               PROVE  [Ideal!Next]_(Ideal!vars)
    OBVIOUS
  <2>1. CASE \E r \in Request, c \in Client : LimiterFor(r, c)
    BY <2>1, RefineLimiterFor DEF Ideal!Next
  <2>2. CASE \E r \in Request : Allow(r)
    BY <2>2, RefineAllow DEF Ideal!Next
  <2>3. CASE PruneIdle
    BY <2>3, RefinePruneIdle
  <2>4. CASE Tick
    BY <2>4, RefineTick DEF Ideal!Next
  <2>5. CASE UNCHANGED limiterVars
    BY <2>5 DEF limiterVars, Ideal!vars
  <2> QED
    BY <2>1, <2>2, <2>3, <2>4, <2>5 DEF LimiterNext
<1> QED
  BY <1>1, <1>2, LimiterAlways, PTL DEF LimiterSpec, Ideal!Spec

----------------------------------------------------------------------------
(* The pipeline around it.                                                 *)

\* A step of the pipeline is a step of the limiter or leaves it alone.
LEMMA LimiterStep == [Next]_vars => [LimiterNext]_limiterVars
<1> SUFFICES ASSUME [Next]_vars PROVE [LimiterNext]_limiterVars
  OBVIOUS
<1>1. CASE Background
  BY <1>1 DEF Background, LimiterNext
<1>2. CASE \E r \in Request : LookUp(r)
  BY <1>2 DEF LookUp, LimiterNext
<1>3. CASE \E r \in Request : Limit(r)
  BY <1>3 DEF Limit, LimiterNext
<1>4. CASE \E r \in Request : Arrive(r) \/ Authenticate(r) \/ Handle(r) \/ HandlerPanics(r)
                               \/ Count(r) \/ Observe(r)
  BY <1>4 DEF Arrive, Authenticate, Handle, HandlerPanics, Count, Observe
<1>5. CASE UNCHANGED vars
  BY <1>5 DEF vars
<1> QED
  BY <1>1, <1>2, <1>3, <1>4, <1>5 DEF Next, Step

\* The pipeline runs the rate limiter by its specification, so that whatever
\* is proved of the limiter holds in the server that api.New assembles.
THEOREM PipelineRunsLimiter == Spec => LimiterSpec
<1>1. Init => LimiterInit
  BY DEF Init
<1> QED
  BY <1>1, LimiterStep, PTL DEF Spec, LimiterSpec

----------------------------------------------------------------------------
\* Layers at which a request is recorded.
IsCounted(layer) == layer \in {"observe", "done"}

\* What CountedAsAnswered says is behind a counter.
Behind(p, s) == {r \in Counted \cap At(p) :
                    answer[r] = s \/ (answer[r] = Cut /\ Recorded(r) = s)}

LEMMA BehindFinite == \A p, s : IsFiniteSet(Behind(p, s))
BY FS_Subset, PipelineAssumption DEF Behind, Counted

\* A step that records nobody and leaves those recorded alone.
LEMMA NobodyCounted ==
    ASSUME TypeOK, CountedAsAnswered, UNCHANGED requestsTotal,
           \A q \in Request :
               /\ IsCounted(pc'[q]) <=> IsCounted(pc[q])
               /\ IsCounted(pc[q]) => /\ path'[q] = path[q]
                                      /\ answer'[q] = answer[q]
                                      /\ status'[q] = status[q]
    PROVE  CountedAsAnswered'
<1>1. \A p, s : Behind(p, s)' = Behind(p, s)
  BY DEF Behind, Counted, At, Recorded, IsCounted
<1> QED
  BY <1>1 DEF CountedAsAnswered, Behind

\* A request that moves from a layer inside the logging to the next.
LEMMA InnerStep ==
    ASSUME IInv, LimiterTypeOK', NEW r \in Request,
           Arrive(r) \/ LookUp(r) \/ Limit(r) \/ Authenticate(r) \/ Handle(r) \/ HandlerPanics(r)
    PROVE  /\ TypeOK'
           /\ \A q \in Request : q # r =>
                /\ pc'[q] = pc[q] /\ path'[q] = path[q] /\ took'[q] = took[q]
                /\ status'[q] = status[q] /\ answer'[q] = answer[q] /\ verdict'[q] = verdict[q]
           /\ pc[r] \in {"away", "limit", "allow", "auth", "handler"}
           /\ pc'[r] \notin {"away", "observe", "done"}
           /\ path'[r] \in Path
           /\ UNCHANGED <<requestsTotal, durations>>
<1>1. /\ pc \in [Request -> Layer] /\ path \in [Request -> Path \cup {NoPath}]
      /\ took \in [Request -> Duration \cup {0}]
      /\ status \in [Request -> Status \cup {NoStatus}]
      /\ answer \in [Request -> Status \cup {NoStatus, Cut}]
      /\ verdict \in [Request -> {"pending", "granted", "refused"}]
  BY DEF IInv, TypeOK, LimiterTypeOK
<1>2. pc[r] # "away" => path[r] \in Path
  BY <1>1 DEF IInv, LayerInv, LayerOK, NoPath
<1>3. CASE Arrive(r)
  <2>1. UNCHANGED <<requestsTotal, durations>>
    BY <1>3 DEF Arrive, registryVars
  <2>2. pc' \in [Request -> Layer] /\ path' \in [Request -> Path \cup {NoPath}]
    BY <1>3, <1>1, <1>2 DEF Arrive, Goto, LayerAfterLogging, Layer, limiterVars, registryVars
  <2>3. took' \in [Request -> Duration \cup {0}]
    BY <1>3, <1>1 DEF Arrive, Goto, LayerAfterLogging, Layer, limiterVars, registryVars
  <2>4. /\ status' \in [Request -> Status \cup {NoStatus}]
        /\ answer' \in [Request -> Status \cup {NoStatus, Cut}]
    BY <1>3, <1>1 DEF Arrive, Goto, LayerAfterLogging, Layer, limiterVars, registryVars
  <2>5. \A q \in Request : q # r =>
                /\ pc'[q] = pc[q] /\ path'[q] = path[q] /\ took'[q] = took[q]
                /\ status'[q] = status[q] /\ answer'[q] = answer[q] /\ verdict'[q] = verdict[q]
    BY <1>3, <1>1 DEF Arrive, Goto, LayerAfterLogging, Layer, limiterVars, registryVars
  <2>6. /\ pc[r] \in {"away", "limit", "allow", "auth", "handler"}
        /\ pc'[r] \notin {"away", "observe", "done"}
        /\ path'[r] \in Path
    BY <1>3, <1>1, <1>2 DEF Arrive, Goto, LayerAfterLogging, Layer, limiterVars, registryVars
  <2> QED
    BY <2>1, <2>2, <2>3, <2>4, <2>5, <2>6 DEF IInv, TypeOK
<1>4. CASE LookUp(r)
  <2>1. UNCHANGED <<requestsTotal, durations>>
    BY <1>4 DEF LookUp, registryVars
  <2>2. pc' \in [Request -> Layer] /\ path' \in [Request -> Path \cup {NoPath}]
    BY <1>4, <1>1, <1>2 DEF LookUp, LimiterFor, Goto, Layer, registryVars
  <2>3. took' \in [Request -> Duration \cup {0}]
    BY <1>4, <1>1 DEF LookUp, LimiterFor, Goto, Layer, registryVars
  <2>4. /\ status' \in [Request -> Status \cup {NoStatus}]
        /\ answer' \in [Request -> Status \cup {NoStatus, Cut}]
    BY <1>4, <1>1 DEF LookUp, LimiterFor, Goto, Layer, registryVars
  <2>5. \A q \in Request : q # r =>
                /\ pc'[q] = pc[q] /\ path'[q] = path[q] /\ took'[q] = took[q]
                /\ status'[q] = status[q] /\ answer'[q] = answer[q] /\ verdict'[q] = verdict[q]
    BY <1>4, <1>1 DEF LookUp, LimiterFor, Goto, Layer, registryVars
  <2>6. /\ pc[r] \in {"away", "limit", "allow", "auth", "handler"}
        /\ pc'[r] \notin {"away", "observe", "done"}
        /\ path'[r] \in Path
    BY <1>4, <1>1, <1>2 DEF LookUp, LimiterFor, Goto, Layer, registryVars
  <2> QED
    BY <2>1, <2>2, <2>3, <2>4, <2>5, <2>6 DEF IInv, TypeOK
<1>5. CASE Limit(r)
  <2>1. UNCHANGED <<requestsTotal, durations>>
    BY <1>5 DEF Limit, registryVars
  <2>2. pc' \in [Request -> Layer] /\ path' \in [Request -> Path \cup {NoPath}]
    BY <1>5, <1>1, <1>2 DEF Limit, Allow, Reject, Goto, Layer, Status, registryVars
  <2>3. took' \in [Request -> Duration \cup {0}]
    BY <1>5, <1>1 DEF Limit, Allow, Reject, Goto, Layer, Status, registryVars
  <2>4. /\ status' \in [Request -> Status \cup {NoStatus}]
        /\ answer' \in [Request -> Status \cup {NoStatus, Cut}]
    BY <1>5, <1>1 DEF Limit, Allow, Reject, Goto, Layer, Status, registryVars
  <2>5. \A q \in Request : q # r =>
                /\ pc'[q] = pc[q] /\ path'[q] = path[q] /\ took'[q] = took[q]
                /\ status'[q] = status[q] /\ answer'[q] = answer[q] /\ verdict'[q] = verdict[q]
    BY <1>5, <1>1 DEF Limit, Allow, Reject, Goto, Layer, Status, registryVars
  <2>6. /\ pc[r] \in {"away", "limit", "allow", "auth", "handler"}
        /\ pc'[r] \notin {"away", "observe", "done"}
        /\ path'[r] \in Path
    BY <1>5, <1>1, <1>2 DEF Limit, Allow, Reject, Goto, Layer, Status, registryVars
  <2> QED
    BY <2>1, <2>2, <2>3, <2>4, <2>5, <2>6 DEF IInv, TypeOK
<1>6. CASE Authenticate(r)
  <2>1. UNCHANGED <<requestsTotal, durations>>
    BY <1>6 DEF Authenticate, registryVars
  <2>2. pc' \in [Request -> Layer] /\ path' \in [Request -> Path \cup {NoPath}]
    BY <1>6, <1>1, <1>2 DEF Authenticate, Reject, Goto, Layer, Status, limiterVars, registryVars
  <2>3. took' \in [Request -> Duration \cup {0}]
    BY <1>6, <1>1 DEF Authenticate, Reject, Goto, Layer, Status, limiterVars, registryVars
  <2>4. /\ status' \in [Request -> Status \cup {NoStatus}]
        /\ answer' \in [Request -> Status \cup {NoStatus, Cut}]
    BY <1>6, <1>1 DEF Authenticate, Reject, Goto, Layer, Status, limiterVars, registryVars
  <2>5. \A q \in Request : q # r =>
                /\ pc'[q] = pc[q] /\ path'[q] = path[q] /\ took'[q] = took[q]
                /\ status'[q] = status[q] /\ answer'[q] = answer[q] /\ verdict'[q] = verdict[q]
    BY <1>6, <1>1 DEF Authenticate, Reject, Goto, Layer, Status, limiterVars, registryVars
  <2>6. /\ pc[r] \in {"away", "limit", "allow", "auth", "handler"}
        /\ pc'[r] \notin {"away", "observe", "done"}
        /\ path'[r] \in Path
    BY <1>6, <1>1, <1>2 DEF Authenticate, Reject, Goto, Layer, Status, limiterVars, registryVars
  <2> QED
    BY <2>1, <2>2, <2>3, <2>4, <2>5, <2>6 DEF IInv, TypeOK
<1>7. CASE Handle(r)
  <2>1. UNCHANGED <<requestsTotal, durations>>
    BY <1>7 DEF Handle, registryVars
  <2>2. pc' \in [Request -> Layer] /\ path' \in [Request -> Path \cup {NoPath}]
    BY <1>7, <1>1, <1>2 DEF Handle, Goto, Layer, Status, NoStatus, limiterVars, registryVars
  <2>3. took' \in [Request -> Duration \cup {0}]
    BY <1>7, <1>1 DEF Handle, Goto, Layer, Status, NoStatus, limiterVars, registryVars
  <2>4. /\ status' \in [Request -> Status \cup {NoStatus}]
        /\ answer' \in [Request -> Status \cup {NoStatus, Cut}]
    BY <1>7, <1>1 DEF Handle, Goto, Layer, Status, NoStatus, limiterVars, registryVars
  <2>5. \A q \in Request : q # r =>
                /\ pc'[q] = pc[q] /\ path'[q] = path[q] /\ took'[q] = took[q]
                /\ status'[q] = status[q] /\ answer'[q] = answer[q] /\ verdict'[q] = verdict[q]
    BY <1>7, <1>1 DEF Handle, Goto, Layer, Status, NoStatus, limiterVars, registryVars
  <2>6. /\ pc[r] \in {"away", "limit", "allow", "auth", "handler"}
        /\ pc'[r] \notin {"away", "observe", "done"}
        /\ path'[r] \in Path
    BY <1>7, <1>1, <1>2 DEF Handle, Goto, Layer, Status, NoStatus, limiterVars, registryVars
  <2> QED
    BY <2>1, <2>2, <2>3, <2>4, <2>5, <2>6 DEF IInv, TypeOK
<1>8. CASE HandlerPanics(r)
  <2>1. UNCHANGED <<requestsTotal, durations>>
    BY <1>8 DEF HandlerPanics, registryVars
  <2>2. pc' \in [Request -> Layer] /\ path' \in [Request -> Path \cup {NoPath}]
    BY <1>8, <1>1, <1>2 DEF HandlerPanics, LayerAfterPanic, Goto, Layer, Status, limiterVars, registryVars
  <2>3. took' \in [Request -> Duration \cup {0}]
    BY <1>8, <1>1 DEF HandlerPanics, LayerAfterPanic, Goto, Layer, Status, limiterVars, registryVars
  <2>4. /\ status' \in [Request -> Status \cup {NoStatus}]
        /\ answer' \in [Request -> Status \cup {NoStatus, Cut}]
    BY <1>8, <1>1 DEF HandlerPanics, LayerAfterPanic, Goto, Layer, Status, limiterVars, registryVars
  <2>5. \A q \in Request : q # r =>
                /\ pc'[q] = pc[q] /\ path'[q] = path[q] /\ took'[q] = took[q]
                /\ status'[q] = status[q] /\ answer'[q] = answer[q] /\ verdict'[q] = verdict[q]
    BY <1>8, <1>1 DEF HandlerPanics, LayerAfterPanic, Goto, Layer, Status, limiterVars, registryVars
  <2>6. /\ pc[r] \in {"away", "limit", "allow", "auth", "handler"}
        /\ pc'[r] \notin {"away", "observe", "done"}
        /\ path'[r] \in Path
    BY <1>8, <1>1, <1>2 DEF HandlerPanics, LayerAfterPanic, Goto, Layer, Status, limiterVars, registryVars
  <2> QED
    BY <2>1, <2>2, <2>3, <2>4, <2>5, <2>6 DEF IInv, TypeOK
<1> QED
  BY <1>3, <1>4, <1>5, <1>6, <1>7, <1>8

\* A request that the logging layer has not recorded yet, or never will.
LEMMA InnerInv ==
    ASSUME IInv, LimiterTypeOK', NEW r \in Request,
           Arrive(r) \/ LookUp(r) \/ Limit(r) \/ Authenticate(r) \/ Handle(r) \/ HandlerPanics(r)
    PROVE  IInv'
<1>1. TypeOK'
  BY InnerStep
<1>2. CountedAsAnswered'
  BY InnerStep, NobodyCounted DEF IInv, IsCounted
<1>3. \A q \in Request : q # r => (LayerOK(q) /\ RecordOK(q))'
  BY InnerStep DEF IInv, LayerInv, LayerOK, RecordOK, Recorded
<1>4. /\ pc \in [Request -> Layer] /\ path \in [Request -> Path \cup {NoPath}]
      /\ status \in [Request -> Status \cup {NoStatus}]
      /\ answer \in [Request -> Status \cup {NoStatus, Cut}]
      /\ verdict \in [Request -> {"pending", "granted", "refused"}]
      /\ LayerOK(r)
  BY DEF IInv, TypeOK, LimiterTypeOK, LayerInv
<1>5. CASE Arrive(r)
  <2>1. LayerOK(r)'
    BY <1>4, <1>5, PipelineAssumption
    DEF Arrive, Goto, LayerAfterLogging, limiterVars, LayerOK, IsInfraPath, NoPath, NoStatus, Cut
  <2>2. RecordOK(r)'
    BY <1>4, <1>5 DEF Arrive, Goto, LayerAfterLogging, limiterVars, RecordOK, LayerOK, Recorded, Status, NoStatus, Cut
  <2> QED
    BY <1>1, <1>2, <1>3, <2>1, <2>2 DEF IInv, LayerInv
<1>6. CASE LookUp(r)
  <2>1. LayerOK(r)'
    BY <1>4, <1>6 DEF LookUp, LimiterFor, Goto, LayerOK, IsInfraPath, NoPath, NoStatus, Cut
  <2>2. RecordOK(r)'
    BY <1>4, <1>6 DEF LookUp, LimiterFor, Goto, RecordOK, LayerOK, Recorded, Status, NoStatus, Cut
  <2> QED
    BY <1>1, <1>2, <1>3, <2>1, <2>2 DEF IInv, LayerInv
<1>7. CASE Limit(r)
  <2>1. LayerOK(r)'
    BY <1>4, <1>7 DEF Limit, Allow, Reject, Goto, LayerOK, IsInfraPath, NoPath, NoStatus, Cut
  <2>2. RecordOK(r)'
    BY <1>4, <1>7 DEF Limit, Allow, Reject, Goto, RecordOK, LayerOK, Recorded, Status, NoStatus, Cut
  <2> QED
    BY <1>1, <1>2, <1>3, <2>1, <2>2 DEF IInv, LayerInv
<1>8. CASE Authenticate(r)
  <2>1. LayerOK(r)'
    BY <1>4, <1>8 DEF Authenticate, Reject, Goto, limiterVars, LayerOK, IsInfraPath, NoPath, NoStatus, Cut
  <2>2. RecordOK(r)'
    BY <1>4, <1>8 DEF Authenticate, Reject, Goto, limiterVars, RecordOK, LayerOK, Recorded, Status, NoStatus, Cut
  <2> QED
    BY <1>1, <1>2, <1>3, <2>1, <2>2 DEF IInv, LayerInv
<1>9. CASE Handle(r)
  <2>1. LayerOK(r)'
    BY <1>4, <1>9 DEF Handle, Goto, limiterVars, LayerOK, IsInfraPath, NoPath, NoStatus, Cut
  <2>2. RecordOK(r)'
    BY <1>4, <1>9 DEF Handle, Goto, limiterVars, RecordOK, LayerOK, Recorded, Status, NoStatus, Cut
  <2> QED
    BY <1>1, <1>2, <1>3, <2>1, <2>2 DEF IInv, LayerInv
<1>10. CASE HandlerPanics(r)
  <2>1. LayerOK(r)'
    BY <1>4, <1>10 DEF HandlerPanics, LayerAfterPanic, Goto, limiterVars, LayerOK, IsInfraPath, NoPath, NoStatus, Cut
  <2>2. RecordOK(r)'
    BY <1>4, <1>10 DEF HandlerPanics, LayerAfterPanic, Goto, limiterVars, RecordOK, LayerOK, Recorded, Status, NoStatus, Cut
  <2> QED
    BY <1>1, <1>2, <1>3, <2>1, <2>2 DEF IInv, LayerInv
<1> QED
  BY <1>5, <1>6, <1>7, <1>8, <1>9, <1>10

\* A request is counted under the status that its client saw.
LEMMA CountInv == ASSUME IInv, NEW r \in Request, Count(r) PROVE IInv'
<1>1. /\ pc \in [Request -> Layer] /\ path \in [Request -> Path \cup {NoPath}]
      /\ requestsTotal \in [Path -> [Status -> Nat]]
      /\ LayerOK(r) /\ RecordOK(r) /\ pc[r] = "count"
  BY DEF IInv, TypeOK, LayerInv, Count
<1>2. /\ UNCHANGED <<limiterVars, verdict, path, took, status, answer, durations>>
      /\ pc' = [pc EXCEPT ![r] = "observe"]
  BY DEF Count, Goto, limiterVars
<1>3. path[r] \in Path
  BY <1>1 DEF LayerOK
<1>4. status[r] \in Status \cup {NoStatus}
  BY DEF IInv, TypeOK
<1>5. Recorded(r) \in Status
  BY <1>4 DEF Recorded, Status, NoStatus
<1>6. requestsTotal' = [requestsTotal EXCEPT ![path[r]][Recorded(r)] = @ + 1]
  BY DEF Count
<1>7. requestsTotal' \in [Path -> [Status -> Nat]]
  BY <1>1, <1>3, <1>5, <1>6
<1>8. TypeOK'
  BY <1>1, <1>2, <1>7 DEF IInv, TypeOK, LimiterTypeOK, limiterVars, Layer
<1>9. LayerInv'
  BY <1>1, <1>2 DEF IInv, LayerInv, LayerOK, RecordOK, Recorded
<1>10. ASSUME NEW p \in Path, NEW s \in Status
       PROVE  requestsTotal'[p][s] = Cardinality(Behind(p, s)')
  <2>1. requestsTotal[p][s] = Cardinality(Behind(p, s))
    BY DEF IInv, CountedAsAnswered, Behind
  <2>2. CASE p = path[r] /\ s = Recorded(r)
    <3>1. Behind(p, s)' = Behind(p, s) \cup {r}
      BY <1>1, <1>2, <2>2 DEF Behind, Counted, At, Recorded, RecordOK
    <3>2. r \notin Behind(p, s)
      BY <1>1 DEF Behind, Counted
    <3>3. Cardinality(Behind(p, s)') = Cardinality(Behind(p, s)) + 1
      BY <3>1, <3>2, BehindFinite, FS_AddElement
    <3>4. requestsTotal'[p][s] = requestsTotal[p][s] + 1
      BY <1>1, <1>3, <1>5, <1>6, <2>2
    <3> QED
      BY <2>1, <3>3, <3>4
  <2>3. CASE ~ (p = path[r] /\ s = Recorded(r))
    <3>1. r \notin Behind(p, s)'
      BY <1>1, <1>2, <1>5, <2>3 DEF Behind, Counted, At, Recorded, RecordOK, Status, Cut
    <3>2. Behind(p, s)' = Behind(p, s)
      BY <1>1, <1>2, <3>1 DEF Behind, Counted, At, Recorded
    <3>3. requestsTotal'[p][s] = requestsTotal[p][s]
      BY <1>1, <1>3, <1>5, <1>6, <2>3
    <3> QED
      BY <2>1, <3>2, <3>3
  <2> QED
    BY <2>2, <2>3
<1>11. CountedAsAnswered'
  BY <1>10 DEF CountedAsAnswered, Behind
<1> QED
  BY <1>8, <1>9, <1>11 DEF IInv

\* The histogram is filled in a step of its own.
LEMMA ObserveInv == ASSUME IInv, NEW r \in Request, Observe(r) PROVE IInv'
<1>1. /\ pc \in [Request -> Layer] /\ DOMAIN durations = Path
      /\ LayerInv /\ pc[r] = "observe"
  BY DEF IInv, TypeOK, Observe
<1>2. /\ UNCHANGED <<limiterVars, verdict, path, took, status, answer, requestsTotal>>
      /\ pc' = [pc EXCEPT ![r] = "done"]
      /\ DOMAIN durations' = DOMAIN durations
  BY DEF Observe, Goto, limiterVars
<1>3. TypeOK'
  BY <1>1, <1>2 DEF IInv, TypeOK, LimiterTypeOK, limiterVars, Layer
<1>4. LayerInv'
  BY <1>1, <1>2 DEF LayerInv, LayerOK, RecordOK, Recorded
<1>5. CountedAsAnswered'
  BY <1>1, <1>2, NobodyCounted DEF IInv, IsCounted
<1> QED
  BY <1>3, <1>4, <1>5 DEF IInv

\* Time and the cleanup leave every request where it is.
LEMMA BackgroundInv == ASSUME IInv, LimiterTypeOK', Background PROVE IInv'
<1>1. UNCHANGED <<pc, path, took, status, answer, requestsTotal, durations>>
  BY DEF Background, requestVars, registryVars
<1>2. UNCHANGED verdict
  BY DEF Background, Tick, PruneIdle
<1>3. TypeOK'
  BY <1>1 DEF IInv, TypeOK
<1>4. LayerInv'
  BY <1>1, <1>2 DEF IInv, LayerInv, LayerOK, RecordOK, Recorded
<1>5. CountedAsAnswered'
  BY <1>1, NobodyCounted DEF IInv, IsCounted
<1> QED
  BY <1>3, <1>4, <1>5 DEF IInv

LEMMA StepInv == IInv /\ LimiterTypeOK' /\ [Next]_vars => IInv'
<1> SUFFICES ASSUME IInv, LimiterTypeOK', [Next]_vars PROVE IInv'
  OBVIOUS
<1>1. CASE Background
  BY <1>1, BackgroundInv
<1>2. CASE \E r \in Request : Step(r)
  <2>1. PICK r \in Request : Step(r)
    BY <1>2
  <2>2. CASE Count(r)
    BY <2>2, CountInv
  <2>3. CASE Observe(r)
    BY <2>3, ObserveInv
  <2>4. CASE ~ (Count(r) \/ Observe(r))
    BY <2>1, <2>4, InnerInv DEF Step
  <2> QED
    BY <2>2, <2>3, <2>4
<1>3. CASE UNCHANGED vars
  <2>1. UNCHANGED <<pc, path, took, status, answer, requestsTotal, durations, verdict>>
    BY <1>3 DEF vars, limiterVars, requestVars, registryVars
  <2>2. TypeOK'
    BY <2>1 DEF IInv, TypeOK
  <2>3. LayerInv'
    BY <2>1 DEF IInv, LayerInv, LayerOK, RecordOK, Recorded
  <2>4. CountedAsAnswered'
    BY <2>1, NobodyCounted DEF IInv, IsCounted
  <2> QED
    BY <2>2, <2>3, <2>4 DEF IInv
<1> QED
  BY <1>1, <1>2, <1>3 DEF Next

LEMMA InitIInv == Init => IInv
<1> SUFFICES ASSUME Init PROVE IInv
  OBVIOUS
<1>1. LimiterTypeOK
  BY InitInv DEF Init, LimiterInv
<1>2. TypeOK
  BY <1>1 DEF Init, TypeOK, Layer, NoPath, NoStatus, Status
<1>3. LayerInv
  BY DEF Init, LayerInv, LayerOK, RecordOK, IsInfraPath, NoPath, NoStatus
<1>4. \A p, s : Behind(p, s) = {}
  BY DEF Init, Behind, Counted
<1>5. CountedAsAnswered
  BY <1>4, FS_EmptySet DEF Init, CountedAsAnswered, Behind
<1> QED
  BY <1>2, <1>3, <1>5 DEF IInv

\* The limiter's own theorem gives the type of its variables.
LEMMA Always == Spec => []IInv
BY InitIInv, StepInv, PipelineRunsLimiter, LimiterTypeCorrect, PTL DEF Spec

\* Everything has its type, in the limiter and around it.
THEOREM TypeCorrect == Spec => []TypeOK
<1>1. IInv => TypeOK
  BY DEF IInv
<1> QED
  BY <1>1, Always, PTL

\* However many requests there are and however they interleave, the counters
\* of the registry are the answers that were given, those after a panic
\* left out.
THEOREM CountersCorrect == Spec => []CountedAsAnswered
<1>1. IInv => CountedAsAnswered
  BY DEF IInv
<1> QED
  BY <1>1, Always, PTL

\* Infrastructure is never throttled, and everything else passes the limiter
\* before it is authenticated, handled or turned away.
THEOREM ThrottlingCorrect == Spec => []ThrottledUnlessInfra
<1>1. IInv => ThrottledUnlessInfra
  BY DEF IInv, LayerInv, LayerOK, ThrottledUnlessInfra
<1> QED
  BY <1>1, Always, PTL

\* What is proved of the limiter holds in the pipeline: whatever the other
\* layers do, the map stays bounded and the recommended wait suffices.
THEOREM LimiterInPipeline == Spec => [](MemoryBounded /\ RetryAfterSuffices)
BY PipelineRunsLimiter, MapStaysBounded, WaitSuffices, PTL

\* In the pipeline, too, every client has one everlasting bucket, provided a
\* bucket fills up within the idle timeout.
THEOREM PipelineImplementsTokenBucket == BucketFits => (Spec => ImplementsTokenBucket)
BY PipelineRunsLimiter, Refinement, PTL

----------------------------------------------------------------------------
(* The histogram.                                                          *)

\* The bounds are numbers, in ascending order.
LEMMA BoundsAscend ==
    /\ Len(DurationBuckets) = 11 /\ DOMAIN DurationBuckets = 1..11
    /\ \A i \in 1..11 : DurationBuckets[i] \in Nat
    /\ \A i \in 1..10 : DurationBuckets[i] <= DurationBuckets[i + 1]
<1>1. \A i \in 1..11 : i = 1 \/ i = 2 \/ i = 3 \/ i = 4 \/ i = 5 \/ i = 6 \/ i = 7
                       \/ i = 8 \/ i = 9 \/ i = 10 \/ i = 11
  OBVIOUS
<1> QED
  BY <1>1 DEF DurationBuckets

LEMMA DoneFinite ==
    ASSUME NEW p
    PROVE  /\ IsFiniteSet(At(p)) /\ IsFiniteSet(DoneAt(p))
           /\ \A bound : IsFiniteSet(Within(p, bound))
BY FS_Subset, PipelineAssumption DEF At, DoneAt, Within

\* A step at the end of which the same requests are done, after the same time.
LEMMA NobodyObserved ==
    ASSUME HistogramInv, UNCHANGED durations,
           \A q \in Request :
               /\ pc'[q] = "done" <=> pc[q] = "done"
               /\ pc[q] = "done" => path'[q] = path[q] /\ took'[q] = took[q]
               /\ answer'[q] = Cut <=> took'[q] > WriteTimeout
    PROVE  HistogramInv'
<1>1. \A p : DoneAt(p)' = DoneAt(p)
  BY DEF DoneAt, At
<1>2. \A p, bound : Within(p, bound)' = Within(p, bound)
  BY DEF Within, DoneAt, At
<1> QED
  BY <1>1, <1>2 DEF HistogramInv

LEMMA HistogramInit == Init => HistogramInv
<1> SUFFICES ASSUME Init PROVE HistogramInv
  OBVIOUS
<1>1. \A r \in Request : answer[r] = Cut <=> took[r] > WriteTimeout
  BY PipelineAssumption DEF Init, Cut, NoStatus
<1>2. \A p : DoneAt(p) = {} /\ \A bound : Within(p, bound) = {}
  BY DEF Init, DoneAt, Within, At
<1>3. \A p \in Path : /\ durations[p].count = 0
                      /\ \A i \in DOMAIN DurationBuckets : durations[p].buckets[i] = 0
  BY DEF Init, EmptyHistogram
<1> QED
  BY <1>1, <1>2, <1>3, FS_EmptySet DEF HistogramInv

\* A response is cut off exactly when the handler took too long.
LEMMA HistogramInner ==
    ASSUME IInv, LimiterTypeOK', HistogramInv, NEW r \in Request,
           Arrive(r) \/ LookUp(r) \/ Limit(r) \/ Authenticate(r) \/ Handle(r) \/ HandlerPanics(r)
    PROVE  HistogramInv'
<1>1. /\ took \in [Request -> Duration \cup {0}]
      /\ status \in [Request -> Status \cup {NoStatus}]
      /\ answer \in [Request -> Status \cup {NoStatus, Cut}]
      /\ answer[r] = NoStatus
      /\ answer[r] = Cut <=> took[r] > WriteTimeout
  BY InnerStep DEF IInv, TypeOK, LayerInv, LayerOK, HistogramInv
<1>2. answer'[r] = Cut <=> took'[r] > WriteTimeout
  <2>1. CASE Arrive(r) \/ LookUp(r)
    BY <1>1, <2>1 DEF Arrive, LookUp
  <2>2. CASE Limit(r) \/ Authenticate(r)
    BY <1>1, <2>2 DEF Limit, Authenticate, Reject, Cut, NoStatus
  <2>3. CASE Handle(r)
    BY <1>1, <2>3 DEF Handle, Cut, NoStatus
  <2>4. CASE HandlerPanics(r)
    BY <1>1, <2>4 DEF HandlerPanics, Cut, NoStatus
  <2> QED
    BY <2>1, <2>2, <2>3, <2>4
<1>3. \A q \in Request : answer'[q] = Cut <=> took'[q] > WriteTimeout
  BY <1>2, InnerStep DEF HistogramInv
<1>4. \A q \in Request : /\ pc'[q] = "done" <=> pc[q] = "done"
                         /\ pc[q] = "done" => path'[q] = path[q] /\ took'[q] = took[q]
  BY InnerStep
<1> QED
  BY <1>3, <1>4, InnerStep, NobodyObserved

LEMMA HistogramCount ==
    ASSUME IInv, HistogramInv, NEW r \in Request, Count(r)
    PROVE  HistogramInv'
<1>1. /\ pc \in [Request -> Layer] /\ pc[r] = "count" /\ pc' = [pc EXCEPT ![r] = "observe"]
      /\ UNCHANGED <<path, took, answer, durations>>
  BY DEF IInv, TypeOK, Count, Goto
<1>2. \A q \in Request : /\ pc'[q] = "done" <=> pc[q] = "done"
                         /\ pc[q] = "done" => path'[q] = path[q] /\ took'[q] = took[q]
                         /\ answer'[q] = Cut <=> took'[q] > WriteTimeout
  BY <1>1 DEF HistogramInv
<1> QED
  BY <1>1, <1>2, NobodyObserved

\* The request that is done goes into the count and into every bucket whose
\* bound it did not exceed, and into no other.
LEMMA HistogramObserve ==
    ASSUME IInv, HistogramInv, NEW r \in Request, Observe(r)
    PROVE  HistogramInv'
<1>1. /\ pc \in [Request -> Layer] /\ pc[r] = "observe" /\ pc' = [pc EXCEPT ![r] = "done"]
      /\ UNCHANGED <<path, took, status, answer>>
      /\ durations' = [durations EXCEPT ![path[r]] = Observed(@, took[r])]
      /\ DOMAIN durations = Path
  BY DEF IInv, TypeOK, Observe, Goto
<1>2. \A q \in Request : answer'[q] = Cut <=> took'[q] > WriteTimeout
  BY <1>1 DEF HistogramInv
<1>3. ASSUME NEW p \in Path
      PROVE  /\ durations'[p].count = Cardinality(DoneAt(p)')
             /\ \A i \in DOMAIN DurationBuckets :
                    durations'[p].buckets[i] = Cardinality(Within(p, DurationBuckets[i])')
  <2>1. /\ durations[p].count = Cardinality(DoneAt(p))
        /\ \A i \in DOMAIN DurationBuckets :
               durations[p].buckets[i] = Cardinality(Within(p, DurationBuckets[i]))
    BY DEF HistogramInv
  <2>2. CASE p = path[r]
    <3>1. durations'[p] = Observed(durations[p], took[r])
      BY <1>1, <2>2
    <3>2. Cardinality(DoneAt(p)') = Cardinality(DoneAt(p)) + 1
      <4>1. DoneAt(p)' = DoneAt(p) \cup {r} /\ r \notin DoneAt(p)
        BY <1>1, <2>2 DEF DoneAt, At
      <4> QED
        BY <4>1, DoneFinite, FS_AddElement
    <3>3. durations'[p].count = Cardinality(DoneAt(p)')
      BY <2>1, <3>1, <3>2 DEF Observed
    <3>4. ASSUME NEW i \in DOMAIN DurationBuckets
          PROVE  durations'[p].buckets[i] = Cardinality(Within(p, DurationBuckets[i])')
      <4>1. durations'[p].buckets[i] =
              durations[p].buckets[i] + IF took[r] <= DurationBuckets[i] THEN 1 ELSE 0
        BY <3>1 DEF Observed
      <4>2. Cardinality(Within(p, DurationBuckets[i])) \in Nat
        BY DoneFinite, FS_CardinalityType
      <4>3. CASE took[r] <= DurationBuckets[i]
        <5>1. /\ Within(p, DurationBuckets[i])' = Within(p, DurationBuckets[i]) \cup {r}
              /\ r \notin Within(p, DurationBuckets[i])
          BY <1>1, <2>2, <4>3 DEF Within, DoneAt, At
        <5>2. Cardinality(Within(p, DurationBuckets[i])') = Cardinality(Within(p, DurationBuckets[i])) + 1
          BY <5>1, DoneFinite, FS_AddElement
        <5> QED
          BY <2>1, <4>1, <4>3, <5>2
      <4>4. CASE ~ (took[r] <= DurationBuckets[i])
        <5>1. Within(p, DurationBuckets[i])' = Within(p, DurationBuckets[i])
          BY <1>1, <2>2, <4>4 DEF Within, DoneAt, At
        <5> QED
          BY <2>1, <4>1, <4>2, <4>4, <5>1
      <4> QED
        BY <4>3, <4>4
    <3> QED
      BY <3>3, <3>4
  <2>3. CASE p # path[r]
    <3>1. durations'[p] = durations[p]
      BY <1>1, <2>3
    <3>2. DoneAt(p)' = DoneAt(p) /\ \A bound : Within(p, bound)' = Within(p, bound)
      BY <1>1, <2>3 DEF Within, DoneAt, At
    <3> QED
      BY <2>1, <3>1, <3>2
  <2> QED
    BY <2>2, <2>3
<1> QED
  BY <1>2, <1>3 DEF HistogramInv

LEMMA HistogramStep == IInv /\ LimiterTypeOK' /\ HistogramInv /\ [Next]_vars => HistogramInv'
<1> SUFFICES ASSUME IInv, LimiterTypeOK', HistogramInv, [Next]_vars PROVE HistogramInv'
  OBVIOUS
<1>1. ASSUME Background \/ UNCHANGED vars PROVE HistogramInv'
  <2>1. UNCHANGED <<pc, path, took, answer, durations>>
    BY <1>1 DEF Background, vars, requestVars, registryVars
  <2>2. \A q \in Request : answer'[q] = Cut <=> took'[q] > WriteTimeout
    BY <2>1 DEF HistogramInv
  <2> QED
    BY <2>1, <2>2, NobodyObserved
<1>2. ASSUME NEW r \in Request, Step(r) PROVE HistogramInv'
  BY <1>2, HistogramInner, HistogramCount, HistogramObserve DEF Step
<1> QED
  BY <1>1, <1>2 DEF Next

\* At every path and for every write timeout, each bucket holds exactly the
\* recorded requests that took no longer than its bound.
THEOREM HistogramExact == Spec => []HistogramInv
BY HistogramInit, HistogramStep, Always, PipelineRunsLimiter, LimiterTypeCorrect, PTL DEF Spec

\* Two sets without a common member.
LEMMA DisjointUnion ==
    ASSUME NEW S, NEW T, IsFiniteSet(S), IsFiniteSet(T), S \cap T = {}
    PROVE  /\ IsFiniteSet(S \cup T)
           /\ Cardinality(S \cup T) = Cardinality(S) + Cardinality(T)
<1>1. Cardinality(S \cap T) = 0
  BY FS_EmptySet
<1>2. Cardinality(S) \in Nat /\ Cardinality(T) \in Nat
  BY FS_CardinalityType
<1>3. /\ IsFiniteSet(S \cup T)
      /\ Cardinality(S \cup T) = Cardinality(S) + Cardinality(T) - Cardinality(S \cap T)
  BY FS_Union
<1> QED
  BY <1>1, <1>2, <1>3

LEMMA FiveParts ==
    ASSUME NEW A, NEW B, NEW C, NEW D, NEW E,
           IsFiniteSet(A), IsFiniteSet(B), IsFiniteSet(C), IsFiniteSet(D), IsFiniteSet(E),
           A \cap B = {}, (A \cup B) \cap C = {}, (A \cup B \cup C) \cap D = {},
           (A \cup B \cup C \cup D) \cap E = {}
    PROVE  Cardinality(A \cup B \cup C \cup D \cup E)
             = Cardinality(A) + Cardinality(B) + Cardinality(C) + Cardinality(D) + Cardinality(E)
<1>1. /\ IsFiniteSet(A \cup B)
      /\ Cardinality(A \cup B) = Cardinality(A) + Cardinality(B)
  BY DisjointUnion
<1>2. /\ IsFiniteSet(A \cup B \cup C)
      /\ Cardinality(A \cup B \cup C) = Cardinality(A \cup B) + Cardinality(C)
  BY <1>1, DisjointUnion
<1>3. /\ IsFiniteSet(A \cup B \cup C \cup D)
      /\ Cardinality(A \cup B \cup C \cup D) = Cardinality(A \cup B \cup C) + Cardinality(D)
  BY <1>2, DisjointUnion
<1>4. Cardinality(A \cup B \cup C \cup D \cup E)
        = Cardinality(A \cup B \cup C \cup D) + Cardinality(E)
  BY <1>3, DisjointUnion
<1> QED
  BY <1>1, <1>2, <1>3, <1>4, Zenon

\* Every recorded request is behind the counter of one status.
LEMMA TotalCounts ==
    ASSUME IInv, NEW p \in Path
    PROVE  Total(p) = Cardinality(Counted \cap At(p))
<1> DEFINE By(s) == {r \in Counted \cap At(p) : Recorded(r) = s}
<1>1. \A r \in Counted : Recorded(r) \in Status
  BY DEF IInv, TypeOK, Counted, Recorded, Status, NoStatus
<1>2. \A s \in Status : Behind(p, s) = By(s)
  <2>1. \A r \in Counted : answer[r] \in {Recorded(r), Cut}
    BY DEF IInv, LayerInv, RecordOK, Counted
  <2>2. Cut \notin Status
    BY DEF Cut, Status
  <2> QED
    BY <2>1, <2>2 DEF Behind
<1>3. \A s \in Status : requestsTotal[p][s] = Cardinality(By(s))
  BY <1>2 DEF IInv, CountedAsAnswered, Behind
<1>4. \A s : IsFiniteSet(By(s))
  BY FS_Subset, PipelineAssumption DEF Counted
<1>6. Counted \cap At(p) = By(200) \cup By(401) \cup By(404) \cup By(429) \cup By(500)
  BY <1>1 DEF Status
<1>7. Total(p) = Cardinality(By(200)) + Cardinality(By(401)) + Cardinality(By(404))
                    + Cardinality(By(429)) + Cardinality(By(500))
  BY <1>3 DEF Total, Status
<1>8. /\ IsFiniteSet(By(200)) /\ IsFiniteSet(By(401)) /\ IsFiniteSet(By(404))
      /\ IsFiniteSet(By(429)) /\ IsFiniteSet(By(500))
  BY <1>4
<1>9. /\ By(200) \cap By(401) = {}
      /\ (By(200) \cup By(401)) \cap By(404) = {}
      /\ (By(200) \cup By(401) \cup By(404)) \cap By(429) = {}
      /\ (By(200) \cup By(401) \cup By(404) \cup By(429)) \cap By(500) = {}
  OBVIOUS
<1> HIDE DEF By
<1> QED
  BY <1>6, <1>7, <1>8, <1>9, FiveParts

\* The default: server.write_timeout is the last bound of the histogram.
DefaultWriteTimeout == WriteTimeout = DurationBuckets[Len(DurationBuckets)]

LEMMA TookIsNat == ASSUME TypeOK, NEW r \in Request PROVE took[r] \in Nat
<1>1. took[r] \in Duration \cup {0}
  BY DEF TypeOK
<1>2. Duration \subseteq Nat
  BY PipelineAssumption
<1>3. 0 \in Nat
  OBVIOUS
<1> QED
  BY <1>1, <1>2, <1>3, Zenon

LEMMA HistogramRight ==
    ASSUME DefaultWriteTimeout, IInv, HistogramInv
    PROVE  HistogramAgrees
<1>0. Len(DurationBuckets) = 11 /\ Len(DurationBuckets) - 1 = 10
  BY BoundsAscend
<1> SUFFICES ASSUME NEW p \in Path
             PROVE  /\ Total(p) - durations[p].count
                          = Cardinality({r \in At(p) : pc[r] = "observe"})
                    /\ \A i \in 1..10 : durations[p].buckets[i] <= durations[p].buckets[i + 1]
                    /\ durations[p].count - durations[p].buckets[11]
                          = Cardinality({r \in At(p) : pc[r] = "done" /\ answer[r] = Cut})
  BY <1>0, Zenon DEF HistogramAgrees
<1>1. durations[p].count = Cardinality(DoneAt(p)) /\ Cardinality(DoneAt(p)) \in Nat
  BY DoneFinite, FS_CardinalityType DEF HistogramInv
<1>2. \A i \in 1..11 : durations[p].buckets[i] = Cardinality(Within(p, DurationBuckets[i]))
  BY BoundsAscend DEF HistogramInv
<1>3. Total(p) - durations[p].count = Cardinality({r \in At(p) : pc[r] = "observe"})
  <2> DEFINE observing == {r \in At(p) : pc[r] = "observe"}
  <2>1. Counted \cap At(p) = DoneAt(p) \cup observing /\ DoneAt(p) \cap observing = {}
    BY DEF Counted, At, DoneAt
  <2>2. IsFiniteSet(observing)
    BY DoneFinite, FS_Subset
  <2> HIDE DEF observing
  <2>3. Cardinality(Counted \cap At(p)) = Cardinality(DoneAt(p)) + Cardinality(observing)
    BY <2>1, <2>2, DoneFinite, DisjointUnion
  <2>4. Cardinality(observing) \in Nat
    BY <2>2, FS_CardinalityType
  <2>5. Total(p) - durations[p].count = Cardinality(observing)
    BY <1>1, <2>3, <2>4, TotalCounts
  <2> QED
    BY <2>5 DEF observing
<1>4. ASSUME NEW i \in 1..10
      PROVE  durations[p].buckets[i] <= durations[p].buckets[i + 1]
  <2>1. i \in 1..11 /\ i + 1 \in 1..11
    OBVIOUS
  <2>2. \A r \in Request : took[r] \in Nat
    BY TookIsNat DEF IInv
  <2>3. Within(p, DurationBuckets[i]) \subseteq Within(p, DurationBuckets[i + 1])
    <3>1. \A a, b, c \in Nat : a <= b /\ b <= c => a <= c
      OBVIOUS
    <3>2. \A r \in Request : took[r] <= DurationBuckets[i] => took[r] <= DurationBuckets[i + 1]
      BY <2>1, <2>2, <3>1, BoundsAscend
    <3> QED
      BY <3>2 DEF Within, DoneAt, At
  <2>4. Cardinality(Within(p, DurationBuckets[i])) <= Cardinality(Within(p, DurationBuckets[i + 1]))
    BY <2>3, DoneFinite, FS_Subset
  <2> QED
    BY <1>2, <2>1, <2>4
<1>5. durations[p].count - durations[p].buckets[11]
        = Cardinality({r \in At(p) : pc[r] = "done" /\ answer[r] = Cut})
  <2> DEFINE within == Within(p, DurationBuckets[11])
             above  == {r \in At(p) : pc[r] = "done" /\ answer[r] = Cut}
  <2>1. WriteTimeout = DurationBuckets[11]
    BY BoundsAscend DEF DefaultWriteTimeout
  <2>2. \A r \in Request : answer[r] = Cut <=> ~ (took[r] <= DurationBuckets[11])
    <3>1. \A r \in Request : took[r] \in Nat
      BY TookIsNat DEF IInv
    <3>2. \A a, b \in Nat : a > b <=> ~ (a <= b)
      OBVIOUS
    <3> QED
      BY <2>1, <3>1, <3>2, PipelineAssumption DEF HistogramInv
  <2>3. DoneAt(p) = within \cup above /\ within \cap above = {}
    BY <2>2 DEF Within, DoneAt, At
  <2>4. IsFiniteSet(within) /\ IsFiniteSet(above)
    BY DoneFinite, FS_Subset
  <2>5. durations[p].buckets[11] = Cardinality(within)
    BY <1>2
  <2> HIDE DEF within, above
  <2>6. Cardinality(DoneAt(p)) = Cardinality(within) + Cardinality(above)
    BY <2>3, <2>4, DisjointUnion
  <2>7. Cardinality(within) \in Nat /\ Cardinality(above) \in Nat
    BY <2>4, FS_CardinalityType
  <2>8. durations[p].count - durations[p].buckets[11] = Cardinality(above)
    BY <1>1, <2>5, <2>6, <2>7
  <2> QED
    BY <2>8 DEF above
<1> QED
  BY <1>3, <1>4, <1>5

\* Under the default write timeout: counters and histogram differ by the
\* requests between their two updates, the buckets are cumulative, and above
\* the last of them are the responses that were cut off.
THEOREM HistogramCorrect == DefaultWriteTimeout => (Spec => []HistogramAgrees)
<1> SUFFICES ASSUME DefaultWriteTimeout PROVE Spec => []HistogramAgrees
  OBVIOUS
<1>1. IInv /\ HistogramInv => HistogramAgrees
  BY HistogramRight
<1> QED
  BY <1>1, Always, HistogramExact, PTL
=============================================================================

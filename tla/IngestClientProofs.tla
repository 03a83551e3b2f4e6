------------------------- MODULE IngestClientProofs -------------------------
(***************************************************************************)
(* Theorems about what stands beside the request path of the client, for   *)
(* any tasks, processes and settings: the token bucket keeps its rate, and *)
(* no payload of the caches is older than both TTLs and both waits.        *)
(***************************************************************************)
EXTENDS TokenBucket, ResponseCache, SequenceTheorems, TLAPS

\* A token is either still in the bucket or was handed out: what was handed
\* out since t and what is left stay within a full bucket and the inflow.
RateAccount ==
    \A t \in 0 .. bucketNow :
        TokenCost * taken[t] + Refilled <= BucketCapacity * TokenCost + RefillRate * (bucketNow - t)

FutureIsUntouched == \A t \in BucketTimes : t > bucketNow => taken[t] = 0

BucketInv == BucketTypeOK /\ FutureIsUntouched /\ RateAccount

-----------------------------------------------------------------------------
LEMMA RefilledBounds ==
    ASSUME BucketTypeOK
    PROVE  /\ BucketCapacity * TokenCost \in Nat
           /\ (bucketNow - lastRefill) * RefillRate \in Nat
           /\ Refilled \in 0 .. BucketCapacity * TokenCost
<1> DEFINE full == BucketCapacity * TokenCost
           inflow == (bucketNow - lastRefill) * RefillRate
<1>1. full \in Nat
  BY BucketAssumption
<1>2. bucketNow - lastRefill \in Nat /\ RefillRate \in Nat
  BY BucketAssumption DEF BucketTypeOK, BucketTimes
<1>3. inflow \in Nat
  BY <1>2
<1>4. tokens \in 0 .. full
  BY DEF BucketTypeOK
<1>5. Refilled = IF tokens + inflow < full THEN tokens + inflow ELSE full
  BY DEF Refilled
<1> HIDE DEF full, inflow
<1>6. Refilled \in 0 .. full
  BY <1>1, <1>3, <1>4, <1>5
<1> QED
  BY <1>1, <1>3, <1>6 DEF full, inflow

\* A refill that has just been counted in is not counted again.
LEMMA JustRefilled ==
    ASSUME BucketTypeOK, NEW level \in 0 .. BucketCapacity * TokenCost,
           tokens' = level, lastRefill' = bucketNow, bucketNow' = bucketNow
    PROVE  Refilled' = level
<1>1. (bucketNow' - lastRefill') * RefillRate = 0
  BY BucketAssumption DEF BucketTypeOK, BucketTimes
<1>2. BucketCapacity * TokenCost \in Nat
  BY RefilledBounds
<1> QED
  BY <1>1, <1>2 DEF Refilled

LEMMA BucketInitInv == BucketInit => BucketInv
<1> SUFFICES ASSUME BucketInit PROVE BucketInv
  OBVIOUS
<1>1. BucketTypeOK
  <2>1. BucketCapacity * TokenCost \in Nat
    BY BucketAssumption
  <2> QED
    BY <2>1, BucketAssumption DEF BucketInit, BucketTypeOK, BucketTimes
<1>2. FutureIsUntouched
  BY DEF BucketInit, FutureIsUntouched
<1>3. RateAccount
  <2> SUFFICES ASSUME NEW t \in 0 .. bucketNow
               PROVE  TokenCost * taken[t] + Refilled
                         <= BucketCapacity * TokenCost + RefillRate * (bucketNow - t)
    BY DEF RateAccount
  <2>1. t = 0 /\ bucketNow = 0 /\ taken[t] = 0
    BY BucketAssumption DEF BucketInit, BucketTimes
  <2>2. Refilled \in 0 .. BucketCapacity * TokenCost
    BY <1>1, RefilledBounds
  <2>3. TokenCost * taken[t] = 0 /\ RefillRate * (bucketNow - t) = 0
    BY <2>1, BucketAssumption
  <2> HIDE DEF BucketInit
  <2> QED
    BY <2>2, <2>3, <1>1, RefilledBounds
<1> QED
  BY <1>1, <1>2, <1>3 DEF BucketInv

(***************************************************************************)
(* Every step keeps the account.                                           *)
(***************************************************************************)
LEMMA BucketStep == BucketInv /\ [BucketNext]_bucketVars => BucketInv'
<1> SUFFICES ASSUME BucketInv, [BucketNext]_bucketVars PROVE BucketInv'
  OBVIOUS
<1>a. BucketTypeOK /\ FutureIsUntouched /\ RateAccount
  BY DEF BucketInv
<1> DEFINE full == BucketCapacity * TokenCost
<1>b. full \in Nat /\ Refilled \in 0 .. full
  BY <1>a, RefilledBounds
<1>c. /\ TokenCost \in Nat /\ TokenCost > 0 /\ RefillRate \in Nat /\ BucketHorizon \in Nat
      /\ bucketNow \in Nat /\ bucketNow <= BucketHorizon /\ \A t \in BucketTimes : taken[t] \in Nat
  BY <1>a, BucketAssumption DEF BucketTypeOK, BucketTimes
<1>1. CASE BucketTick
  <2>1. /\ bucketNow < BucketHorizon /\ bucketNow' = bucketNow + 1
        /\ UNCHANGED <<tokens, lastRefill, wakeAt, taken>>
    BY <1>1 DEF BucketTick
  <2>2. BucketTypeOK'
    BY <2>1, <1>a, <1>c DEF BucketTypeOK, BucketTimes
  <2>3. FutureIsUntouched'
    BY <2>1, <1>a, <1>c DEF FutureIsUntouched, BucketTimes
  <2>4. Refilled' <= Refilled + RefillRate /\ Refilled' \in 0 .. full
    <3> DEFINE inflow == (bucketNow - lastRefill) * RefillRate
    <3>1. inflow \in Nat /\ tokens \in Nat
      BY <1>a, RefilledBounds DEF BucketTypeOK
    <3>2. inflow' = inflow + RefillRate
      BY <2>1, <1>a, <1>c DEF BucketTypeOK
    <3>3. /\ Refilled = IF tokens + inflow < full THEN tokens + inflow ELSE full
          /\ Refilled' = IF tokens + inflow' < full THEN tokens + inflow' ELSE full
      BY <2>1 DEF Refilled
    <3> HIDE DEF inflow, full
    <3> QED
      BY <3>1, <3>2, <3>3, <1>b, <1>c
  <2>5. ASSUME NEW t \in 0 .. bucketNow'
        PROVE  TokenCost * taken'[t] + Refilled' <= full + RefillRate * (bucketNow' - t)
    <3>1. CASE t \in 0 .. bucketNow
      <4> DEFINE flow == RefillRate * (bucketNow - t)
      <4>1. TokenCost * taken[t] + Refilled <= full + flow
        BY <3>1, <1>a DEF RateAccount
      <4>2. RefillRate * (bucketNow' - t) = flow + RefillRate
        BY <2>1, <1>c, <3>1
      <4>3. TokenCost * taken[t] \in Nat /\ flow \in Nat
        <5>1. t \in BucketTimes
          BY <3>1, <1>c DEF BucketTimes
        <5>2. taken[t] \in Nat /\ bucketNow - t \in Nat
          BY <5>1, <3>1, <1>c
        <5> QED
          BY <5>2, <1>c
      <4> DEFINE spent == TokenCost * taken[t]
      <4> HIDE DEF flow, full, spent
      <4>4. spent + Refilled <= full + flow /\ spent \in Nat /\ flow \in Nat
        BY <4>1, <4>3 DEF spent
      <4>5. spent + Refilled' <= full + (flow + RefillRate)
        <5>1. \A p, q, r, f, g, k \in Nat : p + q <= f + g /\ r <= q + k => p + r <= f + (g + k)
          OBVIOUS
        <5>2. Refilled \in Nat /\ Refilled' \in Nat /\ full \in Nat /\ RefillRate \in Nat
          BY <2>4, <1>b, <1>c
        <5>3. Refilled' <= Refilled + RefillRate
          BY <2>4
        <5> QED
          BY <4>4, <5>1, <5>2, <5>3, Zenon
      <4> QED
        BY <4>2, <4>5, <2>1 DEF spent
    <3>2. CASE t = bucketNow + 1
      <4>1. taken[t] = 0
        BY <3>2, <2>1, <1>a, <1>c DEF FutureIsUntouched, BucketTimes
      <4>2. TokenCost * taken'[t] = 0 /\ RefillRate * (bucketNow' - t) = 0
        BY <4>1, <3>2, <2>1, <1>c
      <4> HIDE DEF full
      <4> QED
        BY <4>2, <2>4, <1>b
    <3> QED
      BY <3>1, <3>2, <2>1, <1>c
  <2> QED
    BY <2>2, <2>3, <2>5 DEF BucketInv, RateAccount
<1>2. ASSUME NEW w \in Takers, Take(w) PROVE BucketInv'
  <2>1. /\ Refilled >= TokenCost /\ tokens' = Refilled - TokenCost /\ lastRefill' = bucketNow
        /\ wakeAt' = [wakeAt EXCEPT ![w] = 0] /\ bucketNow' = bucketNow
        /\ taken' = [t \in BucketTimes |-> IF t <= bucketNow THEN taken[t] + 1 ELSE taken[t]]
    BY <1>2 DEF Take
  <2>2. Refilled - TokenCost \in 0 .. full
    <3> HIDE DEF full
    <3> QED
      BY <2>1, <1>b, <1>c
  <2>3. BucketTypeOK'
    BY <2>1, <2>2, <1>a, <1>c DEF BucketTypeOK, BucketTimes
  <2>4. Refilled' = Refilled - TokenCost
    BY <2>1, <2>2, <1>a, JustRefilled
  <2>5. FutureIsUntouched'
    BY <2>1, <1>a, <1>c DEF FutureIsUntouched, BucketTimes
  <2>6. ASSUME NEW t \in 0 .. bucketNow
        PROVE  TokenCost * taken'[t] + Refilled' <= full + RefillRate * (bucketNow' - t)
    <3>1. t \in BucketTimes
      BY <1>c DEF BucketTimes
    <3>2. taken'[t] = taken[t] + 1 /\ taken[t] \in Nat
      BY <2>1, <3>1, <1>c
    <3>3. TokenCost * taken'[t] = TokenCost * taken[t] + TokenCost /\ TokenCost * taken[t] \in Nat
      BY <3>2, <1>c
    <3>4. TokenCost * taken[t] + Refilled <= full + RefillRate * (bucketNow - t)
      BY <1>a DEF RateAccount
    <3> DEFINE spent == TokenCost * taken[t]
    <3>5. TokenCost * taken'[t] + Refilled' = spent + Refilled
      <4>1. TokenCost * taken'[t] = spent + TokenCost /\ spent \in Nat
        BY <3>3
      <4> HIDE DEF spent
      <4> QED
        BY <4>1, <2>4, <1>b, <1>c
    <3> QED
      BY <3>4, <3>5, <2>1
  <2> QED
    BY <2>1, <2>3, <2>5, <2>6 DEF BucketInv, RateAccount
\* Steps that leave the clock, what was taken and what the bucket holds alone.
<1>3. ASSUME Refilled' = Refilled, UNCHANGED <<bucketNow, taken>>, BucketTypeOK' PROVE BucketInv'
  BY <1>3, <1>a DEF BucketInv, RateAccount, FutureIsUntouched
<1>4. ASSUME NEW w \in Takers, Wait(w) PROVE BucketInv'
  <2>1. /\ Refilled < TokenCost /\ tokens' = Refilled /\ lastRefill' = bucketNow
        /\ wakeAt' = [wakeAt EXCEPT ![w] = bucketNow + Missing] /\ UNCHANGED <<bucketNow, taken>>
    BY <1>4 DEF Wait
  <2>2. Missing \in Nat
    <3>1. TokenCost - Refilled + RefillRate - 1 \in Nat /\ RefillRate \in Nat \ {0}
      BY <2>1, <1>b, <1>c, BucketAssumption
    <3> DEFINE lack == TokenCost - Refilled + RefillRate - 1
    <3> HIDE DEF lack
    <3>2. lack \div RefillRate \in Nat
      BY <3>1 DEF lack
    <3> QED
      BY <3>2 DEF Missing, lack
  <2>3. BucketTypeOK'
    BY <2>1, <2>2, <1>a, <1>b, <1>c DEF BucketTypeOK, BucketTimes
  <2>4. Refilled' = Refilled
    BY <2>1, <1>a, <1>b, JustRefilled
  <2> QED
    BY <2>1, <2>3, <2>4, <1>3
<1>5. ASSUME NEW w \in Takers, GiveUp(w) PROVE BucketInv'
  <2>1. BucketTypeOK' /\ Refilled' = Refilled /\ UNCHANGED <<bucketNow, taken>>
    BY <1>5, <1>a DEF GiveUp, BucketTypeOK, Refilled
  <2> QED
    BY <2>1, <1>3
<1>6. CASE UNCHANGED bucketVars
  <2>1. BucketTypeOK' /\ Refilled' = Refilled /\ UNCHANGED <<bucketNow, taken>>
    BY <1>6, <1>a DEF bucketVars, BucketTypeOK, Refilled
  <2> QED
    BY <2>1, <1>3
<1> QED
  BY <1>1, <1>2, <1>4, <1>5, <1>6 DEF BucketNext

LEMMA BucketInvariance == BucketSpec => []BucketInv
BY BucketInitInv, BucketStep, PTL DEF BucketSpec

-----------------------------------------------------------------------------
(***************************************************************************)
(* AsyncTokenBucket.acquire: over any stretch of time up to now, no more   *)
(* tokens are handed out than a full bucket and the inflow of that stretch *)
(* hold, for any number of tasks, any rate and any capacity.               *)
(***************************************************************************)
THEOREM BucketKeepsRate == BucketSpec => []RateHeld
<1>1. BucketInv => RateHeld
  <2> SUFFICES ASSUME BucketInv, NEW t \in 0 .. bucketNow
               PROVE  TokenCost * taken[t] <= BucketCapacity * TokenCost + RefillRate * (bucketNow - t)
    BY DEF RateHeld
  <2>1. Refilled >= 0 /\ Refilled \in Int /\ BucketCapacity * TokenCost \in Nat
    BY RefilledBounds DEF BucketInv
  <2>2. TokenCost * taken[t] + Refilled <= BucketCapacity * TokenCost + RefillRate * (bucketNow - t)
    BY DEF BucketInv, RateAccount
  <2>3. TokenCost * taken[t] \in Int /\ RefillRate * (bucketNow - t) \in Int
    <3>1. bucketNow \in Nat /\ bucketNow <= BucketHorizon /\ BucketHorizon \in Nat
      BY BucketAssumption DEF BucketInv, BucketTypeOK, BucketTimes
    <3>2. t \in BucketTimes
      BY <3>1 DEF BucketTimes
    <3>3. taken[t] \in Nat /\ bucketNow - t \in Int
      BY <3>1, <3>2 DEF BucketInv, BucketTypeOK
    <3> QED
      BY <3>3, BucketAssumption
  <2> QED
    BY <2>1, <2>2, <2>3
<1> QED
  BY BucketInvariance, <1>1, PTL

-----------------------------------------------------------------------------
(***************************************************************************)
(* The caches.  A copy that comes from Redis was stored there at its birth *)
(* and its delay.  What Redis holds expires within its TTL of that moment, *)
(* whenever the moment was; a local entry lives for its own TTL from an    *)
(* answer that was not expired when Redis gave it.                         *)
(***************************************************************************)
LocalSpan == RedisTtl + RedisTimeout + CacheTtl - 1

FreshEntry ==
    {e \in Entry : e.born + e.late <= cacheNow /\ e.expires <= e.born + e.late + LocalSpan}

LocalFresh == local \in [Processes -> Seq(FreshEntry)]

RedisFresh ==
    \A u \in Pages :
        /\ redis[u].born + redis[u].late <= cacheNow
        /\ redis[u].expires <= redis[u].born + redis[u].late + RedisTtl

\* However long a command is on its way, its payload was born before.
SentFresh == \A c \in sent : c.born <= cacheNow

AnswersFresh ==
    \A r \in Readers :
        /\ lookup[r].pc \in {"asking", "answered"} => lookup[r].since <= cacheNow
        /\ lookup[r].pc = "answered" =>
              /\ lookup[r].born + lookup[r].late <= cacheNow
              /\ lookup[r].since < lookup[r].born + lookup[r].late + RedisTtl

\* A lookup that is not over.
LookupOnTheWay ==
    [pc : {"asking", "answered", "fetching", "writing"}, url : Pages, since : Nat, born : Nat, late : Nat]

CacheInv ==
    /\ CacheTypeOK
    /\ LocalFresh
    /\ RedisFresh
    /\ SentFresh
    /\ AnswersFresh
    /\ StalenessBounded

LEMMA RedisTtlType == RedisTtl \in Nat /\ RedisTtl >= 1
<1> DEFINE seconds == IF CacheTtl < TicksPerSecond THEN 1 ELSE CacheTtl \div TicksPerSecond
<1>1. seconds \in Nat /\ seconds >= 1
  <2>1. CacheTtl \in Nat /\ TicksPerSecond \in Nat /\ TicksPerSecond >= 1
    BY CacheAssumption
  <2>2. CASE CacheTtl < TicksPerSecond
    BY <2>2
  <2>3. CASE CacheTtl >= TicksPerSecond
    BY <2>1, <2>3
  <2> QED
    BY <2>1, <2>2, <2>3
<1> HIDE DEF seconds
<1>2. TicksPerSecond * seconds \in Nat /\ TicksPerSecond * seconds >= 1
  BY <1>1, CacheAssumption
<1> QED
  BY <1>2 DEF RedisTtl, seconds

\* The settings as the steps below use them.
LEMMA CacheNumbers ==
    /\ RedisTtl \in Nat /\ RedisTimeout \in Nat /\ CacheTtl \in Nat
    /\ CacheTtl >= 1 /\ RedisTtl >= 1
BY RedisTtlType, CacheAssumption

(***************************************************************************)
(* Entries that stay in a local cache, whatever their order.               *)
(***************************************************************************)
LEMMA WithoutKeeps ==
    ASSUME NEW S, NEW s \in Seq(S), NEW i \in 1 .. Len(s)
    PROVE  Without(s, i) \in Seq(S)
<1>1. Len(s) \in Nat /\ \A j \in 1 .. Len(s) : s[j] \in S
  OBVIOUS
<1>2. \A j \in 1 .. i - 1 : s[j] \in S
  BY <1>1
<1>3. \A j \in i + 1 .. Len(s) : s[j] \in S
  BY <1>1
<1>4. SubSeq(s, 1, i - 1) \in Seq(S)
  BY <1>1, <1>2, SubSeqProperties
<1>5. SubSeq(s, i + 1, Len(s)) \in Seq(S)
  BY <1>1, <1>3, SubSeqProperties
<1> QED
  BY <1>4, <1>5, ConcatProperties DEF Without

LEMMA CompactedKeeps ==
    ASSUME NEW S, NEW s \in Seq(S)
    PROVE  Compacted(s) \in Seq(S)
<1>1. Len(s) \in Nat /\ \A j \in 1 .. Len(s) : s[j] \in S
  OBVIOUS
<1>2. CASE Len(s) > MaxEntries
  <2>1. \A j \in Len(s) - MaxEntries + 1 .. Len(s) : s[j] \in S
    BY <1>1, <1>2, CacheAssumption
  <2>2. SubSeq(s, Len(s) - MaxEntries + 1, Len(s)) \in Seq(S)
    BY <1>1, <2>1, CacheAssumption, SubSeqProperties
  <2> QED
    BY <1>2, <2>2 DEF Compacted
<1>3. CASE ~ (Len(s) > MaxEntries)
  BY <1>3 DEF Compacted
<1> QED
  BY <1>2, <1>3

LEMMA PlacesFound ==
    ASSUME NEW p, NEW u, At(p, u) # {}
    PROVE  (CHOOSE i \in At(p, u) : TRUE) \in 1 .. Len(local[p])
BY DEF At

LEMMA PoppedKeeps ==
    ASSUME NEW S, NEW p, local[p] \in Seq(S), NEW u
    PROVE  Popped(p, u) \in Seq(S)
<1>1. CASE At(p, u) = {}
  BY <1>1 DEF Popped
<1>2. CASE At(p, u) # {}
  BY <1>2, PlacesFound, WithoutKeeps DEF Popped
<1> QED
  BY <1>1, <1>2

LEMMA AssignedKeeps ==
    ASSUME NEW S, NEW p, local[p] \in Seq(S), NEW e \in S
    PROVE  Assigned(p, e) \in Seq(S)
<1>1. CASE At(p, e.url) = {}
  BY <1>1, AppendProperties DEF Assigned
<1>2. CASE At(p, e.url) # {}
  <2> DEFINE i == CHOOSE i \in At(p, e.url) : TRUE
  <2>1. i \in 1 .. Len(local[p])
    BY <1>2, PlacesFound
  <2>2. Assigned(p, e) = [local[p] EXCEPT ![i] = e]
    BY <1>2 DEF Assigned
  <2> HIDE DEF i
  <2>3. [local[p] EXCEPT ![i] = e] \in Seq(S)
    BY <2>1
  <2> QED
    BY <2>2, <2>3
<1> QED
  BY <1>1, <1>2

\* One process's cache is replaced by entries that are fresh, too.
LEMMA LocalReplaced ==
    ASSUME LocalFresh, NEW p \in Processes, NEW s \in Seq(FreshEntry),
           local' = [local EXCEPT ![p] = s], cacheNow' = cacheNow
    PROVE  LocalFresh' /\ local' \in [Processes -> Seq(Entry)]
<1>1. FreshEntry' = FreshEntry
  BY DEF FreshEntry, Entry
<1>2. local' \in [Processes -> Seq(FreshEntry)]
  BY DEF LocalFresh
<1>3. Seq(FreshEntry) \subseteq Seq(Entry)
  BY DEF FreshEntry
<1> QED
  BY <1>1, <1>2, <1>3 DEF LocalFresh

LEMMA CacheInitInv == CacheInit => CacheInv
<1> SUFFICES ASSUME CacheInit PROVE CacheInv
  OBVIOUS
<1>1. CacheTypeOK
  BY DEF CacheInit, CacheTypeOK, Nothing, Lookup
<1>2. LocalFresh
  BY DEF CacheInit, LocalFresh
<1>3. RedisFresh /\ SentFresh /\ AnswersFresh
  BY CacheNumbers DEF CacheInit, RedisFresh, Nothing, SentFresh, AnswersFresh, NoLookup
<1>4. StalenessBounded
  BY CacheNumbers DEF CacheInit, StalenessBounded
<1> QED
  BY <1>1, <1>2, <1>3, <1>4 DEF CacheInv

(***************************************************************************)
(* Every step keeps payloads fresh.                                        *)
(***************************************************************************)
LEMMA CacheStep == CacheInv /\ [CacheNext]_cacheVars => CacheInv'
<1> SUFFICES ASSUME CacheInv, [CacheNext]_cacheVars PROVE CacheInv'
  OBVIOUS
<1>a. CacheTypeOK /\ LocalFresh /\ RedisFresh /\ SentFresh /\ AnswersFresh /\ StalenessBounded
  BY DEF CacheInv
<1>b. /\ cacheNow \in Nat
      /\ \A u \in Pages : redis[u].born \in Nat /\ redis[u].late \in Nat /\ redis[u].expires \in Nat
      /\ \A r \in Readers : lookup[r] \in Lookup
      /\ \A c \in sent : c.url \in Pages /\ c.born \in Nat
  BY <1>a DEF CacheTypeOK
<1>c. ASSUME NEW r \in Readers, lookup[r] # NoLookup
      PROVE  /\ lookup[r].url \in Pages /\ lookup[r].since \in Nat
             /\ lookup[r].born \in Nat /\ lookup[r].late \in Nat
             /\ lookup[r].pc \in {"asking", "answered", "fetching", "writing"}
  BY <1>c, <1>b DEF Lookup
<1>d. NoLookup \in Lookup /\ NoLookup.pc = "idle"
  BY DEF NoLookup, Lookup
<1>e. ASSUME NEW r \in Readers
      PROVE  /\ ProcessOf[r] \in Processes
             /\ local[ProcessOf[r]] \in Seq(FreshEntry)
  BY <1>a, CacheAssumption DEF LocalFresh
\* Nothing is served by most steps.
<1>f. served' = [age |-> 0, late |-> 0] => StalenessBounded' /\ served' \in [age : Nat, late : Nat]
  BY CacheNumbers DEF StalenessBounded, RedisTtl
<1>l. ASSUME NEW a \in Nat, NEW d \in Nat, served' = [age |-> a, late |-> d],
             a <= d + (CacheTtl - 1) + (RedisTtl - 1) + RedisTimeout
      PROVE  served' \in [age : Nat, late : Nat] /\ StalenessBounded'
  BY <1>l DEF StalenessBounded, RedisTtl
\* The clock and Redis stand still in most steps.
<1>g. ASSUME UNCHANGED <<cacheNow, redis>> PROVE RedisFresh'
  BY <1>g, <1>a DEF RedisFresh, RedisTtl
<1>h. ASSUME UNCHANGED <<cacheNow, sent>> PROVE SentFresh'
  BY <1>h, <1>a DEF SentFresh
<1>i. ASSUME UNCHANGED <<cacheNow, lookup>> PROVE AnswersFresh'
  BY <1>i, <1>a DEF AnswersFresh, RedisTtl
<1>j. ASSUME UNCHANGED <<cacheNow, local>> PROVE LocalFresh'
  BY <1>j, <1>a DEF LocalFresh, FreshEntry, LocalSpan, RedisTtl, Entry
\* One reader's lookup is replaced, by none or by one that is fresh.
<1>k. ASSUME NEW r \in Readers, NEW l \in Lookup, lookup' = [lookup EXCEPT ![r] = l], cacheNow' = cacheNow,
             l.pc \in {"asking", "answered"} => l.since <= cacheNow,
             l.pc = "answered" => l.born + l.late <= cacheNow /\ l.since < l.born + l.late + RedisTtl
      PROVE  AnswersFresh' /\ lookup' \in [Readers -> Lookup]
  <2>1. lookup' \in [Readers -> Lookup] /\ lookup'[r] = l /\ \A q \in Readers \ {r} : lookup'[q] = lookup[q]
    BY <1>k, <1>a DEF CacheTypeOK
  <2>2. RedisTtl' = RedisTtl
    BY DEF RedisTtl
  <2> QED
    BY <2>1, <2>2, <1>k, <1>a DEF AnswersFresh
<1>1. CASE CacheTick
  <2>1. /\ cacheNow' = cacheNow + 1 /\ UNCHANGED <<local, sent, lookup>>
        /\ served' = [age |-> 0, late |-> 0]
        /\ redis' = [u \in Pages |-> IF redis[u].expires <= cacheNow + 1 THEN Nothing ELSE redis[u]]
    BY <1>1 DEF CacheTick, ServeNothing
  <2>2. CacheTypeOK'
    BY <2>1, <1>a, <1>f DEF CacheTypeOK, Nothing
  <2>3. LocalFresh'
    <3>1. FreshEntry \subseteq FreshEntry'
      BY <2>1, <1>b DEF FreshEntry, Entry, LocalSpan, RedisTtl
    <3>2. Seq(FreshEntry) \subseteq Seq(FreshEntry')
      BY <3>1
    <3> QED
      BY <3>2, <2>1, <1>a DEF LocalFresh
  <2>4. RedisFresh'
    <3> SUFFICES ASSUME NEW u \in Pages
                 PROVE  /\ redis'[u].born + redis'[u].late <= cacheNow'
                        /\ redis'[u].expires <= redis'[u].born + redis'[u].late + RedisTtl
      BY DEF RedisFresh, RedisTtl
    <3>1. redis'[u] = Nothing \/ redis'[u] = redis[u]
      BY <2>1
    <3>2. CASE redis'[u] = Nothing
      BY <2>1, <3>2, <1>b, CacheNumbers DEF Nothing
    <3>3. CASE redis'[u] = redis[u]
      BY <2>1, <3>3, <1>a, <1>b DEF RedisFresh
    <3> QED
      BY <3>1, <3>2, <3>3
  <2>5. SentFresh'
    BY <2>1, <1>a, <1>b DEF SentFresh
  <2>6. AnswersFresh'
    <3>1. RedisTtl' = RedisTtl
      BY DEF RedisTtl
    <3> SUFFICES ASSUME NEW r \in Readers
                 PROVE  /\ lookup[r].pc \in {"asking", "answered"} => lookup[r].since <= cacheNow + 1
                        /\ lookup[r].pc = "answered" =>
                              /\ lookup[r].born + lookup[r].late <= cacheNow + 1
                              /\ lookup[r].since < lookup[r].born + lookup[r].late + RedisTtl
      BY <2>1, <3>1 DEF AnswersFresh
    <3>2. CASE lookup[r] = NoLookup
      BY <3>2, <1>d
    <3>3. CASE lookup[r] # NoLookup
      BY <3>3, <1>a, <1>b, <1>c DEF AnswersFresh
    <3> QED
      BY <3>2, <3>3
  <2> QED
    BY <2>1, <2>2, <2>3, <2>4, <2>5, <2>6, <1>f DEF CacheInv
<1>2. ASSUME NEW r \in Readers, NEW u \in Pages, LocalHit(r, u) PROVE CacheInv'
  <2> DEFINE p == ProcessOf[r]
  <2>1. PICK i \in At(p, u) :
           /\ local[p][i].expires > cacheNow
           /\ local' = [local EXCEPT ![p] = Append(Without(local[p], i), local[p][i])]
           /\ served' = [age |-> cacheNow - local[p][i].born, late |-> local[p][i].late]
           /\ UNCHANGED <<cacheNow, redis, sent, lookup>>
    BY <1>2 DEF LocalHit, Serve
  <2> DEFINE e == local[p][i]
  <2>2. p \in Processes /\ local[p] \in Seq(FreshEntry) /\ i \in 1 .. Len(local[p])
    BY <1>e DEF At
  <2>3. e \in FreshEntry /\ Without(local[p], i) \in Seq(FreshEntry)
    BY <2>2, WithoutKeeps
  <2>4. LocalFresh' /\ local' \in [Processes -> Seq(Entry)]
    <3>1. Append(Without(local[p], i), e) \in Seq(FreshEntry)
      BY <2>3, AppendProperties
    <3> HIDE DEF p, e
    <3> QED
      BY <3>1, <2>1, <2>2, <1>a, LocalReplaced DEF e
  <2>5. served' \in [age : Nat, late : Nat] /\ StalenessBounded'
    <3>1. /\ e.born \in Nat /\ e.late \in Nat /\ e.expires \in Nat
          /\ e.born + e.late <= cacheNow /\ e.expires <= e.born + e.late + LocalSpan
      BY <2>3 DEF FreshEntry, Entry
    <3> HIDE DEF e
    <3>2. served' = [age |-> cacheNow - e.born, late |-> e.late] /\ e.expires > cacheNow
      BY <2>1 DEF e
    <3>3. cacheNow - e.born <= e.late + (CacheTtl - 1) + (RedisTtl - 1) + RedisTimeout
      BY <3>1, <3>2, <1>b, CacheNumbers DEF LocalSpan
    <3>4. cacheNow - e.born \in Nat
      BY <3>1, <1>b
    <3> QED
      BY <3>1, <3>2, <3>3, <3>4, <1>l
  <2>6. CacheTypeOK'
    BY <2>1, <2>4, <2>5, <1>a DEF CacheTypeOK
  <2> QED
    BY <2>1, <2>4, <2>5, <2>6, <1>g, <1>h, <1>i DEF CacheInv
<1>3. ASSUME NEW r \in Readers, NEW u \in Pages, AskRedis(r, u) PROVE CacheInv'
  <2> DEFINE p == ProcessOf[r]
             l == [pc |-> "asking", url |-> u, since |-> cacheNow, born |-> 0, late |-> 0]
  <2>1. /\ local' = [local EXCEPT ![p] = Popped(p, u)] /\ lookup' = [lookup EXCEPT ![r] = l]
        /\ UNCHANGED <<cacheNow, redis, sent>> /\ served' = [age |-> 0, late |-> 0]
    BY <1>3 DEF AskRedis, ServeNothing
  <2>2. LocalFresh' /\ local' \in [Processes -> Seq(Entry)]
    <3>1. Popped(p, u) \in Seq(FreshEntry) /\ p \in Processes
      BY <1>e, PoppedKeeps
    <3> HIDE DEF p
    <3> QED
      BY <3>1, <2>1, <1>a, LocalReplaced
  <2>3. AnswersFresh' /\ lookup' \in [Readers -> Lookup]
    <3>1. l \in Lookup /\ l.pc = "asking" /\ l.since <= cacheNow
      BY <1>b DEF Lookup
    <3> HIDE DEF l
    <3> QED
      BY <3>1, <2>1, <1>k
  <2>4. CacheTypeOK'
    BY <2>1, <2>2, <2>3, <1>a, <1>f DEF CacheTypeOK
  <2> QED
    BY <2>1, <2>2, <2>3, <2>4, <1>f, <1>g, <1>h DEF CacheInv
\* Redis does not give an answer that has expired.
<1>4. ASSUME NEW r \in Readers, RedisAnswers(r) PROVE CacheInv'
  <2> DEFINE held == redis[lookup[r].url]
             l == [lookup[r] EXCEPT !.pc = "answered", !.born = held.born, !.late = held.late]
  <2>1. /\ lookup[r].pc = "asking" /\ held.expires > cacheNow
        /\ lookup' = [lookup EXCEPT ![r] = l]
        /\ UNCHANGED <<cacheNow, local, redis, sent>> /\ served' = [age |-> 0, late |-> 0]
    BY <1>4 DEF RedisAnswers, ServeNothing
  <2>2. lookup[r] # NoLookup
    BY <2>1, <1>d
  <2>3. AnswersFresh' /\ lookup' \in [Readers -> Lookup]
    <3>1. lookup[r].url \in Pages /\ lookup[r].since \in Nat /\ lookup[r].since <= cacheNow
      BY <2>1, <2>2, <1>a, <1>c DEF AnswersFresh
    <3>2. /\ lookup[r] \in LookupOnTheWay
          /\ held.born \in Nat /\ held.late \in Nat /\ held.expires \in Nat
      BY <2>2, <3>1, <1>b DEF Lookup, LookupOnTheWay
    <3>3. /\ l \in Lookup /\ l.pc = "answered" /\ l.since = lookup[r].since
          /\ l.born = held.born /\ l.late = held.late
      BY <3>2 DEF Lookup, LookupOnTheWay
    <3>4. l.born + l.late <= cacheNow /\ l.since < l.born + l.late + RedisTtl
      <4>1. held.born + held.late <= cacheNow /\ held.expires <= held.born + held.late + RedisTtl
        BY <3>1, <1>a DEF RedisFresh
      <4> HIDE DEF held, l
      <4> QED
        BY <4>1, <2>1, <3>1, <3>2, <3>3, <1>b, CacheNumbers
    <3> HIDE DEF l, held
    <3> QED
      BY <3>1, <3>3, <3>4, <2>1, <1>k
  <2>4. CacheTypeOK'
    BY <2>1, <2>3, <1>a, <1>f DEF CacheTypeOK
  <2> QED
    BY <2>1, <2>3, <2>4, <1>f, <1>g, <1>h, <1>j DEF CacheInv
\* The answer is put into the local cache within the timeout.
<1>5. ASSUME NEW r \in Readers, RedisHit(r) PROVE CacheInv'
  <2> DEFINE p == ProcessOf[r]
             birth == lookup[r].born
             delay == lookup[r].late
             e == NewEntry(lookup[r].url, birth, delay)
  <2>1. /\ lookup[r].pc = "answered" /\ cacheNow <= lookup[r].since + RedisTimeout
        /\ local' = [local EXCEPT ![p] = Compacted(Assigned(p, e))]
        /\ lookup' = [lookup EXCEPT ![r] = NoLookup]
        /\ served' = [age |-> cacheNow - birth, late |-> delay]
        /\ UNCHANGED <<cacheNow, redis, sent>>
    BY <1>5 DEF RedisHit, Serve
  <2>2. /\ lookup[r].url \in Pages /\ lookup[r].since \in Nat /\ birth \in Nat /\ delay \in Nat
        /\ birth + delay <= cacheNow /\ lookup[r].since < birth + delay + RedisTtl
    BY <2>1, <1>a, <1>c, <1>d DEF AnswersFresh
  <2> HIDE DEF birth, delay
  <2>3. e \in FreshEntry
    <3>1. e \in Entry /\ e.born = birth /\ e.late = delay /\ e.expires = cacheNow + CacheTtl
      BY <2>2, <1>b, CacheNumbers DEF NewEntry, Entry
    <3>2. cacheNow + CacheTtl <= birth + delay + LocalSpan
      BY <2>1, <2>2, <1>b, CacheNumbers DEF LocalSpan
    <3> HIDE DEF e
    <3> QED
      BY <2>2, <3>1, <3>2 DEF FreshEntry
  <2>4. LocalFresh' /\ local' \in [Processes -> Seq(Entry)]
    <3>1. Compacted(Assigned(p, e)) \in Seq(FreshEntry) /\ p \in Processes
      BY <2>3, <1>e, AssignedKeeps, CompactedKeeps
    <3> HIDE DEF p, e
    <3> QED
      BY <3>1, <2>1, <1>a, LocalReplaced
  <2>5. AnswersFresh' /\ lookup' \in [Readers -> Lookup]
    BY <2>1, <1>d, <1>k
  <2>6. served' \in [age : Nat, late : Nat] /\ StalenessBounded'
    <3>1. cacheNow - birth \in Nat
      BY <2>2, <1>b
    <3>2. cacheNow - birth <= delay + (CacheTtl - 1) + (RedisTtl - 1) + RedisTimeout
      BY <2>1, <2>2, <1>b, CacheNumbers
    <3> QED
      BY <2>1, <2>2, <3>1, <3>2, <1>l
  <2>7. CacheTypeOK'
    BY <2>1, <2>4, <2>5, <2>6, <1>a DEF CacheTypeOK
  <2> QED
    BY <2>1, <2>4, <2>5, <2>6, <2>7, <1>g, <1>h DEF CacheInv
<1>6. ASSUME NEW r \in Readers, Miss(r) PROVE CacheInv'
  <2> DEFINE l == [lookup[r] EXCEPT !.pc = "fetching", !.since = 0, !.born = 0, !.late = 0]
  <2>1. /\ lookup[r].pc \in {"asking", "answered"} /\ UNCHANGED <<cacheNow, local, redis, sent>>
        /\ served' = [age |-> 0, late |-> 0]
        /\ lookup' = [lookup EXCEPT ![r] = NoLookup] \/ lookup' = [lookup EXCEPT ![r] = l]
    BY <1>6 DEF Miss, ServeNothing
  <2>2. l \in Lookup /\ l.pc = "fetching"
    <3>1. lookup[r] \in LookupOnTheWay
      BY <2>1, <1>b, <1>d DEF Lookup, LookupOnTheWay
    <3> QED
      BY <3>1 DEF Lookup, LookupOnTheWay
  <2> HIDE DEF l
  <2>3. AnswersFresh' /\ lookup' \in [Readers -> Lookup]
    <3>1. CASE lookup' = [lookup EXCEPT ![r] = NoLookup]
      BY <3>1, <2>1, <1>d, <1>k
    <3>2. CASE lookup' = [lookup EXCEPT ![r] = l]
      BY <3>2, <2>1, <2>2, <1>k
    <3> QED
      BY <3>1, <3>2, <2>1
  <2>4. CacheTypeOK'
    BY <2>1, <2>3, <1>a, <1>f DEF CacheTypeOK
  <2> QED
    BY <2>1, <2>3, <2>4, <1>f, <1>g, <1>h, <1>j DEF CacheInv
<1>7. ASSUME NEW r \in Readers, Fetched(r) PROVE CacheInv'
  <2> DEFINE p == ProcessOf[r]
             u == lookup[r].url
             e == NewEntry(u, cacheNow, 0)
             l == [lookup[r] EXCEPT !.pc = "writing"]
  <2>1. /\ lookup[r].pc = "fetching" /\ UNCHANGED <<cacheNow, redis>> /\ served' = [age |-> 0, late |-> 0]
        /\ local' = [local EXCEPT ![p] = Compacted(Append(Popped(p, u), e))]
        /\ sent' = sent \/ sent' = sent \cup {[url |-> u, born |-> cacheNow]}
        /\ lookup' = [lookup EXCEPT ![r] = l]
    BY <1>7 DEF Fetched, ServeNothing
  <2>2. u \in Pages
    BY <2>1, <1>c, <1>d
  <2>3. l \in Lookup /\ l.pc = "writing"
    <3>1. lookup[r] \in LookupOnTheWay
      BY <2>1, <1>b, <1>d DEF Lookup, LookupOnTheWay
    <3> QED
      BY <3>1 DEF Lookup, LookupOnTheWay
  <2> HIDE DEF u
  <2>4. e \in FreshEntry
    <3>1. LocalSpan \in Nat /\ LocalSpan >= CacheTtl
      BY CacheNumbers DEF LocalSpan
    <3>2. e \in Entry /\ e.born = cacheNow /\ e.late = 0 /\ e.expires = cacheNow + CacheTtl
      BY <2>2, <1>b, CacheNumbers DEF NewEntry, Entry
    <3> HIDE DEF e
    <3> QED
      BY <3>1, <3>2, <1>b, CacheNumbers DEF FreshEntry
  <2>5. LocalFresh' /\ local' \in [Processes -> Seq(Entry)]
    <3>1. Popped(p, u) \in Seq(FreshEntry) /\ p \in Processes
      BY <1>e, PoppedKeeps
    <3>2. Append(Popped(p, u), e) \in Seq(FreshEntry)
      BY <2>4, <3>1, AppendProperties
    <3>3. Compacted(Append(Popped(p, u), e)) \in Seq(FreshEntry)
      BY <3>2, CompactedKeeps
    <3> HIDE DEF p, e
    <3> QED
      BY <3>1, <3>3, <2>1, <1>a, LocalReplaced
  <2> HIDE DEF l
  <2>6. AnswersFresh' /\ lookup' \in [Readers -> Lookup]
    BY <2>1, <2>3, <1>k
  <2>7. SentFresh'
    BY <2>1, <1>a, <1>b, CacheNumbers DEF SentFresh
  <2>8. CacheTypeOK'
    BY <2>1, <2>2, <2>5, <2>6, <1>a, <1>b, <1>f DEF CacheTypeOK
  <2> QED
    BY <2>1, <2>5, <2>6, <2>7, <2>8, <1>f, <1>g DEF CacheInv
<1>8. ASSUME NEW r \in Readers, Leave(r) PROVE CacheInv'
  <2>1. /\ lookup' = [lookup EXCEPT ![r] = NoLookup] /\ UNCHANGED <<cacheNow, local, redis, sent>>
        /\ served' = [age |-> 0, late |-> 0]
    BY <1>8 DEF Leave, ServeNothing
  <2>2. AnswersFresh' /\ lookup' \in [Readers -> Lookup]
    BY <2>1, <1>d, <1>k
  <2>3. CacheTypeOK'
    BY <2>1, <2>2, <1>a, <1>f DEF CacheTypeOK
  <2> QED
    BY <2>1, <2>2, <2>3, <1>f, <1>g, <1>h, <1>j DEF CacheInv
\* Whenever a command is applied, its delay tells.
<1>9. ASSUME NEW c \in sent, RedisApplies(c) PROVE CacheInv'
  <2> DEFINE held == [born |-> c.born, late |-> cacheNow - c.born, expires |-> cacheNow + RedisTtl]
  <2>1. /\ redis' = [redis EXCEPT ![c.url] = held] /\ sent' = sent \ {c}
        /\ UNCHANGED <<cacheNow, local, lookup>> /\ served' = [age |-> 0, late |-> 0]
    BY <1>9 DEF RedisApplies, ServeNothing
  <2>2. /\ held \in [born : Nat, late : Nat, expires : Nat]
        /\ held.born + held.late <= cacheNow /\ held.expires <= held.born + held.late + RedisTtl
    BY <1>a, <1>b, CacheNumbers DEF SentFresh
  <2> HIDE DEF held
  <2>3. CacheTypeOK'
    BY <2>1, <2>2, <1>a, <1>f DEF CacheTypeOK
  <2>4. RedisFresh'
    <3>1. RedisTtl' = RedisTtl
      BY DEF RedisTtl
    <3>2. \A u \in Pages : redis'[u] = held \/ redis'[u] = redis[u]
      BY <2>1, <1>a DEF CacheTypeOK
    <3> QED
      BY <2>1, <2>2, <3>1, <3>2, <1>a DEF RedisFresh
  <2>5. SentFresh'
    BY <2>1, <1>a DEF SentFresh
  <2> QED
    BY <2>1, <2>3, <2>4, <2>5, <1>f, <1>i, <1>j DEF CacheInv
<1>10. ASSUME NEW c \in sent, RedisLoses(c) PROVE CacheInv'
  <2>1. sent' = sent \ {c} /\ UNCHANGED <<cacheNow, local, redis, lookup>> /\ served' = [age |-> 0, late |-> 0]
    BY <1>10 DEF RedisLoses, ServeNothing
  <2>2. CacheTypeOK'
    BY <2>1, <1>a, <1>f DEF CacheTypeOK
  <2>3. SentFresh'
    BY <2>1, <1>a DEF SentFresh
  <2> QED
    BY <2>1, <2>2, <2>3, <1>f, <1>g, <1>i, <1>j DEF CacheInv
<1>11. CASE UNCHANGED cacheVars
  <2>1. UNCHANGED <<cacheNow, local, redis, sent, lookup, served>>
    BY <1>11 DEF cacheVars
  <2>2. CacheTypeOK' /\ StalenessBounded'
    BY <2>1, <1>a DEF CacheTypeOK, StalenessBounded, RedisTtl
  <2> QED
    BY <2>1, <2>2, <1>g, <1>h, <1>i, <1>j DEF CacheInv
<1> QED
  BY <1>1, <1>2, <1>3, <1>4, <1>5, <1>6, <1>7, <1>8, <1>9, <1>10, <1>11 DEF CacheNext

LEMMA CacheInvariance == CacheSpec => []CacheInv
BY CacheInitInv, CacheStep, PTL DEF CacheSpec

-----------------------------------------------------------------------------
(***************************************************************************)
(* ResponseCacheStore: however many processes and tasks hand a payload on  *)
(* through Redis and their local caches, what a caller is given is not     *)
(* older than both TTLs, one wait for Redis's answer and the delay with    *)
(* which Redis applied its SETEX, were it long after set gave up on it.    *)
(***************************************************************************)
THEOREM PayloadsStayFresh == CacheSpec => []StalenessBounded
<1>1. CacheInv => StalenessBounded
  BY DEF CacheInv
<1> QED
  BY CacheInvariance, <1>1, PTL
=============================================================================

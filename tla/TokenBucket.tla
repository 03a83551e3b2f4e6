---------------------------- MODULE TokenBucket ----------------------------
(***************************************************************************)
(* AsyncTokenBucket.acquire (shared/resilience/rate_limiter.py): the tasks *)
(* that share the bucket of one provider and chain.  A pass through the    *)
(* loop of acquire is one step, as it runs under a lock; a task that finds *)
(* no token computes how long to sleep, sleeps at least that long, and     *)
(* looks again at a bucket that others have used meanwhile.                *)
(*                                                                         *)
(* The registry hands out one bucket per name for as long as the settings  *)
(* of that name do not change.                                             *)
(***************************************************************************)
EXTENDS Integers, FiniteSets

CONSTANTS
    Takers,         \* tasks that acquire tokens, over and over
    TokenCost,      \* a token, in the units in which the bucket is counted
    RefillRate,     \* units that flow in per tick
    BucketCapacity, \* tokens that a full bucket holds
    BucketHorizon   \* bound of the clock

ASSUME BucketAssumption ==
    /\ TokenCost \in Nat \ {0}
    /\ RefillRate \in Nat \ {0}
    /\ BucketCapacity \in Nat \ {0}
    /\ BucketHorizon \in Nat

VARIABLES
    bucketNow,  \* monotonic(), in ticks
    tokens,     \* _tokens, in units
    lastRefill, \* _last_refill
    wakeAt,     \* wakeAt[w]: the end of w's sleep, 0 when it is not in acquire
    \* history, read by the properties only
    taken       \* taken[t]: tokens handed out at or after time t

bucketVars == <<bucketNow, tokens, lastRefill, wakeAt, taken>>

BucketTimes == 0 .. BucketHorizon

BucketTypeOK ==
    /\ bucketNow \in BucketTimes
    /\ tokens \in 0 .. BucketCapacity * TokenCost
    /\ lastRefill \in 0 .. bucketNow
    /\ wakeAt \in [Takers -> Nat]
    /\ taken \in [BucketTimes -> Nat]

BucketInit ==
    /\ bucketNow = 0
    /\ tokens = BucketCapacity * TokenCost
    /\ lastRefill = 0
    /\ wakeAt = [w \in Takers |-> 0]
    /\ taken = [t \in BucketTimes |-> 0]

BucketTick ==
    /\ bucketNow < BucketHorizon
    /\ bucketNow' = bucketNow + 1
    /\ UNCHANGED <<tokens, lastRefill, wakeAt, taken>>

\* What the bucket holds once the time since the last refill is counted in.
Refilled ==
    LET full == BucketCapacity * TokenCost
        level == tokens + (bucketNow - lastRefill) * RefillRate
    IN  IF level < full THEN level ELSE full

\* w asks: it has just called acquire, or its sleep is over.
Asks(w) == wakeAt[w] <= bucketNow

Take(w) ==
    /\ Asks(w)
    /\ Refilled >= TokenCost
    /\ tokens' = Refilled - TokenCost
    /\ lastRefill' = bucketNow
    /\ wakeAt' = [wakeAt EXCEPT ![w] = 0]
    /\ taken' = [t \in BucketTimes |-> IF t <= bucketNow THEN taken[t] + 1 ELSE taken[t]]
    /\ UNCHANGED bucketNow

\* Ticks until the missing units have flowed in, if nobody else takes any.
Missing == (TokenCost - Refilled + RefillRate - 1) \div RefillRate

\* Broken variant: the refill is stored, the time it stands for is not.
WaitKeepsRefillTime(w) ==
    /\ Asks(w)
    /\ Refilled < TokenCost
    /\ tokens' = Refilled
    /\ wakeAt' = [wakeAt EXCEPT ![w] = bucketNow + Missing]
    /\ UNCHANGED <<bucketNow, lastRefill, taken>>

Wait(w) ==
    /\ Asks(w)
    /\ Refilled < TokenCost
    /\ tokens' = Refilled
    /\ lastRefill' = bucketNow
    /\ wakeAt' = [wakeAt EXCEPT ![w] = bucketNow + Missing]
    /\ UNCHANGED <<bucketNow, taken>>

\* w is cancelled in its sleep.
GiveUp(w) ==
    /\ wakeAt[w] # 0
    /\ wakeAt' = [wakeAt EXCEPT ![w] = 0]
    /\ UNCHANGED <<bucketNow, tokens, lastRefill, taken>>

BucketNext ==
    \/ BucketTick
    \/ \E w \in Takers : Take(w) \/ Wait(w) \/ GiveUp(w)

BucketSpec == BucketInit /\ [][BucketNext]_bucketVars

-----------------------------------------------------------------------------
(***************************************************************************)
(* The rate limit a provider sees: over any stretch of time up to now, at  *)
(* most a full bucket and what flowed in during that stretch is handed     *)
(* out, however the tasks' sleeps, cancellations and late wake-ups fall.   *)
(***************************************************************************)
RateHeld ==
    \A t \in 0 .. bucketNow :
        TokenCost * taken[t] <= BucketCapacity * TokenCost + RefillRate * (bucketNow - t)
=============================================================================

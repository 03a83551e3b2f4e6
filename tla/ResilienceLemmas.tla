-------------------------- MODULE ResilienceLemmas --------------------------
(***************************************************************************)
(* Facts about the breaker and the guard as values, used by the proofs of  *)
(* every module that holds them in a variable.                             *)
(***************************************************************************)
EXTENDS CircuitBreaker, BackoffGuard, TLAPS

(***************************************************************************)
(* The three methods of the breaker keep its type; the cooldown is a       *)
(* number that never shrinks as the streak grows.                          *)
(***************************************************************************)
LEMMA BreakerType ==
    ASSUME NEW b \in Breaker, NEW t \in Nat
    PROVE  /\ AfterAllow(b, t) \in Breaker
           /\ AfterSuccess(b) \in Breaker
           /\ AfterFailure(b, t) \in Breaker
<1> USE DEF Breaker, BreakerStates
<1>1. AfterAllow(b, t) \in Breaker
  <2>1. CASE RecoveryElapsed(b, t)
    BY <2>1 DEF AfterAllow
  <2>2. CASE ~RecoveryElapsed(b, t) /\ b.state = "half_open"
    BY <2>2 DEF AfterAllow
  <2>3. CASE ~RecoveryElapsed(b, t) /\ b.state # "half_open"
    BY <2>3 DEF AfterAllow
  <2> QED
    BY <2>1, <2>2, <2>3
<1>2. AfterSuccess(b) \in Breaker
  BY DEF AfterSuccess
<1>3. AfterFailure(b, t) \in Breaker
  <2>1. CASE b.state = "half_open"
    BY <2>1 DEF AfterFailure
  <2>2. CASE b.state # "half_open" /\ b.failures + 1 >= FailureThreshold
    BY <2>2 DEF AfterFailure
  <2>3. CASE b.state # "half_open" /\ ~(b.failures + 1 >= FailureThreshold)
    BY <2>3 DEF AfterFailure
  <2> QED
    BY <2>1, <2>2, <2>3
<1> QED
  BY <1>1, <1>2, <1>3

LEMMA CooldownMonotone ==
    ASSUME NEW m \in Nat, NEW n \in Nat, m <= n
    PROVE  /\ Cooldown(m) \in Nat
           /\ Cooldown(m) <= Cooldown(n)
<1> DEFINE f(k) == Smaller(MaxMultiplier, Larger(1, k))
<1>1. /\ f(m) \in Nat
      /\ f(n) \in Nat
      /\ f(m) <= f(n)
  BY DEF Smaller, Larger, MaxMultiplier
<1> HIDE DEF f
<1>2. /\ BackoffBase * f(m) \in Nat
      /\ BackoffBase * f(n) \in Nat
      /\ BackoffBase * f(m) <= BackoffBase * f(n)
  BY <1>1, BackoffAssumption, SMTT(30)
<1>3. /\ Cooldown(m) = Smaller(BackoffMax, BackoffBase * f(m))
      /\ Cooldown(n) = Smaller(BackoffMax, BackoffBase * f(n))
  BY DEF Cooldown, f
<1> QED
  BY <1>2, <1>3, BackoffAssumption DEF Smaller

LEMMA GuardType ==
    ASSUME NEW g \in Guard, NEW t \in Nat
    PROVE  /\ GuardAfterFailure(g, t) \in Guard
           /\ GuardAfterSuccess(g) \in Guard
<1>1. Cooldown(g.streak + 1) \in Nat
  BY CooldownMonotone DEF Guard
<1> QED
  BY <1>1 DEF Guard, GuardAfterFailure, GuardAfterSuccess, NewGuard, Larger

(***************************************************************************)
(* A failure never leaves the breaker half-open, a success leaves it       *)
(* closed.                                                                 *)
(***************************************************************************)
LEMMA OutcomeSettles ==
    ASSUME NEW b \in Breaker, NEW t \in Nat
    PROVE  /\ AfterFailure(b, t).state # "half_open"
           /\ AfterSuccess(b).state = "closed"
<1> USE DEF Breaker, BreakerStates
<1>1. AfterFailure(b, t).state # "half_open"
  <2>1. CASE b.state = "half_open"
    BY <2>1 DEF AfterFailure
  <2>2. CASE b.state # "half_open" /\ b.failures + 1 >= FailureThreshold
    BY <2>2 DEF AfterFailure
  <2>3. CASE b.state # "half_open" /\ ~(b.failures + 1 >= FailureThreshold)
    BY <2>3 DEF AfterFailure
  <2> QED
    BY <2>1, <2>2, <2>3
<1>2. AfterSuccess(b).state = "closed"
  BY DEF AfterSuccess
<1> QED
  BY <1>1, <1>2
=============================================================================

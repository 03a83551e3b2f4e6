---------------------- MODULE ResilientExecutorProofs ----------------------
(***************************************************************************)
(* The safety invariants of ResilientExecutor, proved for every set of     *)
(* callers and every setting of the breaker, the guard and the retries.    *)
(* None of them is inductive alone: the slots need to know who is in       *)
(* flight, the streak needs the breaker's count, and "the open breaker     *)
(* admits nobody" needs that no instant recorded lies in the future.       *)
(***************************************************************************)
EXTENDS ResilientExecutor, ResilienceLemmas, FiniteSetTheorems, TLAPS

\* No recorded instant is later than the clock.
PastOnly ==
    /\ breaker.openedAt <= now
    /\ \A c \in Callers : call[c].since <= now

\* A caller sleeps only before an attempt that the retry budget still covers.
RetriesLeft == \A c \in Callers : call[c].pc = "sleeping" => call[c].attempt < RetryAttempts

IInv ==
    /\ TypeOK
    /\ PastOnly
    /\ RetriesLeft
    /\ SlotsAccounted
    /\ TripsOnStreak
    /\ GuardCoversTrip
    /\ OpenAdmitsNobody

-----------------------------------------------------------------------------
LEMMA InitInv == Init => IInv
<1> SUFFICES ASSUME Init PROVE IInv
  OBVIOUS
<1>1. TypeOK
  BY ExecutorAssumption
     DEF Init, TypeOK, Breaker, BreakerStates, NewBreaker, Guard, NewGuard, Call, Idle
<1>2. PastOnly /\ RetriesLeft
  BY DEF Init, PastOnly, RetriesLeft, NewBreaker, Idle
<1>3. SlotsAccounted
  BY DEF Init, SlotsAccounted, NewBreaker
<1>4. TripsOnStreak /\ GuardCoversTrip /\ OpenAdmitsNobody
  BY BreakerAssumption
     DEF Init, TripsOnStreak, GuardCoversTrip, OpenAdmitsNobody, NewBreaker, NewGuard
<1> QED
  BY <1>1, <1>2, <1>3, <1>4 DEF IInv

(***************************************************************************)
(* Types, and the two facts about time and retries.                        *)
(***************************************************************************)
LEMMA TypeStep == IInv /\ [Next]_vars => TypeOK' /\ PastOnly' /\ RetriesLeft'
<1> DEFINE Goal == TypeOK' /\ PastOnly' /\ RetriesLeft'
<1> SUFFICES ASSUME IInv, [Next]_vars PROVE Goal
  OBVIOUS
<1> USE ExecutorAssumption DEF TypeOK, PastOnly, RetriesLeft
<1>a. TypeOK /\ PastOnly /\ RetriesLeft
  BY DEF IInv
<1>b. Idle \in Call /\ Idle.since = 0 /\ Idle.pc = "idle"
  BY DEF Idle, Call
<1>1. CASE Tick
  BY <1>1, <1>a DEF Tick, Breaker, Call
<1>2. ASSUME NEW c \in Callers, Admit(c) PROVE Goal
  <2>1. breaker' \in Breaker /\ breaker'.openedAt = breaker.openedAt
    BY <1>2, <1>a, BreakerType DEF Admit, AfterAllow, Breaker
  <2> DEFINE r == [pc |-> "attempting", attempt |-> 1, since |-> now]
  <2>2. r \in Call
    BY <1>a DEF Call
  <2>3. /\ call' = [call EXCEPT ![c] = r]
        /\ now' = now /\ guard' = guard /\ leaked' = leaked
        /\ probes' \subseteq Callers
    BY <1>2, <1>a DEF Admit
  <2>4. call' \in [Callers -> Call]
    BY <2>2, <2>3, <1>a
  <2> QED
    BY <2>1, <2>2, <2>3, <2>4, <1>a
<1>3. ASSUME NEW c \in Callers, Succeed(c) PROVE Goal
  <2>1. breaker' \in Breaker /\ breaker'.openedAt = breaker.openedAt
    BY <1>3, <1>a, BreakerType DEF Succeed, AfterSuccess, Breaker
  <2>2. guard' \in Guard
    BY <1>3, <1>a, GuardType DEF Succeed
  <2> QED
    BY <1>3, <1>a, <1>b, <2>1, <2>2 DEF Succeed
<1>4. ASSUME NEW c \in Callers, RetryLater(c) PROVE Goal
  BY <1>4, <1>a DEF RetryLater, Call
<1>5. ASSUME NEW c \in Callers, WakeUp(c) PROVE Goal
  <2>1. call[c].attempt + 1 \in 0 .. RetryAttempts
    BY <1>5, <1>a DEF WakeUp, Call
  <2> QED
    BY <1>5, <1>a, <2>1 DEF WakeUp, Call
<1>6. ASSUME NEW c \in Callers, Exhaust(c) PROVE Goal
  <2>1. breaker' \in Breaker
    BY <1>6, <1>a, BreakerType DEF Exhaust
  <2>2. breaker'.openedAt \in {breaker.openedAt, now}
    BY <1>6, <1>a DEF Exhaust, AfterFailure, Breaker
  <2>3. guard' \in Guard
    BY <1>6, <1>a, GuardType DEF Exhaust
  <2> QED
    BY <1>6, <1>a, <1>b, <2>1, <2>2, <2>3 DEF Exhaust
<1>7. ASSUME NEW c \in Callers, LeaveUnrecorded(c) PROVE Goal
  BY <1>7, <1>a, <1>b DEF LeaveUnrecorded
<1>8. CASE UNCHANGED vars
  BY <1>8, <1>a DEF vars
<1> QED
  BY <1>1, <1>2, <1>3, <1>4, <1>5, <1>6, <1>7, <1>8
     DEF Next, Proceed, Refuse, RaiseNonRetryable, Cancel

(***************************************************************************)
(* The slots: a call enters as a probe exactly when half_open_calls goes   *)
(* up, and every recorded outcome ends the period.                         *)
(***************************************************************************)
LEMMA SlotsStep == IInv /\ [Next]_vars => SlotsAccounted'
<1> SUFFICES ASSUME IInv, [Next]_vars PROVE SlotsAccounted'
  OBVIOUS
<1>a. TypeOK /\ SlotsAccounted
  BY DEF IInv
<1>b. IsFiniteSet(probes) /\ Cardinality(probes) \in Nat
  BY <1>a, ExecutorAssumption, FS_Subset, FS_CardinalityType DEF TypeOK
<1>1. CASE Tick
  BY <1>1, <1>a DEF Tick, SlotsAccounted, InFlight
<1>2. ASSUME NEW c \in Callers, Admit(c) PROVE SlotsAccounted'
  <2>1. /\ c \notin probes
        /\ InFlight' = InFlight \cup {c}
    BY <1>2, <1>a DEF Admit, SlotsAccounted, InFlight, TypeOK
  <2>2. Cardinality(probes \cup {c}) = Cardinality(probes) + 1
    BY <2>1, <1>b, FS_AddElement
  <2>3. CASE breaker.state = "closed"
    <3>1. breaker' = breaker /\ probes' = probes /\ leaked' = leaked
      BY <1>2, <2>3 DEF Admit, AfterAllow, RecoveryElapsed
    <3> QED
      BY <3>1, <2>1, <2>3, <1>a DEF SlotsAccounted
  <2>4. CASE breaker.state = "open"
    <3>1. /\ breaker'.state = "half_open" /\ breaker'.halfOpenCalls = 1
          /\ probes' = probes \cup {c} /\ leaked' = leaked
      BY <1>2, <2>4, <1>a DEF Admit, Allows, AfterAllow, TypeOK, Breaker
    <3>2. probes = {} /\ leaked = 0
      BY <2>4, <1>a DEF SlotsAccounted
    <3>3. Cardinality(probes') = 1
      BY <3>1, <3>2, FS_Singleton
    <3> QED
      BY <3>1, <3>2, <3>3, <2>1, BreakerAssumption DEF SlotsAccounted
  <2>5. CASE breaker.state = "half_open"
    <3>1. /\ breaker'.state = "half_open"
          /\ breaker'.halfOpenCalls = breaker.halfOpenCalls + 1
          /\ breaker.halfOpenCalls < HalfOpenMax
          /\ probes' = probes \cup {c} /\ leaked' = leaked
      BY <1>2, <2>5, <1>a DEF Admit, Allows, AfterAllow, RecoveryElapsed, TypeOK, Breaker
    <3> QED
      BY <3>1, <2>1, <2>2, <2>5, <1>a, <1>b, BreakerAssumption DEF SlotsAccounted, TypeOK
  <2> QED
    BY <2>3, <2>4, <2>5, <1>a DEF TypeOK, Breaker, BreakerStates
<1>3. ASSUME NEW c \in Callers, Succeed(c) PROVE SlotsAccounted'
  <2>1. breaker'.state = "closed" /\ breaker'.halfOpenCalls = 0
    BY <1>3, <1>a DEF Succeed, AfterSuccess, TypeOK, Breaker, SlotsAccounted
  <2> QED
    BY <1>3, <2>1 DEF Succeed, SlotsAccounted
<1>4. ASSUME NEW c \in Callers, RetryLater(c) \/ WakeUp(c) PROVE SlotsAccounted'
  <2>1. InFlight' = InFlight /\ UNCHANGED <<breaker, probes, leaked>>
    BY <1>4, <1>a DEF RetryLater, WakeUp, InFlight, TypeOK, Call
  <2> QED
    BY <2>1, <1>a DEF SlotsAccounted
<1>5. ASSUME NEW c \in Callers, Exhaust(c) PROVE SlotsAccounted'
  <2>1. breaker'.state # "half_open" /\ breaker'.halfOpenCalls = 0
    BY <1>5, <1>a DEF Exhaust, AfterFailure, TypeOK, Breaker, SlotsAccounted
  <2> QED
    BY <1>5, <2>1 DEF Exhaust, SlotsAccounted
<1>6. ASSUME NEW c \in Callers, LeaveUnrecorded(c) PROVE SlotsAccounted'
  <2>1. InFlight' = InFlight \ {c} /\ breaker' = breaker
    BY <1>6, <1>a DEF LeaveUnrecorded, InFlight, TypeOK, Idle
  <2>2. CASE c \in probes
    <3>1. Cardinality(probes \ {c}) = Cardinality(probes) - 1
      BY <2>2, <1>b, FS_RemoveElement
    <3> QED
      BY <1>6, <1>a, <1>b, <2>1, <2>2, <3>1 DEF LeaveUnrecorded, SlotsAccounted, TypeOK
  <2>3. CASE c \notin probes
    <3>1. probes' = probes /\ leaked' = leaked
      BY <1>6, <2>3 DEF LeaveUnrecorded
    <3> QED
      BY <2>1, <2>3, <3>1, <1>a DEF SlotsAccounted
  <2> QED
    BY <2>2, <2>3
<1>7. CASE UNCHANGED vars
  BY <1>7, <1>a DEF vars, SlotsAccounted, InFlight
<1> QED
  BY <1>1, <1>2, <1>3, <1>4, <1>5, <1>6, <1>7
     DEF Next, Proceed, Refuse, RaiseNonRetryable, Cancel

(***************************************************************************)
(* The breaker and the guard see the same outcomes in the same step.       *)
(***************************************************************************)
LEMMA StreakStep == IInv /\ [Next]_vars => TripsOnStreak' /\ GuardCoversTrip'
<1> DEFINE Goal == TripsOnStreak' /\ GuardCoversTrip'
<1> SUFFICES ASSUME IInv, [Next]_vars PROVE Goal
  OBVIOUS
<1>a. TypeOK /\ TripsOnStreak /\ GuardCoversTrip
  BY DEF IInv
<1> USE BreakerAssumption DEF TypeOK, Breaker, BreakerStates, Guard
<1>1. ASSUME NEW c \in Callers, Admit(c) PROVE Goal
  <2>1. /\ breaker'.state = "closed" <=> breaker.state = "closed"
        /\ breaker'.failures = breaker.failures
        /\ breaker'.openedAt = breaker.openedAt
        /\ guard' = guard
    <3>1. CASE RecoveryElapsed(breaker, now)
      BY <1>1, <1>a, <3>1 DEF Admit, AfterAllow, RecoveryElapsed
    <3>2. CASE ~RecoveryElapsed(breaker, now)
      BY <1>1, <1>a, <3>2 DEF Admit, AfterAllow
    <3> QED
      BY <3>1, <3>2
  <2> QED
    BY <2>1, <1>a DEF TripsOnStreak, GuardCoversTrip
<1>2. ASSUME NEW c \in Callers, Succeed(c) PROVE Goal
  BY <1>2, <1>a
     DEF Succeed, AfterSuccess, GuardAfterSuccess, NewGuard, TripsOnStreak, GuardCoversTrip
<1>3. ASSUME NEW c \in Callers, Exhaust(c) PROVE Goal
  <2>1. /\ guard'.streak = guard.streak + 1
        /\ guard'.until \in Nat
        /\ guard'.until >= guard.until
        /\ guard'.until >= now + Cooldown(guard.streak + 1)
        /\ Cooldown(guard.streak + 1) \in Nat
    BY <1>3, <1>a, CooldownMonotone DEF Exhaust, GuardAfterFailure, Larger
  <2>2. CASE breaker.state = "half_open" \/ breaker.failures + 1 >= FailureThreshold
    <3>0. breaker' = AfterFailure(breaker, now)
      BY <1>3 DEF Exhaust
    <3>1. breaker'.state = "open" /\ breaker'.failures = 0 /\ breaker'.openedAt = now
      <4>1. CASE breaker.state = "half_open"
        BY <3>0, <4>1 DEF AfterFailure
      <4>2. CASE breaker.state # "half_open" /\ breaker.failures + 1 >= FailureThreshold
        BY <3>0, <4>2, <1>a DEF AfterFailure
      <4> QED
        BY <4>1, <4>2, <2>2
    <3>3. guard'.streak >= FailureThreshold
      BY <2>1, <2>2, <1>a DEF TripsOnStreak
    <3>2. Cooldown(FailureThreshold) <= Cooldown(guard.streak + 1)
          /\ Cooldown(FailureThreshold) \in Nat
      BY <2>1, <3>3, <1>a, CooldownMonotone
    <3> QED
      BY <2>1, <3>1, <3>2, <3>3, <1>a DEF TripsOnStreak, GuardCoversTrip
  <2>3. CASE breaker.state # "half_open" /\ ~(breaker.failures + 1 >= FailureThreshold)
    <3>1. /\ breaker'.state = breaker.state
          /\ breaker'.failures = breaker.failures + 1
          /\ breaker'.openedAt = breaker.openedAt
      BY <1>3, <1>a, <2>3 DEF Exhaust, AfterFailure
    <3>2. Cooldown(FailureThreshold) \in Nat
      BY CooldownMonotone
    <3> QED
      BY <2>1, <2>3, <3>1, <3>2, <1>a DEF TripsOnStreak, GuardCoversTrip
  <2> QED
    BY <2>2, <2>3
<1>4. CASE UNCHANGED <<breaker, guard>>
  BY <1>4, <1>a DEF TripsOnStreak, GuardCoversTrip
<1> QED
  BY <1>1, <1>2, <1>3, <1>4
     DEF Next, Tick, Proceed, Refuse, RetryLater, WakeUp, RaiseNonRetryable, Cancel,
         LeaveUnrecorded, vars

(***************************************************************************)
(* Nobody enters while the breaker is open, and when it opens everybody    *)
(* in flight has entered by then.                                          *)
(***************************************************************************)
LEMMA OpenStep == IInv /\ [Next]_vars => OpenAdmitsNobody'
<1> SUFFICES ASSUME IInv, [Next]_vars PROVE OpenAdmitsNobody'
  OBVIOUS
<1>a. TypeOK /\ PastOnly /\ OpenAdmitsNobody
  BY DEF IInv
<1> USE DEF TypeOK, Breaker, BreakerStates, InFlight
<1>1. ASSUME NEW c \in Callers, Admit(c) PROVE OpenAdmitsNobody'
  <2>1. breaker'.state # "open"
    <3>1. CASE RecoveryElapsed(breaker, now)
      BY <1>1, <1>a, <3>1 DEF Admit, AfterAllow
    <3>2. CASE ~RecoveryElapsed(breaker, now)
      BY <1>1, <1>a, <3>2 DEF Admit, Allows, AfterAllow
    <3> QED
      BY <3>1, <3>2
  <2> QED
    BY <2>1 DEF OpenAdmitsNobody
<1>2. ASSUME NEW c \in Callers, Succeed(c) PROVE OpenAdmitsNobody'
  <2>1. breaker'.state = "closed"
    BY <1>2, <1>a DEF Succeed, AfterSuccess
  <2> QED
    BY <2>1 DEF OpenAdmitsNobody
<1>3. ASSUME NEW c \in Callers, Exhaust(c) PROVE OpenAdmitsNobody'
  <2>1. \/ breaker'.openedAt = now
        \/ breaker'.openedAt = breaker.openedAt /\ breaker'.state = breaker.state
    <3>0. breaker' = AfterFailure(breaker, now)
      BY <1>3 DEF Exhaust
    <3>1. CASE breaker.state = "half_open"
      BY <3>0, <3>1 DEF AfterFailure
    <3>2. CASE breaker.state # "half_open" /\ breaker.failures + 1 >= FailureThreshold
      BY <3>0, <3>2, <1>a DEF AfterFailure
    <3>3. CASE breaker.state # "half_open" /\ ~(breaker.failures + 1 >= FailureThreshold)
      BY <3>0, <3>3, <1>a DEF AfterFailure
    <3> QED
      BY <3>1, <3>2, <3>3
  <2>2. /\ InFlight' \subseteq InFlight
        /\ \A d \in InFlight' : call'[d].since = call[d].since
    BY <1>3, <1>a DEF Exhaust, Idle
  <2> QED
    BY <2>1, <2>2, <1>a DEF OpenAdmitsNobody, PastOnly
<1>4. ASSUME NEW c \in Callers, RetryLater(c) \/ WakeUp(c) \/ LeaveUnrecorded(c)
      PROVE  OpenAdmitsNobody'
  <2>1. /\ breaker' = breaker
        /\ InFlight' \subseteq InFlight
        /\ \A d \in InFlight' : call'[d].since = call[d].since
    BY <1>4, <1>a DEF RetryLater, WakeUp, LeaveUnrecorded, Idle, Call
  <2> QED
    BY <2>1, <1>a DEF OpenAdmitsNobody
<1>5. CASE Tick \/ UNCHANGED vars
  BY <1>5, <1>a DEF Tick, vars, OpenAdmitsNobody
<1> QED
  BY <1>1, <1>2, <1>3, <1>4, <1>5
     DEF Next, Proceed, Refuse, RaiseNonRetryable, Cancel

-----------------------------------------------------------------------------
LEMMA Invariance == Spec => []IInv
<1>1. IInv /\ [Next]_vars => IInv'
  BY TypeStep, SlotsStep, StreakStep, OpenStep DEF IInv
<1> QED
  BY InitInv, <1>1, PTL DEF Spec

(***************************************************************************)
(* The variables of the executor keep their types.                         *)
(***************************************************************************)
THEOREM TypeCorrect == Spec => []TypeOK
<1>1. IInv => TypeOK
  BY DEF IInv
<1> QED
  BY Invariance, <1>1, PTL

(***************************************************************************)
(* half_open_calls counts the probes in flight and the slots lost to calls *)
(* that recorded nothing, and it never passes half_open_max_calls.         *)
(***************************************************************************)
THEOREM HalfOpenSlots == Spec => []SlotsAccounted
<1>1. IInv => SlotsAccounted
  BY DEF IInv
<1> QED
  BY Invariance, <1>1, PTL

(***************************************************************************)
(* The breaker trips on failure_threshold failed calls in a row, and it    *)
(* stays away from closed only inside such a streak.                       *)
(***************************************************************************)
THEOREM BreakerFollowsStreak == Spec => []TripsOnStreak
<1>1. IInv => TripsOnStreak
  BY DEF IInv
<1> QED
  BY Invariance, <1>1, PTL

(***************************************************************************)
(* The guard's cooldown covers every trip of the breaker.                  *)
(***************************************************************************)
THEOREM GuardOutlastsTrip == Spec => []GuardCoversTrip
<1>1. IInv => GuardCoversTrip
  BY DEF IInv
<1> QED
  BY Invariance, <1>1, PTL

(***************************************************************************)
(* No call is let in while the breaker is open.                            *)
(***************************************************************************)
THEOREM OpenBreakerIsShut == Spec => []OpenAdmitsNobody
<1>1. IInv => OpenAdmitsNobody
  BY DEF IInv
<1> QED
  BY Invariance, <1>1, PTL
=============================================================================

------------------------- MODULE ResilientExecutor -------------------------
(***************************************************************************)
(* ResilientExecutor.execute (shared/resilience/executor.py): concurrent   *)
(* asyncio callers of the one executor name, hence of one breaker and one  *)
(* backoff guard.                                                          *)
(*                                                                         *)
(* Between two awaits that suspend, execute runs without interleaving, so  *)
(* an action is what it does from one such await to the next: the two      *)
(* checks at the start; the outcome of an attempt together with what is    *)
(* recorded for it; the end of a retry sleep.  "attempting" covers the     *)
(* wait for a token and fn() itself, "sleeping" the retry sleep; how long  *)
(* either takes is left open (the sleep has a random part, see retry.py).  *)
(***************************************************************************)
EXTENDS CircuitBreaker, BackoffGuard, FiniteSets

CONSTANTS
    Callers,        \* tasks that call execute, over and over
    RetryAttempts,  \* retry_attempts
    MaxTime         \* bound of the clock (model checking)

ASSUME ExecutorAssumption ==
    /\ IsFiniteSet(Callers)
    /\ RetryAttempts \in Nat \ {0}
    /\ MaxTime \in Nat

VARIABLES
    now,      \* monotonic(), in ticks; 0 is before the first instant
    breaker,  \* the registry's breaker of this name
    guard,    \* the registry's backoff guard of this name
    call,     \* call[c]: where c is inside execute
    \* history, read by the properties only
    probes,   \* callers whose call holds a slot of the present half-open period
    leaked    \* slots of the present half-open period whose call is gone, unrecorded

vars == <<now, breaker, guard, call, probes, leaked>>

Idle == [pc |-> "idle", attempt |-> 0, since |-> 0]

Call == [pc : {"idle", "attempting", "sleeping"}, attempt : 0 .. RetryAttempts, since : Nat]

InFlight == {c \in Callers : call[c].pc # "idle"}

TypeOK ==
    /\ now \in Nat
    /\ breaker \in Breaker
    /\ guard \in Guard
    /\ call \in [Callers -> Call]
    /\ probes \subseteq Callers
    /\ leaked \in Nat

Init ==
    /\ now = 1
    /\ breaker = NewBreaker
    /\ guard = NewGuard
    /\ call = [c \in Callers |-> Idle]
    /\ probes = {}
    /\ leaked = 0

Tick ==
    /\ now < MaxTime
    /\ now' = now + 1
    /\ UNCHANGED <<breaker, guard, call, probes, leaked>>

-----------------------------------------------------------------------------
(***************************************************************************)
(* The start of execute.  A refused call returns None and has changed      *)
(* nothing: the guard is asked before the breaker, and a breaker that      *)
(* refuses is left as it was.                                              *)
(***************************************************************************)
Refuse(c) ==
    /\ call[c].pc = "idle"
    /\ ~GuardAllows(guard, now) \/ ~Allows(breaker, now)
    /\ UNCHANGED vars

Admit(c) ==
    /\ call[c].pc = "idle"
    /\ GuardAllows(guard, now)
    /\ Allows(breaker, now)
    /\ breaker' = AfterAllow(breaker, now)
    /\ call' = [call EXCEPT ![c] = [pc |-> "attempting", attempt |-> 1, since |-> now]]
    /\ probes' = IF breaker.state = "closed" THEN probes ELSE probes \cup {c}
    /\ UNCHANGED <<now, guard, leaked>>

\* fn() returned: the success is recorded with the breaker and the guard.
Succeed(c) ==
    /\ call[c].pc = "attempting"
    /\ breaker' = AfterSuccess(breaker)
    /\ guard' = GuardAfterSuccess(guard)
    /\ call' = [call EXCEPT ![c] = Idle]
    /\ probes' = {}
    /\ leaked' = 0
    /\ UNCHANGED now

\* Broken variants: the last attempt is retried too; a retry is not counted.
RetryLaterUnbounded(c) ==
    /\ call[c].pc = "attempting"
    /\ call' = [call EXCEPT ![c].pc = "sleeping"]
    /\ UNCHANGED <<now, breaker, guard, probes, leaked>>

WakeUpUncounted(c) ==
    /\ call[c].pc = "sleeping"
    /\ call' = [call EXCEPT ![c].pc = "attempting"]
    /\ UNCHANGED <<now, breaker, guard, probes, leaked>>

\* A retryable error before the last attempt: nothing is recorded.
RetryLater(c) ==
    /\ call[c].pc = "attempting"
    /\ call[c].attempt < RetryAttempts
    /\ call' = [call EXCEPT ![c].pc = "sleeping"]
    /\ UNCHANGED <<now, breaker, guard, probes, leaked>>

WakeUp(c) ==
    /\ call[c].pc = "sleeping"
    /\ call' = [call EXCEPT ![c].pc = "attempting", ![c].attempt = @ + 1]
    /\ UNCHANGED <<now, breaker, guard, probes, leaked>>

\* A retryable error on the last attempt: one failure is recorded for the call.
Exhaust(c) ==
    /\ call[c].pc = "attempting"
    /\ call[c].attempt = RetryAttempts
    /\ breaker' = AfterFailure(breaker, now)
    /\ guard' = GuardAfterFailure(guard, now)
    /\ call' = [call EXCEPT ![c] = Idle]
    \* either the breaker leaves half-open here or it was not half-open before
    /\ probes' = {}
    /\ leaked' = 0
    /\ UNCHANGED now

\* The call leaves execute by an exception and nothing is recorded for it.
LeaveUnrecorded(c) ==
    /\ call' = [call EXCEPT ![c] = Idle]
    /\ probes' = probes \ {c}
    /\ leaked' = IF c \in probes THEN leaked + 1 ELSE leaked
    /\ UNCHANGED <<now, breaker, guard>>

\* fn() raised an error that is_retryable rejects: it is re-raised as it is.
RaiseNonRetryable(c) ==
    /\ call[c].pc = "attempting"
    /\ LeaveUnrecorded(c)

\* The task is cancelled at one of its awaits; CancelledError is no Exception.
Cancel(c) ==
    /\ call[c].pc # "idle"
    /\ LeaveUnrecorded(c)

-----------------------------------------------------------------------------
Proceed(c) ==
    \/ Succeed(c)
    \/ RetryLater(c)
    \/ WakeUp(c)
    \/ Exhaust(c)
    \/ RaiseNonRetryable(c)

Next ==
    \/ Tick
    \/ \E c \in Callers : Refuse(c) \/ Admit(c) \/ Proceed(c) \/ Cancel(c)

Spec == Init /\ [][Next]_vars

(***************************************************************************)
(* Time passes; an attempt ends and a sleep is over some day (fn has a     *)
(* timeout of its own); the loops around execute (the scanner's cycle) go  *)
(* on calling it.  Nothing obliges a task to be cancelled.                 *)
(***************************************************************************)
CallersProceed == \A c \in Callers : WF_vars(Proceed(c))

FairSpec == Spec /\ CallersProceed

BusySpec == FairSpec /\ WF_vars(Tick) /\ \A c \in Callers : WF_vars(Admit(c))

-----------------------------------------------------------------------------
(***************************************************************************)
(* Slots of a half-open period.  Every slot counted by half_open_calls is  *)
(* held by a call in flight or was lost by a call that left execute        *)
(* without recording an outcome, and there are never more than             *)
(* half_open_max_calls of them.                                            *)
(***************************************************************************)
SlotsAccounted ==
    /\ probes \subseteq InFlight
    /\ breaker.state = "half_open" =>
          /\ breaker.halfOpenCalls = Cardinality(probes) + leaked
          /\ breaker.halfOpenCalls \in 1 .. HalfOpenMax
    /\ breaker.state # "half_open" => breaker.halfOpenCalls = 0 /\ probes = {} /\ leaked = 0

(***************************************************************************)
(* The breaker and the guard are separate objects fed by the same          *)
(* outcomes.  While the breaker is closed its failure count is the guard's *)
(* streak, so it trips on failure_threshold failed calls in a row, and it  *)
(* is away from closed only within such a streak: any success closes it.   *)
(***************************************************************************)
TripsOnStreak ==
    /\ breaker.failures < FailureThreshold
    /\ breaker.state = "closed" => breaker.failures = guard.streak
    /\ breaker.state # "closed" => guard.streak >= FailureThreshold

(***************************************************************************)
(* The two layers of protection agree: as long as the breaker is not       *)
(* closed, the guard refuses calls for at least the cooldown of a streak   *)
(* of failure_threshold, counted from the last time the breaker opened.    *)
(***************************************************************************)
GuardCoversTrip ==
    breaker.state # "closed" => guard.until >= breaker.openedAt + Cooldown(FailureThreshold)

(***************************************************************************)
(* While the breaker is open no call is let in: whatever is still in       *)
(* flight was admitted before it opened.                                   *)
(***************************************************************************)
OpenAdmitsNobody ==
    breaker.state = "open" => \A c \in InFlight : call[c].since <= breaker.openedAt

(***************************************************************************)
(* Every call that is let in returns: the retry loop is bounded and every  *)
(* branch of it leads out.                                                 *)
(***************************************************************************)
CallsReturn == \A c \in Callers : call[c].pc # "idle" ~> call[c].pc = "idle"

(***************************************************************************)
(* A half-open period ends, unless one of its slots was lost to a call     *)
(* that recorded nothing.                                                  *)
(***************************************************************************)
HalfOpenResolves == breaker.state = "half_open" ~> (breaker.state # "half_open" \/ leaked > 0)

(***************************************************************************)
(* What the README's state table says of the half-open state: a probe      *)
(* succeeds and the breaker closes, or it fails and the breaker opens.     *)
(* The guard is not in the way from the start of the period on.            *)
(***************************************************************************)
HalfOpenIsLeft ==
    (breaker.state = "half_open" /\ GuardAllows(guard, now)) ~> breaker.state # "half_open"

(***************************************************************************)
(* What the component guide says of recovery_seconds: the shortest wait    *)
(* after the breaker opened before a request passes again.                 *)
(***************************************************************************)
RecoveryHonoured ==
    [][\A c \in Callers :
          call[c].pc = "idle" /\ call'[c].pc = "attempting" /\ breaker.openedAt > 0
             => now >= breaker.openedAt + RecoveryTime]_vars
=============================================================================

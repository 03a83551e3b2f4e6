--------------------------- MODULE CircuitBreaker ---------------------------
(***************************************************************************)
(* AsyncCircuitBreaker (shared/resilience/circuit_breaker.py) as a value.  *)
(* Its methods take a lock and never await inside, so each of them is one  *)
(* atomic function of the breaker and of the monotonic clock.  The modules *)
(* that hold a breaker (one per name in CircuitBreakerRegistry) keep it in *)
(* a variable and apply these functions to it.                             *)
(***************************************************************************)
EXTENDS Naturals

CONSTANTS
    FailureThreshold,  \* failure_threshold, at least 1 after max(1, ...)
    RecoveryTime,      \* recovery_seconds in ticks, positive after max(0.5, ...)
    HalfOpenMax        \* half_open_max_calls, at least 1 after max(1, ...)

ASSUME BreakerAssumption ==
    /\ FailureThreshold \in Nat \ {0}
    /\ RecoveryTime \in Nat \ {0}
    /\ HalfOpenMax \in Nat \ {0}

BreakerStates == {"closed", "open", "half_open"}

Breaker == [state : BreakerStates, failures : Nat, openedAt : Nat, halfOpenCalls : Nat]

NewBreaker == [state |-> "closed", failures |-> 0, openedAt |-> 0, halfOpenCalls |-> 0]

(***************************************************************************)
(* allow_request: the clock is looked at only while the breaker is open.   *)
(***************************************************************************)
RecoveryElapsed(b, t) == b.state = "open" /\ t >= b.openedAt + RecoveryTime

Allows(b, t) ==
    \/ b.state = "closed"
    \/ RecoveryElapsed(b, t)
    \/ b.state = "half_open" /\ b.halfOpenCalls < HalfOpenMax

\* Broken variant: the second and later probes are not counted.
AfterAllowUncounted(b, t) ==
    IF RecoveryElapsed(b, t) THEN [b EXCEPT !.state = "half_open", !.halfOpenCalls = 1] ELSE b

\* The breaker after a call that allow_request let through.
AfterAllow(b, t) ==
    IF RecoveryElapsed(b, t) THEN [b EXCEPT !.state = "half_open", !.halfOpenCalls = 1]
    ELSE IF b.state = "half_open" THEN [b EXCEPT !.halfOpenCalls = @ + 1]
    ELSE b

\* Broken variants: a success in the closed state does not clear the count; a
\* successful probe clears the count and leaves the breaker half-open.
AfterSuccessKeepsCount(b) ==
    IF b.state = "closed" THEN b
    ELSE [b EXCEPT !.failures = 0, !.state = "closed", !.halfOpenCalls = 0]

AfterSuccessStaysHalfOpen(b) ==
    IF b.state = "open" THEN [b EXCEPT !.failures = 0, !.state = "closed", !.halfOpenCalls = 0]
    ELSE [b EXCEPT !.failures = 0]

\* record_success: opened_at keeps its value.
AfterSuccess(b) ==
    IF b.state = "closed" THEN [b EXCEPT !.failures = 0]
    ELSE [b EXCEPT !.failures = 0, !.state = "closed", !.halfOpenCalls = 0]

\* Broken variant: a failed probe opens the breaker but forgets opened_at.
AfterFailureKeepsClock(b, t) ==
    IF b.state = "half_open"
    THEN [b EXCEPT !.state = "open", !.failures = 0, !.halfOpenCalls = 0]
    ELSE IF b.failures + 1 >= FailureThreshold
    THEN [b EXCEPT !.state = "open", !.openedAt = t, !.failures = 0]
    ELSE [b EXCEPT !.failures = @ + 1]

\* record_failure: a failure is counted in the open state too, and the count
\* it adds up to moves opened_at again.
AfterFailure(b, t) ==
    IF b.state = "half_open"
    THEN [state |-> "open", openedAt |-> t, failures |-> 0, halfOpenCalls |-> 0]
    ELSE IF b.failures + 1 >= FailureThreshold
    THEN [b EXCEPT !.state = "open", !.openedAt = t, !.failures = 0]
    ELSE [b EXCEPT !.failures = @ + 1]
=============================================================================

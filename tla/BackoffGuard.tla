---------------------------- MODULE BackoffGuard ----------------------------
(***************************************************************************)
(* BackoffGuard (shared/resilience/backoff.py) as a value: a streak of     *)
(* failures and the time until which every request of its name is refused. *)
(***************************************************************************)
EXTENDS Naturals

CONSTANTS
    BackoffBase,   \* max(0.1, base_seconds) in ticks
    BackoffMax     \* max_seconds in ticks

ASSUME BackoffAssumption ==
    /\ BackoffBase \in Nat \ {0}
    /\ BackoffMax \in Nat

\* The multiplier stops growing here.
MaxMultiplier == 8

Guard == [streak : Nat, until : Nat]

NewGuard == [streak |-> 0, until |-> 0]

Smaller(m, n) == IF m <= n THEN m ELSE n

Larger(m, n) == IF m <= n THEN n ELSE m

Cooldown(streak) == Smaller(BackoffMax, BackoffBase * Smaller(MaxMultiplier, Larger(1, streak)))

GuardAllows(g, t) == t >= g.until

\* Broken variant: the cooldown is computed before the streak is counted up.
GuardAfterFailureOffByOne(g, t) ==
    [streak |-> g.streak + 1, until |-> Larger(g.until, t + Cooldown(g.streak))]

GuardAfterFailure(g, t) ==
    [streak |-> g.streak + 1, until |-> Larger(g.until, t + Cooldown(g.streak + 1))]

GuardAfterSuccess(g) == NewGuard
=============================================================================

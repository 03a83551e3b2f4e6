---------------------------- MODULE WindowClaims ----------------------------
(***************************************************************************)
(* What the polling loops of a chain promise, without locks, threads and   *)
(* rounds: a window is claimed once and for all.  A loop claims windows    *)
(* later than the ones it has passed, works on one at a time, and passes   *)
(* it, or lets go of it for good.  It passes a window that it did not      *)
(* claim only if somebody else did, and does not turn back.  Only a loop   *)
(* that ends forgets what it has passed.                                   *)
(***************************************************************************)
EXTENDS Integers

CONSTANTS
    Loops,    \* the loops of the chain
    Windows,  \* the minutes a window may begin at
    Nothing   \* no window

VARIABLES
    claimed,  \* the windows somebody has claimed
    working,  \* working[s]: the window that s has to itself
    passed    \* passed[s]: the last window that s has left behind as done

claims == <<claimed, working, passed>>

Busy(s) == working[s] # Nothing

ClaimsInit ==
    /\ claimed = {}
    /\ working = [s \in Loops |-> Nothing]
    /\ passed = [s \in Loops |-> Nothing]

ClaimWindow(s, w) ==
    /\ ~ Busy(s)
    /\ w \notin claimed
    /\ passed[s] # Nothing => passed[s] < w
    /\ claimed' = claimed \cup {w}
    /\ working' = [working EXCEPT ![s] = w]
    /\ UNCHANGED passed

\* Claimed on behalf of no loop: by hand, or for a loop that has ended.
ClaimedAside(w) ==
    /\ claimed' = claimed \cup {w}
    /\ UNCHANGED <<working, passed>>

Finish(s) ==
    /\ Busy(s)
    /\ working' = [working EXCEPT ![s] = Nothing]
    /\ passed' = [passed EXCEPT ![s] = working[s]]
    /\ UNCHANGED claimed

LetGo(s) ==
    /\ Busy(s)
    /\ working' = [working EXCEPT ![s] = Nothing]
    /\ UNCHANGED <<claimed, passed>>

LeaveToOther(s, w) ==
    /\ ~ Busy(s)
    /\ w \in claimed
    /\ passed[s] # Nothing => passed[s] <= w
    /\ passed' = [passed EXCEPT ![s] = w]
    /\ UNCHANGED <<claimed, working>>

End(s) ==
    /\ working' = [working EXCEPT ![s] = Nothing]
    /\ passed' = [passed EXCEPT ![s] = Nothing]
    /\ UNCHANGED claimed

ClaimsNext ==
    \/ \E w \in Windows : ClaimedAside(w)
    \/ \E s \in Loops : Finish(s) \/ LetGo(s) \/ End(s)
    \/ \E s \in Loops, w \in Windows : ClaimWindow(s, w) \/ LeaveToOther(s, w)

ClaimsSpec == ClaimsInit /\ [][ClaimsNext]_claims
=============================================================================

--------------------------- MODULE ChainScheduler ---------------------------
(***************************************************************************)
(* ChainPipelineScheduler (app/services/chain_scheduler.py): the polling   *)
(* loops of one chain, one per process, over the database they share.      *)
(* A loop wakes up, works out which windows are due, and for each of them  *)
(* tries the advisory lock, claims the window in a thread, gives the lock  *)
(* back and runs the pipeline.  What a run does is PipelineRuns; here it   *)
(* ends well, or raises.                                                   *)
(*                                                                         *)
(* Time is in minutes.  A loop may wake up in any minute: the sleep ends   *)
(* at the next multiple of interval_seconds, and runs take as long as they *)
(* take.                                                                   *)
(***************************************************************************)
EXTENDS Integers, Sequences, FiniteSets

CONSTANTS
    Schedulers,  \* the processes' schedulers of the chain
    Step,        \* window_step_minutes
    CatchUp,     \* catchup_windows
    Never,       \* _last_window_ts before the first window, "None"
    NoOne,       \* the holder of a lock that is free
    MaxTime,     \* bound of the clock
    MaxDisturbances  \* bound: failed statements and runs, lost sessions, stopped loops, manual runs

ASSUME SchedulerAssumption ==
    /\ Step \in Nat \ {0}
    /\ CatchUp \in Nat \ {0}
    /\ Never \notin Nat
    /\ NoOne \notin Schedulers
    /\ MaxTime \in Nat /\ MaxDisturbances \in Nat

VARIABLES
    clock,       \* the current minute
    pc,          \* pc[s]: where the loop of s is
    due,         \* due[s]: the windows of the round it has not dealt with, in order
    last,        \* last[s]: _last_window_ts
    claim,       \* claim[s]: the thread that claims Head(due[s])
    orphans,     \* windows whose claiming thread nobody waits for any more
    rows,        \* windows that have a row in pipeline_runs
    lockHolder,  \* who holds the advisory lock "pipeline-scheduler" of the chain
    disturbances,  \* how many there have been
    given        \* history, given[s]: windows after last[s] that s did not claim and gave up

vars == <<clock, pc, due, last, claim, orphans, rows, lockHolder, disturbances, given>>

Minutes == 0 .. MaxTime

TypeOK ==
    /\ clock \in Minutes
    /\ pc \in [Schedulers -> {"stopped", "asleep", "visiting", "claiming", "running"}]
    /\ due \in [Schedulers -> Seq(Minutes)]
    /\ last \in [Schedulers -> Minutes \cup {Never}]
    /\ claim \in [Schedulers -> {"none", "pending", "won", "duplicate", "failed"}]
    /\ orphans \subseteq Minutes
    /\ rows \subseteq Minutes
    /\ lockHolder \in Schedulers \cup {NoOne}
    /\ disturbances \in Nat
    /\ given \in [Schedulers -> SUBSET Minutes]

Init ==
    /\ clock = 0
    /\ pc = [s \in Schedulers |-> "asleep"]
    /\ due = [s \in Schedulers |-> <<>>]
    /\ last = [s \in Schedulers |-> Never]
    /\ claim = [s \in Schedulers |-> "none"]
    /\ orphans = {}
    /\ rows = {}
    /\ lockHolder = NoOne
    /\ disturbances = 0
    /\ given = [s \in Schedulers |-> {}]

Tick ==
    /\ clock < MaxTime
    /\ clock' = clock + 1
    /\ UNCHANGED <<pc, due, last, claim, orphans, rows, lockHolder, disturbances, given>>

-----------------------------------------------------------------------------
(***************************************************************************)
(* _build_due_windows.  Behind counts the whole steps from the last window *)
(* to the current minute; of these the latest CatchUp are due.             *)
(***************************************************************************)
Behind(from, current) == (current - from) \div Step

\* Broken variants: the minute after each window that is due; no catching up.
DueWindowsOffByOne(from, current) ==
    IF from = Never \/ Behind(from, current) = 0 THEN <<current>>
    ELSE LET n == Behind(from, current)
             kept == IF n > CatchUp THEN CatchUp ELSE n
         IN  [i \in 1 .. kept |-> from + (n - kept + i) * Step + 1]

DueWindowsLatestOnly(from, current) == <<current>>

DueWindows(from, current) ==
    IF from = Never \/ Behind(from, current) = 0 THEN <<current>>
    ELSE LET n == Behind(from, current)
             kept == IF n > CatchUp THEN CatchUp ELSE n
         IN  [i \in 1 .. kept |-> from + (n - kept + i) * Step]

\* The windows that catching up leaves out.
Dropped(from, current) ==
    IF from = Never THEN {}
    ELSE {from + k * Step : k \in 1 .. (Behind(from, current) - CatchUp)}

\* A process starts in the place of one that has gone; as from Init, its loop
\* begins with a sleep (the initial delay).
Start(s) ==
    /\ pc[s] = "stopped"
    /\ pc' = [pc EXCEPT ![s] = "asleep"]
    /\ UNCHANGED <<clock, due, last, claim, orphans, rows, lockHolder, disturbances, given>>

Wake(s) ==
    /\ pc[s] = "asleep"
    /\ pc' = [pc EXCEPT ![s] = "visiting"]
    /\ due' = [due EXCEPT ![s] = DueWindows(last[s], clock)]
    /\ given' = [given EXCEPT ![s] = @ \cup Dropped(last[s], clock)]
    /\ UNCHANGED <<clock, last, claim, orphans, rows, lockHolder, disturbances>>

\* On to the next window of the round, or to sleep after the last one.
Advance(s) ==
    /\ due' = [due EXCEPT ![s] = Tail(@)]
    /\ pc' = [pc EXCEPT ![s] = IF Len(due[s]) = 1 THEN "asleep" ELSE "visiting"]

Passed(s) ==
    /\ last' = [last EXCEPT ![s] = Head(due[s])]
    /\ given' = [given EXCEPT ![s] = {w \in @ : w > Head(due[s])}]

Released(s) == IF lockHolder = s THEN NoOne ELSE lockHolder

TakeLock(s) ==
    /\ pc[s] = "visiting"
    /\ lockHolder = NoOne
    /\ lockHolder' = s
    /\ pc' = [pc EXCEPT ![s] = "claiming"]
    /\ claim' = [claim EXCEPT ![s] = "pending"]
    /\ UNCHANGED <<clock, due, last, orphans, rows, disturbances, given>>

\* "scheduler tick skipped: lock not acquired": the window is not tried again
\* in this round, and _last_window_ts stays.
LockDenied(s) ==
    /\ pc[s] = "visiting"
    /\ lockHolder # NoOne
    /\ Advance(s)
    /\ given' = [given EXCEPT ![s] = @ \cup {Head(due[s])}]
    /\ UNCHANGED <<clock, last, claim, orphans, rows, lockHolder, disturbances>>

\* The statement that asks for the lock fails: logged by "except Exception".
LockFails(s) ==
    /\ pc[s] = "visiting"
    /\ disturbances < MaxDisturbances
    /\ disturbances' = disturbances + 1
    /\ Advance(s)
    /\ given' = [given EXCEPT ![s] = @ \cup {Head(due[s])}]
    /\ UNCHANGED <<clock, last, claim, orphans, rows, lockHolder>>

\* Broken variant: the INSERT does not say whether it found a row.
ClaimThreadAlwaysWins(s) ==
    /\ claim[s] = "pending"
    /\ rows' = rows \cup {Head(due[s])}
    /\ claim' = [claim EXCEPT ![s] = "won"]
    /\ UNCHANGED <<clock, pc, due, last, orphans, lockHolder, disturbances, given>>

\* claim_scheduler_window in its thread: INSERT ... ON CONFLICT DO NOTHING.
ClaimThread(s) ==
    /\ claim[s] = "pending"
    /\ rows' = rows \cup {Head(due[s])}
    /\ claim' = [claim EXCEPT ![s] = IF Head(due[s]) \in rows THEN "duplicate" ELSE "won"]
    /\ UNCHANGED <<clock, pc, due, last, orphans, lockHolder, disturbances, given>>

ClaimThreadFails(s) ==
    /\ claim[s] = "pending"
    /\ disturbances < MaxDisturbances
    /\ disturbances' = disturbances + 1
    /\ claim' = [claim EXCEPT ![s] = "failed"]
    /\ UNCHANGED <<clock, pc, due, last, orphans, rows, lockHolder, given>>

\* A thread whose loop was cancelled inserts its row all the same.
OrphanClaims(w) ==
    /\ w \in orphans
    /\ orphans' = orphans \ {w}
    /\ rows' = rows \cup {w}
    /\ UNCHANGED <<clock, pc, due, last, claim, lockHolder, disturbances, given>>

-----------------------------------------------------------------------------
(***************************************************************************)
(* The thread has answered: the lock goes back, and a claimed window is    *)
(* run, a duplicate one is passed, a failed claim is logged.               *)
(***************************************************************************)
ClaimWon(s) ==
    /\ pc[s] = "claiming"
    /\ claim[s] = "won"
    /\ lockHolder = s
    /\ lockHolder' = NoOne
    /\ pc' = [pc EXCEPT ![s] = "running"]
    /\ claim' = [claim EXCEPT ![s] = "none"]
    /\ UNCHANGED <<clock, due, last, orphans, rows, disturbances, given>>

ClaimDuplicate(s) ==
    /\ pc[s] = "claiming"
    /\ claim[s] = "duplicate"
    /\ lockHolder = s
    /\ lockHolder' = NoOne
    /\ claim' = [claim EXCEPT ![s] = "none"]
    /\ Passed(s)
    /\ Advance(s)
    /\ UNCHANGED <<clock, orphans, rows, disturbances>>

\* Broken variants: a failed claim moves _last_window_ts; it keeps the lock.
ClaimRaisedMovesOn(s) ==
    /\ pc[s] = "claiming"
    /\ claim[s] = "failed"
    /\ lockHolder = s
    /\ lockHolder' = NoOne
    /\ claim' = [claim EXCEPT ![s] = "none"]
    /\ Passed(s)
    /\ Advance(s)
    /\ UNCHANGED <<clock, orphans, rows, disturbances>>

ClaimRaisedKeepsLock(s) ==
    /\ pc[s] = "claiming"
    /\ claim[s] = "failed"
    /\ lockHolder = s
    /\ claim' = [claim EXCEPT ![s] = "none"]
    /\ Advance(s)
    /\ given' = [given EXCEPT ![s] = @ \cup {Head(due[s])}]
    /\ UNCHANGED <<clock, last, orphans, rows, lockHolder, disturbances>>

ClaimRaised(s) ==
    /\ pc[s] = "claiming"
    /\ claim[s] = "failed"
    /\ lockHolder = s
    /\ lockHolder' = NoOne
    /\ claim' = [claim EXCEPT ![s] = "none"]
    /\ Advance(s)
    /\ given' = [given EXCEPT ![s] = @ \cup {Head(due[s])}]
    /\ UNCHANGED <<clock, last, orphans, rows, disturbances>>

\* The database session of the lock is lost, and the lock with it.
SessionLost(s) ==
    /\ lockHolder = s
    /\ disturbances < MaxDisturbances
    /\ disturbances' = disturbances + 1
    /\ lockHolder' = NoOne
    /\ UNCHANGED <<clock, pc, due, last, claim, orphans, rows, given>>

\* The answer of the claim is dropped: the unlock raises on the lost session.
DropAnswer(s) ==
    /\ pc[s] = "claiming"
    /\ lockHolder # s
    /\ claim' = [claim EXCEPT ![s] = "none"]
    /\ Advance(s)
    /\ given' = [given EXCEPT ![s] = @ \cup {Head(due[s])}]
    /\ UNCHANGED <<clock, last, rows, lockHolder, disturbances>>

\* The thread has answered; a row it inserted stays without a run.
UnlockFails(s) ==
    /\ claim[s] # "pending"
    /\ DropAnswer(s)
    /\ UNCHANGED orphans

\* stop() ends the wait for the thread, but the exception of the unlock takes
\* the place of CancelledError: the loop goes on.
StopSwallowed(s) ==
    /\ claim[s] = "pending"
    /\ DropAnswer(s)
    /\ orphans' \in {orphans, orphans \cup {Head(due[s])}}

RunSucceeds(s) ==
    /\ pc[s] = "running"
    /\ Passed(s)
    /\ Advance(s)
    /\ UNCHANGED <<clock, claim, orphans, rows, lockHolder, disturbances>>

\* run_claimed raised: logged, and _last_window_ts stays.
RunRaises(s) ==
    /\ pc[s] = "running"
    /\ disturbances < MaxDisturbances
    /\ disturbances' = disturbances + 1
    /\ Advance(s)
    /\ UNCHANGED <<clock, last, claim, orphans, rows, lockHolder, given>>

\* stop(): CancelledError at whatever the loop awaits; or the process dies,
\* and the thread with it.
Stop(s) ==
    /\ pc[s] # "stopped"
    /\ disturbances < MaxDisturbances
    /\ disturbances' = disturbances + 1
    /\ pc' = [pc EXCEPT ![s] = "stopped"]
    /\ due' = [due EXCEPT ![s] = <<>>]
    /\ last' = [last EXCEPT ![s] = Never]
    /\ given' = [given EXCEPT ![s] = {}]
    /\ claim' = [claim EXCEPT ![s] = "none"]
    /\ lockHolder' = Released(s)
    /\ \/ UNCHANGED orphans
       \/ claim[s] = "pending" /\ orphans' = orphans \cup {Head(due[s])}
    /\ UNCHANGED <<clock, rows>>

\* A manual run of the current minute, by anybody.
ManualClaim ==
    /\ clock \notin rows
    /\ disturbances < MaxDisturbances
    /\ disturbances' = disturbances + 1
    /\ rows' = rows \cup {clock}
    /\ UNCHANGED <<clock, pc, due, last, claim, orphans, lockHolder, given>>

-----------------------------------------------------------------------------
Threads(s) == ClaimThread(s) \/ ClaimThreadFails(s)

Loop(s) ==
    \/ Wake(s)
    \/ TakeLock(s)
    \/ LockDenied(s)
    \/ LockFails(s)
    \/ ClaimWon(s)
    \/ ClaimDuplicate(s)
    \/ ClaimRaised(s)
    \/ UnlockFails(s)
    \/ RunSucceeds(s)
    \/ RunRaises(s)

Next ==
    \/ Tick
    \/ ManualClaim
    \/ \E w \in orphans : OrphanClaims(w)
    \/ \E s \in Schedulers : Start(s) \/ Threads(s) \/ Loop(s) \/ SessionLost(s) \/ StopSwallowed(s) \/ Stop(s)

Spec == Init /\ [][Next]_vars

(***************************************************************************)
(* A loop that is not stopped is resumed when what it awaits is over, and  *)
(* threads and runs end (both have timeouts).  Nothing makes a process     *)
(* start, and nothing makes the clock of the bounded model go on.          *)
(***************************************************************************)
FairSpec == Spec /\ \A s \in Schedulers : WF_vars(Loop(s)) /\ WF_vars(Threads(s))

-----------------------------------------------------------------------------
\* A claim is the loop's own from the INSERT until it goes on.
Owns(s) == pc[s] = "running" \/ claim[s] = "won"

(***************************************************************************)
(* The loops keep what WindowClaims promises, whatever becomes of locks,   *)
(* threads and sessions: no window is claimed twice, each claim is for a   *)
(* window after the ones passed, and a loop passes what it has claimed and *)
(* run, or what somebody else has claimed.                                 *)
(***************************************************************************)
Claims == INSTANCE WindowClaims WITH
              Loops <- Schedulers, Windows <- Minutes, Nothing <- Never,
              claimed <- rows, passed <- last,
              working <- [s \in Schedulers |-> IF Owns(s) THEN Head(due[s]) ELSE Never]

ImplementsClaims == Claims!ClaimsSpec

(***************************************************************************)
(* No two processes run the same window, though the lock is back before    *)
(* the run starts and a claiming thread may outlive its lock.              *)
(***************************************************************************)
NoDoubleRun ==
    \A s, t \in Schedulers :
        pc[s] = "running" /\ pc[t] = "running" /\ Head(due[s]) = Head(due[t]) => s = t

(***************************************************************************)
(* While a loop is stepping over windows, none gets lost unnoticed: each   *)
(* has a row by then, or the loop has given it up for one of the reasons   *)
(* that the code logs (a denied lock, a failed statement) or because it    *)
(* was more than catchup_windows behind.  It never steps back.             *)
(***************************************************************************)
SteppedOver(s, w) == last[s] < w /\ w < last'[s] /\ (w - last[s]) % Step = 0

NoSilentGap ==
    [][\A s \in Schedulers :
          last[s] # Never /\ last'[s] # Never =>
              /\ last'[s] >= last[s]
              /\ \A w \in Minutes : SteppedOver(s, w) => w \in rows \cup given[s]]_vars

(***************************************************************************)
(* The chain does not stand still: as long as a loop is alive, the present *)
(* minute gets its row some day, however the locks, claims and runs went.  *)
(***************************************************************************)
KeepsUp == []<>(clock \in rows \/ \A s \in Schedulers : pc[s] = "stopped")

(***************************************************************************)
(* What the setting says of catch-up: the latest N windows may be made up  *)
(* for, so that a loop steps over none of them that has no row.            *)
(***************************************************************************)
RecentWindowsMadeUp ==
    [][\A s \in Schedulers, w \in Minutes :
          /\ last[s] # Never /\ last'[s] # Never
          /\ SteppedOver(s, w)
          /\ clock - w < CatchUp * Step
          => w \in rows]_vars
=============================================================================

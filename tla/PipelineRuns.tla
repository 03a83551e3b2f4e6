---------------------------- MODULE PipelineRuns ----------------------------
(***************************************************************************)
(* ChainPipelineService and the pipeline_runs part of PipelineRepository:  *)
(* the runs of one chain and strategy version, started by the scheduler,   *)
(* the run endpoint and the replay endpoint of any number of processes     *)
(* that share the database.                                                *)
(*                                                                         *)
(* A run is a coroutine of its process.  Blocking work goes to a thread    *)
(* (asyncio.to_thread): when the coroutine stops waiting, because of a     *)
(* timeout or a cancellation, the thread goes on.  So each run has, next   *)
(* to the stage of its coroutine, up to three thread jobs (claim, persist, *)
(* mark), each of which is one database transaction and hence one step.    *)
(* The replay guard runs on the event loop itself and has three steps,     *)
(* because it makes three transactions under its advisory lock.            *)
(***************************************************************************)
EXTENDS Naturals, FiniteSets

CONSTANTS
    Runs,         \* calls of run_once, claim_scheduler_window and replay: one run id each
    Windows,      \* values of ts_minute
    NoRun,        \* the writer of a window nobody has written yet
    ReplayLimit,  \* replay_max_in_flight_per_chain
    MaxCrashes    \* bound: processes that die while they run one of Runs

ASSUME PipelineAssumption ==
    /\ IsFiniteSet(Runs)
    /\ NoRun \notin Runs
    /\ ReplayLimit \in Nat \ {0}
    /\ MaxCrashes \in Nat

VARIABLES
    window,      \* window[r]: the minute r is about
    trigger,     \* trigger[r]: "replay", or "claim" for scheduler and manual
    stage,       \* stage[r]: where the coroutine of r is
    claimJob,    \* claimJob[r]: the thread of _claim_run
    persistJob,  \* persistJob[r]: the thread of _persist_success
    markJob,     \* markJob[r]: the thread of _mark_failed's UPDATE
    status,      \* status[r]: the row of r in pipeline_runs
    fresh,       \* fresh[r]: started_at is within stale_seconds
    data,        \* data[w]: the run that last committed the rows of w
    lockHolder,  \* who holds the advisory lock "pipeline-replay" of the chain
    crashes,
    lost         \* history: runs whose row can be left at "running" for good

vars == <<window, trigger, stage, claimJob, persistJob, markJob, status, fresh, data,
          lockHolder, crashes, lost>>

Stages ==
    {"unborn", "claiming", "skipped",         \* run_once, claim_scheduler_window
     "locked", "counted",                     \* replay, under its lock
     "preparing", "persisting", "marking",    \* run_claimed
     "returned", "raised", "crashed"}

Jobs == {"none", "pending", "done", "conflict", "failed"}

TypeOK ==
    /\ window \in [Runs -> Windows]
    /\ trigger \in [Runs -> {"claim", "replay"}]
    /\ stage \in [Runs -> Stages]
    /\ claimJob \in [Runs -> Jobs]
    /\ persistJob \in [Runs -> Jobs]
    /\ markJob \in [Runs -> Jobs]
    /\ status \in [Runs -> {"absent", "running", "success", "failed"}]
    /\ fresh \in [Runs -> BOOLEAN]
    /\ data \in [Windows -> Runs \cup {NoRun}]
    /\ lockHolder \in Runs \cup {NoRun}
    /\ crashes \in Nat
    /\ lost \subseteq Runs

Init ==
    /\ window \in [Runs -> Windows]
    /\ trigger \in [Runs -> {"claim", "replay"}]
    /\ stage = [r \in Runs |-> "unborn"]
    /\ claimJob = [r \in Runs |-> "none"]
    /\ persistJob = [r \in Runs |-> "none"]
    /\ markJob = [r \in Runs |-> "none"]
    /\ status = [r \in Runs |-> "absent"]
    /\ fresh = [r \in Runs |-> FALSE]
    /\ data = [w \in Windows |-> NoRun]
    /\ lockHolder = NoRun
    /\ crashes = 0
    /\ lost = {}

-----------------------------------------------------------------------------
(***************************************************************************)
(* run_once without force, claim_scheduler_window: the INSERT runs in a    *)
(* thread, under the partial unique index on non-replay rows.              *)
(***************************************************************************)
\* Broken variant: the index covers the rows that are running only.
ConflictingWhileRunning(r) ==
    \E s \in Runs : status[s] = "running" /\ trigger[s] = "claim" /\ window[s] = window[r]

Conflicting(r) ==
    \E s \in Runs : status[s] # "absent" /\ trigger[s] = "claim" /\ window[s] = window[r]

StartClaim(r) ==
    /\ stage[r] = "unborn"
    /\ trigger[r] = "claim"
    /\ stage' = [stage EXCEPT ![r] = "claiming"]
    /\ claimJob' = [claimJob EXCEPT ![r] = "pending"]
    /\ UNCHANGED <<window, trigger, persistJob, markJob, status, fresh, data,
                   lockHolder, crashes, lost>>

ClaimInsert(r) ==
    /\ claimJob[r] = "pending"
    /\ ~Conflicting(r)
    /\ claimJob' = [claimJob EXCEPT ![r] = "done"]
    /\ status' = [status EXCEPT ![r] = "running"]
    /\ UNCHANGED <<window, trigger, stage, persistJob, markJob, fresh, data,
                   lockHolder, crashes, lost>>

\* ON CONFLICT (chain_id, strategy_version, ts_minute) DO NOTHING
ClaimConflict(r) ==
    /\ claimJob[r] = "pending"
    /\ Conflicting(r)
    /\ claimJob' = [claimJob EXCEPT ![r] = "conflict"]
    /\ UNCHANGED <<window, trigger, stage, persistJob, markJob, status, fresh, data,
                   lockHolder, crashes, lost>>

ClaimRollback(r) ==
    /\ claimJob[r] = "pending"
    /\ claimJob' = [claimJob EXCEPT ![r] = "failed"]
    /\ UNCHANGED <<window, trigger, stage, persistJob, markJob, status, fresh, data,
                   lockHolder, crashes, lost>>

\* Broken variant: a lost claim is treated like a job outcome.
AfterClaimLeaks(job) == IF job = "done" THEN "preparing" ELSE job

AfterClaim(job) ==
    CASE job = "done" -> "preparing" [] job = "conflict" -> "skipped" [] OTHER -> "raised"

ClaimResume(r) ==
    /\ stage[r] = "claiming"
    /\ claimJob[r] # "pending"
    /\ stage' = [stage EXCEPT ![r] = AfterClaim(claimJob[r])]
    /\ UNCHANGED <<window, trigger, claimJob, persistJob, markJob, status, fresh, data,
                   lockHolder, crashes, lost>>

\* A coroutine that stops waiting for a thread leaves it running, unless the
\* thread pool had not started it yet.
Abandoned(job, r) == {job, [job EXCEPT ![r] = IF @ = "pending" THEN "failed" ELSE @]}

\* The scheduler is stopped, or the request dropped, during the claim.
ClaimCancelled(r) ==
    /\ stage[r] = "claiming"
    /\ stage' = [stage EXCEPT ![r] = "raised"]
    /\ claimJob' \in Abandoned(claimJob, r)
    /\ lost' = lost \cup {r}
    /\ UNCHANGED <<window, trigger, persistJob, markJob, status, fresh, data,
                   lockHolder, crashes>>

-----------------------------------------------------------------------------
(***************************************************************************)
(* replay: try the lock, count the fresh running replays, insert the row,  *)
(* unlock.  Each of the three is a transaction of its own.                 *)
(***************************************************************************)
ActiveReplays == {r \in Runs : trigger[r] = "replay" /\ status[r] = "running" /\ fresh[r]}

Unlocked(r) == IF lockHolder = r THEN NoRun ELSE lockHolder

\* Broken variant: the result of pg_try_advisory_lock is not looked at.
ReplayLockUnchecked(r) ==
    /\ stage[r] = "unborn"
    /\ trigger[r] = "replay"
    /\ stage' = [stage EXCEPT ![r] = "locked"]
    /\ lockHolder' = r
    /\ UNCHANGED <<window, trigger, claimJob, persistJob, markJob, status, fresh, data,
                   crashes, lost>>

ReplayLock(r) ==
    /\ stage[r] = "unborn"
    /\ trigger[r] = "replay"
    /\ lockHolder = NoRun
    /\ stage' = [stage EXCEPT ![r] = "locked"]
    /\ lockHolder' = r
    /\ UNCHANGED <<window, trigger, claimJob, persistJob, markJob, status, fresh, data,
                   crashes, lost>>

\* "replay lock not acquired"
ReplayLockDenied(r) ==
    /\ stage[r] = "unborn"
    /\ trigger[r] = "replay"
    /\ lockHolder # NoRun
    /\ stage' = [stage EXCEPT ![r] = "raised"]
    /\ UNCHANGED <<window, trigger, claimJob, persistJob, markJob, status, fresh, data,
                   lockHolder, crashes, lost>>

ReplayCount(r) ==
    /\ stage[r] = "locked"
    /\ Cardinality(ActiveReplays) < ReplayLimit
    /\ stage' = [stage EXCEPT ![r] = "counted"]
    /\ UNCHANGED <<window, trigger, claimJob, persistJob, markJob, status, fresh, data,
                   lockHolder, crashes, lost>>

\* "too many in-flight replay runs", or a statement that failed
ReplayRefused(r) ==
    /\ stage[r] \in {"locked", "counted"}
    /\ stage' = [stage EXCEPT ![r] = "raised"]
    /\ lockHolder' = Unlocked(r)
    /\ UNCHANGED <<window, trigger, claimJob, persistJob, markJob, status, fresh, data,
                   crashes, lost>>

ReplayInsert(r) ==
    /\ stage[r] = "counted"
    /\ stage' = [stage EXCEPT ![r] = "preparing"]
    /\ status' = [status EXCEPT ![r] = "running"]
    /\ fresh' = [fresh EXCEPT ![r] = TRUE]
    /\ lockHolder' = Unlocked(r)
    /\ UNCHANGED <<window, trigger, claimJob, persistJob, markJob, data, crashes, lost>>

(***************************************************************************)
(* started_at falls behind stale_seconds, twice the run timeout: no run is *)
(* still preparing or persisting by then, each of their waits being cut    *)
(* off at the run's deadline.                                              *)
(***************************************************************************)
GrowStale(r) ==
    /\ fresh[r]
    /\ stage[r] \notin {"preparing", "persisting"}
    /\ fresh' = [fresh EXCEPT ![r] = FALSE]
    /\ UNCHANGED <<window, trigger, stage, claimJob, persistJob, markJob, status, data,
                   lockHolder, crashes, lost>>

-----------------------------------------------------------------------------
(***************************************************************************)
(* run_claimed.  Fetching, gating, features and scores change nothing      *)
(* outside the coroutine, and end in a persist thread or in _mark_failed.  *)
(***************************************************************************)
StartPersist(r) ==
    /\ stage[r] = "preparing"
    /\ stage' = [stage EXCEPT ![r] = "persisting"]
    /\ persistJob' = [persistJob EXCEPT ![r] = "pending"]
    /\ UNCHANGED <<window, trigger, claimJob, markJob, status, fresh, data,
                   lockHolder, crashes, lost>>

BeginMark(r) ==
    /\ stage' = [stage EXCEPT ![r] = "marking"]
    /\ markJob' = [markJob EXCEPT ![r] = "pending"]
    /\ UNCHANGED <<window, trigger, claimJob, status, fresh, data, lockHolder, crashes, lost>>

\* Broken variant: the exception leaves run_claimed without _mark_failed.
PrepareFailsUnmarked(r) ==
    /\ stage[r] = "preparing"
    /\ stage' = [stage EXCEPT ![r] = "raised"]
    /\ UNCHANGED <<window, trigger, claimJob, persistJob, markJob, status, fresh, data,
                   lockHolder, crashes, lost>>

\* A timeout, an ingestion error, any other exception, or a cancellation.
PrepareFails(r) ==
    /\ stage[r] = "preparing"
    /\ BeginMark(r)
    /\ UNCHANGED persistJob

\* Broken variant: the ticks are saved in a transaction that did not commit.
PersistCommitStatusOnly(r) ==
    /\ persistJob[r] = "pending"
    /\ persistJob' = [persistJob EXCEPT ![r] = "done"]
    /\ status' = [status EXCEPT ![r] = "success"]
    /\ UNCHANGED <<window, trigger, stage, claimJob, markJob, fresh, data, lockHolder,
                   crashes, lost>>

\* One transaction: ticks, features, scores, and the row's status.
PersistCommit(r) ==
    /\ persistJob[r] = "pending"
    /\ persistJob' = [persistJob EXCEPT ![r] = "done"]
    /\ status' = [status EXCEPT ![r] = "success"]
    /\ data' = [data EXCEPT ![window[r]] = r]
    /\ UNCHANGED <<window, trigger, stage, claimJob, markJob, fresh, lockHolder, crashes, lost>>

\* Broken variant: the status is written outside the transaction rolled back.
PersistRollbackKeepsStatus(r) ==
    /\ persistJob[r] = "pending"
    /\ persistJob' = [persistJob EXCEPT ![r] = "failed"]
    /\ status' = [status EXCEPT ![r] = "success"]
    /\ UNCHANGED <<window, trigger, stage, claimJob, markJob, fresh, data,
                   lockHolder, crashes, lost>>

PersistRollback(r) ==
    /\ persistJob[r] = "pending"
    /\ persistJob' = [persistJob EXCEPT ![r] = "failed"]
    /\ UNCHANGED <<window, trigger, stage, claimJob, markJob, status, fresh, data,
                   lockHolder, crashes, lost>>

PersistReturns(r) ==
    /\ stage[r] = "persisting"
    /\ persistJob[r] = "done"
    /\ stage' = [stage EXCEPT ![r] = "returned"]
    /\ UNCHANGED <<window, trigger, claimJob, persistJob, markJob, status, fresh, data,
                   lockHolder, crashes, lost>>

PersistRaises(r) ==
    /\ stage[r] = "persisting"
    /\ persistJob[r] = "failed"
    /\ BeginMark(r)
    /\ UNCHANGED persistJob

\* wait_for gives up, or the coroutine is cancelled: even when the thread has
\* just finished, as long as the coroutine has not been resumed with its result.
PersistAbandoned(r) ==
    /\ stage[r] = "persisting"
    /\ BeginMark(r)
    /\ persistJob' \in Abandoned(persistJob, r)

\* UPDATE ... SET status = 'failed' WHERE ... run_id = :run_id, whatever the status.
MarkCommit(r) ==
    /\ markJob[r] = "pending"
    /\ markJob' = [markJob EXCEPT ![r] = "done"]
    /\ status' = [status EXCEPT ![r] = "failed"]
    /\ UNCHANGED <<window, trigger, stage, claimJob, persistJob, fresh, data,
                   lockHolder, crashes, lost>>

\* The UPDATE fails, for instance on statement_timeout behind the row lock.
MarkRollback(r) ==
    /\ markJob[r] = "pending"
    /\ markJob' = [markJob EXCEPT ![r] = "failed"]
    /\ lost' = lost \cup {r}
    /\ UNCHANGED <<window, trigger, stage, claimJob, persistJob, status, fresh, data,
                   lockHolder, crashes>>

\* Broken variant: the exception is not raised again after _mark_failed.
MarkReturnsSwallows(r) ==
    /\ stage[r] = "marking"
    /\ markJob[r] # "pending"
    /\ stage' = [stage EXCEPT ![r] = "returned"]
    /\ UNCHANGED <<window, trigger, claimJob, persistJob, markJob, status, fresh, data,
                   lockHolder, crashes, lost>>

MarkReturns(r) ==
    /\ stage[r] = "marking"
    /\ markJob[r] # "pending"
    /\ stage' = [stage EXCEPT ![r] = "raised"]
    /\ UNCHANGED <<window, trigger, claimJob, persistJob, markJob, status, fresh, data,
                   lockHolder, crashes, lost>>

\* A cancellation that arrives while _mark_failed waits for its thread.
MarkCancelled(r) ==
    /\ stage[r] = "marking"
    /\ stage' = [stage EXCEPT ![r] = "raised"]
    /\ markJob' \in Abandoned(markJob, r)
    /\ lost' = lost \cup {r}
    /\ UNCHANGED <<window, trigger, claimJob, persistJob, status, fresh, data,
                   lockHolder, crashes>>

(***************************************************************************)
(* The process of r dies: its coroutine, its threads with their open       *)
(* transactions, and its session with the advisory lock.  Nothing in the   *)
(* code looks for such rows afterwards.                                    *)
(***************************************************************************)
Crash(r) ==
    /\ crashes < MaxCrashes
    /\ \/ stage[r] \notin {"unborn", "skipped", "returned", "raised", "crashed"}
       \/ "pending" \in {claimJob[r], persistJob[r], markJob[r]}
    /\ crashes' = crashes + 1
    /\ stage' = [stage EXCEPT ![r] = "crashed"]
    /\ claimJob' = [claimJob EXCEPT ![r] = IF @ = "pending" THEN "failed" ELSE @]
    /\ persistJob' = [persistJob EXCEPT ![r] = IF @ = "pending" THEN "failed" ELSE @]
    /\ markJob' = [markJob EXCEPT ![r] = IF @ = "pending" THEN "failed" ELSE @]
    /\ lockHolder' = Unlocked(r)
    /\ lost' = lost \cup {r}
    /\ UNCHANGED <<window, trigger, status, fresh, data>>

-----------------------------------------------------------------------------
Threads(r) ==
    \/ ClaimInsert(r)
    \/ ClaimConflict(r)
    \/ ClaimRollback(r)
    \/ PersistCommit(r)
    \/ PersistRollback(r)
    \/ MarkCommit(r)
    \/ MarkRollback(r)

Coroutine(r) ==
    \/ ClaimResume(r)
    \/ ReplayCount(r)
    \/ ReplayRefused(r)
    \/ ReplayInsert(r)
    \/ StartPersist(r)
    \/ PrepareFails(r)
    \/ PersistReturns(r)
    \/ PersistRaises(r)
    \/ MarkReturns(r)

Environment(r) ==
    \/ StartClaim(r)
    \/ ReplayLock(r)
    \/ ReplayLockDenied(r)
    \/ ClaimCancelled(r)
    \/ PersistAbandoned(r)
    \/ MarkCancelled(r)
    \/ GrowStale(r)
    \/ Crash(r)

Next == \E r \in Runs : Threads(r) \/ Coroutine(r) \/ Environment(r)

Spec == Init /\ [][Next]_vars

(***************************************************************************)
(* Threads finish (statement_timeout bounds every statement) and a live    *)
(* coroutine is resumed; requests, cancellations and crashes are free.     *)
(***************************************************************************)
FairSpec == Spec /\ \A r \in Runs : WF_vars(Threads(r)) /\ WF_vars(Coroutine(r))

-----------------------------------------------------------------------------
(***************************************************************************)
(* A window is run at most once on behalf of schedulers and manual calls,  *)
(* whatever the number of processes that try.                              *)
(***************************************************************************)
OneClaimPerWindow ==
    \A r, s \in Runs :
        /\ trigger[r] = "claim" /\ status[r] # "absent"
        /\ trigger[s] = "claim" /\ status[s] # "absent"
        /\ window[r] = window[s]
        => r = s

(***************************************************************************)
(* Status and data move together: a row says success only if the run's     *)
(* data were committed, and the data a window shows are those of a run     *)
(* whose row is settled, never of one that is still running.               *)
(***************************************************************************)
StatusMatchesData ==
    /\ \A r \in Runs : status[r] = "success" => persistJob[r] = "done"
    /\ \A w \in Windows : data[w] # NoRun =>
          /\ window[data[w]] = w
          /\ status[data[w]] \in {"success", "failed"}

(***************************************************************************)
(* A summary returned to the caller is true of the database, then and      *)
(* later: the row says success and nothing is left that could change it.   *)
(***************************************************************************)
ReturnedIsDurable ==
    \A r \in Runs : stage[r] = "returned" =>
        status[r] = "success" /\ markJob[r] = "none" /\ persistJob[r] = "done"

(***************************************************************************)
(* The count under the lock and the insert after it keep the replays that  *)
(* are recorded as running, stale ones aside, and so those that execute,   *)
(* within replay_max_in_flight_per_chain.                                  *)
(***************************************************************************)
Executing(r) ==
    stage[r] = "preparing" \/ (stage[r] = "persisting" /\ persistJob[r] # "done")

ReplayLimitHeld ==
    /\ Cardinality(ActiveReplays) <= ReplayLimit
    /\ {r \in Runs : trigger[r] = "replay" /\ Executing(r)} \subseteq ActiveReplays

(***************************************************************************)
(* A row that says running is settled some day, except for the runs that   *)
(* lose their coroutine or their UPDATE on the way.                        *)
(***************************************************************************)
RunsSettle == \A r \in Runs : status[r] = "running" ~> (status[r] # "running" \/ r \in lost)

(***************************************************************************)
(* The database as the ledger sees it: which final updates a run has made  *)
(* is read off its thread jobs.                                            *)
(***************************************************************************)
Written(r) ==
    (IF persistJob[r] = "done" THEN {"success"} ELSE {})
        \cup (IF markJob[r] = "done" THEN {"failed"} ELSE {})

Ledger == INSTANCE RunLedger WITH written <- [r \in Runs |-> Written(r)]

ImplementsLedger == Ledger!LedgerSpec

(***************************************************************************)
(* What the two warnings of the service say: an update of a row that has   *)
(* been settled in the meantime is stale and is skipped.                   *)
(***************************************************************************)
SettledIsFinal ==
    [][\A r \in Runs : status[r] \in {"success", "failed"} => status'[r] = status[r]]_vars
=============================================================================

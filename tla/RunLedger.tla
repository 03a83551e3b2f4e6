------------------------------ MODULE RunLedger ------------------------------
(***************************************************************************)
(* What a reader of the database may rely on: the rows of pipeline_runs of *)
(* one chain and strategy version, and which run last wrote the market     *)
(* rows of each window.  A run is recorded once; it commits its data       *)
(* together with its success, at most once; and it is marked failed at     *)
(* most once.  Both may happen, in either order: the ledger does not       *)
(* promise that a settled row stays as it is.                              *)
(***************************************************************************)
CONSTANTS
    Runs,     \* run ids
    Windows,  \* values of ts_minute
    NoRun     \* the writer of a window nobody has written yet

VARIABLES
    status,   \* status[r]: the row of r, "absent" before the INSERT
    window,   \* window[r]: ts_minute
    trigger,  \* trigger[r]: "claim" stands for scheduler and manual
    data,     \* data[w]: the run whose ticks, features and scores w shows
    written   \* written[r]: which of the two final updates r has made

ledger == <<status, window, trigger, data, written>>

Recorded(r) == status[r] # "absent"

ClaimedWindow(w) == \E r \in Runs : Recorded(r) /\ trigger[r] = "claim" /\ window[r] = w

LedgerInit ==
    /\ status = [r \in Runs |-> "absent"]
    /\ window \in [Runs -> Windows]
    /\ trigger \in [Runs -> {"claim", "replay"}]
    /\ data = [w \in Windows |-> NoRun]
    /\ written = [r \in Runs |-> {}]

\* A window is claimed once and for all; replays may repeat it.
Record(r) ==
    /\ ~Recorded(r)
    /\ trigger[r] = "claim" => ~ClaimedWindow(window[r])
    /\ status' = [status EXCEPT ![r] = "running"]
    /\ UNCHANGED <<window, trigger, data, written>>

CommitRun(r) ==
    /\ Recorded(r)
    /\ "success" \notin written[r]
    /\ status' = [status EXCEPT ![r] = "success"]
    /\ data' = [data EXCEPT ![window[r]] = r]
    /\ written' = [written EXCEPT ![r] = @ \cup {"success"}]
    /\ UNCHANGED <<window, trigger>>

FailRun(r) ==
    /\ Recorded(r)
    /\ "failed" \notin written[r]
    /\ status' = [status EXCEPT ![r] = "failed"]
    /\ written' = [written EXCEPT ![r] = @ \cup {"failed"}]
    /\ UNCHANGED <<window, trigger, data>>

LedgerNext == \E r \in Runs : Record(r) \/ CommitRun(r) \/ FailRun(r)

LedgerSpec == LedgerInit /\ [][LedgerNext]_ledger
=============================================================================

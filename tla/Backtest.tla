------------------------------ MODULE Backtest ------------------------------
(***************************************************************************)
(* Backtests: requests that run BacktestEngine on the synthetic market and *)
(* store what it measured, one by one or as a batch.  A handler never      *)
(* suspends between its first and its last statement (the engine awaits    *)
(* nothing that waits, and the repository is synchronous), so a process    *)
(* serves one request at a time; other processes, a crash and a failing    *)
(* transaction come between its transactions.                              *)
(*                                                                         *)
(* A period is in seconds, everything a trade is measured by in the same   *)
(* unit of money, a profit factor in thousandths.                          *)
(***************************************************************************)
EXTENDS Integers, Sequences, FiniteSets, FiniteSetsExt

CONSTANTS
    Requests, Duties,  \* the requests, and what they can be
    Minutes,           \* the minutes the market is known for
    Markets            \* what may happen in them: [Minutes -> [conviction, return]]

NoConfig == [start |-> 0, end |-> -1, threshold |-> 0, cost |-> 0, stop |-> 0, take |-> 0]
Absent == [status |-> "absent", net |-> 0, gate2 |-> "none", writer |-> "none"]

\* A batch of no configurations touches nothing and is left out.
ASSUME BacktestAssumption ==
    \A d \in Duties : Len(d.configs) \in Nat \ {0} /\ DOMAIN d.configs = 1 .. Len(d.configs)

VARIABLES
    market,    \* one of Markets
    duty,      \* duty[r]: its process, what it does, its configurations
    step,      \* where request r is
    items,     \* the outcome of each configuration so far
    runs,      \* backtest_runs and backtest_metrics by run id
    files,     \* the run ids whose report is on the disk
    jobs       \* BacktestBatchCenter._jobs of all processes

backtestVars == <<market, duty, step, items, runs, files, jobs>>

\* A run's id hashes the period, the threshold and the size of a trade, but
\* neither its costs nor its stops.
RunId(config) == <<config.start, config.end, config.threshold>>

RunIds == UNION {{RunId(duty[r].configs[i]) : i \in DOMAIN duty[r].configs} : r \in Requests}

-----------------------------------------------------------------------------
(***************************************************************************)
(* BacktestEngine.run: one token is traded in every minute of the period   *)
(* it has the conviction for, at the return the stops allow.  What happens *)
(* on the market is the traffic.                                           *)
(***************************************************************************)
Traded(traffic, config) ==
    {m \in Minutes : /\ config.start \div 60 <= m /\ m <= config.end \div 60
                     /\ traffic[m].conviction >= config.threshold}

Net(traffic, config, m) ==
    LET raw == traffic[m].return
    IN  (IF raw > config.take THEN config.take ELSE IF raw < -config.stop THEN -config.stop ELSE raw) - config.cost

Metrics(traffic, config) ==
    LET traded == Traded(traffic, config)
        wins == {m \in traded : Net(traffic, config, m) > 0}
        sum(S) == MapThenSumSet(LAMBDA m : Net(traffic, config, m), S)
    IN  [trades |-> Cardinality(traded), profit |-> sum(wins), loss |-> -sum(traded \ wins)]

NetPnl(metrics) == metrics.profit - metrics.loss

Pf(metrics) ==
    IF metrics.trades = 0 THEN 0
    ELSE IF metrics.loss = 0 THEN 99000 ELSE (1000 * metrics.profit) \div metrics.loss

-----------------------------------------------------------------------------
(***************************************************************************)
(* Gate2Validator.check.  Both runs of the engine measure the same.        *)
(***************************************************************************)
\* The two halves of a period, in seconds.
Halves(start, end) ==
    LET split == start + ((end - start) \div 2)
    IN  <<[start |-> start, end |-> split], [start |-> split + 60, end |-> end]>>

Variants(config) == {config.threshold, IF config.threshold + 2 > 95 THEN 95 ELSE config.threshold + 2}

ActivePfs(traffic, config, half) ==
    LET trial(threshold) == Metrics(traffic, [config EXCEPT !.start = half.start, !.end = half.end, !.threshold = threshold])
        active == {v \in Variants(config) : trial(v).trades > 0}
    IN  IF active = {} THEN {} ELSE {MapThenSumSet(LAMBDA v : Pf(trial(v)), active) \div Cardinality(active)}

\* Stability 1 - (max - min) / max >= 0.4; a half without trades does not count.
WalkForward(traffic, config) ==
    LET halves == Halves(config.start, config.end)
        pfs == ActivePfs(traffic, config, halves[1]) \cup ActivePfs(traffic, config, halves[2])
    IN  /\ config.end - config.start > 120
        /\ pfs # {}
        /\ \A pf \in pfs : pf > 1000
        /\ 10 * Min(pfs) >= 4 * Max(pfs)

GatePasses(traffic, config) ==
    LET metrics == Metrics(traffic, config)
    IN  /\ metrics.trades = 0 \/ config.cost > 0
        /\ WalkForward(traffic, config)
        /\ Pf(metrics) > 1200 /\ NetPnl(metrics) > 0

-----------------------------------------------------------------------------
BacktestInit ==
    /\ market \in Markets
    /\ duty \in [Requests -> Duties]
    /\ step = [r \in Requests |-> "new"]
    /\ items = [r \in Requests |-> <<>>]
    /\ runs = [id \in RunIds |-> Absent]
    /\ files = {}
    /\ jobs = [r \in Requests |-> "none"]

Steps == {"new", "running", "saved", "returned", "error", "lost"}

BacktestTypeOK ==
    /\ market \in Markets /\ duty \in [Requests -> Duties]
    /\ step \in [Requests -> Steps]
    /\ items \in [Requests -> Seq({"success", "failed"})]
    /\ DOMAIN runs = RunIds
    /\ \A id \in RunIds : /\ runs[id].status \in {"absent", "success", "failed"} /\ runs[id].net \in Int
                          /\ runs[id].gate2 \in {"none", "passed", "failed"}
                          /\ runs[id].writer \in Requests \cup {"none"}
    /\ files \subseteq RunIds
    /\ jobs \in [Requests -> {"none", "running", "success", "partial_failed"}]

Config(r) == duty[r].configs[Len(items[r]) + 1]
Batch(r) == duty[r].batch
GateCheck(r) == duty[r].kind = "gate"
Status(r) == IF GateCheck(r) /\ ~ GatePasses(market, Config(r)) THEN "failed" ELSE "success"

(***************************************************************************)
(* A process takes up a request when it serves no other one; a batch's job *)
(* is registered first.                                                    *)
(***************************************************************************)
Serve(r) ==
    /\ step[r] = "new"
    /\ \A q \in Requests : duty[q].process = duty[r].process => step[q] \notin {"running", "saved"}
    /\ step' = [step EXCEPT ![r] = "running"]
    /\ jobs' = [jobs EXCEPT ![r] = IF Batch(r) THEN "running" ELSE @]
    /\ UNCHANGED <<market, duty, items, runs, files>>

\* The configuration is done: the batch goes on to its next one, or finishes.
Done(r, outcome) ==
    LET done == Append(items[r], outcome)
        last == Len(done) = Len(duty[r].configs)
    IN  /\ items' = [items EXCEPT ![r] = done]
        /\ step' = [step EXCEPT ![r] = IF outcome = "failed" /\ ~ Batch(r) THEN "error"
                                       ELSE IF last THEN "returned" ELSE "running"]
        /\ jobs' = [jobs EXCEPT ![r] = IF ~ (Batch(r) /\ last) THEN @
                                       ELSE IF \E i \in DOMAIN done : done[i] = "failed"
                                            THEN "partial_failed" ELSE "success"]

\* save_backtest_run replaces everything but created_at, gate2_check included.
Stored(r) ==
    [runs EXCEPT ![RunId(Config(r))] = [status |-> Status(r), net |-> NetPnl(Metrics(market, Config(r))),
                                        gate2 |-> "none", writer |-> r]]

\* Without a configuration _default_config raises (there is no engine.settings);
\* a period that ends before it starts is refused by the engine.
Reject(r) ==
    /\ step[r] = "running"
    /\ Config(r) = NoConfig \/ Config(r).end < Config(r).start
    /\ Done(r, "failed")
    /\ UNCHANGED <<market, duty, runs, files>>

Runnable(r) == step[r] = "running" /\ Config(r).end >= Config(r).start

SaveRun(r) ==
    /\ Runnable(r)
    /\ runs' = Stored(r)
    /\ IF duty[r].kind \in {"gate", "report"}
       THEN step' = [step EXCEPT ![r] = "saved"] /\ UNCHANGED <<items, jobs>>
       ELSE Done(r, "success")
    /\ UNCHANGED <<market, duty, files>>

\* The transaction fails, or only its acknowledgement is lost.
SaveRunFails(r) ==
    /\ Runnable(r)
    /\ runs' = runs \/ runs' = Stored(r)
    /\ Done(r, "failed")
    /\ UNCHANGED <<market, duty, files>>

\* Broken variant: the verdict is not stored when it is negative.
SaveGate2Passed(r) ==
    /\ step[r] = "saved" /\ GateCheck(r)
    /\ runs' = IF GatePasses(market, Config(r)) THEN [runs EXCEPT ![RunId(Config(r))].gate2 = "passed"] ELSE runs
    /\ Done(r, "success")
    /\ UNCHANGED <<market, duty, files>>

\* The second transaction of run_gate2_check; a check that did not pass is an
\* error to its caller, and a success to the batch.
SaveGate2(r) ==
    /\ step[r] = "saved" /\ GateCheck(r)
    /\ runs' = [runs EXCEPT ![RunId(Config(r))].gate2 = IF GatePasses(market, Config(r)) THEN "passed" ELSE "failed"]
    /\ Done(r, "success")
    /\ UNCHANGED <<market, duty, files>>

SaveGate2Fails(r) ==
    /\ step[r] = "saved" /\ GateCheck(r)
    /\ Done(r, "failed")
    /\ UNCHANGED <<market, duty, runs, files>>

\* BacktestReportExporter.export overwrites the report of an equal run id.
Export(r) ==
    /\ step[r] = "saved" /\ duty[r].kind = "report"
    /\ \/ files' = files \cup {RunId(Config(r))} /\ Done(r, "success")
       \/ UNCHANGED files /\ Done(r, "failed")
    /\ UNCHANGED <<market, duty, runs>>

CrashProcess(p) ==
    /\ \E r \in Requests : duty[r].process = p /\ (step[r] \in {"running", "saved"} \/ jobs[r] # "none")
    /\ step' = [r \in Requests |-> IF duty[r].process = p /\ step[r] \in {"running", "saved"} THEN "lost" ELSE step[r]]
    /\ jobs' = [r \in Requests |-> IF duty[r].process = p THEN "none" ELSE jobs[r]]
    /\ UNCHANGED <<market, duty, items, runs, files>>

BacktestNext ==
    \/ \E r \in Requests :
          \/ Serve(r) \/ Reject(r) \/ SaveRun(r) \/ SaveRunFails(r)
          \/ SaveGate2(r) \/ SaveGate2Fails(r) \/ Export(r)
    \/ \E p \in {d.process : d \in Duties} : CrashProcess(p)

BacktestSpec == BacktestInit /\ [][BacktestNext]_backtestVars

-----------------------------------------------------------------------------
\* What the caller was told of its i-th configuration.
Told(r, i) == i \in DOMAIN items[r] /\ items[r][i] = "success"

(***************************************************************************)
(* A run that was reported is stored, whatever failed or crashed besides;  *)
(* and if its row was written by nobody since, it tells that run's status  *)
(* and result, and after a gate check the verdict.                         *)
(***************************************************************************)
ReportedRunsAreStored ==
    \A r \in Requests : \A i \in DOMAIN items[r] :
       LET config == duty[r].configs[i]
           row == runs[RunId(config)]
       IN  Told(r, i) =>
              /\ row # Absent
              /\ row.writer = r /\ Len(duty[r].configs) = 1 =>
                    /\ row.net = NetPnl(Metrics(market, config))
                    /\ GateCheck(r) => /\ row.gate2 # "none"
                                       /\ row.status = "success" <=> GatePasses(market, config)
              /\ duty[r].kind = "report" => RunId(config) \in files
=============================================================================

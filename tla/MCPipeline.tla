----------------------------- MODULE MCPipeline -----------------------------
(***************************************************************************)
(* What happens to a window, stage by stage: the run that claims it, the   *)
(* market data it fetches, the scores it saves, the candidates the API     *)
(* serves of them; and the backtests of the same scoring.  The machines    *)
(* share no variable, so an instance runs one of them.                     *)
(***************************************************************************)
EXTENDS PipelineRuns, MarketData, Scoring, CandidateCache, Backtest

CONSTANTS r1, r2, w1, w2, a, b, x, t1, t2, api, worker, g1, g2, q1, q2

VARIABLE part  \* which of the machines runs

-----------------------------------------------------------------------------
\* A market of a token, as a provider tells it.
Pool(base, liquidity, volume, age) ==
    [base |-> base, priced |-> TRUE, price |-> 1, liquidity |-> liquidity, volume |-> volume,
     trades |-> DOMAIN volume, age |-> age, dex |-> "dex"]

\* What is known of a day of 288 units, five minutes at a time, or an hour.
Day == [w \in {"m5", "h24"} |-> IF w = "m5" THEN 1 ELSE 288]
Hour == [w \in {"h1"} |-> 12]

\* No market; a good one; one that is a second too young; one DexScreener and
\* Birdeye know too little of; and a name that three tokens' markets match.
MCPayloads ==
    {<<>>, <<Pool("own", 2, Day, 300)>>, <<Pool("own", 2, Day, 299)>>, <<Pool("own", 2, Hour, 300)>>,
     <<Pool("namesake", 2, Day, 300), Pool("own", 1, Day, 300), Pool("counter", 3, Day, 300)>>}

MCOrder == <<a, x, b>>
MCNone == [given |-> FALSE, valid |-> FALSE, value |-> 0]
MCConf(order, mapped, listed, strict, ratio) ==
    [order |-> order, mapped |-> mapped, listed |-> listed, strict |-> strict, ratio |-> ratio]

\* Every source before another one and as the last; mappings that miss a
\* required symbol, name a stranger, or are empty; lists of required symbols
\* with a stranger; a ratio above 100 and an unreadable one.
MCRatios ==
    {MCNone, [given |-> TRUE, valid |-> TRUE, value |-> 120], [given |-> TRUE, valid |-> FALSE, value |-> 0],
     [given |-> TRUE, valid |-> TRUE, value |-> 50]}
MCOrders ==
    {<<"dexscreener", "geckoterminal", "birdeye">>, <<"birdeye", "dexscreener">>, <<"geckoterminal", "dexscreener">>}
MCConfigurations ==
    {MCConf(order, mapped, listed, strict, ratio) :
        order \in MCOrders, mapped \in {{}, {a}, {a, x}, {a, b, x}}, listed \in {{}, {a}, {a, x}},
        strict \in BOOLEAN, ratio \in MCRatios}

-----------------------------------------------------------------------------
\* Tokens around the gate's thresholds, and sold 6679 and 6680 times a minute.
MCTrading ==
    [liquidity : {2, 3}, volume : {6}, buys_5m : {0, 74}, sells_5m : {1, 33399, 33400}]
    \cup [liquidity : {60}, volume : {5, 70}, buys_5m : {500}, sells_5m : {0, 33900}]

\* Both readers are threads of the API; the worker only saves.
MCHome == [g \in Readers |-> api]

-----------------------------------------------------------------------------
\* A market that rises and falls, one that falls at both ends, one that rises.
MCMarkets ==
    {[m \in Minutes |-> [conviction |-> IF m = 1 THEN 70 ELSE 90, return |-> returns[m]]] :
        returns \in {<<9, -4, 6, 9>>, <<-4, 9, 9, -4>>, <<5, 2, 5, 5>>}}

MCConfig(threshold, cost) ==
    [start |-> 60, end |-> 240, threshold |-> threshold, cost |-> cost, stop |-> 3, take |-> 8]
MCDuty(process, kind, batch, configs) ==
    [process |-> process, kind |-> kind, batch |-> batch, configs |-> configs]

\* Two processes, and configurations that differ in their costs only.
MCDuties ==
    {MCDuty(api, "gate", FALSE, <<MCConfig(70, 2)>>), MCDuty(worker, "gate", FALSE, <<MCConfig(70, 1)>>),
     MCDuty(worker, "run", FALSE, <<MCConfig(70, 1)>>), MCDuty(api, "report", FALSE, <<MCConfig(70, 2)>>),
     MCDuty(api, "gate", TRUE, <<MCConfig(70, 1), NoConfig, MCConfig(80, 1)>>)}

-----------------------------------------------------------------------------
MCVars == <<part, vars, marketVars, scoringVars, candidateVars, backtestVars>>

\* A machine that does not run stays in one of its initial states.
MCInit ==
    /\ part \in {"runs", "market", "scoring", "candidates", "backtest"}
    /\ Init
    /\ part # "runs" => /\ window = [r \in Runs |-> CHOOSE w \in Windows : TRUE]
                        /\ trigger = [r \in Runs |-> "claim"]
    /\ MarketInit
    /\ part # "market" => conf = CHOOSE c \in Configurations : TRUE
    /\ ScoringInit
    /\ part # "scoring" => ticks = [t \in Tokens |-> TickOf(CHOOSE pair \in Trading : TRUE)]
    /\ CandidateInit
    /\ BacktestInit
    /\ part # "backtest" => /\ market = CHOOSE m \in Markets : TRUE
                            /\ duty = [q \in Requests |-> CHOOSE d \in Duties : TRUE]

MCNext ==
    /\ UNCHANGED part
    /\ \/ /\ part = "runs" /\ Next
          /\ UNCHANGED <<marketVars, scoringVars, candidateVars, backtestVars>>
       \/ /\ part = "market" /\ MarketNext
          /\ UNCHANGED <<vars, scoringVars, candidateVars, backtestVars>>
       \/ /\ part = "scoring" /\ ScoringNext
          /\ UNCHANGED <<vars, marketVars, candidateVars, backtestVars>>
       \/ /\ part = "candidates" /\ CandidateNext
          /\ UNCHANGED <<vars, marketVars, scoringVars, backtestVars>>
       \/ /\ part = "backtest" /\ BacktestNext
          /\ UNCHANGED <<vars, marketVars, scoringVars, candidateVars>>

\* The threads and coroutines of the runs are fair where they run; the other
\* machines are checked for safety only.
MCSpec ==
    MCInit /\ [][MCNext]_MCVars /\ \A r \in Runs : WF_vars(Threads(r)) /\ WF_vars(Coroutine(r))
=============================================================================

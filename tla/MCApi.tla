------------------------------- MODULE MCApi -------------------------------
(***************************************************************************)
(* The two machines an API process runs: its schedulers and its requests.  *)
(* They share no variable; an instance runs one of them.                   *)
(***************************************************************************)
EXTENDS ChainScheduler, HttpApi

CONSTANTS s1, s2, k1, k2

VARIABLE part  \* which of the machines runs

MCEndpoint == [k \in Keys |-> IF k = k1 THEN "replay" ELSE "backtest"]
MCChainOf == [k \in Keys |-> "bsc"]

MCVars == <<part, vars, apiVars>>

MCInit ==
    /\ part \in {"scheduler", "requests"}
    /\ Init
    /\ ApiInit

MCNext ==
    /\ UNCHANGED part
    /\ \/ part = "scheduler" /\ Next /\ UNCHANGED apiVars
       \/ part = "requests" /\ ApiNext /\ UNCHANGED vars

\* The loops are fair where they run; where they do not, no behaviour is, and
\* only the safety of the requests is checked.
MCSpec == MCInit /\ [][MCNext]_MCVars /\ \A s \in Schedulers : WF_vars(Loop(s)) /\ WF_vars(Threads(s))
=============================================================================

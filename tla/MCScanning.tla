----------------------------- MODULE MCScanning -----------------------------
(***************************************************************************)
(* The scanner: its scans, whose scores vary freely, and the scores one    *)
(* token gets from scan to scan.  They share no variable, so an instance   *)
(* runs one of them.                                                       *)
(***************************************************************************)
EXTENDS Scanner, AlphaScorer

VARIABLE part  \* which of the two runs

MCCooldownOf == [HIGH |-> 1, MEDIUM |-> 2, OBSERVE |-> 1]

Entry(rank, smart, volume, liquidity, hourly) ==
    [rank |-> rank, smart |-> smart, volume |-> volume, liquidity |-> liquidity, hourly |-> hourly]

\* One token as it rises and falls, and the figures the list may not tell: ranks
\* 1, 5 and 41 apart on every step of the scale, smart money around its floors.
MCEntries ==
    {Entry(41, 0, 9000, 60000, FALSE), Entry(41, 10, 30000, 60000, TRUE), Entry(41, Unknown, 0, Unknown, FALSE),
     Entry(5, 3, 30000, 60000, TRUE), Entry(5, 5, 110000, 60000, TRUE), Entry(5, 0, 110000, 60000, TRUE),
     Entry(1, 10, 30000, 60000, TRUE), Entry(1, 10, 110000, 60000, TRUE), Entry(1, Unknown, 30000, 60000, TRUE),
     Entry(1, 5, 700000, 60000, FALSE), Entry(2, 3, 9000, 60000, TRUE), Entry(12, 5, 30000, 60000, TRUE),
     Entry(31, 5, 20000, 50000, TRUE), Entry(1, 10, 30000, 49999, TRUE), Entry(0, 0, 9000, 60000, FALSE)}

Report(rug, honeypot, share) ==
    [rug |-> rug, honeypot |-> honeypot, bundler |-> share, rat |-> share, top10 |-> 2 * share, snipers |-> 1]

MCReports ==
    {Report(0, FALSE, 10), Report(60, FALSE, 35), Report(75, FALSE, 20), Report(81, FALSE, 10), Report(0, TRUE, 10),
     Report(0, FALSE, 36)}

-----------------------------------------------------------------------------
\* A machine that does not run stays in one of its initial states.
MCInit ==
    /\ part \in {"scans", "scores"}
    /\ Init
    /\ AlphaInit
    /\ part # "scores" => latest = NotListed

MCNext ==
    /\ UNCHANGED part
    /\ \/ part = "scans" /\ Next /\ UNCHANGED alphaVars
       \/ part = "scores" /\ AlphaNext /\ UNCHANGED vars

\* Only the scans are fair.
MCSpec == MCInit /\ [][MCNext]_<<part, vars, alphaVars>> /\ WF_vars(Proceed)
=============================================================================

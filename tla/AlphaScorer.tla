---------------------------- MODULE AlphaScorer ----------------------------
(***************************************************************************)
(* What AlphaScorer makes of one token of a trending list, scan by scan:   *)
(* it compares the token's entry with the one of the snapshot before.      *)
(* Scanner models the scans and leaves the scores open.                    *)
(*                                                                         *)
(* A volume that is not told counts as none and a rank as 0, the best;     *)
(* Unknown stands for any other figure that is not told.  Rates of the     *)
(* security report are in percent.                                         *)
(***************************************************************************)
EXTENDS Integers

CONSTANTS
    Entries,     \* what a list can tell of the token
    Reports,     \* what fetch_token_security can answer
    MinLiquidity, MaxRugRisk, MaxBundlerRat,
    HighScore, MediumScore, LowScore

Unknown == -1
NotListed == [rank |-> Unknown]
NoReport == [rug |-> 0]

ASSUME AlphaAssumption ==
    /\ Entries \subseteq [rank : Nat, smart : Nat \cup {Unknown}, volume : Nat,
                          liquidity : Nat \cup {Unknown}, hourly : BOOLEAN]
    /\ Reports \subseteq [rug : Nat, honeypot : BOOLEAN, bundler : Nat, rat : Nat, top10 : Nat, snipers : Nat]
    /\ LowScore < MediumScore /\ MediumScore < HighScore

VARIABLES
    earlier,   \* the entry of the snapshot before, NotListed
    latest,    \* the entry of the last scan, NotListed
    report,    \* the security report of the last scan, NoReport
    level      \* what the last scan signalled

alphaVars == <<earlier, latest, report, level>>

-----------------------------------------------------------------------------
(***************************************************************************)
(* hard_filter: without a report only the liquidity counts.                *)
(***************************************************************************)
PassesFilter(token, risk) ==
    /\ token.liquidity # Unknown => token.liquidity >= MinLiquidity
    /\ risk # NoReport => ~ risk.honeypot /\ risk.rug <= MaxRugRisk /\ risk.bundler + risk.rat <= MaxBundlerRat

(***************************************************************************)
(* score, part by part.                                                    *)
(***************************************************************************)
SmartStep(delta, count) ==
    CASE delta >= 5 -> 30
      [] delta \in 3 .. 4 -> 25
      [] delta \in 1 .. 2 -> 20
      [] delta <= 0 /\ count >= 10 -> 15
      [] delta <= 0 /\ count < 10 -> 0

SmartMoney(token, prev) ==
    IF token.smart = Unknown THEN 0
    ELSE IF prev # NotListed /\ prev.smart # Unknown
         THEN LET delta == token.smart - prev.smart
                  boost == IF delta > 0 /\ prev.smart > 0 /\ 2 * delta > prev.smart THEN 5 ELSE 0
                  boosted == SmartStep(delta, token.smart) + boost
              IN  IF boosted > 30 THEN 30
                  ELSE IF token.smart >= 5 /\ boosted < 10 THEN 10 ELSE boosted
         ELSE IF token.smart >= 5 THEN 15 ELSE IF token.smart >= 3 THEN 10 ELSE 0

RankStep(change) ==
    CASE change >= 40 -> 25
      [] change \in 20 .. 39 -> 20
      [] change \in 10 .. 19 -> 15
      [] change \in 5 .. 9 -> 10
      [] change \in 1 .. 4 -> 5
      [] change <= 0 -> 0

\* Broken variant: the size of the change counts, not its direction.
RankMomentumAnyWay(token, prev) ==
    IF prev = NotListed THEN 10
    ELSE RankStep(IF prev.rank > token.rank THEN prev.rank - token.rank ELSE token.rank - prev.rank)

RankMomentum(token, prev) ==
    IF prev = NotListed THEN 10 ELSE RankStep(prev.rank - token.rank)

VolumeQuality(token) ==
    IF token.volume = 0 THEN 0
    ELSE IF token.liquidity <= 0 THEN 5
    ELSE IF token.liquidity <= 2 * token.volume /\ token.volume <= 5 * token.liquidity THEN 15
    ELSE IF token.liquidity <= 10 * token.volume /\ token.volume <= 10 * token.liquidity THEN 10
    ELSE 5

VolumeAcceleration(token, prev) ==
    IF prev = NotListed \/ token.volume = 0 THEN 0
    ELSE IF prev.volume = 0 THEN 0
    ELSE IF token.volume > 3 * prev.volume THEN 15
    ELSE IF token.volume > 2 * prev.volume THEN 10
    ELSE IF 2 * token.volume > 3 * prev.volume THEN 5 ELSE 0

Structure(risk) ==
    IF risk = NoReport THEN 10
    ELSE LET points == 10 + (IF risk.bundler < 20 THEN 3 ELSE 0) + (IF risk.rat < 20 THEN 2 ELSE 0)
                          + (IF risk.top10 < 50 THEN 3 ELSE 0) + (IF risk.snipers < 5 THEN 2 ELSE 0)
         IN  IF points > 15 THEN 15 ELSE points

Discount(token, risk) ==
    IF token.smart = 0 /\ token.volume > 100000 THEN 10
    ELSE IF risk = NoReport THEN 0
    ELSE IF risk.honeypot \/ risk.rug > 70 THEN 10 ELSE IF risk.rug > 50 THEN 5 ELSE 0

TotalScore(token, prev, risk) ==
    LET total == SmartMoney(token, prev) + RankMomentum(token, prev) + VolumeQuality(token)
                 + VolumeAcceleration(token, prev) + Structure(risk)
                 + (IF token.hourly THEN 10 ELSE 0) - Discount(token, risk)
    IN  IF total < 0 THEN 0 ELSE IF total > 100 THEN 100 ELSE total

\* detect, for one token of the list.
Detected(token, prev, risk) ==
    IF ~ PassesFilter(token, risk) THEN "none"
    ELSE LET score == TotalScore(token, prev, risk)
         IN  IF score >= HighScore THEN "HIGH"
             ELSE IF score >= MediumScore THEN "MEDIUM"
             ELSE IF score >= LowScore THEN "OBSERVE" ELSE "none"

-----------------------------------------------------------------------------
AlphaTypeOK ==
    /\ earlier \in Entries \cup {NotListed} /\ latest \in Entries \cup {NotListed}
    /\ report \in Reports \cup {NoReport}
    /\ level \in {"none", "OBSERVE", "MEDIUM", "HIGH"}

\* The first scan of a list only stores its snapshot.
AlphaInit ==
    /\ earlier = NotListed /\ latest \in Entries \cup {NotListed}
    /\ report = NoReport /\ level = "none"

ScanToken ==
    /\ earlier' = latest
    /\ latest' \in Entries /\ report' \in Reports \cup {NoReport}
    /\ level' = Detected(latest', latest, report')

ScanWithoutToken ==
    /\ earlier' = latest
    /\ latest' = NotListed /\ report' = NoReport /\ level' = "none"

AlphaNext == ScanToken \/ ScanWithoutToken

AlphaSpec == AlphaInit /\ [][AlphaNext]_alphaVars

-----------------------------------------------------------------------------
(***************************************************************************)
(* HIGH tells of something that happened between two scans: a token on     *)
(* both lists that gained smart money or rank.  Neither a new token nor    *)
(* volume, structure and both lists together are enough, however good.     *)
(***************************************************************************)
HighMeansProgress ==
    level = "HIGH" =>
       /\ earlier # NotListed /\ latest # NotListed
       /\ \/ latest.rank < earlier.rank
          \/ earlier.smart # Unknown /\ latest.smart > earlier.smart
=============================================================================

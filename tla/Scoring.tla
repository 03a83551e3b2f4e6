------------------------------- MODULE Scoring -------------------------------
(***************************************************************************)
(* What a pipeline run makes of the pairs of a window: ticks, the gate,    *)
(* FeatureEngine, ScoringEngine, and the save of all rows of the window in *)
(* one transaction.                                                        *)
(*                                                                         *)
(* Features are in hundredths and scores in thousandths of their unit; the *)
(* volume of a tick is in units of 2000 USD, its liquidity in units of     *)
(* 50000 USD (the divisors of alpha_score), its price does not matter.     *)
(***************************************************************************)
EXTENDS Integers

CONSTANTS
    Tokens,
    Trading,                        \* what a provider can tell of one token
    MinLiquidity, MinVolume, MinTx, \* the gate
    TierA, TierB                    \* tier_*_threshold; C is what is left

ASSUME ScoringAssumption ==
    /\ Trading \subseteq [liquidity : Nat, volume : Nat, buys_5m : Nat, sells_5m : Nat]
    /\ MinLiquidity \in Nat /\ MinVolume \in Nat /\ MinTx \in Nat

VARIABLES
    ticks,   \* the ticks of the window
    rows,    \* the scores of the window in token_scores
    saved    \* how the transaction ended

scoringVars == <<ticks, rows, saved>>

Column == {"alpha", "momentum", "smart", "narrative", "risk", "final", "conviction", "confidence"}

NoScore == [c \in Column |-> 0]

-----------------------------------------------------------------------------
\* _to_rows: a minute is a fifth of the five minutes a provider tells.
TickOf(pair) ==
    [liquidity |-> pair.liquidity, volume |-> pair.volume, buys |-> pair.buys_5m \div 5,
     sells |-> pair.sells_5m \div 5, tx |-> (pair.buys_5m + pair.sells_5m) \div 5]

AtMost(n, bound) == IF n <= bound THEN n ELSE bound

\* FeatureEngine.build_features, in hundredths; honeypot_flag is always false.
ContractRisk(tick) == AtMost(100, 10 + (tick.tx % 15))
LpConcentration(tick) == AtMost(100, 20 + (tick.buys % 50))
HolderConcentration(tick) == AtMost(100, 35 + (tick.sells % 45))
WashTrade(tick) == AtMost(100, tick.tx % 30)
LargeBuys(tick) == tick.buys \div 6

\* ScoringEngine.score, in thousandths.
Alpha(tick) == AtMost(100000, 35000 + 1000 * tick.volume + 1000 * tick.liquidity)

\* Broken variant: ten times the weight of the order flow.
MomentumTenfold(tick) == AtMost(100000, 20000 + 15000 * (tick.buys - tick.sells))

Momentum(tick) == AtMost(100000, 20000 + 1500 * (tick.buys - tick.sells))
SmartMoney(tick) == AtMost(100000, 15000 + 2200 * LargeBuys(tick))
Narrative(tick) == AtMost(100000, 10000 + 800 * tick.tx)
RiskPenalty(tick) ==
    200 * ContractRisk(tick) + 120 * LpConcentration(tick) + 120 * HolderConcentration(tick) + 80 * WashTrade(tick)
Final(tick) ==
    (55 * Alpha(tick) + 20 * Momentum(tick) + 15 * SmartMoney(tick) + 10 * Narrative(tick)) \div 100 - RiskPenalty(tick)
Confidence(tick) ==
    LET raw == AtMost(980, 850 - 2 * WashTrade(tick))
    IN  IF raw < 500 THEN 500 ELSE raw
Conviction(tick) == IF Final(tick) <= 0 THEN 0 ELSE AtMost(100000, (Final(tick) * Confidence(tick)) \div 1000)

ScoreOf(tick) ==
    [alpha |-> Alpha(tick), momentum |-> Momentum(tick), smart |-> SmartMoney(tick),
     narrative |-> Narrative(tick), risk |-> RiskPenalty(tick), final |-> Final(tick),
     conviction |-> Conviction(tick), confidence |-> Confidence(tick)]

\* Below tier_c_threshold a token is a candidate of tier C as well.
TierOf(score) ==
    CASE score.conviction >= 1000 * TierA -> "A"
      [] score.conviction >= 1000 * TierB /\ score.conviction < 1000 * TierA -> "B"
      [] OTHER -> "C"

PassesGate(tick) == tick.liquidity >= MinLiquidity /\ tick.volume >= MinVolume /\ tick.tx >= MinTx

Gated == {t \in Tokens : PassesGate(ticks[t])}

\* A NUMERIC(10, 6) column holds four digits before the point.
Holds(value) == -10000000 < value /\ value < 10000000
FitsRow(score) == \A c \in Column : Holds(score[c])

-----------------------------------------------------------------------------
ScoringInit ==
    /\ \E pairs \in [Tokens -> Trading] : ticks = [t \in Tokens |-> TickOf(pairs[t])]
    /\ rows = [t \in {} |-> NoScore] /\ saved = "no"

(***************************************************************************)
(* One statement of save_scores_and_candidates: a row that does not fit    *)
(* rolls the whole window back.                                            *)
(***************************************************************************)
SaveWindow ==
    /\ saved = "no"
    /\ saved' = "committed"
    /\ \A t \in Gated : FitsRow(ScoreOf(ticks[t]))
    /\ rows' = [t \in Gated |-> [score |-> ScoreOf(ticks[t]), tier |-> TierOf(ScoreOf(ticks[t]))]]
    /\ UNCHANGED ticks

LoseWindow ==
    /\ saved = "no"
    /\ saved' = "rolled_back"
    /\ \E t \in Gated : ~ FitsRow(ScoreOf(ticks[t]))
    /\ UNCHANGED <<ticks, rows>>

ScoringNext == SaveWindow \/ LoseWindow

ScoringSpec == ScoringInit /\ [][ScoringNext]_scoringVars

-----------------------------------------------------------------------------
(***************************************************************************)
(* A window is lost to the width of a score column only through a token    *)
(* that was sold at least 6680 times more often than bought in a minute:   *)
(* momentum_score is the one score without a floor, and final_score, which *)
(* it enters, still fits.                                                  *)
(***************************************************************************)
ScoresFit == saved = "rolled_back" => \E t \in Gated : ticks[t].sells - ticks[t].buys >= 6680
=============================================================================

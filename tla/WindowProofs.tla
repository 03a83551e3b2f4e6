---------------------------- MODULE WindowProofs ----------------------------
(***************************************************************************)
(* Theorems about the stations of a window besides its run: the sources a  *)
(* fetch falls back on, the scores that are saved, the candidates that are *)
(* served, and the backtests on top of them, for any settings, tokens,     *)
(* requests, processes and bounds.                                         *)
(***************************************************************************)
EXTENDS MarketData, Scoring, CandidateCache, Backtest, WellFoundedInduction, TLAPS

-----------------------------------------------------------------------------
(***************************************************************************)
(* Scores: without an excess of sells all of them fit their columns.       *)
(***************************************************************************)
Tick == [liquidity : Nat, volume : Nat, buys : Nat, sells : Nat, tx : Nat]

LEMMA TicksAreNumbers == ASSUME NEW pair \in Trading PROVE TickOf(pair) \in Tick
<1>1. /\ pair.liquidity \in Nat /\ pair.volume \in Nat
      /\ pair.buys_5m \in Nat /\ pair.sells_5m \in Nat
  BY ScoringAssumption
<1>2. /\ pair.buys_5m \div 5 \in Nat /\ pair.sells_5m \div 5 \in Nat
      /\ (pair.buys_5m + pair.sells_5m) \div 5 \in Nat
  BY <1>1
<1> QED
  BY <1>1, <1>2 DEF TickOf, Tick

\* A term of a score lies between a lower and an upper bound.
Between(low, value, high) == value \in Int /\ low <= value /\ value <= high

LEMMA PenaltyBounded ==
    ASSUME NEW tick \in Tick
    PROVE  Between(0, RiskPenalty(tick), 60000) /\ Between(500, Confidence(tick), 980)
<1>1. tick.tx \in Nat /\ tick.buys \in Nat /\ tick.sells \in Nat
  BY DEF Tick
<1>2. Between(0, ContractRisk(tick), 100) /\ Between(0, LpConcentration(tick), 100)
  BY <1>1 DEF ContractRisk, LpConcentration, AtMost, Between
<1>3. Between(0, HolderConcentration(tick), 100) /\ Between(0, WashTrade(tick), 100)
  BY <1>1 DEF HolderConcentration, WashTrade, AtMost, Between
<1>4. Between(0, RiskPenalty(tick), 60000)
  BY SMT, <1>2, <1>3 DEF RiskPenalty, Between
<1>5. Between(500, Confidence(tick), 980)
  BY SMT, <1>3 DEF Confidence, AtMost, Between
<1> QED
  BY SMT, <1>4, <1>5

LEMMA ScoresBounded ==
    ASSUME NEW tick \in Tick, tick.sells - tick.buys < 6680
    PROVE  FitsRow(ScoreOf(tick))
<1>1. /\ tick.tx \in Nat /\ tick.buys \in Nat /\ tick.sells \in Nat
      /\ tick.volume \in Nat /\ tick.liquidity \in Nat
  BY SMT DEF Tick
<1>2. Between(0, Alpha(tick), 100000) /\ Between(0, Narrative(tick), 100000)
  BY SMT, <1>1 DEF Alpha, Narrative, AtMost, Between
<1>3. Between(0, SmartMoney(tick), 100000)
  BY SMT, <1>1 DEF SmartMoney, LargeBuys, AtMost, Between
<1>4. Between(-9999999, Momentum(tick), 100000)
  BY SMT, <1>1 DEF Momentum, AtMost, Between
<1>5. Between(0, RiskPenalty(tick), 60000) /\ Between(500, Confidence(tick), 980)
  BY SMT, PenaltyBounded
<1>6. Between(-3000000, Final(tick), 100000)
  BY SMT, <1>2, <1>3, <1>4, <1>5 DEF Final, Between
<1>7. Between(0, Conviction(tick), 100000)
  <2>1. CASE Final(tick) <= 0
    BY SMT, <2>1 DEF Conviction, Between
  <2>2. CASE Final(tick) > 0
    <3>1. Final(tick) \in Nat /\ Confidence(tick) \in Nat
      BY SMT, <1>5, <1>6, <2>2 DEF Between
    <3> DEFINE weighted == Final(tick) * Confidence(tick)
    <3>2. weighted \in Nat
      BY SMT, <3>1
    <3>3. Conviction(tick) = AtMost(100000, weighted \div 1000)
      BY SMT, <3>1, <2>2 DEF Conviction
    <3> HIDE DEF weighted
    <3>4. weighted \div 1000 \in Nat
      BY SMT, <3>2
    <3> QED
      BY SMT, <3>3, <3>4 DEF AtMost, Between
  <2> QED
    BY SMT, <1>6, <2>1, <2>2 DEF Between
<1>8. /\ Holds(Alpha(tick)) /\ Holds(Momentum(tick)) /\ Holds(SmartMoney(tick)) /\ Holds(Narrative(tick))
      /\ Holds(RiskPenalty(tick)) /\ Holds(Final(tick)) /\ Holds(Conviction(tick)) /\ Holds(Confidence(tick))
  BY SMT, <1>2, <1>3, <1>4, <1>5, <1>6, <1>7 DEF Holds, Between
<1> QED
  BY SMT, <1>8 DEF FitsRow, Column, ScoreOf

(***************************************************************************)
(* save_scores_and_candidates: a window is lost to the width of a column   *)
(* only by a token that was sold 6680 times more often than bought, for    *)
(* any tokens, trading and gate.                                           *)
(***************************************************************************)
THEOREM WindowsFit == ScoringSpec => []ScoresFit
<1> DEFINE Inv == ScoresFit /\ \A t \in Tokens : ticks[t] \in Tick
<1>1. ScoringInit => Inv
  <2> SUFFICES ASSUME ScoringInit PROVE Inv
    OBVIOUS
  <2>1. saved = "no"
    BY DEF ScoringInit
  <2>2. PICK told \in [Tokens -> Trading] : ticks = [t \in Tokens |-> TickOf(told[t])]
    BY DEF ScoringInit
  <2>3. \A t \in Tokens : ticks[t] \in Tick
    BY <2>2, TicksAreNumbers
  <2> QED
    BY <2>1, <2>3 DEF ScoresFit
<1>2. Inv /\ [ScoringNext]_scoringVars => Inv'
  <2> SUFFICES ASSUME Inv, [ScoringNext]_scoringVars PROVE Inv'
    OBVIOUS
  <2>1. CASE SaveWindow
    BY <2>1 DEF SaveWindow, ScoresFit
  <2>2. CASE LoseWindow
    <3>1. PICK t \in Gated : ~ FitsRow(ScoreOf(ticks[t]))
      BY <2>2 DEF LoseWindow
    <3>2. t \in Tokens /\ ticks[t] \in Tick
      BY DEF Gated
    <3>3. ticks[t].sells - ticks[t].buys >= 6680
      <4>1. ~ (ticks[t].sells - ticks[t].buys < 6680)
        BY <3>1, <3>2, ScoresBounded
      <4>2. ticks[t].sells \in Nat /\ ticks[t].buys \in Nat
        BY <3>2 DEF Tick
      <4> QED
        BY <4>1, <4>2
    <3>4. ticks' = ticks /\ Gated' = Gated
      BY <2>2 DEF LoseWindow, Gated
    <3> QED
      BY <3>3, <3>4 DEF ScoresFit
  <2>3. CASE UNCHANGED scoringVars
    <3>1. ticks' = ticks /\ saved' = saved /\ Gated' = Gated
      BY <2>3 DEF scoringVars, Gated
    <3> QED
      BY <3>1 DEF ScoresFit
  <2> QED
    BY <2>1, <2>2, <2>3 DEF ScoringNext
<1>3. Inv => ScoresFit
  OBVIOUS
<1> QED
  BY <1>1, <1>2, <1>3, PTL DEF ScoringSpec

-----------------------------------------------------------------------------
(***************************************************************************)
(* Candidates: an answer of the cache is as recent as it says.             *)
(***************************************************************************)
CandidateInv ==
    /\ CandidateTypeOK /\ CopiesAreRecent /\ CandidatesWereCurrent
    /\ served[1] <= clock
    /\ \A p \in Processes : copy[p] # Nothing => copy[p][1] <= clock + Ttl

LEMMA CandidateNumbers ==
    ASSUME CandidateTypeOK
    PROVE  /\ Ttl \in Nat /\ QueryTime \in Nat /\ MaxVersion \in Nat /\ CacheHorizon \in Nat /\ MaxAge \in Nat
           /\ clock \in Nat /\ version \in Nat /\ served[1] \in Nat /\ served[2] \in Versions
           /\ \A v \in Versions : v \in Nat /\ until[v] \in Nat
           /\ \A p \in Processes : copy[p] # Nothing => copy[p][1] \in Nat /\ copy[p][2] \in Versions
           /\ \A r \in Readers : query[r] # Nothing => query[r][1] \in Nat /\ query[r][2] \in Versions
BY CandidateAssumption DEF CandidateTypeOK, MaxAge, Moments, Versions

(***************************************************************************)
(* A commit, and the passing of time, take nothing from what was current.  *)
(***************************************************************************)
LEMMA StaysCurrent ==
    ASSUME CandidateTypeOK, NEW v \in Versions, NEW m \in Int, v <= version, m <= clock, CurrentSince(v, m),
           \/ UNCHANGED <<version, until>>
           \/ (version < MaxVersion /\ version' = version + 1 /\ until' = [until EXCEPT ![version] = clock])
    PROVE  v <= version' /\ (v = version' \/ until'[v] >= m)
<1>1. v \in Nat /\ version \in Nat /\ clock \in Nat /\ version \in Versions
  BY CandidateNumbers DEF CandidateTypeOK, Versions
<1>2. CASE UNCHANGED <<version, until>>
  BY <1>2 DEF CurrentSince
<1>3. CASE version' = version + 1 /\ until' = [until EXCEPT ![version] = clock]
  <2>1. CASE v = version
    <3>1. until'[v] = clock
      BY <1>3, <2>1, <1>1 DEF CandidateTypeOK
    <3> QED
      BY <1>1, <1>3, <2>1, <3>1 DEF CurrentSince
  <2>2. CASE v # version
    <3>1. until'[v] = until[v]
      BY <1>3, <2>2 DEF CandidateTypeOK
    <3> QED
      BY <1>1, <1>3, <2>2, <3>1 DEF CurrentSince
  <2> QED
    BY <2>1, <2>2
<1> QED
  BY <1>2, <1>3

\* What was current since m was current since an earlier moment, too.
LEMMA CurrentEarlier ==
    ASSUME CandidateTypeOK, NEW v \in Versions, NEW m \in Int, NEW n \in Int, n <= m, CurrentSince(v, m)
    PROVE  CurrentSince(v, n)
BY CandidateNumbers DEF CurrentSince

LEMMA CandidateStart == CandidateInit => CandidateInv
<1> SUFFICES ASSUME CandidateInit PROVE CandidateInv
  OBVIOUS
<1> USE CandidateAssumption
<1>1. CandidateTypeOK
  BY DEF CandidateInit, CandidateTypeOK, Moments, Versions
<1>2. /\ served[1] = 0 /\ served[2] = 0 /\ version = 0 /\ clock = 0
      /\ \A p \in Processes : copy[p] = Nothing
      /\ \A r \in Readers : query[r] = Nothing
  BY DEF CandidateInit
<1> QED
  BY <1>1, <1>2 DEF CandidateInv, CopiesAreRecent, CandidatesWereCurrent, CurrentSince

LEMMA CandidateTypes == CandidateInv /\ [CandidateNext]_candidateVars => CandidateTypeOK'
<1> SUFFICES ASSUME CandidateInv, [CandidateNext]_candidateVars PROVE CandidateTypeOK'
  OBVIOUS
<1> USE CandidateAssumption DEF CandidateTypeOK
<1>1. CandidateTypeOK /\ CopiesAreRecent
  BY DEF CandidateInv
<1>2. /\ Ttl \in Nat /\ QueryTime \in Nat /\ MaxVersion \in Nat /\ CacheHorizon \in Nat
      /\ clock \in Nat /\ version \in Nat
  BY <1>1, CandidateNumbers
<1>3. CASE PassTime
  BY <1>1, <1>2, <1>3 DEF PassTime, Moments
<1>4. ASSUME NEW p \in Processes, SaveCandidates(p) PROVE CandidateTypeOK'
  BY <1>1, <1>4 DEF SaveCandidates
<1>5. ASSUME NEW p \in Processes, CommitCandidates(p) PROVE CandidateTypeOK'
  BY <1>1, <1>2, <1>5 DEF CommitCandidates, Versions
<1>6. ASSUME NEW p \in Processes, RollBackCandidates(p) PROVE CandidateTypeOK'
  BY <1>1, <1>6 DEF RollBackCandidates
<1>7. ASSUME NEW r \in Readers, ServeCopy(r) PROVE CandidateTypeOK'
  <2>1. Home[r] \in Processes /\ copy[Home[r]][2] \in Versions
    BY <1>1, <1>7, CandidateNumbers DEF ServeCopy
  <2> QED
    BY <1>1, <1>7, <2>1 DEF ServeCopy
<1>8. ASSUME NEW r \in Readers, QueryDatabase(r) PROVE CandidateTypeOK'
  BY <1>1, <1>8 DEF QueryDatabase
<1>9. ASSUME NEW r \in Readers, ServeReply(r) PROVE CandidateTypeOK'
  <2>1. Home[r] \in Processes /\ query[r][2] \in Versions
    BY <1>1, <1>9, CandidateNumbers DEF ServeReply
  <2>2. <<clock + Ttl, query[r][2]>> \in (0 .. CacheHorizon + Ttl) \X Versions
    BY <1>1, <1>2, <2>1 DEF Moments
  <2>3. copy' \in [Processes -> {Nothing} \cup (0 .. CacheHorizon + Ttl) \X Versions]
    BY <1>1, <1>9, <2>1, <2>2 DEF ServeReply
  <2> QED
    BY <1>1, <1>9, <2>1, <2>3 DEF ServeReply
<1>10. ASSUME NEW r \in Readers, QueryFails(r) PROVE CandidateTypeOK'
  BY <1>1, <1>10 DEF QueryFails
<1>11. CASE UNCHANGED candidateVars
  BY <1>1, <1>11 DEF candidateVars
<1> QED
  BY <1>3, <1>4, <1>5, <1>6, <1>7, <1>8, <1>9, <1>10, <1>11 DEF CandidateNext

\* The parts of the invariant that speak of what is cached, asked and told.
CopyRecent(p) ==
    copy[p] # Nothing => /\ Ttl > 0 /\ copy[p][1] <= clock + Ttl /\ copy[p][2] <= version
                         /\ CurrentSince(copy[p][2], copy[p][1] - Ttl - QueryTime)
QueryRecent(r) ==
    query[r] # Nothing => /\ query[r][1] <= clock /\ clock <= query[r][1] + QueryTime
                          /\ query[r][2] <= version /\ CurrentSince(query[r][2], query[r][1])
AnswerRecent == served[1] <= clock /\ served[2] <= version /\ CandidatesWereCurrent

LEMMA CandidateParts ==
    CandidateInv <=> /\ CandidateTypeOK /\ AnswerRecent
                     /\ \A p \in Processes : CopyRecent(p)
                     /\ \A r \in Readers : QueryRecent(r)
BY DEF CandidateInv, CopiesAreRecent, AnswerRecent, CopyRecent, QueryRecent

LEMMA CandidateStep == CandidateInv /\ [CandidateNext]_candidateVars => CandidateInv'
<1> SUFFICES ASSUME CandidateInv, [CandidateNext]_candidateVars PROVE CandidateInv'
  OBVIOUS
<1> DEFINE Recent == /\ AnswerRecent
                     /\ \A p \in Processes : CopyRecent(p)
                     /\ \A r \in Readers : QueryRecent(r)
<1>1. CandidateTypeOK /\ Recent
  BY CandidateParts
<1>2. CandidateTypeOK'
  BY CandidateTypes
<1>3. /\ Ttl \in Nat /\ QueryTime \in Nat /\ MaxVersion \in Nat /\ MaxAge \in Nat
      /\ clock \in Nat /\ version \in Nat /\ served[1] \in Nat /\ served[2] \in Versions
      /\ \A v \in Versions : v \in Nat /\ until[v] \in Nat
      /\ \A p \in Processes : copy[p] # Nothing => copy[p][1] \in Nat /\ copy[p][2] \in Versions
      /\ \A r \in Readers : query[r] # Nothing => query[r][1] \in Nat /\ query[r][2] \in Versions
  BY <1>1, CandidateNumbers
<1>4. QueryTime <= MaxAge /\ (Ttl > 0 => MaxAge = QueryTime + Ttl - 1)
  BY <1>3 DEF MaxAge
<1>5. \A r \in Readers : Home[r] \in Processes
  BY CandidateAssumption
<1>6. Nothing \notin Int \X Int
  BY CandidateAssumption
<1> HIDE DEF Recent
<1>7. ASSUME PassTime PROVE Recent'
  <2>1. clock' = clock + 1 /\ UNCHANGED <<version, copy, query, until, served>>
    BY <1>7 DEF PassTime
  <2>2. AnswerRecent'
    BY <1>1, <1>3, <2>1 DEF Recent, AnswerRecent, CandidatesWereCurrent, CurrentSince
  <2>3. ASSUME NEW p \in Processes PROVE CopyRecent(p)'
    BY <1>1, <1>3, <2>1 DEF Recent, CopyRecent, CurrentSince
  <2>4. ASSUME NEW r \in Readers PROVE QueryRecent(r)'
    BY <1>1, <1>3, <1>7, <2>1 DEF PassTime, Recent, QueryRecent, CurrentSince
  <2> QED
    BY <2>2, <2>3, <2>4 DEF Recent
<1>8. ASSUME NEW q \in Processes, SaveCandidates(q) PROVE Recent'
  <2>1. UNCHANGED <<clock, version, query, until, served>> /\ copy' = [copy EXCEPT ![q] = Nothing]
    BY <1>8 DEF SaveCandidates
  <2>2. AnswerRecent'
    BY <1>1, <2>1 DEF Recent, AnswerRecent, CandidatesWereCurrent, CurrentSince
  <2>3. ASSUME NEW p \in Processes PROVE CopyRecent(p)'
    BY <1>1, <2>1 DEF Recent, CopyRecent, CurrentSince, CandidateTypeOK
  <2>4. ASSUME NEW r \in Readers PROVE QueryRecent(r)'
    BY <1>1, <2>1 DEF Recent, QueryRecent, CurrentSince
  <2> QED
    BY <2>2, <2>3, <2>4 DEF Recent
<1>9. ASSUME NEW q \in Processes, CommitCandidates(q) PROVE Recent'
  <2>1. /\ UNCHANGED <<clock, copy, query, served>> /\ version < MaxVersion /\ version' = version + 1
        /\ until' = [until EXCEPT ![version] = clock]
    BY <1>9 DEF CommitCandidates
  <2>2. \A v \in Versions, m \in Int :
           v <= version /\ m <= clock /\ CurrentSince(v, m) => v <= version' /\ (v = version' \/ until'[v] >= m)
    BY <1>1, <2>1, StaysCurrent
  <2>3. AnswerRecent'
    <3>1. CurrentSince(served[2], served[1] - MaxAge) /\ served[1] <= clock /\ served[2] <= version
      BY <1>1 DEF Recent, AnswerRecent, CandidatesWereCurrent
    <3>2. served[1] - MaxAge \in Int /\ served[1] - MaxAge <= clock
      BY <1>3, <3>1
    <3>3. served[2] <= version' /\ (served[2] = version' \/ until'[served[2]] >= served[1] - MaxAge)
      BY <1>3, <2>2, <3>1, <3>2
    <3> QED
      BY <2>1, <3>1, <3>3 DEF AnswerRecent, CandidatesWereCurrent, CurrentSince
  <2>4. ASSUME NEW p \in Processes PROVE CopyRecent(p)'
    <3> SUFFICES ASSUME copy[p] # Nothing PROVE CopyRecent(p)'
      BY <2>1 DEF CopyRecent
    <3>1. /\ Ttl > 0 /\ copy[p][1] <= clock + Ttl /\ copy[p][2] <= version
          /\ CurrentSince(copy[p][2], copy[p][1] - Ttl - QueryTime)
      BY <1>1 DEF Recent, CopyRecent
    <3>2. copy[p][1] \in Nat /\ copy[p][2] \in Versions
      BY <1>3
    <3>3. copy[p][1] - Ttl - QueryTime \in Int /\ copy[p][1] - Ttl - QueryTime <= clock
      BY <1>3, <3>1, <3>2
    <3>4. /\ copy[p][2] <= version'
          /\ copy[p][2] = version' \/ until'[copy[p][2]] >= copy[p][1] - Ttl - QueryTime
      BY <2>2, <3>1, <3>2, <3>3
    <3> QED
      BY <2>1, <3>1, <3>4 DEF CopyRecent, CurrentSince
  <2>5. ASSUME NEW r \in Readers PROVE QueryRecent(r)'
    <3> SUFFICES ASSUME query[r] # Nothing PROVE QueryRecent(r)'
      BY <2>1 DEF QueryRecent
    <3>1. /\ query[r][1] <= clock /\ clock <= query[r][1] + QueryTime
          /\ query[r][2] <= version /\ CurrentSince(query[r][2], query[r][1])
      BY <1>1 DEF Recent, QueryRecent
    <3>2. query[r][1] \in Int /\ query[r][2] \in Versions
      BY <1>3
    <3>3. query[r][2] <= version' /\ (query[r][2] = version' \/ until'[query[r][2]] >= query[r][1])
      BY <2>2, <3>1, <3>2
    <3> QED
      BY <2>1, <3>1, <3>3 DEF QueryRecent, CurrentSince
  <2> QED
    BY <2>3, <2>4, <2>5 DEF Recent
<1>10. ASSUME NEW q \in Processes, RollBackCandidates(q) PROVE Recent'
  BY <1>1, <1>10 DEF RollBackCandidates, Recent, AnswerRecent, CandidatesWereCurrent, CopyRecent,
                     QueryRecent, CurrentSince
<1>11. ASSUME NEW q \in Readers, ServeCopy(q) PROVE Recent'
  <2>1. /\ UNCHANGED <<clock, version, copy, query, until>> /\ served' = <<clock, copy[Home[q]][2]>>
        /\ Ttl > 0 /\ copy[Home[q]] # Nothing /\ copy[Home[q]][1] > clock
    BY <1>11 DEF ServeCopy
  <2>2. /\ copy[Home[q]][2] <= version
        /\ CurrentSince(copy[Home[q]][2], copy[Home[q]][1] - Ttl - QueryTime)
        /\ copy[Home[q]][1] \in Nat /\ copy[Home[q]][2] \in Versions
    BY <1>1, <1>3, <1>5, <2>1 DEF Recent, CopyRecent
  <2>3. CurrentSince(copy[Home[q]][2], clock - MaxAge)
    <3>1. /\ copy[Home[q]][1] - Ttl - QueryTime \in Int /\ clock - MaxAge \in Int
          /\ clock - MaxAge <= copy[Home[q]][1] - Ttl - QueryTime
      BY <1>3, <1>4, <2>1, <2>2
    <3> QED
      BY <1>1, <2>2, <3>1, CurrentEarlier
  <2>4. AnswerRecent'
    BY <1>3, <2>1, <2>2, <2>3 DEF AnswerRecent, CandidatesWereCurrent, CurrentSince
  <2>5. ASSUME NEW p \in Processes PROVE CopyRecent(p)'
    BY <1>1, <2>1 DEF Recent, CopyRecent, CurrentSince
  <2>6. ASSUME NEW r \in Readers PROVE QueryRecent(r)'
    BY <1>1, <2>1 DEF Recent, QueryRecent, CurrentSince
  <2> QED
    BY <2>4, <2>5, <2>6 DEF Recent
<1>12. ASSUME NEW q \in Readers, QueryDatabase(q) PROVE Recent'
  <2>1. UNCHANGED <<clock, version, copy, until, served>> /\ query' = [query EXCEPT ![q] = <<clock, version>>]
    BY <1>12 DEF QueryDatabase
  <2>2. AnswerRecent'
    BY <1>1, <2>1 DEF Recent, AnswerRecent, CandidatesWereCurrent, CurrentSince
  <2>3. ASSUME NEW p \in Processes PROVE CopyRecent(p)'
    BY <1>1, <2>1 DEF Recent, CopyRecent, CurrentSince
  <2>4. ASSUME NEW r \in Readers PROVE QueryRecent(r)'
    BY <1>1, <1>3, <2>1 DEF Recent, QueryRecent, CurrentSince, CandidateTypeOK
  <2> QED
    BY <2>2, <2>3, <2>4 DEF Recent
<1>13. ASSUME NEW q \in Readers, ServeReply(q) PROVE Recent'
  <2>1. /\ UNCHANGED <<clock, version, until>> /\ served' = <<clock, query[q][2]>> /\ query[q] # Nothing
        /\ copy' = [copy EXCEPT ![Home[q]] = IF Ttl > 0 THEN <<clock + Ttl, query[q][2]>> ELSE @]
        /\ query' = [query EXCEPT ![q] = Nothing]
    BY <1>13 DEF ServeReply
  <2>2. /\ query[q][1] <= clock /\ clock <= query[q][1] + QueryTime /\ query[q][2] <= version
        /\ CurrentSince(query[q][2], query[q][1])
        /\ query[q][1] \in Nat /\ query[q][2] \in Versions
    BY <1>1, <1>3, <2>1 DEF Recent, QueryRecent
  <2>3. CurrentSince(query[q][2], clock - MaxAge) /\ CurrentSince(query[q][2], clock - QueryTime)
    <3>1. /\ clock - MaxAge \in Int /\ clock - MaxAge <= query[q][1]
          /\ clock - QueryTime \in Int /\ clock - QueryTime <= query[q][1]
      BY <1>3, <1>4, <2>2
    <3> QED
      BY <1>1, <2>2, <3>1, CurrentEarlier
  <2>4. AnswerRecent'
    BY <1>3, <2>1, <2>2, <2>3 DEF AnswerRecent, CandidatesWereCurrent, CurrentSince
  <2>5. ASSUME NEW p \in Processes PROVE CopyRecent(p)'
    <3>1. CASE p = Home[q] /\ Ttl > 0
      <4>1. copy'[p] = <<clock + Ttl, query[q][2]>>
        BY <1>1, <2>1, <3>1 DEF CandidateTypeOK
      <4>2. copy'[p][1] = clock + Ttl /\ copy'[p][2] = query[q][2]
        BY <4>1
      <4>3. clock + Ttl - Ttl - QueryTime = clock - QueryTime
        BY <1>3
      <4> QED
        BY <1>3, <2>1, <2>2, <2>3, <3>1, <4>2, <4>3 DEF CopyRecent, CurrentSince
    <3>2. CASE ~ (p = Home[q] /\ Ttl > 0)
      <4>1. copy'[p] = copy[p]
        BY <1>1, <2>1, <3>2 DEF CandidateTypeOK
      <4> QED
        BY <1>1, <2>1, <4>1 DEF Recent, CopyRecent, CurrentSince
    <3> QED
      BY <3>1, <3>2
  <2>6. ASSUME NEW r \in Readers PROVE QueryRecent(r)'
    BY <1>1, <2>1 DEF Recent, QueryRecent, CurrentSince, CandidateTypeOK
  <2> QED
    BY <2>4, <2>5, <2>6 DEF Recent
<1>14. ASSUME NEW q \in Readers, QueryFails(q) PROVE Recent'
  <2>1. UNCHANGED <<clock, version, copy, until, served>> /\ query' = [query EXCEPT ![q] = Nothing]
    BY <1>14 DEF QueryFails
  <2> QED
    BY <1>1, <2>1 DEF Recent, AnswerRecent, CandidatesWereCurrent, CopyRecent, QueryRecent,
                      CurrentSince, CandidateTypeOK
<1>15. ASSUME UNCHANGED candidateVars PROVE Recent'
  BY <1>1, <1>15 DEF candidateVars, Recent, AnswerRecent, CandidatesWereCurrent, CopyRecent,
                     QueryRecent, CurrentSince
<1>16. Recent'
  BY <1>7, <1>8, <1>9, <1>10, <1>11, <1>12, <1>13, <1>14, <1>15 DEF CandidateNext
<1> QED
  BY <1>2, <1>16 DEF Recent, CandidateInv, CopiesAreRecent, AnswerRecent, CopyRecent, QueryRecent

(***************************************************************************)
(* list_latest_candidates: an answer is never older than the lifetime of a *)
(* cache entry and one query, for any processes, readers and lifetimes,    *)
(* with and without the cache.                                             *)
(***************************************************************************)
THEOREM CandidatesStayCurrent == CandidateSpec => []CandidatesWereCurrent
<1>1. CandidateInv => CandidatesWereCurrent
  BY DEF CandidateInv
<1> QED
  BY CandidateStart, CandidateStep, <1>1, PTL DEF CandidateSpec

-----------------------------------------------------------------------------
\* A set of numbers has a least one.
LEMMA LeastNumber == ASSUME NEW T, T \subseteq Nat, T # {} PROVE \E k \in T : \A y \in T : k <= y
<1> DEFINE R == OpToRel(<, Nat)
<1>1. \A x, y \in Nat : x < y => <<x, y>> \in R
  BY DEF OpToRel
<1>2. IsWellFoundedOn(R, Nat)
  BY NatLessThanWellFounded
<1> HIDE DEF R
<1>3. PICK k \in T : \A y \in T : ~ (<<y, k>> \in R)
  BY <1>2, WFMin
<1>4. \A y \in T : ~ (y < k) /\ y \in Nat /\ k \in Nat
  BY <1>1, <1>3, Zenon
<1> QED
  BY <1>4

(***************************************************************************)
(* Market data: what the adapters pick.  The best of the pools in question *)
(* is one of them: the first k of them have a best one, for the smallest k *)
(* without one would not be the smallest.                                  *)
(***************************************************************************)
Better(pools, i, j) ==
    pools[j].liquidity < pools[i].liquidity \/ (pools[j].liquidity = pools[i].liquidity /\ i <= j)

Lacking(pools, of) ==
    {k \in Nat : (\E j \in of : j <= k) /\ ~ \E i \in of : i <= k /\ \A j \in of : j <= k => Better(pools, i, j)}

LEMMA BestIsOne ==
    ASSUME NEW pools \in Payloads, NEW of \in SUBSET DOMAIN pools, of # {}
    PROVE  \E i \in of : Best(pools, of) = pools[i]
<1>1. /\ Len(pools) \in Nat /\ DOMAIN pools = 1 .. Len(pools)
      /\ \A i \in of : i \in Nat /\ i <= Len(pools) /\ i # 0 /\ pools[i].liquidity \in Nat
  BY MarketAssumption
<1>2. Lacking(pools, of) = {}
  <2> SUFFICES ASSUME Lacking(pools, of) # {} PROVE FALSE
    OBVIOUS
  <2> DEFINE T == Lacking(pools, of)
  <2>1. T \subseteq Nat /\ T # {}
    BY DEF Lacking
  <2>2. PICK k \in T : \A y \in T : k <= y
    BY <2>1, LeastNumber
  <2>3. /\ k \in Nat /\ \E j \in of : j <= k
        /\ ~ \E i \in of : i <= k /\ \A j \in of : j <= k => Better(pools, i, j)
    BY <2>2 DEF Lacking
  <2>4. k # 0
    BY <1>1, <2>3
  <2>5. k - 1 \in Nat /\ k - 1 < k /\ k - 1 \notin T
    <3>1. k - 1 \in Nat /\ k - 1 < k
      BY <2>3, <2>4
    <3> QED
      BY <2>2, <2>3, <3>1
  <2>6. CASE \E j \in of : j <= k - 1
    <3>1. PICK i \in of : i <= k - 1 /\ \A j \in of : j <= k - 1 => Better(pools, i, j)
      BY <2>5, <2>6 DEF Lacking
    <3>2. CASE k \notin of \/ Better(pools, i, k)
      BY <1>1, <2>3, <3>1, <3>2
    <3>3. CASE k \in of /\ ~ Better(pools, i, k)
      <4>1. /\ i \in Nat /\ k \in Nat /\ pools[i].liquidity \in Nat /\ pools[k].liquidity \in Nat
            /\ i <= k - 1
        BY <1>1, <2>3, <3>1, <3>3
      <4>2. pools[i].liquidity < pools[k].liquidity
        BY <3>3, <4>1 DEF Better
      <4>3. ASSUME NEW j \in of, j <= k PROVE Better(pools, k, j)
        <5>1. j \in Nat /\ pools[j].liquidity \in Nat
          BY <1>1
        <5>2. CASE j = k
          BY <4>1, <5>2 DEF Better
        <5>3. CASE j # k
          <6>1. j <= k - 1
            BY <4>1, <4>3, <5>1, <5>3
          <6>2. Better(pools, i, j)
            BY <3>1, <6>1
          <6> QED
            BY <4>1, <4>2, <5>1, <6>2 DEF Better
        <5> QED
          BY <5>2, <5>3
      <4> QED
        BY <2>3, <3>3, <4>1, <4>3
    <3> QED
      BY <3>2, <3>3
  <2>7. CASE ~ \E j \in of : j <= k - 1
    <3>1. k \in of /\ \A j \in of : j <= k => j = k
      BY <1>1, <2>3, <2>7
    <3>2. Better(pools, k, k)
      BY <1>1, <3>1 DEF Better
    <3> QED
      BY <2>3, <3>1, <3>2
  <2> QED
    BY <2>6, <2>7
<1>3. \E i \in of : \A j \in of : Better(pools, i, j)
  <2>1. Len(pools) \notin Lacking(pools, of) /\ \E j \in of : j <= Len(pools)
    BY <1>1, <1>2
  <2> QED
    BY <1>1, <2>1 DEF Lacking
<1>4. \E i \in of : \A j \in of :
         pools[j].liquidity < pools[i].liquidity \/ (pools[j].liquidity = pools[i].liquidity /\ i <= j)
  BY <1>3 DEF Better
<1> QED
  BY <1>4 DEF Best

LEMMA FirstIsOne ==
    ASSUME NEW pools \in Payloads, NEW of \in SUBSET DOMAIN pools, of # {}
    PROVE  \E i \in of : First(pools, of) = pools[i]
<1>1. of \subseteq Nat
  BY MarketAssumption
<1>2. \E i \in of : \A j \in of : i <= j
  BY <1>1, LeastNumber
<1> QED
  BY <1>2 DEF First

\* What a lookup by address may make of its pools, for a source of that kind.
FromAddress(pair, kind) == pair.via = "address" /\ (kind # "geckoterminal" => pair.base = "own")
NotFound(pair) == pair = NoPair \/ pair = Severed

LEMMA OwnPools ==
    ASSUME NEW pools \in Payloads, Own(pools) # {}
    PROVE  /\ Best(pools, Own(pools)).base = "own"
           /\ First(pools, Own(pools)).base = "own"
<1>1. Own(pools) \in SUBSET DOMAIN pools /\ \A i \in Own(pools) : pools[i].base = "own"
  BY DEF Own
<1> QED
  BY <1>1, BestIsOne, FirstIsOne

LEMMA AddressAnswers ==
    ASSUME NEW pools \in Payloads
    PROVE  /\ DexByAddress(pools) = NoPair \/ FromAddress(DexByAddress(pools), "dexscreener")
           /\ GeckoByAddress(pools) = NoPair \/ FromAddress(GeckoByAddress(pools), "geckoterminal")
           /\ BirdeyeByAddress(pools) = NoPair \/ FromAddress(BirdeyeByAddress(pools), "birdeye")
<1>1. DexByAddress(pools) = NoPair \/ FromAddress(DexByAddress(pools), "dexscreener")
  BY OwnPools DEF DexByAddress, DexPair, Normalized, FromAddress
<1>2. GeckoByAddress(pools) = NoPair \/ FromAddress(GeckoByAddress(pools), "geckoterminal")
  BY DEF GeckoByAddress, GeckoPair, Normalized, FromAddress
<1>3. BirdeyeByAddress(pools) = NoPair \/ FromAddress(BirdeyeByAddress(pools), "birdeye")
  BY OwnPools DEF BirdeyeByAddress, BirdeyePair, Normalized, FromAddress
<1> QED
  BY <1>1, <1>2, <1>3

\* What an adapter finds is not what stands for a cancelled lookup.
LEMMA AnswersAreWhole ==
    ASSUME NEW pools
    PROVE  /\ DexByAddress(pools) # Severed /\ GeckoByAddress(pools) # Severed /\ BirdeyeByAddress(pools) # Severed
           /\ DexByName(pools) # Severed /\ GeckoByName(pools) # Severed /\ BirdeyeByName(pools) # Severed
<1>1. \A pool, via, complete, volume :
         via \in {"address", "search"} => Normalized(pool, via, complete, volume).via # "severed"
  BY DEF Normalized, NoPair
<1>2. NoPair.via # "severed" /\ Severed.via = "severed"
  BY DEF NoPair, Severed
<1>3. \A of, via : via \in {"address", "search"} =>
         /\ DexPair(pools, of, via).via # "severed"
         /\ GeckoPair(pools, of, via).via # "severed"
         /\ BirdeyePair(pools, of, via).via # "severed"
  BY <1>1, <1>2 DEF DexPair, GeckoPair, BirdeyePair
<1> QED
  BY <1>2, <1>3 DEF DexByAddress, GeckoByAddress, BirdeyeByAddress, DexByName, GeckoByName, BirdeyeByName

(***************************************************************************)
(* What the end of one lookup changes.                                     *)
(***************************************************************************)
Looked(lookup) ==
    /\ phase \in {"addresses", "searches"} /\ lookup \in waiting /\ waiting' = waiting \ {lookup}
    /\ UNCHANGED <<conf, source, phase, merged, failed, outcome, returned>>
    /\ severed \subseteq severed'
    /\ \A s \in Known : pairs'[s] = Severed => pairs[s] = Severed \/ source \in severed'
    /\ \A s \in Known \ lookup : pairs'[s] = pairs[s]
    /\ phase = "addresses" =>
          \A s \in lookup \cap Known :
             pairs'[s] = pairs[s] \/ NotFound(pairs'[s]) \/ FromAddress(pairs'[s], conf.order[source])

\* The operations of one lookup.
Looks(lookup) ==
    \/ DexChunk(lookup) \/ GeckoPools(lookup) \/ BirdeyeMarket(lookup)
    \/ SearchDexScreener(lookup) \/ SearchGeckoTerminal(lookup) \/ SearchBirdeye(lookup)

LEMMA LookupChanges == ASSUME NEW lookup, Looks(lookup) PROVE Looked(lookup)
<1>1. CASE DexChunk(lookup)
  BY <1>1, AddressAnswers, AnswersAreWhole DEF DexChunk, Lookup, Looked, NotFound
<1>2. CASE GeckoPools(lookup)
  BY <1>2, AddressAnswers, AnswersAreWhole DEF GeckoPools, Lookup, Looked, NotFound
<1>3. CASE BirdeyeMarket(lookup)
  BY <1>3, AddressAnswers, AnswersAreWhole DEF BirdeyeMarket, Lookup, Looked, NotFound
<1>4. CASE SearchDexScreener(lookup)
  BY <1>4, AnswersAreWhole DEF SearchDexScreener, Lookup, Looked
<1>5. CASE SearchGeckoTerminal(lookup)
  BY <1>5, AnswersAreWhole DEF SearchGeckoTerminal, Lookup, Looked
<1>6. CASE SearchBirdeye(lookup)
  BY <1>6, AnswersAreWhole DEF SearchBirdeye, Lookup, Looked
<1> QED
  BY <1>1, <1>2, <1>3, <1>4, <1>5, <1>6 DEF Looks

\* How a strategy moves on: nothing but the phase and the lookups that are out.
Moves(from, to) ==
    /\ phase = from /\ phase' = to
    /\ UNCHANGED <<conf, source, pairs, merged, failed, outcome, returned, severed>>

\* The steps of a fetch, by what they change.
Shapes ==
    \/ \E lookup \in waiting : Looked(lookup)
    \/ Moves("next", "addresses") /\ source \in Sources
    \/ /\ Moves("addresses", "searches")
       /\ waiting' = {{s} : s \in Symbols \ (Found \cup RequiredSymbols)}
    \/ SourceFails /\ phase \in {"next", "addresses", "searches"} /\ (phase = "next" => source \in Sources)
    \/ Raises /\ phase \in {"addresses", "searches"} /\ \E s \in Known : pairs[s] = Severed
    \/ Conclude /\ merged' = Merged /\ returned' = [returned EXCEPT ![source] = Rows] /\ source' = source + 1
                /\ phase' = "next" /\ pairs' = [s \in Known |-> NoPair]
                /\ UNCHANGED <<conf, waiting, failed, outcome, severed>>
    \/ Finish
    \/ UNCHANGED marketVars

LEMMA StepShapes == [MarketNext]_marketVars => Shapes
<1> SUFFICES ASSUME [MarketNext]_marketVars PROVE Shapes
  OBVIOUS
<1>1. ASSUME NEW kind, NEW lookups, Ask(kind, lookups) PROVE Shapes
  BY <1>1 DEF Ask, Shapes, Moves
<1>2. CASE AskDexScreener \/ AskGeckoTerminal \/ AskBirdeye
  BY <1>1, <1>2 DEF AskDexScreener, AskGeckoTerminal, AskBirdeye
<1>3. CASE AddressesIn
  BY <1>3 DEF AddressesIn, Shapes, Moves
<1>4. CASE Conclude
  BY <1>4 DEF Conclude, Shapes, Known
<1>5. CASE Finish \/ UNCHANGED marketVars
  BY <1>5 DEF Shapes
<1>6. ASSUME NEW lookup \in waiting, Looks(lookup) PROVE Shapes
  BY <1>6, LookupChanges DEF Shapes
<1> QED
  BY <1>2, <1>3, <1>4, <1>5, <1>6 DEF MarketNext, Looks

(***************************************************************************)
(* OnlyCancellationEscapes: a cancelled lookup is remembered while its     *)
(* place holder stands among the pairs.                                    *)
(***************************************************************************)
EscapeInv ==
    /\ phase \in {"next", "addresses", "searches"} => outcome = "none"
    /\ \A s \in Known : pairs[s] = Severed => source \in severed
    /\ OnlyCancellationEscapes

(***************************************************************************)
(* The chain of sources: no failure but a cancelled lookup keeps the next  *)
(* source from being asked, for any settings, symbols and answers.         *)
(***************************************************************************)
THEOREM FailuresStayInTheChain == MarketSpec => []OnlyCancellationEscapes
<1>1. NoPair # Severed
  BY DEF NoPair, Severed
<1>2. MarketInit => EscapeInv
  BY <1>1 DEF MarketInit, EscapeInv, OnlyCancellationEscapes
<1>3. EscapeInv /\ [MarketNext]_marketVars => EscapeInv'
  <2> SUFFICES ASSUME EscapeInv, Shapes PROVE EscapeInv'
    BY StepShapes
  <2> USE DEF EscapeInv, OnlyCancellationEscapes
  <2>1. CASE \E lookup \in waiting : Looked(lookup)
    BY <2>1 DEF Looked
  <2>2. CASE Moves("next", "addresses") \/ Moves("addresses", "searches")
    BY <2>2 DEF Moves
  <2>3. CASE SourceFails /\ phase \in {"next", "addresses", "searches"}
    BY <1>1, <2>3 DEF SourceFails
  <2>4. CASE Raises /\ \E s \in Known : pairs[s] = Severed
    BY <1>1, <2>4 DEF Raises
  <2>5. CASE Conclude /\ phase' = "next" /\ pairs' = [s \in Known |-> NoPair] /\ UNCHANGED <<outcome, severed>>
    BY <1>1, <2>5 DEF Conclude
  <2>6. CASE Finish
    BY <2>6 DEF Finish
  <2>7. CASE UNCHANGED marketVars
    BY <2>7 DEF marketVars
  <2> QED
    BY <2>1, <2>2, <2>3, <2>4, <2>5, <2>6, <2>7 DEF Shapes
<1>4. EscapeInv => OnlyCancellationEscapes
  BY DEF EscapeInv
<1> QED
  BY <1>2, <1>3, <1>4, PTL DEF MarketSpec

(***************************************************************************)
(* SymbolsFromFirstSource: the rows merged so far are those of the sources *)
(* asked so far, and of the first of them that returned a symbol.          *)
(***************************************************************************)
ChainTypes ==
    /\ source \in Nat \ {0} /\ conf.order \in Seq(Kinds)
    /\ phase \in {"addresses", "searches"} => source \in Sources
    /\ DOMAIN merged = Symbols /\ DOMAIN returned = Sources
    /\ phase \in {"next", "addresses", "searches"} => outcome = "none"

FirstRows ==
    /\ \A s \in Symbols : merged[s] # NoRow =>
          /\ merged[s].source \in Sources /\ merged[s].source < source
          /\ s \in returned[merged[s].source]
    /\ \A i \in Sources : \A s \in returned[i] :
          s \in Symbols /\ i < source /\ merged[s] # NoRow /\ merged[s].source <= i

Ended ==
    /\ outcome = "rows" => Pending = {}
    /\ outcome \in {"all_sources_failed", "incomplete_fallback"} => source \notin Sources

LEMMA ChainStart == MarketInit => ChainTypes /\ FirstRows /\ Ended
<1> SUFFICES ASSUME MarketInit PROVE ChainTypes /\ FirstRows /\ Ended
  OBVIOUS
<1>1. /\ conf \in Configurations /\ source = 1 /\ phase = "next" /\ outcome = "none"
      /\ merged = [s \in Symbols |-> NoRow] /\ returned = [i \in Sources |-> {}]
  BY DEF MarketInit, Sources
<1>2. conf.order \in Seq(Kinds)
  BY <1>1, MarketAssumption
<1> QED
  BY <1>1, <1>2 DEF ChainTypes, FirstRows, Ended

LEMMA ChainStep ==
    ChainTypes /\ FirstRows /\ Ended /\ [MarketNext]_marketVars => (ChainTypes /\ FirstRows /\ Ended)'
<1> SUFFICES ASSUME ChainTypes, FirstRows, Ended, Shapes PROVE (ChainTypes /\ FirstRows /\ Ended)'
  BY StepShapes
<1>1. Len(conf.order) \in Nat /\ source \in Nat /\ source # 0
  BY DEF ChainTypes
<1>2. ASSUME UNCHANGED <<conf, merged, returned, outcome, source>>,
             \/ phase \in {"addresses", "searches"} /\ phase' = phase
             \/ phase \in {"next", "addresses"} /\ phase' \in {"addresses", "searches"} /\ source \in Sources
             \/ phase' = phase
      PROVE  (ChainTypes /\ FirstRows /\ Ended)'
  BY <1>2 DEF ChainTypes, FirstRows, Ended, Sources, Pending
<1>3. CASE \E lookup \in waiting : Looked(lookup)
  BY <1>2, <1>3 DEF Looked
<1>4. CASE \/ Moves("next", "addresses") /\ source \in Sources
           \/ Moves("addresses", "searches")
  BY <1>2, <1>4 DEF Moves, ChainTypes
<1>5. CASE UNCHANGED marketVars
  BY <1>2, <1>5 DEF marketVars
<1>6. CASE SourceFails /\ phase \in {"next", "addresses", "searches"} /\ (phase = "next" => source \in Sources)
  <2>1. /\ UNCHANGED <<conf, merged, outcome, returned>> /\ source' = source + 1 /\ phase' = "next"
        /\ outcome = "none"
    BY <1>6 DEF SourceFails, ChainTypes
  <2>2. ChainTypes'
    BY <1>1, <2>1 DEF ChainTypes, Sources
  <2>3. FirstRows'
    <3>1. \A i \in Sources : i \in Nat
      BY DEF Sources
    <3>2. \A i \in Sources : i < source => i < source + 1
      BY <1>1, <3>1
    <3> QED
      BY <2>1, <3>2 DEF FirstRows, Sources
  <2>4. Ended'
    BY <2>1 DEF Ended
  <2> QED
    BY <2>2, <2>3, <2>4
<1>7. CASE Raises /\ phase \in {"addresses", "searches"}
  <2>1. UNCHANGED <<conf, merged, source, returned>> /\ outcome' = "raised" /\ phase' = "done"
    BY <1>7 DEF Raises
  <2> QED
    BY <2>1 DEF ChainTypes, FirstRows, Ended, Sources
<1>8. CASE Finish
  <2>1. /\ UNCHANGED <<conf, merged, source, returned>> /\ phase' = "done"
        /\ source \notin Sources \/ Pending = {}
        /\ outcome' = IF Pending = {} THEN "rows"
                      ELSE IF failed /\ Pending = Symbols THEN "all_sources_failed" ELSE "incomplete_fallback"
    BY <1>8 DEF Finish
  <2>2. ChainTypes' /\ FirstRows'
    BY <2>1 DEF ChainTypes, FirstRows, Sources
  <2>3. Ended'
    BY <2>1 DEF Ended, Sources, Pending
  <2> QED
    BY <2>2, <2>3
<1>9. CASE Conclude /\ merged' = Merged /\ returned' = [returned EXCEPT ![source] = Rows] /\ source' = source + 1
              /\ phase' = "next" /\ UNCHANGED <<conf, outcome>>
  <2>1. phase = "searches" /\ source \in Sources /\ outcome = "none"
    BY <1>9 DEF Conclude, ChainTypes
  <2>2. source' = source + 1 /\ Sources' = Sources /\ Sources \subseteq Nat
    BY <1>9 DEF Sources
  <2>3. DOMAIN merged' = Symbols /\ DOMAIN returned' = Sources
    BY <1>9 DEF Merged, ChainTypes
  <2>4. ChainTypes'
    BY <1>1, <1>9, <2>1, <2>2, <2>3 DEF ChainTypes
  <2>5. \A s \in Symbols : \/ merged'[s] = merged[s] /\ (s \in Rows => merged[s] # NoRow)
                           \/ /\ merged[s] = NoRow /\ s \in Rows
                              /\ merged'[s] = [source |-> source, via |-> pairs[s].via, base |-> pairs[s].base]
    BY <1>9 DEF Merged
  <2>6. returned'[source] = Rows /\ \A i \in Sources : i # source => returned'[i] = returned[i]
    BY <1>9, <2>1 DEF ChainTypes
  <2>7. Rows \subseteq Symbols
    BY DEF Rows
  <2>8. \A s \in Symbols : merged[s] = NoRow /\ s \in Rows => merged'[s].source = source /\ merged'[s] # NoRow
    <3>1. NoRow.source = 0
      BY DEF NoRow
    <3>2. \A via, base : [source |-> source, via |-> via, base |-> base].source = source
      OBVIOUS
    <3>3. ASSUME NEW s \in Symbols, merged[s] = NoRow, s \in Rows PROVE merged'[s].source = source
      <4>1. merged'[s] = [source |-> source, via |-> pairs[s].via, base |-> pairs[s].base]
        BY <2>5, <3>3
      <4> QED
        BY <3>2, <4>1
    <3> QED
      BY <1>1, <3>1, <3>3
  <2>9. ASSUME NEW s \in Symbols, merged'[s] # NoRow
        PROVE  /\ merged'[s].source \in Sources /\ merged'[s].source < source'
               /\ s \in returned'[merged'[s].source]
    <3>1. CASE merged[s] # NoRow
      <4>1. /\ merged[s].source \in Sources /\ merged[s].source < source /\ s \in returned[merged[s].source]
            /\ merged'[s] = merged[s]
        BY <2>5, <3>1 DEF FirstRows
      <4>2. \A m, n \in Nat : m < n => m # n /\ m < n + 1
        OBVIOUS
      <4>3. merged[s].source \in Nat /\ merged[s].source # source /\ merged[s].source < source + 1
        BY <1>1, <2>2, <4>1, <4>2, Zenon
      <4> QED
        BY <2>2, <2>6, <4>1, <4>3
    <3>2. CASE merged[s] = NoRow
      <4>1. s \in Rows /\ merged'[s].source = source
        BY <2>5, <2>8, <2>9, <3>2
      <4> QED
        BY <1>1, <2>1, <2>2, <2>6, <4>1
    <3> QED
      BY <3>1, <3>2
  <2>10. ASSUME NEW i \in Sources, NEW s \in returned'[i]
         PROVE  s \in Symbols /\ i < source' /\ merged'[s] # NoRow /\ merged'[s].source <= i
    <3>1. CASE i = source
      <4>1. s \in Rows /\ s \in Symbols
        BY <2>6, <2>7, <3>1
      <4>2. merged[s] = NoRow => merged'[s].source = source /\ merged'[s] # NoRow
        BY <2>8, <4>1
      <4>3. merged[s] # NoRow => /\ merged'[s] = merged[s]
                                 /\ merged[s].source \in Nat /\ merged[s].source < source
        BY <2>2, <2>5, <4>1 DEF FirstRows
      <4> QED
        BY <1>1, <2>2, <3>1, <4>1, <4>2, <4>3
    <3>2. CASE i # source
      <4>1. s \in returned[i]
        BY <2>6, <3>2
      <4>2. s \in Symbols /\ i < source /\ merged[s] # NoRow /\ merged[s].source <= i
        BY <4>1 DEF FirstRows
      <4>3. merged'[s] = merged[s]
        BY <2>5, <4>2
      <4> QED
        BY <1>1, <2>2, <4>2, <4>3
    <3> QED
      BY <3>1, <3>2
  <2>11. FirstRows'
    BY <2>2, <2>9, <2>10 DEF FirstRows
  <2>12. Ended'
    BY <1>9, <2>1 DEF Ended
  <2> QED
    BY <2>4, <2>11, <2>12
<1> QED
  BY <1>3, <1>4, <1>5, <1>6, <1>7, <1>8, <1>9 DEF Shapes

(***************************************************************************)
(* The chain of sources: a fetch returns every symbol, each from the first *)
(* source that returned it, for any number of sources and symbols.         *)
(***************************************************************************)
THEOREM FirstSourceCounts == MarketSpec => []SymbolsFromFirstSource
<1>1. ChainTypes /\ FirstRows /\ Ended => SymbolsFromFirstSource
  BY DEF ChainTypes, FirstRows, Ended, SymbolsFromFirstSource, Pending
<1> QED
  BY ChainStart, ChainStep, <1>1, PTL DEF MarketSpec

(***************************************************************************)
(* RequiredFromAddress: what is known of a required symbol, among the      *)
(* pairs and among the rows, is from a lookup of its address, and no       *)
(* search for one is out.                                                  *)
(***************************************************************************)
Addressed ==
    /\ \A s \in RequiredSymbols :
          /\ NotFound(pairs[s]) \/ FromAddress(pairs[s], conf.order[source])
          /\ merged[s] # NoRow => FromAddress(merged[s], conf.order[merged[s].source])
    /\ phase = "searches" => \A lookup \in waiting : lookup \cap RequiredSymbols = {}

LEMMA RequiredAreKnown == RequiredSymbols \subseteq Symbols /\ RequiredSymbols \subseteq Known
BY DEF RequiredSymbols, Known

LEMMA AddressedStep ==
    ChainTypes /\ FirstRows /\ Addressed /\ [MarketNext]_marketVars => Addressed'
<1> SUFFICES ASSUME ChainTypes, FirstRows, Addressed, Shapes PROVE Addressed'
  BY StepShapes
<1>1. RequiredSymbols \subseteq Symbols /\ RequiredSymbols \subseteq Known
  BY RequiredAreKnown
<1>2. conf' = conf => RequiredSymbols' = RequiredSymbols
  BY DEF RequiredSymbols
<1>3. NoPair.fine = FALSE /\ Severed.fine = FALSE
  BY DEF NoPair, Severed
<1>4. CASE \E lookup \in waiting : Looked(lookup)
  <2>1. PICK lookup \in waiting : Looked(lookup)
    BY <1>4
  <2>2. /\ UNCHANGED <<conf, source, phase, merged>> /\ waiting' \subseteq waiting
        /\ phase \in {"addresses", "searches"}
        /\ \A s \in Known \ lookup : pairs'[s] = pairs[s]
    BY <2>1 DEF Looked
  <2>3. ASSUME NEW s \in RequiredSymbols
        PROVE  NotFound(pairs'[s]) \/ FromAddress(pairs'[s], conf.order[source])
    <3>1. s \in Known /\ (NotFound(pairs[s]) \/ FromAddress(pairs[s], conf.order[source]))
      BY <1>1 DEF Addressed
    <3>2. CASE s \notin lookup
      BY <2>2, <3>1, <3>2
    <3>3. CASE s \in lookup
      <4>1. phase = "addresses"
        BY <2>2, <3>3 DEF Addressed
      <4> QED
        BY <2>1, <3>1, <3>3, <4>1 DEF Looked
    <3> QED
      BY <3>2, <3>3
  <2> QED
    BY <1>2, <2>2, <2>3 DEF Addressed
<1>5. CASE Moves("next", "addresses")
  BY <1>2, <1>5 DEF Moves, Addressed
<1>6. CASE Moves("addresses", "searches") /\ waiting' = {{s} : s \in Symbols \ (Found \cup RequiredSymbols)}
  <2>1. \A lookup \in waiting' : lookup \cap RequiredSymbols = {}
    BY <1>6
  <2> QED
    BY <1>2, <1>6, <2>1 DEF Moves, Addressed
<1>7. CASE SourceFails
  <2>1. UNCHANGED <<conf, merged>> /\ phase' = "next" /\ pairs' = [s \in Known |-> NoPair]
    BY <1>7 DEF SourceFails
  <2> QED
    BY <1>1, <1>2, <2>1 DEF Addressed, NotFound
<1>8. CASE Raises
  <2>1. UNCHANGED <<conf, merged>> /\ phase' = "done" /\ pairs' = [s \in Known |-> NoPair]
    BY <1>8 DEF Raises
  <2> QED
    BY <1>1, <1>2, <2>1 DEF Addressed, NotFound
<1>9. CASE Finish
  <2>1. UNCHANGED <<conf, merged, source, pairs>> /\ phase' = "done"
    BY <1>9 DEF Finish
  <2> QED
    BY <1>2, <2>1 DEF Addressed
<1>10. CASE UNCHANGED marketVars
  BY <1>2, <1>10 DEF marketVars, Addressed
<1>11. CASE Conclude /\ merged' = Merged /\ phase' = "next" /\ pairs' = [s \in Known |-> NoPair] /\ UNCHANGED conf
  <2>1. ASSUME NEW s \in RequiredSymbols, merged'[s] # NoRow
        PROVE  FromAddress(merged'[s], conf.order[merged'[s].source])
    <3>1. CASE merged[s] = NoRow /\ s \in Rows
      <4>1. merged'[s] = [source |-> source, via |-> pairs[s].via, base |-> pairs[s].base]
        BY <1>1, <1>11, <3>1 DEF Merged
      <4>2. merged'[s].source = source /\ merged'[s].via = pairs[s].via /\ merged'[s].base = pairs[s].base
        BY <4>1
      <4>3. ~ NotFound(pairs[s])
        BY <1>3, <3>1 DEF Rows, NotFound
      <4>4. FromAddress(pairs[s], conf.order[source])
        BY <4>3 DEF Addressed
      <4> QED
        BY <4>2, <4>4 DEF FromAddress
    <3>2. CASE ~ (merged[s] = NoRow /\ s \in Rows)
      <4>1. merged'[s] = merged[s]
        BY <1>1, <1>11, <3>2 DEF Merged
      <4> QED
        BY <2>1, <4>1 DEF Addressed
    <3> QED
      BY <3>1, <3>2
  <2>2. \A s \in RequiredSymbols : NotFound(pairs'[s])
    BY <1>1, <1>11 DEF NotFound
  <2> QED
    BY <1>2, <1>11, <2>1, <2>2 DEF Addressed
<1> QED
  BY <1>4, <1>5, <1>6, <1>7, <1>8, <1>9, <1>10, <1>11 DEF Shapes

(***************************************************************************)
(* _collect_pairs of the strategies: the row of a required symbol is from  *)
(* a lookup of its address, and but for GeckoTerminal about the token at   *)
(* that address, whatever pools, failures and searches came in between.    *)
(***************************************************************************)
THEOREM RequiredComeFromAddress == MarketSpec => []RequiredFromAddress
<1>1. MarketInit => Addressed
  <2> SUFFICES ASSUME MarketInit PROVE Addressed
    OBVIOUS
  <2>1. /\ phase = "next" /\ pairs = [s \in Known |-> NoPair] /\ merged = [s \in Symbols |-> NoRow]
    BY DEF MarketInit
  <2> QED
    BY <2>1, RequiredAreKnown DEF Addressed, NotFound
<1>2. FirstRows /\ Ended /\ Addressed => RequiredFromAddress
  BY RequiredAreKnown DEF Ended, Addressed, RequiredFromAddress, FromAddress, Pending
<1> QED
  BY ChainStart, ChainStep, AddressedStep, <1>1, <1>2, PTL DEF MarketSpec

-----------------------------------------------------------------------------
(***************************************************************************)
(* Backtests: what a row must say of the request that wrote it last, while *)
(* that request is between its transactions, and afterwards.               *)
(***************************************************************************)
RowOf(id) == DOMAIN runs[id] = {"status", "net", "gate2", "writer"}

BacktestTypes ==
    /\ duty \in [Requests -> Duties] /\ DOMAIN step = Requests
    /\ items \in [Requests -> Seq({"success", "failed"})]
    /\ DOMAIN runs = RunIds /\ \A id \in RunIds : RowOf(id)
    /\ \A r \in Requests : /\ Len(items[r]) <= Len(duty[r].configs)
                           /\ step[r] \in {"new", "running", "saved"} => Len(items[r]) < Len(duty[r].configs)

\* The row of a configuration whose engine has run to the end.
Written(r, config) ==
    LET row == runs[RunId(config)]
    IN  /\ row.status # "absent"
        /\ row.writer = r =>
              /\ row.net = NetPnl(Metrics(market, config))
              /\ row.status = IF duty[r].kind = "gate" /\ ~ GatePasses(market, config) THEN "failed" ELSE "success"

SavedRows == \A r \in Requests : step[r] = "saved" => Written(r, duty[r].configs[Len(items[r]) + 1])

ReportedRows ==
    \A r \in Requests : \A i \in DOMAIN items[r] :
       LET config == duty[r].configs[i]
           row == runs[RunId(config)]
       IN  items[r][i] = "success" =>
              /\ row.status # "absent"
              /\ row.writer = r /\ Len(duty[r].configs) = 1 =>
                    /\ Written(r, config)
                    /\ duty[r].kind = "gate" => row.gate2 # "none"
              /\ duty[r].kind = "report" => RunId(config) \in files

BacktestInv == BacktestTypes /\ SavedRows /\ ReportedRows

LEMMA ReportedEnough == BacktestInv => ReportedRunsAreStored
<1> SUFFICES ASSUME BacktestInv, NEW r \in Requests, NEW i \in DOMAIN items[r], items[r][i] = "success"
             PROVE  LET config == duty[r].configs[i]
                        row == runs[RunId(config)]
                    IN  /\ row # Absent
                        /\ row.writer = r /\ Len(duty[r].configs) = 1 =>
                              /\ row.net = NetPnl(Metrics(market, config))
                              /\ GateCheck(r) => /\ row.gate2 # "none"
                                                 /\ row.status = "success" <=> GatePasses(market, config)
                        /\ duty[r].kind = "report" => RunId(config) \in files
  BY DEF ReportedRunsAreStored, Told
<1> DEFINE config == duty[r].configs[i]
           row == runs[RunId(config)]
<1>1. /\ row.status # "absent"
      /\ row.writer = r /\ Len(duty[r].configs) = 1 => Written(r, config) /\ (duty[r].kind = "gate" => row.gate2 # "none")
      /\ duty[r].kind = "report" => RunId(config) \in files
  BY DEF BacktestInv, ReportedRows
<1>2. row # Absent
  BY <1>1 DEF Absent
<1>3. row.writer = r /\ Len(duty[r].configs) = 1 =>
         /\ row.net = NetPnl(Metrics(market, config))
         /\ GateCheck(r) => /\ row.gate2 # "none"
                            /\ row.status = "success" <=> GatePasses(market, config)
  BY <1>1 DEF Written, GateCheck
<1> QED
  BY <1>1, <1>2, <1>3

\* What every transaction leaves of the rows: a row stays a row, and one whose
\* writer is q is the one q wrote, a verdict apart.
RowsStay == \A id \in RunIds : RowOf(id)' /\ (runs[id].status # "absent" => runs'[id].status # "absent")

KeepsRowsOf(q) ==
    \A id \in RunIds :
       runs'[id].writer = q => /\ runs[id].writer = q
                               /\ runs'[id].net = runs[id].net /\ runs'[id].status = runs[id].status
                               /\ runs[id].gate2 # "none" => runs'[id].gate2 # "none"

\* The settled part of a step, the same for every action.
Settled == /\ market' = market /\ duty' = duty /\ RunIds' = RunIds
           /\ DOMAIN runs' = RunIds /\ RowsStay /\ files \subseteq files'

SavedOf(r) == step[r] = "saved" => Written(r, duty[r].configs[Len(items[r]) + 1])

ReportedOf(r) ==
    \A i \in DOMAIN items[r] :
       LET config == duty[r].configs[i]
           row == runs[RunId(config)]
       IN  items[r][i] = "success" =>
              /\ row.status # "absent"
              /\ row.writer = r /\ Len(duty[r].configs) = 1 =>
                    /\ Written(r, config)
                    /\ duty[r].kind = "gate" => row.gate2 # "none"
              /\ duty[r].kind = "report" => RunId(config) \in files

ItemsOf(r) == /\ items[r] \in Seq({"success", "failed"})
              /\ Len(items[r]) <= Len(duty[r].configs)
              /\ step[r] \in {"new", "running", "saved"} => Len(items[r]) < Len(duty[r].configs)

LEMMA ConfigsHaveRows ==
    ASSUME BacktestTypes, NEW r \in Requests, NEW i \in Nat \ {0}, i <= Len(duty[r].configs)
    PROVE  RunId(duty[r].configs[i]) \in RunIds
<1>1. duty[r] \in Duties
  BY DEF BacktestTypes
<1>2. i \in DOMAIN duty[r].configs
  BY <1>1, BacktestAssumption
<1> QED
  BY <1>2 DEF RunIds

LEMMA WrittenStays ==
    ASSUME Settled, NEW q \in Requests, KeepsRowsOf(q), NEW c, RunId(c) \in RunIds, Written(q, c)
    PROVE  Written(q, c)'
  BY DEF Settled, RowsStay, KeepsRowsOf, Written

\* A request that takes no part in a step.
LEMMA OthersStay ==
    ASSUME BacktestInv, Settled, NEW q \in Requests, KeepsRowsOf(q),
           items'[q] = items[q], step'[q] # step[q] => step'[q] \notin {"new", "saved"},
           step'[q] = "running" => step[q] \in {"new", "running"}
    PROVE  (ItemsOf(q) /\ SavedOf(q) /\ ReportedOf(q))'
<1>0. ItemsOf(q) /\ SavedOf(q) /\ ReportedOf(q)
  BY DEF BacktestInv, BacktestTypes, SavedRows, ReportedRows, ItemsOf, SavedOf, ReportedOf
<1>1. ItemsOf(q)'
  BY <1>0 DEF ItemsOf, Settled
<1>2. SavedOf(q)'
  <2> SUFFICES ASSUME step'[q] = "saved"
               PROVE  SavedOf(q)'
    BY DEF SavedOf
  <2> PICK c : c = duty[q].configs[Len(items[q]) + 1]
    OBVIOUS
  <2>1. Len(items[q]) \in Nat /\ Len(items[q]) < Len(duty[q].configs) /\ step[q] = "saved"
    BY <1>0 DEF ItemsOf
  <2>2. Len(duty[q].configs) \in Nat
    BY BacktestAssumption DEF BacktestInv, BacktestTypes
  <2>3. RunId(c) \in RunIds
    <3> PICK n : n = Len(items[q]) + 1
      OBVIOUS
    <3>1. n \in Nat \ {0} /\ n <= Len(duty[q].configs)
      BY <2>1, <2>2
    <3> QED
      BY <3>1, ConfigsHaveRows DEF BacktestInv
  <2>4. Written(q, c)'
    BY <1>0, <2>1, <2>3, WrittenStays DEF SavedOf
  <2>5. c = (duty[q].configs[Len(items[q]) + 1])'
    BY DEF Settled
  <2> QED
    BY <2>4, <2>5 DEF SavedOf, Written
<1>3. ReportedOf(q)'
  <2> SUFFICES ASSUME NEW i \in DOMAIN items[q], items[q][i] = "success",
                      NEW c, c = duty[q].configs[i]
               PROVE  /\ runs'[RunId(c)].status # "absent"
                      /\ runs'[RunId(c)].writer = q /\ Len(duty[q].configs) = 1 =>
                            /\ Written(q, c)'
                            /\ duty[q].kind = "gate" => runs'[RunId(c)].gate2 # "none"
                      /\ duty[q].kind = "report" => RunId(c) \in files'
    BY DEF ReportedOf, Settled, Written
  <2>1. i \in Nat \ {0} /\ i <= Len(duty[q].configs)
    <3>1. i \in 1 .. Len(items[q]) /\ Len(items[q]) \in Nat /\ Len(items[q]) <= Len(duty[q].configs)
      BY <1>0 DEF ItemsOf
    <3>2. Len(duty[q].configs) \in Nat
      BY BacktestAssumption DEF BacktestInv, BacktestTypes
    <3> QED
      BY <3>1, <3>2
  <2>2. RunId(c) \in RunIds
    BY <2>1, ConfigsHaveRows DEF BacktestInv
  <2>3. /\ runs[RunId(c)].status # "absent"
        /\ runs[RunId(c)].writer = q /\ Len(duty[q].configs) = 1 =>
              Written(q, c) /\ (duty[q].kind = "gate" => runs[RunId(c)].gate2 # "none")
        /\ duty[q].kind = "report" => RunId(c) \in files
    BY <1>0 DEF ReportedOf
  <2>4. ASSUME runs'[RunId(c)].writer = q, Len(duty[q].configs) = 1
        PROVE  Written(q, c)' /\ (duty[q].kind = "gate" => runs'[RunId(c)].gate2 # "none")
    <3>1. runs[RunId(c)].writer = q /\ (runs[RunId(c)].gate2 # "none" => runs'[RunId(c)].gate2 # "none")
      BY <2>2, <2>4 DEF KeepsRowsOf
    <3> QED
      BY <2>2, <2>3, <2>4, <3>1, WrittenStays
  <2> QED
    BY <2>2, <2>3, <2>4 DEF Settled, RowsStay
<1> QED
  BY <1>1, <1>2, <1>3

\* The request whose configuration is done: an earlier item of it means that it
\* has several, for which only the row's existence and the report count.
LEMMA DoneStays ==
    ASSUME BacktestInv, Settled, NEW r \in Requests, NEW told \in {"success", "failed"},
           step[r] \in {"running", "saved"}, Done(r, told),
           NEW c, c = Config(r),
           told = "success" =>
              /\ Written(r, c)'
              /\ duty[r].kind = "gate" => runs'[RunId(c)].gate2 # "none"
              /\ duty[r].kind = "report" => RunId(c) \in files'
    PROVE  (ItemsOf(r) /\ SavedOf(r) /\ ReportedOf(r))'
<1>0. /\ ItemsOf(r) /\ ReportedOf(r) /\ DOMAIN step = Requests /\ DOMAIN items = Requests
      /\ Len(duty[r].configs) \in Nat \ {0} /\ Len(items[r]) < Len(duty[r].configs)
      /\ items[r] \in Seq({"success", "failed"}) /\ Len(items[r]) \in Nat
  BY BacktestAssumption DEF BacktestInv, BacktestTypes, ReportedRows, ItemsOf, ReportedOf
<1>1. /\ items'[r] = Append(items[r], told)
      /\ step'[r] = IF told = "failed" /\ ~ Batch(r) THEN "error"
                    ELSE IF Len(Append(items[r], told)) = Len(duty[r].configs) THEN "returned" ELSE "running"
  BY <1>0 DEF Done
<1>2. /\ items'[r] \in Seq({"success", "failed"}) /\ Len(items'[r]) = Len(items[r]) + 1
      /\ items'[r][Len(items[r]) + 1] = told
      /\ \A i \in 1 .. Len(items[r]) : items'[r][i] = items[r][i]
      /\ DOMAIN items'[r] = 1 .. (Len(items[r]) + 1)
  BY <1>0, <1>1
<1>3. ItemsOf(r)'
  <2>1. step'[r] \in {"new", "running", "saved"} => Len(items'[r]) # Len(duty[r].configs)
    BY <1>1
  <2> QED
    BY <1>0, <1>2, <2>1 DEF ItemsOf, Settled
<1>4. SavedOf(r)'
  BY <1>1 DEF SavedOf
<1>5. ReportedOf(r)'
  <2> SUFFICES ASSUME NEW i \in DOMAIN items'[r], items'[r][i] = "success",
                      NEW d, d = duty[r].configs[i]
               PROVE  /\ runs'[RunId(d)].status # "absent"
                      /\ runs'[RunId(d)].writer = r /\ Len(duty[r].configs) = 1 =>
                            /\ Written(r, d)'
                            /\ duty[r].kind = "gate" => runs'[RunId(d)].gate2 # "none"
                      /\ duty[r].kind = "report" => RunId(d) \in files'
    BY DEF ReportedOf, Settled, Written
  <2>1. CASE i = Len(items[r]) + 1
    <3>1. c = d /\ told = "success"
      BY <1>2, <2>1 DEF Config
    <3>2. Written(r, d)' => runs'[RunId(d)].status # "absent"
      BY DEF Written
    <3> QED
      BY <3>1, <3>2
  <2>2. CASE i # Len(items[r]) + 1
    <3>1. i \in 1 .. Len(items[r]) /\ i \in Nat \ {0} /\ i <= Len(duty[r].configs)
      <4>1. i \in 1 .. (Len(items[r]) + 1)
        BY <1>2
      <4>2. \A m, n \in Nat : \A k \in 1 .. (m + 1) : k # m + 1 /\ m < n => k \in 1 .. m /\ k \in Nat \ {0} /\ k <= n
        OBVIOUS
      <4> QED
        BY <1>0, <2>2, <4>1, <4>2
    <3>2. i \in DOMAIN items[r] /\ items[r][i] = "success"
      BY <1>0, <1>2, <3>1
    <3>3. Len(duty[r].configs) # 1
      <4>1. \A m, n \in Nat : \A k \in 1 .. m : m < n => n # 1
        OBVIOUS
      <4> QED
        BY <1>0, <3>1, <4>1
    <3>4. RunId(d) \in RunIds
      BY <3>1, ConfigsHaveRows DEF BacktestInv
    <3>5. /\ runs[RunId(d)].status # "absent"
          /\ duty[r].kind = "report" => RunId(d) \in files
      BY <1>0, <3>2 DEF ReportedOf
    <3> QED
      BY <3>3, <3>4, <3>5 DEF Settled, RowsStay
  <2> QED
    BY <2>1, <2>2
<1> QED
  BY <1>3, <1>4, <1>5

\* A transaction that stores the run of request w.
LEMMA StoredRow ==
    ASSUME BacktestInv, NEW w \in Requests, Runnable(w), runs' = Stored(w),
           market' = market, duty' = duty, files \subseteq files',
           NEW c, c = Config(w)
    PROVE  /\ Settled /\ Written(w, c)'
           /\ \A q \in Requests \ {w} : KeepsRowsOf(q)
<1>1. RunIds' = RunIds
  BY DEF RunIds
<1>2. step[w] = "running" /\ duty \in [Requests -> Duties] /\ DOMAIN runs = RunIds
      /\ \A id \in RunIds : RowOf(id)
  BY DEF Runnable, BacktestInv, BacktestTypes
<1>3. RunId(c) \in RunIds
  <2>1. Len(items[w]) \in Nat /\ Len(items[w]) < Len(duty[w].configs) /\ Len(duty[w].configs) \in Nat
    BY <1>2, BacktestAssumption DEF BacktestInv, BacktestTypes
  <2> PICK n : n = Len(items[w]) + 1
    OBVIOUS
  <2>2. n \in Nat \ {0} /\ n <= Len(duty[w].configs)
    BY <2>1
  <2> QED
    BY <2>2, ConfigsHaveRows DEF BacktestInv, Config
<1>4. runs' = [runs EXCEPT ![RunId(c)] =
                  [status |-> Status(w), net |-> NetPnl(Metrics(market, c)), gate2 |-> "none", writer |-> w]]
  BY DEF Stored
<1>5. Status(w) = IF duty[w].kind = "gate" /\ ~ GatePasses(market, c) THEN "failed" ELSE "success"
  BY DEF Status, GateCheck
<1>6. /\ runs'[RunId(c)] = [status |-> Status(w), net |-> NetPnl(Metrics(market, c)), gate2 |-> "none", writer |-> w]
      /\ \A id \in RunIds \ {RunId(c)} : runs'[id] = runs[id]
      /\ DOMAIN runs' = RunIds
  BY <1>2, <1>3, <1>4
<1>7. RowsStay
  <2> SUFFICES ASSUME NEW id \in RunIds
               PROVE  /\ DOMAIN runs'[id] = {"status", "net", "gate2", "writer"}
                      /\ runs[id].status # "absent" => runs'[id].status # "absent"
    BY DEF RowsStay, RowOf
  <2>1. CASE id = RunId(c)
    <3>1. DOMAIN runs'[id] = {"status", "net", "gate2", "writer"} /\ runs'[id].status = Status(w)
      BY <1>6, <2>1
    <3> QED
      BY <1>5, <3>1
  <2>2. CASE id # RunId(c)
    BY <1>2, <1>6, <2>2 DEF RowOf
  <2> QED
    BY <2>1, <2>2
<1>8. Written(w, c)'
  <2>1. runs'[RunId(c)].status = Status(w) /\ runs'[RunId(c)].net = NetPnl(Metrics(market, c))
    BY <1>6
  <2> QED
    BY <1>5, <2>1 DEF Written
<1>9. ASSUME NEW q \in Requests \ {w}
      PROVE  KeepsRowsOf(q)
  <2>1. runs'[RunId(c)].writer = w
    BY <1>6
  <2> QED
    BY <1>6, <2>1 DEF KeepsRowsOf
<1> QED
  BY <1>1, <1>6, <1>7, <1>8, <1>9 DEF Settled

\* A transaction that stores nothing.
LEMMA SameRows ==
    ASSUME BacktestInv, runs' = runs, market' = market, duty' = duty, files \subseteq files'
    PROVE  Settled /\ \A q \in Requests : KeepsRowsOf(q)
<1>1. RunIds' = RunIds
  BY DEF RunIds
<1> QED
  BY <1>1 DEF Settled, RowsStay, KeepsRowsOf, RowOf, BacktestInv, BacktestTypes

\* A transaction that adds a verdict to a row.
LEMMA VerdictRow ==
    ASSUME BacktestInv, NEW w \in Requests, step[w] = "saved",
           NEW c, c = Config(w), NEW verdict \in {"passed", "failed"},
           runs' = [runs EXCEPT ![RunId(c)].gate2 = verdict],
           market' = market, duty' = duty, files' = files
    PROVE  /\ Settled /\ \A q \in Requests : KeepsRowsOf(q)
           /\ Written(w, c)' /\ runs'[RunId(c)].gate2 # "none"
<1>1. RunIds' = RunIds
  BY DEF RunIds
<1>2. duty \in [Requests -> Duties] /\ DOMAIN runs = RunIds
      /\ \A id \in RunIds : RowOf(id)
  BY DEF BacktestInv, BacktestTypes
<1>3. RunId(c) \in RunIds
  <2>1. Len(items[w]) \in Nat /\ Len(items[w]) < Len(duty[w].configs) /\ Len(duty[w].configs) \in Nat
    BY BacktestAssumption DEF BacktestInv, BacktestTypes
  <2> PICK n : n = Len(items[w]) + 1
    OBVIOUS
  <2>2. n \in Nat \ {0} /\ n <= Len(duty[w].configs)
    BY <2>1
  <2> QED
    BY <2>2, ConfigsHaveRows DEF BacktestInv, Config
<1>4. DOMAIN runs[RunId(c)] = {"status", "net", "gate2", "writer"}
  BY <1>2, <1>3 DEF RowOf
<1>5. /\ runs'[RunId(c)] = [runs[RunId(c)] EXCEPT !.gate2 = verdict]
      /\ \A id \in RunIds \ {RunId(c)} : runs'[id] = runs[id]
      /\ DOMAIN runs' = RunIds
  BY <1>2, <1>3
<1>6. /\ DOMAIN runs'[RunId(c)] = {"status", "net", "gate2", "writer"}
      /\ runs'[RunId(c)].gate2 = verdict /\ runs'[RunId(c)].status = runs[RunId(c)].status
      /\ runs'[RunId(c)].net = runs[RunId(c)].net /\ runs'[RunId(c)].writer = runs[RunId(c)].writer
  BY <1>4, <1>5
<1>7. Settled
  BY <1>1, <1>2, <1>5, <1>6 DEF Settled, RowsStay, RowOf
<1>8. ASSUME NEW q \in Requests
      PROVE  KeepsRowsOf(q)
  BY <1>5, <1>6 DEF KeepsRowsOf
<1>9. Written(w, c)
  BY DEF BacktestInv, SavedRows, Config
<1>10. Written(w, c)'
  BY <1>3, <1>7, <1>8, <1>9, WrittenStays
<1> QED
  BY <1>6, <1>7, <1>8, <1>10

\* The invariant of the next state, request by request.
LEMMA PiecesFit ==
    ASSUME BacktestInv, Settled, DOMAIN step' = Requests, DOMAIN items' = Requests,
           items' = [q \in Requests |-> items'[q]],
           \A q \in Requests : (ItemsOf(q) /\ SavedOf(q) /\ ReportedOf(q))'
    PROVE  BacktestInv'
<1>1. BacktestTypes'
  <2>1. duty' \in [Requests -> Duties]
    BY DEF BacktestInv, BacktestTypes, Settled
  <2>2. items' \in [Requests -> Seq({"success", "failed"})]
    BY DEF ItemsOf
  <2>3. DOMAIN runs' = RunIds' /\ (\A id \in RunIds : RowOf(id))'
    BY DEF Settled, RowsStay, RowOf
  <2>4. \A q \in Requests : /\ Len(items'[q]) <= Len(duty'[q].configs)
                            /\ step'[q] \in {"new", "running", "saved"} => Len(items'[q]) < Len(duty'[q].configs)
    BY DEF ItemsOf
  <2> QED
    BY <2>1, <2>2, <2>3, <2>4 DEF BacktestTypes, RowOf
<1>2. SavedRows'
  BY DEF SavedRows, SavedOf
<1>3. ReportedRows'
  BY DEF ReportedRows, ReportedOf
<1> QED
  BY <1>1, <1>2, <1>3 DEF BacktestInv

LEMMA BacktestStart == BacktestInit => BacktestInv
<1> SUFFICES ASSUME BacktestInit
             PROVE  BacktestInv
  OBVIOUS
<1>1. duty \in [Requests -> Duties] /\ DOMAIN step = Requests
  BY DEF BacktestInit
<1>2. items \in [Requests -> Seq({"success", "failed"})] /\ \A r \in Requests : Len(items[r]) = 0
  BY DEF BacktestInit
<1>3. DOMAIN runs = RunIds /\ \A id \in RunIds : RowOf(id)
  BY DEF BacktestInit, Absent, RowOf
<1>4. \A r \in Requests : Len(duty[r].configs) \in Nat \ {0}
  BY <1>1, BacktestAssumption
<1>5. BacktestTypes
  BY <1>1, <1>2, <1>3, <1>4 DEF BacktestTypes
<1>6. SavedRows
  BY DEF BacktestInit, SavedRows
<1>7. \A r \in Requests : DOMAIN items[r] = {}
  BY DEF BacktestInit
<1> QED
  BY <1>5, <1>6, <1>7 DEF BacktestInv, ReportedRows

\* The step that ends a configuration of w, whatever it did to the rows.
LEMMA DoneKeeps ==
    ASSUME BacktestInv, Settled, NEW w \in Requests, NEW told \in {"success", "failed"},
           step[w] \in {"running", "saved"}, Done(w, told),
           \A q \in Requests \ {w} : KeepsRowsOf(q),
           NEW c, c = Config(w),
           told = "success" =>
              /\ Written(w, c)'
              /\ duty[w].kind = "gate" => runs'[RunId(c)].gate2 # "none"
              /\ duty[w].kind = "report" => RunId(c) \in files'
    PROVE  BacktestInv'
<1>0. DOMAIN step = Requests /\ DOMAIN items = Requests /\ items = [q \in Requests |-> items[q]]
  BY DEF BacktestInv, BacktestTypes
<1>1. /\ DOMAIN step' = Requests /\ DOMAIN items' = Requests
      /\ items' = [q \in Requests |-> items'[q]]
      /\ \A q \in Requests \ {w} : items'[q] = items[q] /\ step'[q] = step[q]
  BY <1>0 DEF Done
<1>2. (ItemsOf(w) /\ SavedOf(w) /\ ReportedOf(w))'
  BY DoneStays
<1>3. ASSUME NEW q \in Requests \ {w}
      PROVE  (ItemsOf(q) /\ SavedOf(q) /\ ReportedOf(q))'
  BY <1>1, OthersStay
<1> QED
  BY <1>1, <1>2, <1>3, PiecesFit

\* A step that ends none.
LEMMA NoneDone ==
    ASSUME BacktestInv, runs' = runs, market' = market, duty' = duty, files' = files, items' = items,
           DOMAIN step' = Requests,
           \A q \in Requests : step'[q] # step[q] => step'[q] \notin {"new", "saved"},
           \A q \in Requests : step'[q] = "running" => step[q] \in {"new", "running"}
    PROVE  BacktestInv'
<1>1. Settled /\ \A q \in Requests : KeepsRowsOf(q)
  BY SameRows
<1>2. ASSUME NEW q \in Requests
      PROVE  (ItemsOf(q) /\ SavedOf(q) /\ ReportedOf(q))'
  BY <1>1, OthersStay
<1>3. DOMAIN items' = Requests /\ items' = [q \in Requests |-> items'[q]]
  BY DEF BacktestInv, BacktestTypes
<1> QED
  BY <1>1, <1>2, <1>3, PiecesFit

LEMMA SaveKeeps == ASSUME BacktestInv, NEW r \in Requests, SaveRun(r) PROVE BacktestInv'
<1> PICK c : c = Config(r)
  OBVIOUS
<1>0. step[r] = "running" /\ market' = market /\ duty' = duty /\ files' = files
      /\ runs' = Stored(r) /\ Runnable(r)
  BY DEF SaveRun, Runnable
<1>1. Settled /\ Written(r, c)' /\ \A q \in Requests \ {r} : KeepsRowsOf(q)
  BY <1>0, StoredRow
<1>2. ASSUME duty[r].kind \notin {"gate", "report"}
      PROVE  BacktestInv'
  <2>1. Done(r, "success")
    BY <1>2 DEF SaveRun
  <2> QED
    BY <1>0, <1>1, <1>2, <2>1, DoneKeeps
<1>3. ASSUME duty[r].kind \in {"gate", "report"}
      PROVE  BacktestInv'
  <2>1. DOMAIN step = Requests /\ items \in [Requests -> Seq({"success", "failed"})]
    BY DEF BacktestInv, BacktestTypes
  <2>2. items' = items /\ step' = [step EXCEPT ![r] = "saved"]
    BY <1>3 DEF SaveRun
  <2>3. /\ DOMAIN step' = Requests /\ DOMAIN items' = Requests /\ items' = [q \in Requests |-> items'[q]]
        /\ step'[r] = "saved" /\ \A q \in Requests \ {r} : step'[q] = step[q]
    BY <2>1, <2>2
  <2>4. ASSUME NEW q \in Requests \ {r}
        PROVE  (ItemsOf(q) /\ SavedOf(q) /\ ReportedOf(q))'
    BY <1>1, <2>2, <2>3, OthersStay
  <2>5. /\ Len(items[r]) \in Nat /\ Len(items[r]) < Len(duty[r].configs)
        /\ Len(duty[r].configs) \in Nat /\ ReportedOf(r)
    BY <1>0, <2>1, BacktestAssumption DEF BacktestInv, BacktestTypes, ReportedRows, ReportedOf
  <2>6. ItemsOf(r)'
    BY <1>0, <2>1, <2>2, <2>5 DEF ItemsOf
  <2>7. SavedOf(r)'
    <3>1. c = (duty[r].configs[Len(items[r]) + 1])'
      BY <1>0, <2>2 DEF Config
    <3> QED
      BY <1>1, <3>1 DEF SavedOf, Written
  <2>8. ReportedOf(r)'
    <3> SUFFICES ASSUME NEW i \in DOMAIN items[r], items[r][i] = "success",
                        NEW d, d = duty[r].configs[i]
                 PROVE  /\ runs'[RunId(d)].status # "absent"
                        /\ Len(duty[r].configs) # 1
                        /\ duty[r].kind = "report" => RunId(d) \in files'
      BY <1>0, <2>2 DEF ReportedOf
    <3>1. \A m, n \in Nat : \A k \in 1 .. m : m < n => n # 1 /\ k \in Nat \ {0} /\ k <= n
      OBVIOUS
    <3>2. i \in 1 .. Len(items[r])
      BY <2>1
    <3>3. Len(duty[r].configs) # 1 /\ i \in Nat \ {0} /\ i <= Len(duty[r].configs)
      BY <2>5, <3>1, <3>2
    <3>4. RunId(d) \in RunIds
      BY <3>3, ConfigsHaveRows DEF BacktestInv
    <3>5. runs[RunId(d)].status # "absent" /\ (duty[r].kind = "report" => RunId(d) \in files)
      BY <2>5 DEF ReportedOf
    <3> QED
      BY <1>0, <1>1, <3>3, <3>4, <3>5 DEF Settled, RowsStay
  <2> QED
    BY <1>1, <2>3, <2>4, <2>6, <2>7, <2>8, PiecesFit
<1> QED
  BY <1>2, <1>3

LEMMA SaveFailsKeeps == ASSUME BacktestInv, NEW r \in Requests, SaveRunFails(r) PROVE BacktestInv'
<1> PICK c : c = Config(r)
  OBVIOUS
<1>0. step[r] = "running" /\ market' = market /\ duty' = duty /\ files' = files
      /\ Runnable(r) /\ Done(r, "failed")
  BY DEF SaveRunFails, Runnable
<1>1. CASE runs' = runs
  BY <1>0, <1>1, SameRows, DoneKeeps
<1>2. CASE runs' = Stored(r)
  BY <1>0, <1>2, StoredRow, DoneKeeps
<1> QED
  BY <1>1, <1>2 DEF SaveRunFails

LEMMA GateKeeps == ASSUME BacktestInv, NEW r \in Requests, SaveGate2(r) PROVE BacktestInv'
<1> PICK c : c = Config(r)
  OBVIOUS
<1> PICK verdict : verdict = IF GatePasses(market, c) THEN "passed" ELSE "failed"
  OBVIOUS
<1>1. verdict \in {"passed", "failed"}
  OBVIOUS
<1>2. /\ step[r] = "saved" /\ duty[r].kind = "gate" /\ Done(r, "success")
      /\ runs' = [runs EXCEPT ![RunId(c)].gate2 = verdict]
      /\ market' = market /\ duty' = duty /\ files' = files
  BY DEF SaveGate2, GateCheck
<1>3. /\ Settled /\ \A q \in Requests : KeepsRowsOf(q)
      /\ Written(r, c)' /\ runs'[RunId(c)].gate2 # "none"
  BY <1>1, <1>2, VerdictRow
<1> QED
  BY <1>2, <1>3, DoneKeeps

LEMMA ExportKeeps == ASSUME BacktestInv, NEW r \in Requests, Export(r) PROVE BacktestInv'
<1> PICK c : c = Config(r)
  OBVIOUS
<1>1. step[r] = "saved" /\ duty[r].kind = "report" /\ runs' = runs /\ market' = market /\ duty' = duty
      /\ files \subseteq files'
  BY DEF Export
<1>2. Settled /\ \A q \in Requests : KeepsRowsOf(q)
  BY <1>1, SameRows
<1>3. ASSUME files' = files \cup {RunId(c)}, Done(r, "success")
      PROVE  BacktestInv'
  <2>1. Written(r, c)
    BY <1>1 DEF BacktestInv, SavedRows, Config
  <2>2. Written(r, c)'
    BY <1>1, <2>1 DEF Written
  <2>3. duty[r].kind # "gate" /\ RunId(c) \in files'
    BY <1>1, <1>3
  <2> QED
    BY <1>1, <1>2, <1>3, <2>2, <2>3, DoneKeeps
<1>4. ASSUME Done(r, "failed")
      PROVE  BacktestInv'
  BY <1>1, <1>2, <1>4, DoneKeeps
<1> QED
  BY <1>3, <1>4 DEF Export

\* A request that is refused, and a verdict that is not stored.
LEMMA FailureKeeps ==
    ASSUME BacktestInv, NEW r \in Requests, Reject(r) \/ SaveGate2Fails(r)
    PROVE  BacktestInv'
<1> PICK c : c = Config(r)
  OBVIOUS
<1>1. /\ step[r] \in {"running", "saved"} /\ Done(r, "failed")
      /\ runs' = runs /\ market' = market /\ duty' = duty /\ files' = files
  BY DEF Reject, SaveGate2Fails
<1>2. Settled /\ \A q \in Requests : KeepsRowsOf(q)
  BY <1>1, SameRows
<1> QED
  BY <1>1, <1>2, DoneKeeps

LEMMA BacktestStep == BacktestInv /\ [BacktestNext]_backtestVars => BacktestInv'
<1> SUFFICES ASSUME BacktestInv, [BacktestNext]_backtestVars
             PROVE  BacktestInv'
  OBVIOUS
<1>0. DOMAIN step = Requests
  BY DEF BacktestInv, BacktestTypes
<1>1. ASSUME NEW r \in Requests, Serve(r)
      PROVE  BacktestInv'
  <2>1. runs' = runs /\ market' = market /\ duty' = duty /\ files' = files /\ items' = items
        /\ step[r] = "new" /\ step' = [step EXCEPT ![r] = "running"]
    BY <1>1 DEF Serve
  <2> QED
    BY <1>0, <2>1, NoneDone
<1>2. ASSUME NEW r \in Requests, Reject(r) \/ SaveGate2Fails(r)
      PROVE  BacktestInv'
  BY <1>2, FailureKeeps
<1>3. ASSUME NEW r \in Requests, SaveRun(r)
      PROVE  BacktestInv'
  BY <1>3, SaveKeeps
<1>4. ASSUME NEW r \in Requests, SaveRunFails(r)
      PROVE  BacktestInv'
  BY <1>4, SaveFailsKeeps
<1>5. ASSUME NEW r \in Requests, SaveGate2(r)
      PROVE  BacktestInv'
  BY <1>5, GateKeeps
<1>6. ASSUME NEW r \in Requests, Export(r)
      PROVE  BacktestInv'
  BY <1>6, ExportKeeps
<1>7. ASSUME NEW p \in {d.process : d \in Duties}, CrashProcess(p)
      PROVE  BacktestInv'
  <2>1. runs' = runs /\ market' = market /\ duty' = duty /\ files' = files /\ items' = items
        /\ step' = [r \in Requests |-> IF duty[r].process = p /\ step[r] \in {"running", "saved"} THEN "lost" ELSE step[r]]
    BY <1>7 DEF CrashProcess
  <2> QED
    BY <1>0, <2>1, NoneDone
<1>8. ASSUME UNCHANGED backtestVars
      PROVE  BacktestInv'
  BY <1>0, <1>8, NoneDone DEF backtestVars
<1> QED
  BY <1>1, <1>2, <1>3, <1>4, <1>5, <1>6, <1>7, <1>8 DEF BacktestNext

\* ReportedRunsAreStored, for any requests, batches, processes and market: a
\* backtest that was reported as done has its row, with its own result and
\* verdict as long as no other request wrote the run since, and its file.
THEOREM BacktestsAreStored == BacktestSpec => []ReportedRunsAreStored
  BY BacktestStart, BacktestStep, ReportedEnough, PTL DEF BacktestSpec

=============================================================================

--------------------------- MODULE ScannerProofs ---------------------------
(***************************************************************************)
(* The safety invariants of Scanner, for any chains, addresses, scores and *)
(* cooldowns; and what a signal of level HIGH means, for any lists.        *)
(***************************************************************************)
EXTENDS Scanner, AlphaScorer, TLAPS

Listed == UNION {[1 .. n -> Scores] : n \in 1 .. MaxListed}

\* What is left of a cooldown and the age of the alert make up the cooldown.
CooldownClock ==
    \A a \in Addresses :
        /\ alert[a] = NoAlert => left[a] = 0
        /\ alert[a] # NoAlert =>
              \/ left[a] + alert[a].since = CooldownOf[alert[a].level]
              \/ left[a] = 0 /\ alert[a].since >= CooldownOf[alert[a].level]

StoredAreWhole == stored \subseteq whole

KnownWereStored == scan.pc = "checking" /\ scan.known => CurrentList \in stored

\* Who is being alerted is not cooling.
SendingIsDue == scan.pc = "sending" => left[scan.tokens[scan.pos]] = 0

\* Scores stand beside the tokens they are of.
ScanShape ==
    scan.pc = "sending" =>
        /\ DOMAIN scan.scores = DOMAIN scan.tokens
        /\ scan.pos \in DOMAIN scan.tokens

IInv ==
    /\ TypeOK
    /\ ScanShape
    /\ CooldownClock
    /\ SendingIsDue
    /\ StoredAreWhole
    /\ KnownWereStored
    /\ FirstScanIsSilent

-----------------------------------------------------------------------------
LEMMA InitInv == Init => IInv
<1> SUFFICES ASSUME Init PROVE IInv
  OBVIOUS
<1>1. TypeOK
  BY ScannerAssumption DEF Init, TypeOK, Scan
<1>2. ScanShape /\ SendingIsDue /\ StoredAreWhole /\ KnownWereStored /\ FirstScanIsSilent
  BY DEF Init, ScanShape, SendingIsDue, StoredAreWhole, KnownWereStored, FirstScanIsSilent, Down
<1>3. CooldownClock
  BY DEF Init, CooldownClock
<1> QED
  BY <1>1, <1>2, <1>3 DEF IInv

(***************************************************************************)
(* The passing of time keeps the clock of the cooldowns.                   *)
(***************************************************************************)
LEMMA ElapsesKeeps ==
    ASSUME TypeOK, CooldownClock, Elapses
    PROVE  /\ left' \in [Addresses -> 0 .. MaxCooldown]
           /\ sinceHour' \in 0 .. HourInterval
           /\ alert' \in [Addresses -> {NoAlert} \cup [level : Levels, since : 0 .. MaxCooldown]]
           /\ CooldownClock'
           /\ \A a \in Addresses : left[a] = 0 => left'[a] = 0
<1> USE ScannerAssumption DEF TypeOK, Smaller
<1>1. left' \in [Addresses -> 0 .. MaxCooldown] /\ \A a \in Addresses : left[a] = 0 => left'[a] = 0
  <2>1. \A a \in Addresses : (IF left[a] = 0 THEN 0 ELSE left[a] - 1) \in 0 .. MaxCooldown
    OBVIOUS
  <2> QED
    BY <2>1 DEF Elapses
<1>2. sinceHour' \in 0 .. HourInterval
  BY DEF Elapses
<1>3. ASSUME NEW a \in Addresses, alert[a] = NoAlert
      PROVE  alert'[a] = NoAlert /\ left'[a] = 0
  BY <1>3 DEF Elapses, CooldownClock
<1>4. ASSUME NEW a \in Addresses, alert[a] # NoAlert
      PROVE  /\ alert'[a] \in [level : Levels, since : 0 .. MaxCooldown]
             /\ alert'[a].level = alert[a].level
             /\ alert'[a].since = Smaller(MaxCooldown, alert[a].since + 1)
  BY <1>4 DEF Elapses
<1>5. alert' \in [Addresses -> {NoAlert} \cup [level : Levels, since : 0 .. MaxCooldown]]
  <2>1. alert' = [a \in Addresses |-> alert'[a]]
    BY DEF Elapses
  <2> QED
    BY <1>3, <1>4, <2>1
<1>6. ASSUME NEW a \in Addresses, alert'[a] # NoAlert
      PROVE  \/ left'[a] + alert'[a].since = CooldownOf[alert'[a].level]
             \/ left'[a] = 0 /\ alert'[a].since >= CooldownOf[alert'[a].level]
  <2>1. alert[a] # NoAlert
    BY <1>3, <1>6
  <2> DEFINE cooldown == CooldownOf[alert[a].level]
  <2>2. /\ alert[a].since \in 0 .. MaxCooldown
        /\ cooldown \in 0 .. MaxCooldown
        /\ left[a] \in 0 .. MaxCooldown
    BY <2>1
  <2>3. left'[a] = IF left[a] = 0 THEN 0 ELSE left[a] - 1
    BY DEF Elapses
  <2>4. \/ left[a] + alert[a].since = cooldown
        \/ left[a] = 0 /\ alert[a].since >= cooldown
    BY <2>1 DEF CooldownClock
  <2> HIDE DEF cooldown
  <2>5. \/ left'[a] + alert'[a].since = cooldown
        \/ left'[a] = 0 /\ alert'[a].since >= cooldown
    BY <1>4, <2>1, <2>2, <2>3, <2>4
  <2> QED
    BY <1>4, <2>1, <2>5 DEF cooldown
<1>7. ASSUME NEW a \in Addresses, alert'[a] = NoAlert PROVE left'[a] = 0
  BY <1>3, <1>4, <1>7 DEF NoAlert, Levels
<1> QED
  BY <1>1, <1>2, <1>5, <1>6, <1>7 DEF CooldownClock

(***************************************************************************)
(* When the scan of a chain is over, the task sleeps or fetches a list.    *)
(***************************************************************************)
LEMMA NextScanFetches ==
    ASSUME TypeOK, scan.pc \in {"fetching", "checking", "sending"}, NextScan
    PROVE  /\ scan' \in Scan
           /\ scan'.pc \in {"asleep", "fetching"}
           /\ sinceHour' \in 0 .. HourInterval
<1> USE ScannerAssumption
<1>1. scan.chain \in Chains /\ scan.interval \in {"1m", "1h"}
  BY DEF TypeOK, Scan, Down, Asleep
<1>2. ASSUME NEW c \in Chains, NEW i \in {"1m", "1h"}
      PROVE  Fetching(c, i) \in Scan /\ Fetching(c, i).pc = "fetching"
  BY DEF Fetching, Scan
<1>3. Asleep \in Scan /\ Asleep.pc = "asleep" /\ 1 \in Chains
  BY DEF Asleep, Scan, Chains
<1>4. CASE scan.chain < NumChains /\ scan' = Fetching(scan.chain + 1, scan.interval) /\ UNCHANGED sinceHour
  <2>1. scan.chain + 1 \in Chains
    BY <1>1, <1>4 DEF Chains
  <2> QED
    BY <1>1, <1>2, <1>4, <2>1 DEF TypeOK
<1>5. CASE scan' = Fetching(1, "1h") /\ sinceHour' = 0
  BY <1>2, <1>3, <1>5
<1>6. CASE scan' = Asleep /\ UNCHANGED sinceHour
  BY <1>3, <1>6 DEF TypeOK
<1> QED
  BY <1>4, <1>5, <1>6 DEF NextScan

(***************************************************************************)
(* The loop over the tokens stops at one that is not cooling, or it ends   *)
(* and a snapshot is stored only then.                                     *)
(***************************************************************************)
LEMMA GoThroughKeeps ==
    ASSUME TypeOK, StoredAreWhole, scan.pc \in {"checking", "sending"},
           NEW tokens \in Trending, NEW scores \in Listed, DOMAIN scores = DOMAIN tokens,
           NEW first, NEW known \in BOOLEAN, known => CurrentList \in whole,
           GoThrough(tokens, scores, first, known)
    PROVE  /\ scan' \in Scan
           /\ sinceHour' \in 0 .. HourInterval
           /\ stored' \subseteq Lists /\ whole' \subseteq Lists
           /\ ScanShape' /\ SendingIsDue' /\ StoredAreWhole' /\ KnownWereStored' /\ FirstScanIsSilent'
<1> USE ScannerAssumption
<1>1. scan.chain \in Chains /\ scan.interval \in {"1m", "1h"} /\ CurrentList \in Lists
  BY DEF TypeOK, Scan, Down, Asleep, CurrentList, Lists
<1> DEFINE places == IF known THEN ToSend(tokens, scores, first) ELSE {}
<1>2. ASSUME NEW p \in places,
             scan' = [pc |-> "sending", chain |-> scan.chain, interval |-> scan.interval,
                      tokens |-> tokens, scores |-> scores, pos |-> p],
             UNCHANGED <<sinceHour, stored, whole>>
      PROVE  /\ scan' \in Scan
             /\ ScanShape' /\ SendingIsDue' /\ KnownWereStored' /\ FirstScanIsSilent'
  <2>1. known /\ p \in DOMAIN tokens /\ left'[tokens[p]] = 0
    BY <1>2 DEF ToSend
  <2>2. p \in 1 .. MaxListed
    BY <2>1 DEF Trending
  <2>3. scan' \in Scan
    BY <1>1, <1>2, <2>2 DEF Scan, Listed
  <2>4. ScanShape' /\ SendingIsDue' /\ KnownWereStored'
    BY <1>2, <2>1 DEF ScanShape, SendingIsDue, KnownWereStored
  <2>5. CurrentList' = CurrentList
    BY <1>2 DEF CurrentList
  <2>6. FirstScanIsSilent'
    BY <1>2, <2>1, <2>5 DEF FirstScanIsSilent
  <2> QED
    BY <2>3, <2>4, <2>6
<1>3. CASE \E p \in places :
             /\ scan' = [pc |-> "sending", chain |-> scan.chain, interval |-> scan.interval,
                         tokens |-> tokens, scores |-> scores, pos |-> p]
             /\ UNCHANGED <<sinceHour, stored, whole>>
  BY <1>2, <1>3 DEF TypeOK, StoredAreWhole
<1>4. CASE /\ NextScan
           /\ \/ stored' = stored \cup {CurrentList} /\ whole' = whole \cup {CurrentList}
              \/ UNCHANGED <<stored, whole>>
  <2>1. scan' \in Scan /\ scan'.pc \in {"asleep", "fetching"} /\ sinceHour' \in 0 .. HourInterval
    BY <1>4, NextScanFetches
  <2>2. stored' \subseteq Lists /\ whole' \subseteq Lists /\ StoredAreWhole'
    BY <1>1, <1>4 DEF TypeOK, StoredAreWhole
  <2>3. ScanShape' /\ SendingIsDue' /\ KnownWereStored' /\ FirstScanIsSilent'
    BY <2>1 DEF ScanShape, SendingIsDue, KnownWereStored, FirstScanIsSilent
  <2> QED
    BY <2>1, <2>2, <2>3
<1> QED
  BY <1>3, <1>4 DEF GoThrough

(***************************************************************************)
(* Every step keeps the invariant.                                         *)
(***************************************************************************)
LEMMA InvStep == IInv /\ [Next]_vars => IInv'
<1> SUFFICES ASSUME IInv, [Next]_vars PROVE IInv'
  OBVIOUS
<1> USE ScannerAssumption
<1>a. /\ TypeOK /\ ScanShape /\ CooldownClock /\ SendingIsDue
      /\ StoredAreWhole /\ KnownWereStored /\ FirstScanIsSilent
  BY DEF IInv
\* What depends on scan only when a list has come.
<1>b. ASSUME scan'.pc \in {"down", "asleep", "fetching"}, stored' = stored, whole' = whole
      PROVE  ScanShape' /\ SendingIsDue' /\ StoredAreWhole' /\ KnownWereStored' /\ FirstScanIsSilent'
  BY <1>a, <1>b DEF ScanShape, SendingIsDue, StoredAreWhole, KnownWereStored, FirstScanIsSilent
<1>c. /\ Down \in Scan /\ Down.pc = "down"
      /\ Fetching(1, "1m") \in Scan /\ Fetching(1, "1m").pc = "fetching"
  BY DEF Scan, Down, Fetching, Chains
<1>d. ASSUME UNCHANGED <<left, alert>> PROVE CooldownClock'
  BY <1>a, <1>d DEF CooldownClock
<1>1. CASE Tick
  <2>1. scan' = scan /\ UNCHANGED <<hits, stored, whole>> /\ Elapses
    BY <1>1 DEF Tick
  <2>2. TypeOK' /\ CooldownClock'
    BY <2>1, <1>a, ElapsesKeeps DEF TypeOK
  <2>3. SendingIsDue'
    <3> SUFFICES ASSUME scan.pc = "sending" PROVE left'[scan.tokens[scan.pos]] = 0
      BY <2>1 DEF SendingIsDue
    <3>1. scan.tokens[scan.pos] \in Addresses
      BY <1>a DEF ScanShape, TypeOK, Scan, Down, Asleep, Trending
    <3> QED
      BY <2>1, <3>1, <1>a, ElapsesKeeps DEF SendingIsDue
  <2>4. ScanShape' /\ StoredAreWhole' /\ KnownWereStored' /\ FirstScanIsSilent'
    BY <2>1, <1>a DEF ScanShape, StoredAreWhole, KnownWereStored, FirstScanIsSilent, CurrentList
  <2> QED
    BY <2>2, <2>3, <2>4 DEF IInv
<1>2. CASE Start
  <2>1. TypeOK'
    BY <1>2, <1>a, <1>c DEF Start, TypeOK
  <2>2. CooldownClock'
    BY <1>2 DEF Start, CooldownClock
  <2> QED
    BY <1>2, <1>b, <1>c, <2>1, <2>2 DEF Start, IInv
<1>3. CASE Stop
  <2>1. TypeOK'
    BY <1>3, <1>a, <1>c DEF Stop, TypeOK
  <2> QED
    BY <1>3, <1>b, <1>c, <1>d, <2>1 DEF Stop, IInv
<1>4. CASE Wake
  <2>1. scan' = Fetching(1, "1m") /\ UNCHANGED <<hits, stored, whole>> /\ Elapses
    BY <1>4 DEF Wake
  <2>2. TypeOK' /\ CooldownClock'
    BY <2>1, <1>a, <1>c, ElapsesKeeps DEF TypeOK
  <2> QED
    BY <2>1, <2>2, <1>b, <1>c DEF IInv
<1>5. CASE Abandon
  <2>1. scan' \in Scan /\ scan'.pc \in {"asleep", "fetching"} /\ sinceHour' \in 0 .. HourInterval
    BY <1>5, <1>a, NextScanFetches DEF Abandon
  <2>2. TypeOK'
    BY <1>5, <1>a, <2>1 DEF Abandon, TypeOK
  <2> QED
    BY <1>5, <1>b, <1>d, <2>1, <2>2 DEF Abandon, IInv
<1>6. ASSUME NEW tokens \in Trending, Fetched(tokens) PROVE IInv'
  <2>1. scan.chain \in Chains /\ scan.interval \in {"1m", "1h"}
    BY <1>6, <1>a DEF Fetched, TypeOK, Scan, Down, Asleep
  <2> DEFINE next == [pc |-> "checking", chain |-> scan.chain, interval |-> scan.interval,
                      known |-> CurrentList \in stored, tokens |-> tokens]
  <2>2. scan' = next /\ UNCHANGED <<left, hits, sinceHour, stored, alert, whole>>
    BY <1>6 DEF Fetched
  <2>3. next \in Scan
    BY <2>1 DEF Scan
  <2>4. TypeOK'
    BY <2>2, <2>3, <1>a DEF TypeOK
  <2>5. KnownWereStored'
    BY <2>2 DEF KnownWereStored, CurrentList
  <2>6. ScanShape' /\ SendingIsDue' /\ StoredAreWhole' /\ FirstScanIsSilent'
    BY <2>2, <1>a DEF ScanShape, SendingIsDue, StoredAreWhole, FirstScanIsSilent
  <2> QED
    BY <2>2, <2>4, <2>5, <2>6, <1>d DEF IInv
<1>7. ASSUME NEW n \in 1 .. MaxListed, NEW scores \in [1 .. n -> Scores], Checked(scores) PROVE IInv'
  <2>1. /\ scan.pc = "checking" /\ DOMAIN scores = DOMAIN scan.tokens
        /\ GoThrough(scan.tokens, scores, 1, scan.known)
        /\ UNCHANGED <<left, hits, alert>>
    BY <1>7 DEF Checked
  <2>2. scan.tokens \in Trending /\ scan.known \in BOOLEAN
    BY <2>1, <1>a DEF TypeOK, Scan, Down, Asleep
  <2>3. scan.known => CurrentList \in whole
    BY <2>1, <1>a DEF KnownWereStored, StoredAreWhole
  <2>4. scores \in Listed
    BY DEF Listed
  <2>5. /\ scan' \in Scan /\ sinceHour' \in 0 .. HourInterval
        /\ stored' \subseteq Lists /\ whole' \subseteq Lists
        /\ ScanShape' /\ SendingIsDue' /\ StoredAreWhole' /\ KnownWereStored' /\ FirstScanIsSilent'
    BY <2>1, <2>2, <2>3, <2>4, <1>a, GoThroughKeeps
  <2>6. TypeOK'
    BY <2>1, <2>5, <1>a DEF TypeOK
  <2> QED
    BY <2>1, <2>5, <2>6, <1>d DEF IInv
<1>8. CASE Sent
  <2> DEFINE a == scan.tokens[scan.pos]
  <2> DEFINE signal == LevelOf(SignalScore(scan.tokens, scan.scores, a))
  <2>1. /\ scan.pc = "sending"
        /\ left' = [left EXCEPT ![a] = CooldownOf[signal]]
        /\ hits' = [hits EXCEPT ![a] = Smaller(MaxHits, hits[a] + 1)]
        /\ alert' = [alert EXCEPT ![a] = [level |-> signal, since |-> 0]]
        /\ GoThrough(scan.tokens, scan.scores, scan.pos + 1, TRUE)
    BY <1>8 DEF Sent, Mark
  <2>2. /\ scan.tokens \in Trending /\ scan.scores \in Listed
        /\ DOMAIN scan.scores = DOMAIN scan.tokens
    BY <2>1, <1>a DEF ScanShape, TypeOK, Scan, Down, Asleep, Listed
  <2>3. a \in Addresses
    <3>1. scan.pos \in DOMAIN scan.tokens
      BY <2>1, <1>a DEF ScanShape
    <3>2. PICK n \in 1 .. MaxListed : scan.tokens \in [1 .. n -> Addresses]
      BY <2>2 DEF Trending
    <3> QED
      BY <3>1, <3>2
  <2>4. signal \in Levels
    BY DEF LevelOf, Levels
  <2> HIDE DEF a, signal
  <2>5. CurrentList \in whole
    BY <2>1, <1>a DEF FirstScanIsSilent
  <2>6. /\ scan' \in Scan /\ sinceHour' \in 0 .. HourInterval
        /\ stored' \subseteq Lists /\ whole' \subseteq Lists
        /\ ScanShape' /\ SendingIsDue' /\ StoredAreWhole' /\ KnownWereStored' /\ FirstScanIsSilent'
    BY <2>1, <2>2, <2>5, <1>a, GoThroughKeeps
  <2>7. CooldownOf[signal] \in 0 .. MaxCooldown
    BY <2>4
  <2>8. left' \in [Addresses -> 0 .. MaxCooldown] /\ hits' \in [Addresses -> 0 .. MaxHits]
    BY <2>1, <2>3, <2>7, <1>a DEF TypeOK, Smaller
  <2>9. alert' \in [Addresses -> {NoAlert} \cup [level : Levels, since : 0 .. MaxCooldown]]
    <3>1. [level |-> signal, since |-> 0] \in [level : Levels, since : 0 .. MaxCooldown]
      BY <2>4
    <3> QED
      BY <2>1, <2>3, <3>1, <1>a DEF TypeOK
  <2>10. CooldownClock'
    <3> SUFFICES ASSUME NEW b \in Addresses
                 PROVE  /\ alert'[b] = NoAlert => left'[b] = 0
                        /\ alert'[b] # NoAlert =>
                              \/ left'[b] + alert'[b].since = CooldownOf[alert'[b].level]
                              \/ left'[b] = 0 /\ alert'[b].since >= CooldownOf[alert'[b].level]
      BY DEF CooldownClock
    <3>1. CASE b = a
      <4>1. left'[b] = CooldownOf[signal] /\ alert'[b] = [level |-> signal, since |-> 0]
        BY <3>1, <2>1, <1>a DEF TypeOK
      <4>2. alert'[b] # NoAlert
        BY <4>1, <2>4 DEF NoAlert, Levels
      <4>3. left'[b] + alert'[b].since = CooldownOf[alert'[b].level]
        BY <4>1, <2>7
      <4> QED
        BY <4>2, <4>3
    <3>2. CASE b # a
      <4>1. left'[b] = left[b] /\ alert'[b] = alert[b]
        BY <3>2, <2>1, <1>a DEF TypeOK
      <4> QED
        BY <4>1, <1>a DEF CooldownClock
    <3> QED
      BY <3>1, <3>2
  <2> QED
    BY <2>6, <2>8, <2>9, <2>10 DEF IInv, TypeOK
<1>9. CASE UNCHANGED vars
  BY <1>9, <1>a
     DEF vars, IInv, TypeOK, ScanShape, CooldownClock, SendingIsDue, StoredAreWhole,
         KnownWereStored, FirstScanIsSilent, CurrentList
<1> QED
  BY <1>1, <1>2, <1>3, <1>4, <1>5, <1>6, <1>7, <1>8, <1>9 DEF Next, Proceed

LEMMA Invariance == Spec => []IInv
BY InitInv, InvStep, PTL DEF Spec

-----------------------------------------------------------------------------
(***************************************************************************)
(* The variables of the scanner keep their types.                          *)
(***************************************************************************)
THEOREM TypeCorrect == Spec => []TypeOK
<1>1. IInv => TypeOK
  BY DEF IInv
<1> QED
  BY Invariance, <1>1, PTL

(***************************************************************************)
(* CooldownManager: what is being alerted is out of the cooldown of its    *)
(* last alert.                                                             *)
(***************************************************************************)
THEOREM CooldownsKept == Spec => []NoRepeatInCooldown
<1>1. IInv => NoRepeatInCooldown
  <2> SUFFICES ASSUME IInv, scan.pc = "sending", alert[scan.tokens[scan.pos]] # NoAlert
               PROVE  alert[scan.tokens[scan.pos]].since >= CooldownOf[alert[scan.tokens[scan.pos]].level]
    BY DEF NoRepeatInCooldown
  <2> DEFINE a == scan.tokens[scan.pos]
  <2>1. a \in Addresses
    BY DEF IInv, ScanShape, TypeOK, Scan, Down, Asleep, Trending
  <2>2. left[a] = 0
    BY DEF IInv, SendingIsDue
  <2>3. alert[a].since \in Nat /\ CooldownOf[alert[a].level] \in Nat
    BY <2>1, ScannerAssumption DEF IInv, TypeOK
  <2> QED
    BY <2>1, <2>2, <2>3 DEF IInv, CooldownClock
<1> QED
  BY Invariance, <1>1, PTL

(***************************************************************************)
(* CooldownManager: what is held back is within the cooldown of an alert   *)
(* that was sent.                                                          *)
(***************************************************************************)
THEOREM HeldBackForCause == Spec => []SuppressionHasCause
<1>1. IInv => SuppressionHasCause
  <2> SUFFICES ASSUME IInv, NEW a \in Addresses, left[a] > 0
               PROVE  alert[a] # NoAlert /\ alert[a].since < CooldownOf[alert[a].level]
    BY DEF SuppressionHasCause
  <2>1. alert[a] # NoAlert
    BY DEF IInv, CooldownClock
  <2>2. left[a] \in Nat /\ alert[a].since \in Nat /\ CooldownOf[alert[a].level] \in Nat
    BY <2>1, ScannerAssumption DEF IInv, TypeOK
  <2> QED
    BY <2>1, <2>2 DEF IInv, CooldownClock
<1> QED
  BY Invariance, <1>1, PTL

(***************************************************************************)
(* SnapshotStore: alerts come only for lists that an earlier scan went     *)
(* through to the end, however many scans were cut and processes stopped.  *)
(***************************************************************************)
THEOREM FirstLookIsSilent == Spec => []FirstScanIsSilent
<1>1. IInv => FirstScanIsSilent
  BY DEF IInv
<1> QED
  BY Invariance, <1>1, PTL

-----------------------------------------------------------------------------
(***************************************************************************)
(* AlphaScorer, for a threshold above 70: what a token can reach without   *)
(* smart money or rank gained since the scan before.                       *)
(***************************************************************************)
Gained(token, prev) ==
    /\ prev # NotListed
    /\ token.rank < prev.rank \/ (prev.smart # Unknown /\ token.smart > prev.smart)

LEMMA PartsBounded ==
    ASSUME NEW token \in Entries, NEW prev \in Entries \cup {NotListed}, NEW risk \in Reports \cup {NoReport}
    PROVE  /\ VolumeQuality(token) \in 0 .. 15
           /\ VolumeAcceleration(token, prev) \in 0 .. 15
           /\ prev = NotListed => VolumeAcceleration(token, prev) = 0
           /\ Structure(risk) \in 10 .. 15
           /\ Discount(token, risk) \in {0, 5, 10}
<1>1. VolumeQuality(token) \in 0 .. 15
  BY DEF VolumeQuality
<1>2. VolumeAcceleration(token, prev) \in 0 .. 15 /\ (prev = NotListed => VolumeAcceleration(token, prev) = 0)
  BY DEF VolumeAcceleration
<1>3. Structure(risk) \in 10 .. 15
  BY DEF Structure
<1>4. Discount(token, risk) \in {0, 5, 10}
  BY DEF Discount
<1> QED
  BY <1>1, <1>2, <1>3, <1>4

\* Smart money and rank make up 25 points at most for a token that gained neither.
LEMMA NothingGained ==
    ASSUME NEW token \in Entries, NEW prev \in Entries \cup {NotListed}, ~ Gained(token, prev)
    PROVE  /\ SmartMoney(token, prev) \in 0 .. 15
           /\ prev = NotListed => RankMomentum(token, prev) = 10
           /\ prev # NotListed => RankMomentum(token, prev) = 0
<1>1. /\ token.smart \in Nat \cup {Unknown} /\ token.rank \in Nat
      /\ prev # NotListed => prev.smart \in Nat \cup {Unknown} /\ prev.rank \in Nat
  BY AlphaAssumption
<1>2. CASE prev = NotListed
  BY <1>1, <1>2 DEF SmartMoney, RankMomentum
<1>3. CASE prev # NotListed
  <2>1. prev.rank - token.rank <= 0
    BY <1>1, <1>3 DEF Gained
  <2>2. RankMomentum(token, prev) = 0
    <3> DEFINE change == prev.rank - token.rank
    <3>1. change \in Int /\ change <= 0
      BY <1>1, <1>3, <2>1
    <3> HIDE DEF change
    <3>2. RankStep(change) = 0
      BY <3>1 DEF RankStep
    <3> QED
      BY <1>3, <3>2 DEF RankMomentum, change
  <2>3. SmartMoney(token, prev) \in 0 .. 15
    <3>1. CASE token.smart = Unknown \/ prev.smart = Unknown
      BY <1>1, <1>3, <3>1 DEF SmartMoney
    <3>2. CASE token.smart # Unknown /\ prev.smart # Unknown
      <4> DEFINE delta == token.smart - prev.smart
      <4>1. delta \in Int /\ delta <= 0 /\ token.smart \in Nat
        BY <1>1, <1>3, <3>2 DEF Gained
      <4>2. SmartMoney(token, prev) =
               LET boosted == SmartStep(delta, token.smart) + 0
               IN  IF boosted > 30 THEN 30
                   ELSE IF token.smart >= 5 /\ boosted < 10 THEN 10 ELSE boosted
        BY <1>3, <3>2, <4>1 DEF SmartMoney
      <4> HIDE DEF delta
      <4>3. SmartStep(delta, token.smart) \in {0, 15}
        BY <4>1 DEF SmartStep
      <4> QED
        BY <4>2, <4>3
    <3> QED
      BY <3>1, <3>2
  <2> QED
    BY <1>3, <2>2, <2>3
<1> QED
  BY <1>2, <1>3

LEMMA HighIsGained ==
    ASSUME HighScore \in Int, HighScore > 70,
           NEW token \in Entries, NEW prev \in Entries \cup {NotListed}, NEW risk \in Reports \cup {NoReport},
           ~ Gained(token, prev)
    PROVE  ~ (TotalScore(token, prev, risk) >= HighScore)
<1> DEFINE smart == SmartMoney(token, prev)
           rank == RankMomentum(token, prev)
           quality == VolumeQuality(token)
           speed == VolumeAcceleration(token, prev)
           structure == Structure(risk)
           off == Discount(token, risk)
           hour == IF token.hourly THEN 10 ELSE 0
<1>1. /\ smart \in 0 .. 15 /\ quality \in 0 .. 15 /\ speed \in 0 .. 15 /\ structure \in 10 .. 15
      /\ off \in {0, 5, 10} /\ hour \in {0, 10}
      /\ (rank = 10 /\ speed = 0) \/ rank = 0
  BY PartsBounded, NothingGained
<1>2. TotalScore(token, prev, risk) =
         LET total == smart + rank + quality + speed + structure + hour - off
         IN  IF total < 0 THEN 0 ELSE IF total > 100 THEN 100 ELSE total
  BY DEF TotalScore
<1> HIDE DEF smart, rank, quality, speed, structure, off, hour
<1>3. smart + rank + quality + speed + structure + hour - off <= 70
  BY <1>1
<1> QED
  BY <1>1, <1>2, <1>3

(***************************************************************************)
(* A HIGH signal tells of a token on both lists that gained smart money or *)
(* rank between them, whatever else the lists and the reports tell.        *)
(***************************************************************************)
THEOREM HighNeedsProgress ==
    ASSUME HighScore \in Int, HighScore > 70
    PROVE  AlphaSpec => []HighMeansProgress
<1> DEFINE Inv == HighMeansProgress /\ latest \in Entries \cup {NotListed}
<1>1. AlphaInit => Inv
  BY DEF AlphaInit, HighMeansProgress
<1>2. Inv /\ [AlphaNext]_alphaVars => Inv'
  <2> SUFFICES ASSUME Inv, [AlphaNext]_alphaVars PROVE Inv'
    OBVIOUS
  <2>1. CASE ScanToken
    <3>1. /\ earlier' = latest /\ latest' \in Entries /\ report' \in Reports \cup {NoReport}
          /\ level' = Detected(latest', latest, report')
      BY <2>1 DEF ScanToken
    <3>2. ASSUME level' = "HIGH" PROVE Gained(latest', latest)
      <4>1. TotalScore(latest', latest, report') >= HighScore
        BY <3>1, <3>2 DEF Detected
      <4> QED
        BY <4>1, <3>1, HighIsGained
    <3>3. latest' # NotListed
      BY <3>1, AlphaAssumption DEF NotListed, Unknown
    <3> QED
      BY <3>1, <3>2, <3>3 DEF HighMeansProgress, Gained
  <2>2. CASE ScanWithoutToken
    BY <2>2 DEF ScanWithoutToken, HighMeansProgress
  <2>3. CASE UNCHANGED alphaVars
    BY <2>3 DEF alphaVars, HighMeansProgress
  <2> QED
    BY <2>1, <2>2, <2>3 DEF AlphaNext
<1>3. Inv => HighMeansProgress
  OBVIOUS
<1> QED
  BY <1>1, <1>2, <1>3, PTL DEF AlphaSpec
=============================================================================

------------------------------ MODULE Scanner ------------------------------
(***************************************************************************)
(* ScannerOrchestrator (scanner/orchestrator.py) with its cooldowns and    *)
(* its stored snapshots: one task that scans chain after chain, the 1m     *)
(* list in every cycle and the 1h list when its own interval is over.      *)
(*                                                                         *)
(* The task is alone; what is hard is where a scan is cut: by an exception,*)
(* which ends the scan of one chain, or by the end of the process, which   *)
(* forgets the cooldowns and keeps the snapshots.  An action is what runs  *)
(* between two awaits.                                                     *)
(*                                                                         *)
(* Time is kept as time left and time passed, which is all the code asks   *)
(* of its clock.  The score of a token depends on figures that vary        *)
(* freely: it is chosen when the scorer runs, once for each place of the   *)
(* list, as detect and the loop after it compute the same.  What the event *)
(* bus writes (rows, metrics, logs) is left out: nothing here reads it, and *)
(* an exception of a handler is swallowed.                                 *)
(***************************************************************************)
EXTENDS Integers, FiniteSets

CONSTANTS
    NumChains,      \* chains are scanned in the order 1 .. NumChains
    Addresses,      \* of tokens, whatever the chain
    MaxListed,      \* bound of the length of a trending list
    Scores,         \* what the scorer can say; 0 also for a token it filters out
    ScoreHigh, ScoreMedium, ScoreLow,
    CooldownOf,     \* cooldown of each level, in ticks
    MaxCooldown,    \* the longest of them
    HourInterval,   \* interval_1h_seconds, in ticks
    MaxHits         \* bound of _hit_counts; decay_factor tells 0 .. 3 apart

Levels == {"HIGH", "MEDIUM", "OBSERVE"}

ASSUME ScannerAssumption ==
    /\ NumChains \in Nat \ {0}
    /\ Scores \subseteq Nat
    /\ {ScoreHigh, ScoreMedium, ScoreLow} \subseteq Nat \ {0}
    /\ MaxCooldown \in Nat
    /\ CooldownOf \in [Levels -> 0 .. MaxCooldown]
    /\ {MaxListed, HourInterval, MaxHits} \subseteq Nat

VARIABLES
    scan,       \* where run_forever is
    left,       \* left[a]: for how long a is cooling still
    hits,       \* hits[a]: _hit_counts; MaxHits stands for more, too
    sinceHour,  \* time since _last_1h_run; HourInterval stands for more, too
    stored,     \* lists with a row in scanner_snapshots
    \* history, read by the properties only
    alert,      \* alert[a]: level of the last alert of this process, time since it was sent
    whole       \* lists with a snapshot that was saved by a scan come to its end

vars == <<scan, left, hits, sinceHour, stored, alert, whole>>

Chains == 1 .. NumChains
Lists == Chains \X {"1m", "1h"}
Smaller(m, n) == IF m <= n THEN m ELSE n

NoAlert == [level |-> "none", since |-> 0]

Down == [pc |-> "down"]
Asleep == [pc |-> "asleep"]
Fetching(c, interval) == [pc |-> "fetching", chain |-> c, interval |-> interval]

Trending == UNION {[1 .. n -> Addresses] : n \in 1 .. MaxListed}

Scan ==
    {Down, Asleep}
    \cup [pc : {"fetching"}, chain : Chains, interval : {"1m", "1h"}]
    \cup [pc : {"checking"}, chain : Chains, interval : {"1m", "1h"},
          known : BOOLEAN, tokens : Trending]
    \cup [pc : {"sending"}, chain : Chains, interval : {"1m", "1h"},
          tokens : Trending, scores : UNION {[1 .. n -> Scores] : n \in 1 .. MaxListed},
          pos : 1 .. MaxListed]

TypeOK ==
    /\ scan \in Scan
    /\ left \in [Addresses -> 0 .. MaxCooldown]
    /\ hits \in [Addresses -> 0 .. MaxHits]
    /\ sinceHour \in 0 .. HourInterval
    /\ stored \subseteq Lists
    /\ alert \in [Addresses -> {NoAlert} \cup [level : Levels, since : 0 .. MaxCooldown]]
    /\ whole \subseteq Lists

Init ==
    /\ scan = Down
    /\ left = [a \in Addresses |-> 0]
    /\ hits = [a \in Addresses |-> 0]
    /\ sinceHour = 0
    /\ stored = {}
    /\ alert = [a \in Addresses |-> NoAlert]
    /\ whole = {}

CurrentList == <<scan.chain, scan.interval>>

-----------------------------------------------------------------------------
(***************************************************************************)
(* Time passes in an await, and in the sleep between two cycles.           *)
(***************************************************************************)
\* Broken variant: the time left goes below zero.
ElapsesUnfloored ==
    /\ left' = [a \in Addresses |-> left[a] - 1]
    /\ sinceHour' = Smaller(HourInterval, sinceHour + 1)
    /\ alert' = [a \in Addresses |-> [alert[a] EXCEPT !.since = Smaller(MaxCooldown, @ + 1)]]

Elapses ==
    /\ left' = [a \in Addresses |-> IF left[a] = 0 THEN 0 ELSE left[a] - 1]
    /\ sinceHour' = Smaller(HourInterval, sinceHour + 1)
    /\ alert' = [a \in Addresses |-> IF alert[a] = NoAlert THEN NoAlert
                     ELSE [alert[a] EXCEPT !.since = Smaller(MaxCooldown, @ + 1)]]

Tick ==
    /\ scan.pc \in {"fetching", "checking", "sending"}
    /\ Elapses
    /\ UNCHANGED <<scan, hits, stored, whole>>

\* A new process: cooldowns, hits and the time of the last 1h run start afresh.
Start ==
    /\ scan = Down
    /\ scan' = Fetching(1, "1m")
    /\ left' = [a \in Addresses |-> 0]
    /\ hits' = [a \in Addresses |-> 0]
    /\ sinceHour' = 0
    /\ alert' = [a \in Addresses |-> NoAlert]
    /\ UNCHANGED <<stored, whole>>

\* The process ends, at any await: stopped (the task is cancelled) or killed.
Stop ==
    /\ scan # Down
    /\ scan' = Down
    /\ UNCHANGED <<left, hits, sinceHour, stored, alert, whole>>

Wake ==
    /\ scan = Asleep
    /\ scan' = Fetching(1, "1m")
    /\ Elapses
    /\ UNCHANGED <<hits, stored, whole>>

-----------------------------------------------------------------------------
(***************************************************************************)
(* run_cycle, once the scan of a chain is over, in whatever way.           *)
(***************************************************************************)
\* Broken variant: every cycle resets the clock of the 1h runs.
NextScanResetsHour ==
    \/ /\ scan.chain < NumChains
       /\ scan' = Fetching(scan.chain + 1, scan.interval)
       /\ UNCHANGED sinceHour
    \/ /\ scan.chain = NumChains
       /\ sinceHour' = 0
       /\ scan' = IF scan.interval = "1m" /\ sinceHour >= HourInterval
                  THEN Fetching(1, "1h") ELSE Asleep

NextScan ==
    \/ /\ scan.chain < NumChains
       /\ scan' = Fetching(scan.chain + 1, scan.interval)
       /\ UNCHANGED sinceHour
    \/ /\ scan.chain = NumChains
       /\ scan.interval = "1m"
       /\ sinceHour >= HourInterval
       /\ scan' = Fetching(1, "1h")
       /\ sinceHour' = 0
    \/ /\ scan.chain = NumChains
       /\ scan.interval = "1h" \/ sinceHour < HourInterval
       /\ scan' = Asleep
       /\ UNCHANGED sinceHour

\* Broken variant: an exception ends the cycle, not the scan of one chain.
AbandonCycle ==
    /\ scan.pc \in {"fetching", "checking", "sending"}
    /\ scan' = Asleep
    /\ UNCHANGED <<left, hits, sinceHour, stored, alert, whole>>

(***************************************************************************)
(* The scan of a chain ends early: nothing was fetched (an empty list, or  *)
(* None from an executor that refuses), or something raised: the client,   *)
(* the database on load, or send_alpha with what is no HTTPError.  The     *)
(* snapshot stays as it was, and what was sent was sent.                   *)
(***************************************************************************)
Abandon ==
    /\ scan.pc \in {"fetching", "checking", "sending"}
    /\ NextScan
    /\ UNCHANGED <<left, hits, stored, alert, whole>>

-----------------------------------------------------------------------------
\* Broken variant: the snapshot is saved as soon as it is taken.
FetchedAndSaved(tokens) ==
    /\ scan.pc = "fetching"
    /\ scan' = [pc |-> "checking", chain |-> scan.chain, interval |-> scan.interval,
                known |-> CurrentList \in stored, tokens |-> tokens]
    /\ stored' = stored \cup {CurrentList}
    /\ UNCHANGED <<left, hits, sinceHour, alert, whole>>

\* The list has come: the previous snapshot is loaded and security checks start.
Fetched(tokens) ==
    /\ scan.pc = "fetching"
    /\ scan' = [pc |-> "checking", chain |-> scan.chain, interval |-> scan.interval,
                known |-> CurrentList \in stored, tokens |-> tokens]
    /\ UNCHANGED <<left, hits, sinceHour, stored, alert, whole>>

LevelOf(score) ==
    IF score >= ScoreHigh THEN "HIGH" ELSE IF score >= ScoreMedium THEN "MEDIUM" ELSE "OBSERVE"

\* Places of the list that detect makes a signal of, and the one that counts for an
\* address: signal_map keeps the last.
SignalPlaces(tokens, scores, a) ==
    {p \in DOMAIN tokens : tokens[p] = a /\ scores[p] >= ScoreLow}

SignalScore(tokens, scores, a) ==
    LET places == SignalPlaces(tokens, scores, a)
    IN  scores[CHOOSE p \in places : \A q \in places : q <= p]

\* Broken variant: is_cooling is not asked.
ToSendAll(tokens, scores, first) ==
    {p \in DOMAIN tokens : p >= first /\ SignalPlaces(tokens, scores, tokens[p]) # {}}

\* Places, from first on, of a token with a signal that is not cooling by then.
ToSend(tokens, scores, first) ==
    {p \in DOMAIN tokens :
        /\ p >= first
        /\ SignalPlaces(tokens, scores, tokens[p]) # {}
        /\ left'[tokens[p]] = 0}

(***************************************************************************)
(* The loop over the tokens, from one alert to the next; behind the last   *)
(* one the snapshot is saved, or saving it raises.                         *)
(***************************************************************************)
GoThrough(tokens, scores, first, known) ==
    LET places == IF known THEN ToSend(tokens, scores, first) ELSE {} IN
    \/ \E p \in places :
          /\ \A q \in places : p <= q
          /\ scan' = [pc |-> "sending", chain |-> scan.chain, interval |-> scan.interval,
                      tokens |-> tokens, scores |-> scores, pos |-> p]
          /\ UNCHANGED <<sinceHour, stored, whole>>
    \/ /\ places = {}
       /\ \/ stored' = stored \cup {CurrentList} /\ whole' = whole \cup {CurrentList}
          \/ UNCHANGED <<stored, whole>>
       /\ NextScan

\* The security checks are over, failed or not, and the scorer runs.
Checked(scores) ==
    /\ scan.pc = "checking"
    /\ DOMAIN scores = DOMAIN scan.tokens
    /\ left' = left
    /\ GoThrough(scan.tokens, scores, 1, scan.known)
    /\ UNCHANGED <<hits, alert>>

\* Broken variant: OBSERVE takes the last branch, as MEDIUM does.
MarkLong(a, level) ==
    /\ left' = [left EXCEPT ![a] = IF level = "HIGH" THEN CooldownOf["HIGH"] ELSE CooldownOf["MEDIUM"]]
    /\ hits' = [hits EXCEPT ![a] = Smaller(MaxHits, @ + 1)]

Mark(a, level) ==
    /\ left' = [left EXCEPT ![a] = CooldownOf[level]]
    /\ hits' = [hits EXCEPT ![a] = Smaller(MaxHits, @ + 1)]

\* send_alpha returns, and it does when Telegram has refused the message as well.
Sent ==
    LET a == scan.tokens[scan.pos]
        level == LevelOf(SignalScore(scan.tokens, scan.scores, a))
    IN
    /\ scan.pc = "sending"
    /\ Mark(a, level)
    /\ alert' = [alert EXCEPT ![a] = [level |-> level, since |-> 0]]
    /\ GoThrough(scan.tokens, scan.scores, scan.pos + 1, TRUE)

-----------------------------------------------------------------------------
Proceed ==
    \/ Wake
    \/ Abandon
    \/ \E tokens \in Trending : Fetched(tokens)
    \/ \E n \in 1 .. MaxListed : \E scores \in [1 .. n -> Scores] : Checked(scores)
    \/ Sent

Next == Tick \/ Start \/ Stop \/ Proceed

Spec == Init /\ [][Next]_vars

(***************************************************************************)
(* Every await ends: the command line tool and the messages have timeouts. *)
(* Nobody need start a process that is down.                               *)
(***************************************************************************)
FairSpec == Spec /\ WF_vars(Proceed)

-----------------------------------------------------------------------------
(***************************************************************************)
(* No address is alerted again within the cooldown of its last alert, on   *)
(* whatever chain, list or level the signals were (a process knows of its  *)
(* own alerts only).                                                       *)
(***************************************************************************)
NoRepeatInCooldown ==
    scan.pc = "sending" =>
        LET last == alert[scan.tokens[scan.pos]]
        IN  last # NoAlert => last.since >= CooldownOf[last.level]

(***************************************************************************)
(* A signal is held back only for an alert of this process that is younger *)
(* than the cooldown of its own level.                                     *)
(***************************************************************************)
SuppressionHasCause ==
    \A a \in Addresses : left[a] > 0 =>
        /\ alert[a] # NoAlert
        /\ alert[a].since < CooldownOf[alert[a].level]

(***************************************************************************)
(* The first look at a list is silent: alerts come only for lists that an  *)
(* earlier scan, of this process or another, went through to the end.      *)
(***************************************************************************)
FirstScanIsSilent ==
    scan.pc = "sending" => CurrentList \in whole

(***************************************************************************)
(* Every chain is scanned again and again, whatever happens to the others. *)
(***************************************************************************)
EveryChainScanned ==
    \A c \in Chains : scan # Down ~> scan = Down \/ scan = Fetching(c, "1m")

\* The 1h lists get their turn as long as the process lives.
HourlyScanned ==
    scan # Down ~> scan = Down \/ scan = Fetching(1, "1h")

(***************************************************************************)
(* What the scanner's guide says: when the score of a token hit before     *)
(* decays below the threshold, the message shows the lower score.  The     *)
(* message is made from the signal; the decayed score is only published.   *)
(***************************************************************************)
Decayed(score, n) ==
    CASE n >= 3 -> (score * 3) \div 10
      [] n = 2 -> (score * 6) \div 10
      [] n < 2 -> score

Shown == SignalScore(scan.tokens, scan.scores, scan.tokens[scan.pos])

MessageShowsDecayedScore ==
    scan.pc = "sending" =>
        LET decayed == Decayed(Shown, hits[scan.tokens[scan.pos]])
        IN  decayed < ScoreLow => Shown = decayed
=============================================================================

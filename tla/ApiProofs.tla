------------------------------ MODULE ApiProofs ------------------------------
(***************************************************************************)
(* Theorems about what an API process runs: ChainScheduler, for any        *)
(* processes, window lengths and numbers of windows to catch up with, and  *)
(* HttpApi, for any callers, limits and settings of the sweeps.            *)
(***************************************************************************)
EXTENDS ChainScheduler, HttpApi, SequenceTheorems, FiniteSetTheorems, WellFoundedInduction, TLAPS

-----------------------------------------------------------------------------
(***************************************************************************)
(* The loops.  Whoever claimed a window owns it until its loop goes on; an *)
(* owned window has a row, so that nobody can claim it again, and a loop   *)
(* only passes windows with a row.                                         *)
(***************************************************************************)

Awake == {"visiting", "claiming", "running"}

\* A round has windows left as long as the loop is at work on it; a claim is
\* waited for, or answered, while the loop is claiming.
RoundShape ==
    \A s \in Schedulers :
        /\ pc[s] \in Awake => Len(due[s]) >= 1
        /\ claim[s] # "none" => pc[s] = "claiming"

NothingAhead ==
    \A s \in Schedulers :
        /\ last[s] # Never => last[s] <= clock
        /\ \A i \in 1 .. Len(due[s]) : due[s][i] <= clock

AnsweredHasRow ==
    \A s \in Schedulers : Owns(s) \/ claim[s] = "duplicate" => Head(due[s]) \in rows

OneOwner ==
    \A s, t \in Schedulers : Owns(s) /\ Owns(t) /\ Head(due[s]) = Head(due[t]) => s = t

\* A loop moves its last window to windows that somebody has claimed.
LastHasRow == \A s \in Schedulers : last[s] # Never => last[s] \in rows

IInv ==
    /\ TypeOK
    /\ RoundShape
    /\ NothingAhead
    /\ AnsweredHasRow
    /\ OneOwner
    /\ LastHasRow

-----------------------------------------------------------------------------
(***************************************************************************)
(* Whole steps that fit into a stretch of time do not reach beyond it.     *)
(***************************************************************************)
LEMMA WholeSteps ==
    ASSUME NEW length \in Nat, NEW k \in Nat, k <= length \div Step
    PROVE  k * Step \in Nat /\ k * Step <= length
<1> USE SchedulerAssumption
<1> DEFINE n == length \div Step
<1>1. n \in Nat /\ n * Step <= length
  OBVIOUS
<1> HIDE DEF n
<1>2. k \in Nat /\ n \in Nat /\ k <= n /\ Step \in Nat
  BY <1>1 DEF n
<1>3. k * Step \in Nat /\ n * Step \in Nat /\ k * Step <= n * Step
  BY <1>2
<1> QED
  BY <1>1, <1>3

(***************************************************************************)
(* _build_due_windows: at least one window, and none that has not come.    *)
(***************************************************************************)
LEMMA DueNow ==
    ASSUME NEW from \in Minutes \cup {Never}, NEW current \in Minutes,
           from # Never => from <= current
    PROVE  /\ DueWindows(from, current) \in Seq(Minutes)
           /\ Len(DueWindows(from, current)) >= 1
           /\ \A i \in 1 .. Len(DueWindows(from, current)) : DueWindows(from, current)[i] <= current
           /\ Dropped(from, current) \subseteq Minutes
<1> USE SchedulerAssumption DEF Minutes
<1> DEFINE n == Behind(from, current)
           kept == IF n > CatchUp THEN CatchUp ELSE n
<1>1. CASE from = Never
  BY <1>1 DEF DueWindows, Dropped
<1>2. CASE from # Never
  <2>1. n \in Nat
    BY <1>2 DEF Behind
  <2>2. ASSUME NEW k \in Nat, k <= n
        PROVE  from + k * Step \in Minutes /\ from + k * Step <= current
    <3>1. current - from \in Nat /\ k <= (current - from) \div Step
      BY <1>2, <2>2 DEF Behind
    <3>2. k * Step \in Nat /\ k * Step <= current - from
      BY <3>1, WholeSteps
    <3> HIDE SchedulerAssumption
    <3> QED
      BY <1>2, <3>2, SchedulerAssumption
  <2>3. Dropped(from, current) \subseteq Minutes
    BY <1>2, <2>1, <2>2 DEF Dropped
  <2>4. CASE n = 0
    BY <2>3, <2>4 DEF DueWindows
  <2>5. CASE n # 0
    <3>1. kept \in Nat /\ kept >= 1 /\ kept <= n
      BY <2>1, <2>5
    <3> DEFINE windows == [i \in 1 .. kept |-> from + (n - kept + i) * Step]
    <3>2. DueWindows(from, current) = windows
      BY <1>2, <2>5 DEF DueWindows
    <3> HIDE DEF n, kept
    <3>3. ASSUME NEW i \in 1 .. kept
          PROVE  windows[i] \in Minutes /\ windows[i] <= current
      <4>1. n - kept + i \in Nat /\ n - kept + i <= n
        BY <2>1, <3>1
      <4> QED
        BY <4>1, <2>2
    <3>4. windows \in Seq(Minutes) /\ Len(windows) = kept
      BY <3>1, <3>3
    <3> QED
      BY <2>3, <3>1, <3>2, <3>3, <3>4
  <2> QED
    BY <2>4, <2>5
<1> QED
  BY <1>1, <1>2

LEMMA InitInv == Init => IInv
BY SchedulerAssumption
   DEF Init, IInv, TypeOK, Minutes, RoundShape, Awake, NothingAhead, AnsweredHasRow, Owns, OneOwner, LastHasRow

(***************************************************************************)
(* The loop of s goes on to its next window, whether it passes the present *)
(* one or gives it up: it owns nothing any more, the others what they did. *)
(***************************************************************************)
LEMMA AdvanceKeeps ==
    ASSUME IInv, NEW s \in Schedulers, pc[s] \in Awake, Advance(s),
           (claim' = claim /\ claim[s] = "none") \/ claim' = [claim EXCEPT ![s] = "none"],
           \/ last' = last
           \/ (last' = [last EXCEPT ![s] = Head(due[s])] /\ Head(due[s]) \in rows),
           UNCHANGED <<clock, rows>>
    PROVE  /\ pc' \in [Schedulers -> {"stopped", "asleep", "visiting", "claiming", "running"}]
           /\ due' \in [Schedulers -> Seq(Minutes)]
           /\ last' \in [Schedulers -> Minutes \cup {Never}]
           /\ claim' \in [Schedulers -> {"none", "pending", "won", "duplicate", "failed"}]
           /\ RoundShape' /\ NothingAhead' /\ AnsweredHasRow' /\ OneOwner' /\ LastHasRow'
<1>a. TypeOK /\ RoundShape /\ NothingAhead /\ AnsweredHasRow /\ OneOwner /\ LastHasRow
  BY DEF IInv
<1>1. /\ due[s] \in Seq(Minutes) /\ Len(due[s]) >= 1
      /\ Head(due[s]) \in Minutes /\ Head(due[s]) <= clock
  BY <1>a DEF TypeOK, RoundShape, NothingAhead
<1>2. /\ Tail(due[s]) \in Seq(Minutes) /\ Len(Tail(due[s])) = Len(due[s]) - 1
      /\ \A i \in 1 .. Len(Tail(due[s])) : Tail(due[s])[i] <= clock
  BY <1>1, <1>a DEF NothingAhead
<1>3. /\ pc' \in [Schedulers -> {"stopped", "asleep", "visiting", "claiming", "running"}]
      /\ due' \in [Schedulers -> Seq(Minutes)]
      /\ claim' \in [Schedulers -> {"none", "pending", "won", "duplicate", "failed"}]
  BY <1>2, <1>a DEF TypeOK, Advance
<1>4. /\ due'[s] = Tail(due[s]) /\ claim'[s] = "none"
      /\ pc'[s] = IF Len(due[s]) = 1 THEN "asleep" ELSE "visiting"
  BY <1>a DEF TypeOK, Advance
<1>5. \A t \in Schedulers \ {s} : due'[t] = due[t] /\ claim'[t] = claim[t] /\ pc'[t] = pc[t]
  BY <1>a DEF TypeOK, Advance
<1>6. /\ last' \in [Schedulers -> Minutes \cup {Never}]
      /\ \A t \in Schedulers \ {s} : last'[t] = last[t]
      /\ last'[s] = last[s] \/ (last'[s] = Head(due[s]) /\ Head(due[s]) \in rows)
  BY <1>1, <1>a DEF TypeOK
<1>7. RoundShape'
  <2>1. pc'[s] \in Awake => Len(due'[s]) >= 1
    <3>1. Len(due[s]) \in Nat
      BY <1>1
    <3>2. CASE Len(due[s]) = 1
      <4>1. pc'[s] = "asleep"
        BY <3>2, <1>4
      <4> QED
        BY <4>1 DEF Awake
    <3>3. CASE Len(due[s]) # 1
      <4>1. Len(due[s]) >= 1 /\ Len(Tail(due[s])) = Len(due[s]) - 1
        BY <1>1, <1>2
      <4>2. \A n \in Nat : n >= 1 /\ n # 1 => n - 1 >= 1
        OBVIOUS
      <4>3. Len(due[s]) - 1 >= 1
        BY <3>1, <3>3, <4>1, <4>2, Zenon
      <4> QED
        BY <4>1, <4>3, <1>4
    <3> QED
      BY <3>2, <3>3
  <2>2. ASSUME NEW t \in Schedulers, t # s
        PROVE  (pc'[t] \in Awake => Len(due'[t]) >= 1) /\ (claim'[t] # "none" => pc'[t] = "claiming")
    BY <2>2, <1>5, <1>a DEF RoundShape
  <2> QED
    BY <2>1, <2>2, <1>4 DEF RoundShape
<1>8. NothingAhead'
  <2>1. ASSUME NEW t \in Schedulers, last'[t] # Never PROVE last'[t] <= clock'
    BY <2>1, <1>1, <1>6, <1>a DEF NothingAhead
  <2>2. ASSUME NEW t \in Schedulers, NEW i \in 1 .. Len(due'[t]) PROVE due'[t][i] <= clock'
    <3>1. CASE t = s
      BY <3>1, <1>2, <1>4
    <3>2. CASE t # s
      BY <3>2, <1>5, <1>a DEF NothingAhead
    <3> QED
      BY <3>1, <3>2
  <2> QED
    BY <2>1, <2>2 DEF NothingAhead
<1>9. ~ Owns(s)' /\ \A t \in Schedulers \ {s} : Owns(t)' <=> Owns(t)
  BY <1>4, <1>5 DEF Owns
<1>10. AnsweredHasRow' /\ OneOwner'
  BY <1>4, <1>5, <1>9, <1>a DEF AnsweredHasRow, OneOwner
<1>11. LastHasRow'
  BY <1>6, <1>a DEF LastHasRow
<1> QED
  BY <1>3, <1>6, <1>7, <1>8, <1>10, <1>11

(***************************************************************************)
(* Every step keeps the invariant.                                         *)
(***************************************************************************)
LEMMA InvStep == IInv /\ [Next]_vars => IInv'
<1> SUFFICES ASSUME IInv, [Next]_vars PROVE IInv'
  OBVIOUS
<1> USE SchedulerAssumption
<1>a. TypeOK /\ RoundShape /\ NothingAhead /\ AnsweredHasRow /\ OneOwner /\ LastHasRow
  BY DEF IInv
<1>b. ASSUME NEW s \in Schedulers, pc[s] \in Awake
      PROVE  Head(due[s]) \in Minutes /\ Head(due[s]) <= clock
  BY <1>b, <1>a DEF TypeOK, RoundShape, NothingAhead
\* Steps after which the loops stand where they stood.
<1>c. ASSUME UNCHANGED <<pc, due, last, claim>>, clock' \in Minutes, clock' >= clock, rows \subseteq rows'
      PROVE  RoundShape' /\ NothingAhead' /\ AnsweredHasRow' /\ OneOwner' /\ LastHasRow'
  <2>1. RoundShape' /\ AnsweredHasRow' /\ OneOwner' /\ LastHasRow'
    BY <1>c, <1>a DEF RoundShape, AnsweredHasRow, OneOwner, Owns, LastHasRow
  <2>2. NothingAhead'
    <3>1. ASSUME NEW s \in Schedulers, last[s] # Never PROVE last[s] <= clock'
      <4>1. last[s] \in Nat /\ clock \in Nat /\ clock' \in Nat /\ last[s] <= clock
        BY <3>1, <1>c, <1>a DEF TypeOK, NothingAhead, Minutes
      <4> QED
        BY <4>1, <1>c
    <3>2. ASSUME NEW s \in Schedulers, NEW i \in 1 .. Len(due[s]) PROVE due[s][i] <= clock'
      <4>1. due[s][i] \in Nat /\ clock \in Nat /\ clock' \in Nat /\ due[s][i] <= clock
        BY <1>c, <1>a DEF TypeOK, NothingAhead, Minutes
      <4> QED
        BY <4>1, <1>c
    <3> QED
      BY <3>1, <3>2, <1>c DEF NothingAhead
  <2> QED
    BY <2>1, <2>2
<1>1. CASE Tick
  BY <1>1, <1>a, <1>c DEF Tick, TypeOK, IInv, Minutes
<1>2. CASE ManualClaim
  BY <1>2, <1>a, <1>c DEF ManualClaim, TypeOK, IInv, Minutes
<1>3. ASSUME NEW w \in orphans, OrphanClaims(w) PROVE IInv'
  BY <1>3, <1>a, <1>c DEF OrphanClaims, TypeOK, IInv, Minutes
<1>4. ASSUME NEW s \in Schedulers, Start(s) PROVE IInv'
  <2>1. TypeOK'
    BY <1>4, <1>a DEF Start, TypeOK
  <2>2. RoundShape' /\ NothingAhead' /\ LastHasRow'
    BY <1>4, <1>a DEF Start, TypeOK, RoundShape, NothingAhead, LastHasRow, Awake
  <2>3. AnsweredHasRow' /\ OneOwner'
    BY <1>4, <1>a DEF Start, TypeOK, AnsweredHasRow, OneOwner, Owns
  <2> QED
    BY <2>1, <2>2, <2>3 DEF IInv
<1>5. ASSUME NEW s \in Schedulers, Wake(s) PROVE IInv'
  <2> DEFINE windows == DueWindows(last[s], clock)
  <2>1. /\ windows \in Seq(Minutes) /\ Len(windows) >= 1
        /\ \A i \in 1 .. Len(windows) : windows[i] <= clock
        /\ Dropped(last[s], clock) \subseteq Minutes
    BY <1>a, DueNow DEF TypeOK, NothingAhead
  <2> HIDE DEF windows
  <2>2. /\ pc[s] = "asleep" /\ pc' = [pc EXCEPT ![s] = "visiting"]
        /\ due' = [due EXCEPT ![s] = windows]
        /\ given' = [given EXCEPT ![s] = given[s] \cup Dropped(last[s], clock)]
        /\ UNCHANGED <<clock, last, claim, orphans, rows, lockHolder, disturbances>>
    BY <1>5 DEF Wake, windows
  <2>3. TypeOK'
    BY <2>1, <2>2, <1>a DEF TypeOK
  <2>4. ~ Owns(s)' /\ claim'[s] = "none" /\ pc'[s] = "visiting" /\ due'[s] = windows
    BY <2>2, <1>a DEF TypeOK, Owns, RoundShape
  <2>5. \A t \in Schedulers \ {s} : pc'[t] = pc[t] /\ due'[t] = due[t] /\ claim'[t] = claim[t]
    BY <2>2, <1>a DEF TypeOK
  <2>6. RoundShape' /\ NothingAhead' /\ LastHasRow'
    BY <2>1, <2>2, <2>4, <2>5, <1>a DEF RoundShape, NothingAhead, LastHasRow
  <2>7. AnsweredHasRow' /\ OneOwner'
    BY <2>2, <2>4, <2>5, <1>a DEF AnsweredHasRow, OneOwner, Owns
  <2> QED
    BY <2>3, <2>6, <2>7 DEF IInv
\* The loop gives the present window up, or passes it.
<1>d. ASSUME NEW s \in Schedulers, pc[s] \in Awake, Advance(s),
             (claim' = claim /\ claim[s] = "none") \/ claim' = [claim EXCEPT ![s] = "none"],
             \/ last' = last
             \/ (last' = [last EXCEPT ![s] = Head(due[s])] /\ Head(due[s]) \in rows),
             UNCHANGED <<clock, rows>>,
             given' \in [Schedulers -> SUBSET Minutes], orphans' \subseteq Minutes,
             lockHolder' \in Schedulers \cup {NoOne}, disturbances' \in Nat
      PROVE  IInv'
  <2>1. /\ pc' \in [Schedulers -> {"stopped", "asleep", "visiting", "claiming", "running"}]
        /\ due' \in [Schedulers -> Seq(Minutes)]
        /\ last' \in [Schedulers -> Minutes \cup {Never}]
        /\ claim' \in [Schedulers -> {"none", "pending", "won", "duplicate", "failed"}]
        /\ RoundShape' /\ NothingAhead' /\ AnsweredHasRow' /\ OneOwner' /\ LastHasRow'
    BY <1>d, AdvanceKeeps
  <2> QED
    BY <2>1, <1>d, <1>a DEF IInv, TypeOK
<1>e. ASSUME NEW s \in Schedulers, pc[s] \in Awake,
             \/ given' = given
             \/ given' = [given EXCEPT ![s] = given[s] \cup {Head(due[s])}]
             \/ given' = [given EXCEPT ![s] = {w \in given[s] : w > Head(due[s])}]
      PROVE  given' \in [Schedulers -> SUBSET Minutes]
  <2>1. given \in [Schedulers -> SUBSET Minutes] /\ given[s] \subseteq Minutes /\ Head(due[s]) \in Minutes
    BY <1>e, <1>a, <1>b DEF TypeOK
  <2>2. ASSUME NEW G \in SUBSET Minutes, given' = [given EXCEPT ![s] = G]
        PROVE  given' \in [Schedulers -> SUBSET Minutes]
    BY <2>1, <2>2
  <2>3. given[s] \cup {Head(due[s])} \in SUBSET Minutes /\ {w \in given[s] : w > Head(due[s])} \in SUBSET Minutes
    BY <2>1
  <2> QED
    BY <2>1, <2>2, <2>3, <1>e
\* A loop that is not claiming waits for no thread.
<1>f. ASSUME NEW s \in Schedulers, pc[s] # "claiming" PROVE claim[s] = "none"
  BY <1>f, <1>a DEF RoundShape
<1>6. ASSUME NEW s \in Schedulers, TakeLock(s) PROVE IInv'
  <2>1. TypeOK'
    BY <1>6, <1>a DEF TakeLock, TypeOK
  <2>2. ~ Owns(s)' /\ claim'[s] = "pending" /\ pc'[s] = "claiming" /\ pc[s] = "visiting"
    BY <1>6, <1>a DEF TakeLock, TypeOK, Owns
  <2>3. \A t \in Schedulers \ {s} : pc'[t] = pc[t] /\ claim'[t] = claim[t]
    BY <1>6, <1>a DEF TakeLock, TypeOK
  <2>4. UNCHANGED <<clock, due, last, rows>>
    BY <1>6 DEF TakeLock
  <2>5. RoundShape' /\ NothingAhead' /\ LastHasRow'
    BY <2>2, <2>3, <2>4, <1>a DEF RoundShape, NothingAhead, LastHasRow, Awake
  <2>6. AnsweredHasRow' /\ OneOwner'
    BY <2>2, <2>3, <2>4, <1>a DEF AnsweredHasRow, OneOwner, Owns
  <2> QED
    BY <2>1, <2>5, <2>6 DEF IInv
<1>7. ASSUME NEW s \in Schedulers, LockDenied(s) \/ LockFails(s) PROVE IInv'
  <2>1. /\ pc[s] \in Awake /\ claim[s] = "none" /\ Advance(s)
        /\ given' = [given EXCEPT ![s] = given[s] \cup {Head(due[s])}]
        /\ UNCHANGED <<clock, last, claim, orphans, rows, lockHolder>>
        /\ disturbances' \in Nat
    BY <1>7, <1>f, <1>a DEF LockDenied, LockFails, Awake, TypeOK
  <2> QED
    BY <2>1, <1>d, <1>e, <1>a DEF TypeOK
\* Only the answer of a claim that found no row makes its loop an owner.
<1>8. ASSUME NEW s \in Schedulers, ClaimThread(s) PROVE IInv'
  <2>1. pc[s] = "claiming" /\ Head(due[s]) \in Minutes
    BY <1>8, <1>a, <1>b DEF ClaimThread, RoundShape, Awake
  <2>2. TypeOK'
    BY <1>8, <2>1, <1>a DEF ClaimThread, TypeOK
  <2>3. /\ rows' = rows \cup {Head(due[s])} /\ UNCHANGED <<clock, pc, due, last>>
        /\ claim'[s] = IF Head(due[s]) \in rows THEN "duplicate" ELSE "won"
        /\ \A t \in Schedulers \ {s} : claim'[t] = claim[t]
    BY <1>8, <1>a DEF ClaimThread, TypeOK
  <2>4. RoundShape' /\ NothingAhead' /\ LastHasRow'
    BY <2>1, <2>3, <1>a DEF RoundShape, NothingAhead, LastHasRow
  <2>5. AnsweredHasRow'
    BY <2>3, <1>a DEF AnsweredHasRow, Owns
  <2>6. OneOwner'
    <3>1. ASSUME NEW t \in Schedulers \ {s}, Owns(s)', Owns(t)' PROVE Head(due[s]) # Head(due[t])
      <4>1. Head(due[s]) \notin rows
        BY <3>1, <2>1, <2>3 DEF Owns
      <4>2. Owns(t)
        BY <3>1, <2>3 DEF Owns
      <4> QED
        BY <4>1, <4>2, <1>a DEF AnsweredHasRow
    <3>2. \A t \in Schedulers \ {s} : Owns(t)' <=> Owns(t)
      BY <2>3 DEF Owns
    <3> QED
      BY <3>1, <3>2, <2>3, <1>a DEF OneOwner
  <2> QED
    BY <2>2, <2>4, <2>5, <2>6 DEF IInv
<1>9. ASSUME NEW s \in Schedulers, ClaimThreadFails(s) PROVE IInv'
  <2>1. TypeOK'
    BY <1>9, <1>a DEF ClaimThreadFails, TypeOK
  <2>2. /\ claim[s] = "pending" /\ claim'[s] = "failed" /\ UNCHANGED <<clock, pc, due, last, rows>>
        /\ \A t \in Schedulers \ {s} : claim'[t] = claim[t]
    BY <1>9, <1>a DEF ClaimThreadFails, TypeOK
  <2>3. RoundShape' /\ NothingAhead' /\ LastHasRow'
    BY <2>2, <1>a DEF RoundShape, NothingAhead, LastHasRow
  <2>4. AnsweredHasRow' /\ OneOwner'
    BY <2>2, <1>a DEF AnsweredHasRow, OneOwner, Owns
  <2> QED
    BY <2>1, <2>3, <2>4 DEF IInv
<1>10. ASSUME NEW s \in Schedulers, ClaimWon(s) PROVE IInv'
  <2>1. TypeOK'
    BY <1>10, <1>a DEF ClaimWon, TypeOK
  <2>2. /\ pc[s] = "claiming" /\ claim[s] = "won" /\ pc'[s] = "running" /\ claim'[s] = "none"
        /\ UNCHANGED <<clock, due, last, rows>>
        /\ \A t \in Schedulers \ {s} : pc'[t] = pc[t] /\ claim'[t] = claim[t]
    BY <1>10, <1>a DEF ClaimWon, TypeOK
  <2>3. RoundShape' /\ NothingAhead' /\ LastHasRow'
    BY <2>2, <1>a DEF RoundShape, NothingAhead, LastHasRow, Awake
  <2>4. AnsweredHasRow' /\ OneOwner'
    BY <2>2, <1>a DEF AnsweredHasRow, OneOwner, Owns
  <2> QED
    BY <2>1, <2>3, <2>4 DEF IInv
<1>11. ASSUME NEW s \in Schedulers, ClaimDuplicate(s) PROVE IInv'
  <2>1. /\ pc[s] \in Awake /\ claim' = [claim EXCEPT ![s] = "none"] /\ Advance(s)
        /\ last' = [last EXCEPT ![s] = Head(due[s])] /\ Head(due[s]) \in rows
        /\ given' = [given EXCEPT ![s] = {w \in given[s] : w > Head(due[s])}]
        /\ lockHolder' = NoOne /\ UNCHANGED <<clock, orphans, rows, disturbances>>
    BY <1>11, <1>a DEF ClaimDuplicate, Passed, Awake, AnsweredHasRow
  <2> QED
    BY <2>1, <1>d, <1>e, <1>a DEF TypeOK
<1>12. ASSUME NEW s \in Schedulers, ClaimRaised(s) \/ UnlockFails(s) \/ StopSwallowed(s) PROVE IInv'
  <2>1. /\ pc[s] \in Awake /\ claim' = [claim EXCEPT ![s] = "none"] /\ Advance(s)
        /\ given' = [given EXCEPT ![s] = given[s] \cup {Head(due[s])}]
        /\ orphans' \in {orphans, orphans \cup {Head(due[s])}}
        /\ lockHolder' \in {NoOne, lockHolder} /\ UNCHANGED <<clock, last, rows, disturbances>>
    BY <1>12 DEF ClaimRaised, UnlockFails, StopSwallowed, DropAnswer, Awake
  <2>2. orphans' \subseteq Minutes /\ lockHolder' \in Schedulers \cup {NoOne} /\ disturbances' \in Nat
    BY <2>1, <1>a, <1>b DEF TypeOK
  <2> QED
    BY <2>1, <2>2, <1>d, <1>e
<1>13. ASSUME NEW s \in Schedulers, RunSucceeds(s) PROVE IInv'
  <2>1. /\ pc[s] \in Awake /\ claim[s] = "none" /\ Advance(s)
        /\ last' = [last EXCEPT ![s] = Head(due[s])] /\ Head(due[s]) \in rows
        /\ given' = [given EXCEPT ![s] = {w \in given[s] : w > Head(due[s])}]
        /\ UNCHANGED <<clock, claim, orphans, rows, lockHolder, disturbances>>
    BY <1>13, <1>f, <1>a DEF RunSucceeds, Passed, Awake, AnsweredHasRow, Owns
  <2> QED
    BY <2>1, <1>d, <1>e, <1>a DEF TypeOK
<1>14. ASSUME NEW s \in Schedulers, RunRaises(s) PROVE IInv'
  <2>1. /\ pc[s] \in Awake /\ claim[s] = "none" /\ Advance(s) /\ disturbances' = disturbances + 1
        /\ UNCHANGED <<clock, last, claim, orphans, rows, lockHolder, given>>
    BY <1>14, <1>f DEF RunRaises, Awake
  <2> QED
    BY <2>1, <1>d, <1>a DEF TypeOK
<1>15. ASSUME NEW s \in Schedulers, SessionLost(s) PROVE IInv'
  BY <1>15, <1>a, <1>c DEF SessionLost, TypeOK, IInv, Minutes
<1>16. ASSUME NEW s \in Schedulers, Stop(s) PROVE IInv'
  <2>1. orphans' \subseteq Minutes
    <3>1. CASE claim[s] = "pending" /\ orphans' = orphans \cup {Head(due[s])}
      BY <3>1, <1>a, <1>b DEF RoundShape, TypeOK, Awake
    <3> QED
      BY <3>1, <1>16, <1>a DEF Stop, TypeOK
  <2>2. TypeOK'
    BY <2>1, <1>16, <1>a DEF Stop, Released, TypeOK
  <2>3. /\ ~ Owns(s)' /\ pc'[s] = "stopped" /\ claim'[s] = "none" /\ last'[s] = Never /\ due'[s] = <<>>
        /\ UNCHANGED <<clock, rows>>
        /\ \A t \in Schedulers \ {s} :
              pc'[t] = pc[t] /\ claim'[t] = claim[t] /\ last'[t] = last[t] /\ due'[t] = due[t]
    BY <1>16, <1>a DEF Stop, TypeOK, Owns
  <2>4. RoundShape' /\ LastHasRow'
    BY <2>3, <1>a DEF RoundShape, LastHasRow, Awake
  <2>5. NothingAhead'
    BY <2>3, <1>a DEF NothingAhead
  <2>6. AnsweredHasRow' /\ OneOwner'
    BY <2>3, <1>a DEF AnsweredHasRow, OneOwner, Owns
  <2> QED
    BY <2>2, <2>4, <2>5, <2>6 DEF IInv
<1>17. CASE UNCHANGED vars
  BY <1>17, <1>a, <1>c DEF vars, TypeOK, IInv, Minutes
<1> QED
  BY <1>1, <1>2, <1>3, <1>4, <1>5, <1>6, <1>7, <1>8, <1>9, <1>10, <1>11, <1>12, <1>13, <1>14, <1>15,
     <1>16, <1>17
     DEF Next, Threads, Loop

LEMMA Invariance == Spec => []IInv
BY InitInv, InvStep, PTL DEF Spec

-----------------------------------------------------------------------------
(***************************************************************************)
(* The variables of the schedulers keep their types.                       *)
(***************************************************************************)
THEOREM TypeCorrect == Spec => []TypeOK
<1>1. IInv => TypeOK
  BY DEF IInv
<1> QED
  BY Invariance, <1>1, PTL

(***************************************************************************)
(* _last_window_ts moves to windows that have a row only, so that what a   *)
(* loop leaves behind as done was claimed by somebody.                     *)
(***************************************************************************)
THEOREM LastWindowsClaimed == Spec => []LastHasRow
<1>1. IInv => LastHasRow
  BY DEF IInv
<1> QED
  BY Invariance, <1>1, PTL

(***************************************************************************)
(* No window is run twice, though the advisory lock is given back before   *)
(* the run and can be lost at any moment: the row decides, not the lock.   *)
(***************************************************************************)
THEOREM RunOnce == Spec => []NoDoubleRun
<1>1. IInv => NoDoubleRun
  BY DEF IInv, OneOwner, Owns, NoDoubleRun
<1> QED
  BY Invariance, <1>1, PTL

-----------------------------------------------------------------------------
(***************************************************************************)
(* What a step is for one loop: it rests, ends, wakes up, or goes on from  *)
(* the first window of its round, having given it up or passed it.         *)
(***************************************************************************)
Rests(s) ==
    /\ due'[s] = due[s] /\ last'[s] = last[s] /\ given[s] \subseteq given'[s]
    /\ pc'[s] \in Awake => pc[s] \in Awake

Ends(s) == pc'[s] = "stopped" /\ last'[s] = Never

Wakes(s) ==
    /\ last'[s] = last[s] /\ due'[s] = DueWindows(last[s], clock)
    /\ given'[s] = given[s] \cup Dropped(last[s], clock)

GoesOn(s) ==
    /\ pc[s] \in Awake /\ due'[s] = Tail(due[s])
    /\ pc'[s] = IF Len(due[s]) = 1 THEN "asleep" ELSE "visiting"

GivesUp(s) ==
    /\ GoesOn(s) /\ last'[s] = last[s]
    /\ given[s] \subseteq given'[s] /\ Head(due[s]) \in rows \cup given'[s]

Passes(s) == GoesOn(s) /\ last'[s] = Head(due[s])

LEMMA LoopSteps ==
    ASSUME IInv, [Next]_vars, NEW s \in Schedulers
    PROVE  /\ rows \subseteq rows'
           /\ Rests(s) \/ Ends(s) \/ Wakes(s) \/ GivesUp(s) \/ Passes(s)
<1>a. TypeOK /\ AnsweredHasRow
  BY DEF IInv
<1> USE DEF Rests, Ends, Wakes, GoesOn, GivesUp, Passes, Awake
<1>1. CASE Tick \/ ManualClaim \/ (\E w \in orphans : OrphanClaims(w)) \/ UNCHANGED vars
  BY <1>1 DEF Tick, ManualClaim, OrphanClaims, vars
<1>2. ASSUME NEW t \in Schedulers,
             Start(t) \/ TakeLock(t) \/ ClaimThread(t) \/ ClaimThreadFails(t) \/ ClaimWon(t) \/ SessionLost(t)
      PROVE  rows \subseteq rows' /\ Rests(s)
  BY <1>2, <1>a DEF Start, TakeLock, ClaimThread, ClaimThreadFails, ClaimWon, SessionLost, TypeOK
<1>3. ASSUME NEW t \in Schedulers, Wake(t)
      PROVE  rows \subseteq rows' /\ (Rests(s) \/ Wakes(s))
  BY <1>3, <1>a DEF Wake, TypeOK
<1>4. ASSUME NEW t \in Schedulers,
             LockDenied(t) \/ LockFails(t) \/ ClaimRaised(t) \/ UnlockFails(t) \/ StopSwallowed(t)
      PROVE  rows \subseteq rows' /\ (Rests(s) \/ GivesUp(s))
  <2>1. /\ pc[t] \in Awake /\ Advance(t) /\ rows' = rows /\ last' = last
        /\ given' = [given EXCEPT ![t] = given[t] \cup {Head(due[t])}]
    BY <1>4 DEF LockDenied, LockFails, ClaimRaised, UnlockFails, StopSwallowed, DropAnswer
  <2> QED
    BY <2>1, <1>a DEF Advance, TypeOK
<1>5. ASSUME NEW t \in Schedulers, RunRaises(t)
      PROVE  rows \subseteq rows' /\ (Rests(s) \/ GivesUp(s))
  <2>1. Head(due[t]) \in rows
    BY <1>5, <1>a DEF RunRaises, AnsweredHasRow, Owns
  <2> QED
    BY <2>1, <1>5, <1>a DEF RunRaises, Advance, TypeOK
<1>6. ASSUME NEW t \in Schedulers, ClaimDuplicate(t) \/ RunSucceeds(t)
      PROVE  rows \subseteq rows' /\ (Rests(s) \/ Passes(s))
  <2>1. /\ pc[t] \in Awake /\ Advance(t) /\ rows' = rows /\ Passed(t)
    BY <1>6 DEF ClaimDuplicate, RunSucceeds
  <2> QED
    BY <2>1, <1>a DEF Advance, Passed, TypeOK
<1>7. ASSUME NEW t \in Schedulers, Stop(t)
      PROVE  rows \subseteq rows' /\ (Rests(s) \/ Ends(s))
  BY <1>7, <1>a DEF Stop, TypeOK
<1> QED
  BY <1>1, <1>2, <1>3, <1>4, <1>5, <1>6, <1>7 DEF Next, Threads, Loop

(***************************************************************************)
(* Whole steps: there is none between two that follow one another, and as  *)
(* many as fit into a stretch of time are counted by Behind.               *)
(***************************************************************************)
LEMMA NoneBetween ==
    ASSUME NEW j \in Nat, NEW k \in Nat
    PROVE  /\ j * Step < k * Step => j + 1 <= k /\ j * Step + Step <= k * Step
           /\ j * Step <= k * Step => j <= k
<1>1. Step \in Nat /\ Step >= 1
  BY SchedulerAssumption
<1>2. ASSUME j * Step < k * Step
      PROVE  j + 1 <= k
  <2>1. k <= j => k * Step <= j * Step
    BY <1>1
  <2>2. j * Step \in Nat /\ k * Step \in Nat
    BY <1>1
  <2> QED
    BY <1>2, <2>1, <2>2
<1>3. ASSUME j + 1 <= k
      PROVE  j * Step + Step <= k * Step
  <2>1. (j + 1) * Step <= k * Step
    BY <1>1, <1>3
  <2>2. (j + 1) * Step = j * Step + Step
    BY <1>1
  <2> QED
    BY <2>1, <2>2
<1>4. ASSUME j * Step <= k * Step
      PROVE  j <= k
  <2>1. k + 1 <= j => k * Step + Step <= j * Step
    <3>1. k + 1 <= j => (k + 1) * Step <= j * Step
      BY <1>1
    <3>2. (k + 1) * Step = k * Step + Step
      BY <1>1
    <3> QED
      BY <3>1, <3>2
  <2>2. j * Step \in Nat /\ k * Step \in Nat
    BY <1>1
  <2> QED
    BY <1>1, <1>4, <2>1, <2>2
<1> QED
  BY <1>2, <1>3, <1>4

LEMMA StepsThatFit ==
    ASSUME NEW length \in Nat, NEW k \in Nat, k * Step <= length
    PROVE  k <= length \div Step
<1> DEFINE n == length \div Step
<1>1. n \in Nat /\ length < n * Step + Step
  BY SchedulerAssumption
<1> HIDE DEF n
<1>2. (n + 1) * Step = n * Step + Step /\ n + 1 \in Nat /\ (n + 1) * Step \in Nat /\ k * Step \in Nat
  BY <1>1, SchedulerAssumption
<1>3. k * Step < (n + 1) * Step
  BY <1>1, <1>2
<1>4. k + 1 <= n + 1
  BY <1>2, <1>3, NoneBetween
<1> QED
  BY <1>1, <1>4 DEF n

(***************************************************************************)
(* _build_due_windows: the windows of a round are whole steps apart, and   *)
(* those between the last window and the first of the round are dropped.   *)
(***************************************************************************)
LEMMA DueInSteps ==
    ASSUME NEW from \in Minutes, NEW current \in Minutes, from <= current,
           NEW windows, windows = DueWindows(from, current)
    PROVE  /\ \A i \in 1 .. (Len(windows) - 1) : windows[i + 1] = windows[i] + Step
           /\ from <= Head(windows)
           /\ Len(windows) > 1 => \E k \in Nat : Head(windows) = from + k * Step
           /\ \A k \in Nat : from < from + k * Step /\ from + k * Step < Head(windows)
                              => from + k * Step \in Dropped(from, current)
<1> DEFINE n == Behind(from, current)
           kept == IF n > CatchUp THEN CatchUp ELSE n
<1>0. from \in Nat /\ current \in Nat /\ current - from \in Nat /\ from # Never
      /\ Step \in Nat /\ Step >= 1 /\ CatchUp \in Nat /\ CatchUp >= 1
  BY SchedulerAssumption DEF Minutes
<1>1. n \in Nat
  BY <1>0 DEF Behind
<1>2. Dropped(from, current) = {from + k * Step : k \in 1 .. (n - CatchUp)}
  BY <1>0 DEF Dropped
<1>3. ASSUME NEW k \in Nat, from + k * Step <= current
      PROVE  k <= n
  <2>1. k * Step \in Nat
    BY <1>0
  <2>2. k * Step <= current - from
    BY <1>0, <1>3, <2>1
  <2> QED
    BY <1>0, <2>2, StepsThatFit DEF Behind
<1>4. ASSUME NEW k \in Nat, from < from + k * Step
      PROVE  k # 0
  BY <1>0, <1>4
<1>5. CASE n = 0
  <2>1. windows = <<current>> /\ Len(windows) = 1 /\ Head(windows) = current
    BY <1>5 DEF DueWindows
  <2>2. ASSUME NEW k \in Nat, from < from + k * Step, from + k * Step < current
        PROVE  FALSE
    <3>1. from + k * Step <= current
      <4>1. k * Step \in Nat
        BY <1>0
      <4> QED
        BY <1>0, <2>2, <4>1
    <3> QED
      BY <1>3, <1>4, <1>5, <2>2, <3>1
  <2>3. \A i \in 1 .. (Len(windows) - 1) : FALSE
    BY <2>1
  <2> QED
    BY <1>0, <2>1, <2>2, <2>3
<1>6. CASE n # 0
  <2>1. kept \in Nat /\ kept >= 1 /\ kept <= n /\ n - kept \in Nat
        /\ (kept # n => kept = CatchUp)
    BY <1>0, <1>1, <1>6
  <2>2. windows = [i \in 1 .. kept |-> from + (n - kept + i) * Step]
    BY <1>0, <1>6 DEF DueWindows
  <2> HIDE DEF n, kept
  <2> DEFINE m == n - kept
  <2>3. m \in Nat /\ windows = [i \in 1 .. kept |-> from + (m + i) * Step]
    BY <2>1, <2>2
  <2> HIDE DEF m
  <2>4. Len(windows) = kept /\ Head(windows) = from + (m + 1) * Step
    BY <2>1, <2>3
  <2>5. ASSUME NEW i \in 1 .. (kept - 1)
        PROVE  windows[i + 1] = windows[i] + Step
    <3>1. i \in 1 .. kept /\ i + 1 \in 1 .. kept /\ m + i \in Nat
      BY <2>1, <2>3
    <3>2. windows[i] = from + (m + i) * Step /\ windows[i + 1] = from + (m + (i + 1)) * Step
      BY <2>3, <3>1
    <3>3. m + (i + 1) = (m + i) + 1
      BY <2>3, <3>1
    <3>4. ((m + i) + 1) * Step = (m + i) * Step + Step /\ (m + i) * Step \in Nat
      BY <1>0, <3>1
    <3> QED
      BY <1>0, <3>2, <3>3, <3>4
  <2>6. m + 1 \in Nat /\ (m + 1) * Step \in Nat
    BY <1>0, <2>3
  <2>7. ASSUME NEW k \in Nat, from < from + k * Step, from + k * Step < from + (m + 1) * Step
        PROVE  k \in 1 .. (n - CatchUp)
    <3>1. k * Step \in Nat
      BY <1>0
    <3>2. k * Step < (m + 1) * Step
      BY <1>0, <2>6, <2>7, <3>1
    <3>3. k + 1 <= m + 1
      BY <2>6, <3>2, NoneBetween
    <3>4. k # 0
      BY <1>4, <2>7
    <3>5. kept # n
      BY <2>1, <2>3, <3>3, <3>4 DEF m
    <3> QED
      BY <1>0, <1>1, <2>1, <2>3, <3>3, <3>4, <3>5 DEF m
  <2>8. \A k \in Nat : from < from + k * Step /\ from + k * Step < Head(windows)
                        => from + k * Step \in Dropped(from, current)
    BY <1>2, <2>4, <2>7
  <2>9. from <= Head(windows)
    BY <1>0, <2>4, <2>6
  <2>10. \E k \in Nat : Head(windows) = from + k * Step
    BY <2>4, <2>6
  <2>11. \A i \in 1 .. (Len(windows) - 1) : windows[i + 1] = windows[i] + Step
    BY <2>4, <2>5
  <2> QED
    BY <2>8, <2>9, <2>10, <2>11
<1> QED
  BY <1>5, <1>6

(***************************************************************************)
(* The windows a round still has: whole steps apart, and from the last     *)
(* window on as well if there are several.  What lies between the last     *)
(* window and the first of the round has a row or was given up.            *)
(***************************************************************************)
WholeRound(s) ==
    pc[s] \in Awake =>
        /\ last[s] = Never => Len(due[s]) = 1
        /\ \A i \in 1 .. (Len(due[s]) - 1) : due[s][i + 1] = due[s][i] + Step
        /\ last[s] # Never =>
              /\ last[s] <= Head(due[s])
              /\ Len(due[s]) > 1 => \E k \in Nat : Head(due[s]) = last[s] + k * Step

GapAccounted(s) ==
    pc[s] \in Awake /\ last[s] # Never =>
        \A k \in Nat :
           last[s] < last[s] + k * Step /\ last[s] + k * Step < Head(due[s])
           => last[s] + k * Step \in rows \cup given[s]

RoundInv == \A s \in Schedulers : WholeRound(s) /\ GapAccounted(s)

\* What is left of a round with several windows.
LEMMA RestOfRound ==
    ASSUME IInv, NEW s \in Schedulers, WholeRound(s), pc[s] \in Awake, Len(due[s]) # 1
    PROVE  /\ last[s] # Never /\ Head(due[s]) \in Nat /\ last[s] \in Nat
           /\ Head(Tail(due[s])) = Head(due[s]) + Step
           /\ \A i \in 1 .. (Len(Tail(due[s])) - 1) : Tail(due[s])[i + 1] = Tail(due[s])[i] + Step
           /\ last[s] <= Head(due[s])
           /\ \E k \in Nat : Head(due[s]) = last[s] + k * Step
<1>1. /\ due[s] \in Seq(Minutes) /\ Len(due[s]) \in Nat /\ Len(due[s]) > 1
      /\ last[s] \in Minutes \cup {Never}
  <2>1. due[s] \in Seq(Minutes) /\ Len(due[s]) >= 1 /\ last[s] \in Minutes \cup {Never}
    BY DEF IInv, TypeOK, RoundShape
  <2>2. Len(due[s]) \in Nat
    BY <2>1
  <2>3. \A n \in Nat : n >= 1 /\ n # 1 => n > 1
    OBVIOUS
  <2>4. Len(due[s]) > 1
    BY <2>1, <2>2, <2>3, Zenon
  <2> QED
    BY <2>1, <2>2, <2>4
<1>2. last[s] # Never /\ last[s] \in Nat
  BY <1>1 DEF WholeRound, Minutes
<1>3. Head(due[s]) = due[s][1] /\ due[s][1] \in Nat
  <2>1. due[s] # <<>> /\ Head(due[s]) = due[s][1] /\ Head(due[s]) \in Minutes
    BY <1>1
  <2> QED
    BY <2>1 DEF Minutes
<1>4. /\ Len(Tail(due[s])) = Len(due[s]) - 1
      /\ \A i \in 1 .. (Len(due[s]) - 1) : Tail(due[s])[i] = due[s][i + 1]
      /\ Head(Tail(due[s])) = due[s][2]
  BY <1>1
<1>5. \A i \in 1 .. (Len(due[s]) - 1) : due[s][i + 1] = due[s][i] + Step
  BY DEF WholeRound
<1>6. due[s][2] = due[s][1] + Step
  BY <1>1, <1>5
<1>7. ASSUME NEW i \in 1 .. (Len(Tail(due[s])) - 1)
      PROVE  Tail(due[s])[i + 1] = Tail(due[s])[i] + Step
  <2>1. i \in 1 .. (Len(due[s]) - 1) /\ i + 1 \in 1 .. (Len(due[s]) - 1)
    BY <1>1, <1>4
  <2>2. Tail(due[s])[i] = due[s][i + 1] /\ Tail(due[s])[i + 1] = due[s][(i + 1) + 1]
    BY <1>4, <2>1
  <2> QED
    BY <1>5, <2>1, <2>2
<1> QED
  BY <1>1, <1>2, <1>3, <1>4, <1>6, <1>7 DEF WholeRound

LEMMA WakeRound ==
    ASSUME IInv, NEW s \in Schedulers, Wakes(s)
    PROVE  (WholeRound(s) /\ GapAccounted(s))'
<1>1. last[s] \in Minutes \cup {Never} /\ clock \in Minutes /\ (last[s] # Never => last[s] <= clock)
  BY DEF IInv, TypeOK, NothingAhead
<1> PICK windows : windows = DueWindows(last[s], clock)
  OBVIOUS
<1>2. due'[s] = windows /\ last'[s] = last[s] /\ given'[s] = given[s] \cup Dropped(last[s], clock)
  BY DEF Wakes
<1>3. CASE last[s] = Never
  <2>1. windows = <<clock>>
    BY <1>3 DEF DueWindows
  <2>2. Len(windows) = 1 /\ \A i \in 1 .. (Len(windows) - 1) : FALSE
    BY <2>1
  <2> QED
    BY <1>2, <1>3, <2>2 DEF WholeRound, GapAccounted
<1>4. CASE last[s] # Never
  <2>1. /\ \A i \in 1 .. (Len(windows) - 1) : windows[i + 1] = windows[i] + Step
        /\ last[s] <= Head(windows)
        /\ Len(windows) > 1 => \E k \in Nat : Head(windows) = last[s] + k * Step
        /\ \A k \in Nat : last[s] < last[s] + k * Step /\ last[s] + k * Step < Head(windows)
                           => last[s] + k * Step \in Dropped(last[s], clock)
    BY <1>1, <1>4, DueInSteps
  <2> QED
    BY <1>2, <1>4, <2>1 DEF WholeRound, GapAccounted
<1> QED
  BY <1>3, <1>4

LEMMA GiveUpRound ==
    ASSUME IInv, NEW s \in Schedulers, WholeRound(s), GapAccounted(s), GivesUp(s), rows \subseteq rows'
    PROVE  (WholeRound(s) /\ GapAccounted(s))'
<1>0. pc[s] \in Awake /\ due'[s] = Tail(due[s]) /\ last'[s] = last[s]
      /\ given[s] \subseteq given'[s] /\ Head(due[s]) \in rows \cup given'[s]
      /\ Step \in Nat /\ Step >= 1
  BY SchedulerAssumption DEF GivesUp, GoesOn
<1>1. CASE Len(due[s]) = 1
  <2>1. pc'[s] \notin Awake
    BY <1>1 DEF GivesUp, GoesOn, Awake
  <2> QED
    BY <2>1 DEF WholeRound, GapAccounted
<1>2. CASE Len(due[s]) # 1
  <2>1. /\ last[s] # Never /\ Head(due[s]) \in Nat /\ last[s] \in Nat
        /\ Head(Tail(due[s])) = Head(due[s]) + Step
        /\ \A i \in 1 .. (Len(Tail(due[s])) - 1) : Tail(due[s])[i + 1] = Tail(due[s])[i] + Step
        /\ last[s] <= Head(due[s])
        /\ \E k \in Nat : Head(due[s]) = last[s] + k * Step
    BY <1>0, <1>2, RestOfRound
  <2> PICK k \in Nat : Head(due[s]) = last[s] + k * Step
    BY <2>1
  <2> PICK h : h = Head(due[s])
    OBVIOUS
  <2> PICK from : from = last[s]
    OBVIOUS
  <2>2. h \in Nat /\ from \in Nat /\ from <= h /\ h = from + k * Step /\ k * Step \in Nat
    BY <1>0, <2>1
  <2>3. (k + 1) * Step = k * Step + Step /\ k + 1 \in Nat
    BY <1>0
  <2>4. h + Step = from + (k + 1) * Step /\ from <= h + Step
    BY <1>0, <2>2, <2>3
  <2>5. ASSUME NEW j \in Nat, from < from + j * Step, from + j * Step < h + Step
        PROVE  from + j * Step \in rows' \cup given'[s]
    <3>1. j * Step \in Nat
      BY <1>0
    <3>2. j * Step < (k + 1) * Step
      BY <1>0, <2>2, <2>3, <2>5, <3>1
    <3>3. j + 1 <= k + 1
      BY <2>3, <3>2, NoneBetween
    <3>4. CASE j = k
      BY <1>0, <2>2, <3>4
    <3>5. CASE j # k
      <4>1. j + 1 <= k
        BY <3>3, <3>5
      <4>2. (j + 1) * Step <= k * Step /\ (j + 1) * Step = j * Step + Step
        BY <1>0, <4>1
      <4>3. from + j * Step < h
        BY <1>0, <2>2, <3>1, <4>2
      <4>4. from + j * Step \in rows \cup given[s]
        BY <1>0, <2>1, <2>5, <4>3 DEF GapAccounted
      <4> QED
        BY <1>0, <4>4
    <3> QED
      BY <3>4, <3>5
  <2>6. Head(due'[s]) = h + Step
    BY <1>0, <2>1
  <2>7. GapAccounted(s)'
    BY <1>0, <2>5, <2>6 DEF GapAccounted
  <2>8. WholeRound(s)'
    BY <1>0, <2>1, <2>3, <2>4, <2>6 DEF WholeRound
  <2> QED
    BY <2>7, <2>8
<1> QED
  BY <1>1, <1>2

LEMMA PassRound ==
    ASSUME IInv, NEW s \in Schedulers, WholeRound(s), Passes(s)
    PROVE  (WholeRound(s) /\ GapAccounted(s))'
<1>0. pc[s] \in Awake /\ due'[s] = Tail(due[s]) /\ last'[s] = Head(due[s])
      /\ Step \in Nat /\ Step >= 1
  BY SchedulerAssumption DEF Passes, GoesOn
<1>1. CASE Len(due[s]) = 1
  <2>1. pc'[s] \notin Awake
    BY <1>1 DEF Passes, GoesOn, Awake
  <2> QED
    BY <2>1 DEF WholeRound, GapAccounted
<1>2. CASE Len(due[s]) # 1
  <2>1. /\ Head(due[s]) \in Nat /\ Head(Tail(due[s])) = Head(due[s]) + Step
        /\ \A i \in 1 .. (Len(Tail(due[s])) - 1) : Tail(due[s])[i + 1] = Tail(due[s])[i] + Step
    BY <1>0, <1>2, RestOfRound
  <2> PICK h : h = Head(due[s])
    OBVIOUS
  <2>2. h \in Nat /\ h # Never /\ h <= h + Step /\ h + Step = h + 1 * Step /\ 1 \in Nat
    BY <1>0, <2>1, SchedulerAssumption
  <2>3. ASSUME NEW j \in Nat, h < h + j * Step, h + j * Step < h + Step
        PROVE  FALSE
    <3>1. j * Step \in Nat /\ 1 * Step = Step
      BY <1>0
    <3>2. j * Step < 1 * Step
      BY <1>0, <2>2, <2>3, <3>1
    <3>3. j + 1 <= 1
      BY <2>2, <3>2, NoneBetween
    <3>4. j = 0
      BY <3>3
    <3> QED
      BY <1>0, <2>2, <2>3, <3>4
  <2>4. Head(due'[s]) = h + Step /\ last'[s] = h
    BY <1>0, <2>1
  <2>5. GapAccounted(s)'
    BY <2>3, <2>4 DEF GapAccounted
  <2>6. WholeRound(s)'
    BY <1>0, <2>1, <2>2, <2>4 DEF WholeRound
  <2> QED
    BY <2>5, <2>6
<1> QED
  BY <1>1, <1>2

LEMMA RoundStep == IInv /\ RoundInv /\ [Next]_vars => RoundInv'
<1> SUFFICES ASSUME IInv, RoundInv, [Next]_vars, NEW s \in Schedulers
             PROVE  (WholeRound(s) /\ GapAccounted(s))'
  BY DEF RoundInv
<1>0. WholeRound(s) /\ GapAccounted(s) /\ rows \subseteq rows'
  BY LoopSteps DEF RoundInv
<1>1. CASE Rests(s)
  BY <1>0, <1>1 DEF Rests, WholeRound, GapAccounted
<1>2. CASE Ends(s)
  BY <1>2 DEF Ends, WholeRound, GapAccounted, Awake
<1>3. CASE Wakes(s)
  BY <1>3, WakeRound
<1>4. CASE GivesUp(s)
  BY <1>0, <1>4, GiveUpRound
<1>5. CASE Passes(s)
  BY <1>0, <1>5, PassRound
<1> QED
  BY <1>1, <1>2, <1>3, <1>4, <1>5, LoopSteps

LEMMA RoundInvariance == Spec => []RoundInv
<1>1. Init => RoundInv
  BY DEF Init, RoundInv, WholeRound, GapAccounted, Awake
<1> QED
  BY <1>1, RoundStep, Invariance, PTL DEF Spec

(***************************************************************************)
(* A loop that steps over a window leaves a row or a reason behind, and it *)
(* never steps back, whatever becomes of locks, claims and runs, and       *)
(* however far it has fallen behind.                                       *)
(***************************************************************************)
THEOREM NoWindowSilentlyLost == Spec => NoSilentGap
<1>1. ASSUME IInv, RoundInv, [Next]_vars, NEW s \in Schedulers, last[s] # Never, last'[s] # Never
      PROVE  /\ last'[s] >= last[s]
             /\ \A w \in Minutes : SteppedOver(s, w) => w \in rows \cup given[s]
  <2>0. last[s] \in Nat /\ Step \in Nat /\ Step >= 1
    BY <1>1, SchedulerAssumption DEF IInv, TypeOK, Minutes
  <2>1. CASE last'[s] = last[s]
    <3>1. ASSUME NEW w \in Minutes, SteppedOver(s, w)
          PROVE  FALSE
      BY <2>0, <2>1, <3>1 DEF SteppedOver, Minutes
    <3> QED
      BY <2>0, <2>1, <3>1
  <2>2. CASE Passes(s)
    <3>1. pc[s] \in Awake /\ last'[s] = Head(due[s]) /\ last[s] <= Head(due[s])
      BY <1>1, <2>2 DEF Passes, GoesOn, RoundInv, WholeRound
    <3>2. ASSUME NEW w \in Minutes, SteppedOver(s, w)
          PROVE  w \in rows \cup given[s]
      <4>1. w \in Nat /\ last[s] < w /\ w < Head(due[s]) /\ (w - last[s]) % Step = 0
        BY <3>1, <3>2 DEF SteppedOver, Minutes
      <4> PICK length : length = w - last[s]
        OBVIOUS
      <4>2. length \in Nat /\ length % Step = 0 /\ w = last[s] + length
        BY <2>0, <4>1
      <4> PICK k : k = length \div Step
        OBVIOUS
      <4>3. k \in Nat /\ length = k * Step
        BY <2>0, <4>2
      <4>4. w = last[s] + k * Step
        BY <4>2, <4>3
      <4> QED
        BY <1>1, <3>1, <4>1, <4>3, <4>4 DEF RoundInv, GapAccounted
    <3> QED
      BY <2>0, <3>1, <3>2
  <2> QED
    BY <1>1, <2>1, <2>2, LoopSteps DEF Rests, Ends, Wakes, GivesUp
<1>2. ASSUME IInv, RoundInv, [Next]_vars
      PROVE  [\A s \in Schedulers :
                last[s] # Never /\ last'[s] # Never =>
                    /\ last'[s] >= last[s]
                    /\ \A w \in Minutes : SteppedOver(s, w) => w \in rows \cup given[s]]_vars
  BY <1>1, <1>2
<1> QED
  BY <1>2, Invariance, RoundInvariance, PTL DEF Spec, NoSilentGap

-----------------------------------------------------------------------------
(***************************************************************************)
(* The refinement.  A loop owns a window from the INSERT of its claim till *)
(* it goes on; its other steps do not show.                                *)
(***************************************************************************)
Working == [s \in Schedulers |-> IF Owns(s) THEN Head(due[s]) ELSE Never]

\* A step that keeps rows, last and what is owned is a stutter.
LEMMA ClaimsStutter ==
    ASSUME rows' = rows, last' = last, Working' = Working
    PROVE  UNCHANGED Claims!claims
  BY DEF Claims!claims, Working

\* Of one loop's step the others see nothing.
LEMMA WorkingAfter ==
    ASSUME NEW s \in Schedulers, NEW w, TypeOK,
           \A t \in Schedulers \ {s} : pc'[t] = pc[t] /\ claim'[t] = claim[t] /\ due'[t] = due[t],
           w = IF pc'[s] = "running" \/ claim'[s] = "won" THEN Head(due'[s]) ELSE Never
    PROVE  Working' = [Working EXCEPT ![s] = w]
<1>1. ASSUME NEW t \in Schedulers
      PROVE  Working'[t] = [Working EXCEPT ![s] = w][t]
  BY <1>1 DEF Working, Owns
<1>2. DOMAIN Working' = Schedulers /\ DOMAIN [Working EXCEPT ![s] = w] = Schedulers
  BY DEF Working
<1> QED
  BY <1>1, <1>2 DEF Working

LEMMA OwnedWindow ==
    ASSUME IInv, NEW s \in Schedulers
    PROVE  /\ Claims!Busy(s) <=> Owns(s)
           /\ pc[s] \in Awake => Head(due[s]) \in Minutes
           /\ Owns(s) => Working[s] = Head(due[s])
           /\ ~ Owns(s) => Working[s] = Never
<1>1. pc[s] \in Awake => Head(due[s]) \in Minutes
  <2>1. due[s] \in Seq(Minutes) /\ (pc[s] \in Awake => Len(due[s]) >= 1)
    BY DEF IInv, TypeOK, RoundShape
  <2> QED
    BY <2>1
<1>2. Owns(s) => pc[s] \in Awake
  BY DEF IInv, RoundShape, Owns, Awake
<1>3. Never \notin Minutes
  BY SchedulerAssumption DEF Minutes
<1> QED
  BY <1>1, <1>2, <1>3 DEF Working, Claims!Busy

\* The steps at which a loop goes on, or nobody's window changes.
LEMMA QuietSteps ==
    ASSUME IInv, NEW s \in Schedulers,
           \/ Start(s) \/ Wake(s) \/ TakeLock(s) \/ LockDenied(s) \/ LockFails(s)
           \/ ClaimThreadFails(s) \/ ClaimWon(s) \/ ClaimRaised(s) \/ SessionLost(s) \/ StopSwallowed(s)
    PROVE  UNCHANGED Claims!claims
<1>a. TypeOK /\ RoundShape
  BY DEF IInv
<1>1. rows' = rows /\ last' = last
  BY DEF Start, Wake, TakeLock, LockDenied, LockFails, ClaimThreadFails, ClaimWon, ClaimRaised, SessionLost,
         StopSwallowed, DropAnswer
<1>2. \A t \in Schedulers \ {s} : pc'[t] = pc[t] /\ claim'[t] = claim[t] /\ due'[t] = due[t]
  BY <1>a DEF TypeOK, Advance, Start, Wake, TakeLock, LockDenied, LockFails, ClaimThreadFails, ClaimWon,
              ClaimRaised, SessionLost, StopSwallowed, DropAnswer
<1>3. CASE ClaimWon(s)
  <2>1. Owns(s) /\ pc'[s] = "running" /\ due'[s] = due[s]
    BY <1>3, <1>a DEF ClaimWon, Owns, TypeOK
  <2>2. Working' = [Working EXCEPT ![s] = Head(due[s])]
    BY <2>1, <1>2, <1>a, WorkingAfter
  <2>3. Working' = Working
    BY <2>1, <2>2 DEF Working
  <2> QED
    BY <1>1, <2>3, ClaimsStutter
<1>4. CASE SessionLost(s)
  <2>1. Working' = Working
    BY <1>4 DEF SessionLost, Working, Owns
  <2> QED
    BY <1>1, <2>1, ClaimsStutter
<1>5. CASE ~ ClaimWon(s) /\ ~ SessionLost(s)
  <2>1. ~ Owns(s) /\ pc'[s] # "running" /\ claim'[s] # "won"
    BY <1>5, <1>a DEF Owns, RoundShape, TypeOK, Awake, Advance, Start, Wake, TakeLock, LockDenied, LockFails,
                      ClaimThreadFails, ClaimRaised, StopSwallowed, DropAnswer
  <2>2. Working' = [Working EXCEPT ![s] = Never]
    BY <2>1, <1>2, <1>a, WorkingAfter
  <2>3. Working' = Working
    BY <2>1, <2>2 DEF Working
  <2> QED
    BY <1>1, <2>3, ClaimsStutter
<1> QED
  BY <1>3, <1>4, <1>5

LEMMA ClaimingSteps ==
    ASSUME IInv, RoundInv, NEW s \in Schedulers, ClaimThread(s)
    PROVE  Claims!ClaimWindow(s, Head(due[s])) \/ UNCHANGED Claims!claims
<1>a. TypeOK /\ RoundShape /\ LastHasRow
  BY DEF IInv
<1>0. pc[s] = "claiming" /\ ~ Owns(s)
  BY <1>a DEF ClaimThread, RoundShape, Owns
<1>1. \A t \in Schedulers \ {s} : pc'[t] = pc[t] /\ claim'[t] = claim[t] /\ due'[t] = due[t]
  BY <1>a DEF ClaimThread, TypeOK
<1>2. pc'[s] = "claiming" /\ due'[s] = due[s] /\ last' = last /\ rows' = rows \cup {Head(due[s])}
  BY <1>0 DEF ClaimThread
<1>3. CASE Head(due[s]) \in rows
  <2>1. claim'[s] = "duplicate" /\ rows' = rows
    BY <1>2, <1>3, <1>a DEF ClaimThread, TypeOK
  <2>2. Working' = [Working EXCEPT ![s] = Never]
    BY <2>1, <1>1, <1>2, <1>a, WorkingAfter
  <2>3. Working' = Working
    BY <1>0, <2>2 DEF Working
  <2> QED
    BY <1>2, <2>1, <2>3, ClaimsStutter
<1>4. CASE Head(due[s]) \notin rows
  <2>1. claim'[s] = "won"
    BY <1>4, <1>a DEF ClaimThread, TypeOK
  <2>2. Working' = [Working EXCEPT ![s] = Head(due[s])]
    BY <2>1, <1>1, <1>2, <1>a, WorkingAfter
  <2>3. last[s] # Never => last[s] < Head(due[s])
    <3>1. Head(due[s]) \in Minutes /\ last[s] \in Minutes \cup {Never}
      BY <1>0, <1>a, OwnedWindow DEF Awake, TypeOK
    <3>2. last[s] # Never => last[s] <= Head(due[s]) /\ last[s] # Head(due[s])
      BY <1>0, <1>4, <1>a DEF RoundInv, WholeRound, Awake, LastHasRow
    <3> QED
      BY <3>1, <3>2 DEF Minutes
  <2> QED
    BY <1>0, <1>2, <1>4, <2>2, <2>3, OwnedWindow DEF Claims!ClaimWindow, Working
<1> QED
  BY <1>3, <1>4

LEMMA ReleasingSteps ==
    ASSUME IInv, RoundInv, NEW s \in Schedulers,
           ClaimDuplicate(s) \/ UnlockFails(s) \/ RunSucceeds(s) \/ RunRaises(s) \/ Stop(s)
    PROVE  \/ Claims!LeaveToOther(s, Head(due[s])) \/ Claims!Finish(s) \/ Claims!LetGo(s) \/ Claims!End(s)
           \/ UNCHANGED Claims!claims
<1>a. TypeOK /\ RoundShape /\ AnsweredHasRow
  BY DEF IInv
<1>1. \A t \in Schedulers \ {s} : pc'[t] = pc[t] /\ claim'[t] = claim[t] /\ due'[t] = due[t]
  BY <1>a DEF ClaimDuplicate, UnlockFails, DropAnswer, RunSucceeds, RunRaises, Stop, Advance, TypeOK
<1>2. rows' = rows /\ pc'[s] # "running" /\ claim'[s] # "won"
  BY <1>a DEF ClaimDuplicate, UnlockFails, DropAnswer, RunSucceeds, RunRaises, Stop, Advance, TypeOK, RoundShape
<1>3. Working' = [Working EXCEPT ![s] = Never]
  BY <1>1, <1>2, <1>a, WorkingAfter
<1>4. CASE ClaimDuplicate(s)
  <2>1. pc[s] = "claiming" /\ ~ Owns(s) /\ Head(due[s]) \in rows
    BY <1>4, <1>a DEF ClaimDuplicate, Owns, AnsweredHasRow
  <2>2. last' = [last EXCEPT ![s] = Head(due[s])]
    BY <1>4 DEF ClaimDuplicate, Passed
  <2>3. last[s] # Never => last[s] <= Head(due[s])
    BY <2>1 DEF RoundInv, WholeRound, Awake
  <2>4. Working' = Working
    BY <1>3, <2>1 DEF Working
  <2> QED
    BY <1>2, <2>1, <2>2, <2>3, <2>4, OwnedWindow DEF Claims!LeaveToOther, Working
<1>5. CASE RunSucceeds(s)
  <2>1. Owns(s) /\ last' = [last EXCEPT ![s] = Head(due[s])]
    BY <1>5 DEF RunSucceeds, Passed, Owns
  <2> QED
    BY <1>2, <1>3, <2>1, OwnedWindow DEF Claims!Finish, Working
<1>6. CASE (UnlockFails(s) \/ RunRaises(s)) /\ Owns(s)
  <2>1. last' = last
    BY <1>6 DEF UnlockFails, DropAnswer, RunRaises
  <2> QED
    BY <1>2, <1>3, <1>6, <2>1, OwnedWindow DEF Claims!LetGo, Working
<1>7. CASE (UnlockFails(s) \/ RunRaises(s)) /\ ~ Owns(s)
  <2>1. last' = last
    BY <1>7 DEF UnlockFails, DropAnswer, RunRaises
  <2>2. Working' = Working
    BY <1>3, <1>7 DEF Working
  <2> QED
    BY <1>2, <2>1, <2>2, ClaimsStutter
<1>8. CASE Stop(s)
  <2>1. last' = [last EXCEPT ![s] = Never]
    BY <1>8 DEF Stop
  <2> QED
    BY <1>2, <1>3, <2>1 DEF Claims!End, Working
<1> QED
  BY <1>4, <1>5, <1>6, <1>7, <1>8

LEMMA ClaimsStep == IInv /\ RoundInv /\ [Next]_vars => [Claims!ClaimsNext]_Claims!claims
<1> SUFFICES ASSUME IInv, RoundInv, [Next]_vars
             PROVE  Claims!ClaimsNext \/ UNCHANGED Claims!claims
  OBVIOUS
<1>1. CASE Tick \/ UNCHANGED vars
  <2>1. rows' = rows /\ last' = last /\ Working' = Working
    BY <1>1 DEF Tick, vars, Working, Owns
  <2> QED
    BY <2>1, ClaimsStutter
<1>2. CASE ManualClaim \/ \E w \in orphans : OrphanClaims(w)
  <2>1. \E w \in Minutes : rows' = rows \cup {w}
    BY <1>2 DEF ManualClaim, OrphanClaims, IInv, TypeOK
  <2> PICK w \in Minutes : rows' = rows \cup {w}
    BY <2>1
  <2>2. last' = last /\ Working' = Working
    BY <1>2 DEF ManualClaim, OrphanClaims, Working, Owns
  <2>3. Claims!ClaimedAside(w)
    BY <2>2 DEF Claims!ClaimedAside, Working
  <2> QED
    BY <2>3 DEF Claims!ClaimsNext
<1>3. ASSUME NEW s \in Schedulers,
             \/ Start(s) \/ Wake(s) \/ TakeLock(s) \/ LockDenied(s) \/ LockFails(s)
             \/ ClaimThreadFails(s) \/ ClaimWon(s) \/ ClaimRaised(s) \/ SessionLost(s) \/ StopSwallowed(s)
      PROVE  UNCHANGED Claims!claims
  BY <1>3, QuietSteps
<1>4. ASSUME NEW s \in Schedulers, ClaimThread(s)
      PROVE  Claims!ClaimsNext \/ UNCHANGED Claims!claims
  <2>1. pc[s] = "claiming"
    BY <1>4 DEF IInv, RoundShape, ClaimThread
  <2>2. Head(due[s]) \in Minutes
    BY <2>1, OwnedWindow DEF Awake
  <2>3. ASSUME Claims!ClaimWindow(s, Head(due[s]))
        PROVE  Claims!ClaimsNext
    BY <2>2, <2>3 DEF Claims!ClaimsNext, Claims!ClaimWindow
  <2>4. Claims!ClaimWindow(s, Head(due[s])) \/ UNCHANGED Claims!claims
    BY <1>4, ClaimingSteps
  <2> QED
    BY <2>3, <2>4
<1>5. ASSUME NEW s \in Schedulers,
             ClaimDuplicate(s) \/ UnlockFails(s) \/ RunSucceeds(s) \/ RunRaises(s) \/ Stop(s)
      PROVE  Claims!ClaimsNext \/ UNCHANGED Claims!claims
  <2>1. Claims!Finish(s) \/ Claims!LetGo(s) \/ Claims!End(s) => Claims!ClaimsNext
    BY DEF Claims!ClaimsNext
  <2>2. ASSUME Claims!LeaveToOther(s, Head(due[s]))
        PROVE  Claims!ClaimsNext
    <3>1. Head(due[s]) \in rows /\ rows \subseteq Minutes
      BY <2>2 DEF Claims!LeaveToOther, IInv, TypeOK
    <3> QED
      BY <2>2, <3>1 DEF Claims!ClaimsNext
  <2> QED
    BY <1>5, <2>1, <2>2, ReleasingSteps
<1> QED
  BY <1>1, <1>2, <1>3, <1>4, <1>5 DEF Next, Threads, Loop

(***************************************************************************)
(* The loops implement WindowClaims, with what a loop owns as the window   *)
(* it works on: the advisory lock, the claiming threads that outlive their *)
(* loops and the order within a round are details that do not show.        *)
(***************************************************************************)
THEOREM SchedulersImplementClaims == Spec => ImplementsClaims
<1>1. Init => Claims!ClaimsInit
  BY DEF Init, Claims!ClaimsInit, Owns
<1> QED
  BY <1>1, ClaimsStep, Invariance, RoundInvariance, PTL DEF Spec, ImplementsClaims, Claims!ClaimsSpec

-----------------------------------------------------------------------------
(***************************************************************************)
(* The requests.  What a window holds is the end of a sequence of times,   *)
(* from the first one that is recent enough.                               *)
(***************************************************************************)
LEMMA LeastNumber == ASSUME NEW T, T \subseteq Nat, T # {} PROVE \E k \in T : \A y \in T : k <= y
<1> DEFINE R == OpToRel(<, Nat)
<1>1. \A x, y \in Nat : x < y => <<x, y>> \in R
  BY DEF OpToRel
<1>2. IsWellFoundedOn(R, Nat)
  BY NatLessThanWellFounded
<1> HIDE DEF R
<1>3. PICK k \in T : \A y \in T : ~ (<<y, k>> \in R)
  BY <1>2, WFMin
<1>4. \A y \in T : ~ (y < k) /\ y \in Nat /\ k \in Nat
  BY <1>1, <1>3, Zenon
<1> QED
  BY <1>4

IsFirst(times, moment, i) ==
    /\ \A j \in 1 .. (i - 1) : times[j] < moment
    /\ i <= Len(times) => times[i] >= moment

LEMMA FirstExists ==
    ASSUME NEW times \in Seq(Nat), NEW moment \in Int
    PROVE  /\ FirstSince(times, moment) \in 1 .. Len(times) + 1
           /\ IsFirst(times, moment, FirstSince(times, moment))
<1> DEFINE n == Len(times)
<1>1. n \in Nat /\ \A i \in 1 .. n : times[i] \in Nat
  OBVIOUS
<1> HIDE DEF n
<1> DEFINE T == {i \in 1 .. n + 1 : i <= n => times[i] >= moment}
<1>2. n + 1 \in T /\ T \subseteq Nat
  BY <1>1
<1>3. PICK k \in T : \A y \in T : k <= y
  BY <1>2, LeastNumber
<1>4. ASSUME NEW j \in 1 .. (k - 1)
      PROVE  times[j] < moment
  <2>1. j \in 1 .. n /\ j < k
    BY <1>1, <1>3
  <2>2. j \notin T
    <3>1. j \in Nat /\ k \in Nat
      BY <1>2, <2>1
    <3> QED
      BY <1>3, <2>1, <3>1
  <2>3. ~ (times[j] >= moment) /\ times[j] \in Nat
    BY <1>1, <2>1, <2>2
  <2> QED
    BY <2>3
<1>5. k \in 1 .. Len(times) + 1 /\ IsFirst(times, moment, k)
  BY <1>3, <1>4 DEF IsFirst, n
<1> QED
  BY <1>5 DEF FirstSince, IsFirst

LEMMA FirstUnique ==
    ASSUME NEW times \in Seq(Nat), NEW moment \in Int, NEW i \in 1 .. Len(times) + 1, IsFirst(times, moment, i)
    PROVE  FirstSince(times, moment) = i
<1> PICK k : k = FirstSince(times, moment)
  OBVIOUS
<1>1. k \in 1 .. Len(times) + 1 /\ IsFirst(times, moment, k)
  BY FirstExists
<1>2. ASSUME NEW a \in 1 .. Len(times) + 1, NEW b \in 1 .. Len(times) + 1, a < b,
             IsFirst(times, moment, a), IsFirst(times, moment, b)
      PROVE  FALSE
  <2>1. a \in 1 .. (b - 1) /\ a \in 1 .. Len(times) /\ a <= Len(times)
    BY <1>2
  <2>2. times[a] < moment /\ times[a] >= moment /\ times[a] \in Nat
    BY <1>2, <2>1 DEF IsFirst
  <2> QED
    BY <2>2
<1>3. k \in Int /\ i \in Int /\ ~ (k < i) /\ ~ (i < k)
  BY <1>1, <1>2
<1> QED
  BY <1>3

LEMMA SinceType ==
    ASSUME NEW times \in Seq(Nat), NEW moment \in Int,
           NEW f, f = FirstSince(times, moment)
    PROVE  /\ Since(times, moment) \in Seq(Nat)
           /\ Len(Since(times, moment)) = Len(times) + 1 - f
           /\ \A i \in 1 .. (Len(times) + 1 - f) : Since(times, moment)[i] = times[f + i - 1]
           /\ f \in 1 .. Len(times) + 1 /\ IsFirst(times, moment, f)
<1> DEFINE n == Len(times)
<1>1. n \in Nat /\ \A i \in 1 .. n : times[i] \in Nat
  OBVIOUS
<1>2. f \in 1 .. n + 1 /\ IsFirst(times, moment, f)
  BY FirstExists
<1>3. Since(times, moment) = SubSeq(times, f, n)
  BY DEF Since
<1> HIDE DEF n
<1>4. f \in Int /\ n \in Int /\ \A i \in f .. n : times[i] \in Nat
  BY <1>1, <1>2
<1>5. /\ SubSeq(times, f, n) \in Seq(Nat)
      /\ Len(SubSeq(times, f, n)) = IF f <= n THEN n - f + 1 ELSE 0
      /\ \A i \in 1 .. n - f + 1 : SubSeq(times, f, n)[i] = times[f + i - 1]
  BY <1>4, SubSeqProperties
<1>6. Len(SubSeq(times, f, n)) = n + 1 - f
  BY <1>2, <1>4, <1>5
<1>7. n - f + 1 = n + 1 - f
  BY <1>4
<1> QED
  BY <1>2, <1>3, <1>5, <1>6, <1>7 DEF n

\* Dropping what is old now drops nothing that a later moment would keep.
LEMMA SinceTwice ==
    ASSUME NEW times \in Seq(Nat), NEW a \in Int, NEW b \in Int, a <= b
    PROVE  Since(Since(times, a), b) = Since(times, b)
<1> DEFINE f == FirstSince(times, a)
           s == Since(times, a)
           n == Len(times)
           g == FirstSince(s, b)
           t == Since(s, b)
           h == f + g - 1
           u == Since(times, b)
<1>0. n \in Nat /\ \A i \in 1 .. n : times[i] \in Nat
  OBVIOUS
<1>1. /\ s \in Seq(Nat) /\ Len(s) = n + 1 - f
      /\ \A i \in 1 .. (n + 1 - f) : s[i] = times[f + i - 1]
      /\ f \in 1 .. n + 1 /\ IsFirst(times, a, f)
  BY SinceType
<1> HIDE DEF f, s
<1>e. s \in Seq(Nat)
  BY <1>1
<1>2. /\ t \in Seq(Nat) /\ Len(t) = Len(s) + 1 - g
      /\ \A i \in 1 .. (Len(s) + 1 - g) : t[i] = s[g + i - 1]
      /\ g \in 1 .. Len(s) + 1 /\ IsFirst(s, b, g)
  BY <1>e, SinceType
<1> HIDE DEF g, t
<1>3. f \in Int /\ g \in Int /\ h \in 1 .. n + 1 /\ g \in 1 .. n + 2 - f /\ 1 <= f /\ f <= n + 1
  <2> HIDE DEF n
  <2>1. n \in Nat /\ f \in 1 .. n + 1 /\ Len(s) = n + 1 - f /\ g \in 1 .. Len(s) + 1
    BY <1>0, <1>1, <1>2
  <2>2. g \in 1 .. (n + 1 - f) + 1
    BY <2>1
  <2> QED
    BY <2>1, <2>2
<1>a. FirstSince(times, b) = h => /\ u \in Seq(Nat) /\ Len(u) = n + 1 - h
                                  /\ \A i \in 1 .. (n + 1 - h) : u[i] = times[h + i - 1]
  <2> DEFINE w == FirstSince(times, b)
  <2>1. /\ u \in Seq(Nat) /\ Len(u) = n + 1 - w
        /\ \A i \in 1 .. (n + 1 - w) : u[i] = times[w + i - 1]
    BY SinceType
  <2> HIDE DEF h, w, u, n
  <2>2. w = h => /\ u \in Seq(Nat) /\ Len(u) = n + 1 - h
                 /\ \A i \in 1 .. (n + 1 - h) : u[i] = times[h + i - 1]
    BY <2>1
  <2> QED
    BY <2>2 DEF w
<1>b. h \in 1 .. n + 1 /\ IsFirst(times, b, h) => FirstSince(times, b) = h
  <2> HIDE DEF h
  <2> QED
    BY FirstUnique
<1>c. (\A j \in 1 .. (h - 1) : times[j] < b) /\ (h <= n => times[h] >= b) => IsFirst(times, b, h)
  BY DEF IsFirst
<1>d. /\ \A j \in 1 .. (f - 1) : times[j] < a
      /\ \A j \in 1 .. (g - 1) : s[j] < b
      /\ g <= n + 1 - f => s[g] >= b
  BY <1>1, <1>2 DEF IsFirst
<1> HIDE DEF n, u
<1>4. ASSUME NEW j \in 1 .. (h - 1)
      PROVE  times[j] < b
  <2>0. j \in 1 .. n /\ times[j] \in Nat
    BY <1>0, <1>3
  <2>1. CASE j < f
    <3>1. j \in 1 .. (f - 1)
      BY <1>3, <2>1
    <3>2. times[j] < a
      BY <1>d, <3>1
    <3> QED
      BY <2>0, <3>2
  <2>2. CASE f <= j
    <3> PICK i : i = j - f + 1
      OBVIOUS
    <3>1. i \in 1 .. (g - 1) /\ i \in 1 .. (n + 1 - f) /\ f + i - 1 = j
      BY <1>0, <1>3, <2>0, <2>2
    <3>2. s[i] = times[f + i - 1] /\ s[i] < b
      BY <1>1, <1>d, <3>1
    <3> QED
      BY <3>1, <3>2
  <2> QED
    BY <1>3, <2>0, <2>1, <2>2
<1>5. ASSUME h <= n
      PROVE  times[h] >= b
  <2>1. g <= n + 1 - f /\ g \in 1 .. (n + 1 - f) /\ f + g - 1 = h
    BY <1>0, <1>3, <1>5
  <2>2. s[g] = times[f + g - 1] /\ s[g] >= b
    BY <1>1, <1>d, <2>1
  <2> QED
    BY <2>1, <2>2
<1>6. FirstSince(times, b) = h
  BY <1>3, <1>4, <1>5, <1>b, <1>c
<1>7. /\ u \in Seq(Nat) /\ Len(u) = n + 1 - h
      /\ \A i \in 1 .. (n + 1 - h) : u[i] = times[h + i - 1]
  BY <1>6, <1>a
<1>8. Len(t) = Len(u) /\ Len(u) = n + 1 - h /\ Len(s) + 1 - g = n + 1 - h
  BY <1>0, <1>1, <1>2, <1>3, <1>7
<1>9. ASSUME NEW i \in 1 .. (n + 1 - h)
      PROVE  t[i] = u[i]
  <2>1. g + i - 1 \in 1 .. (n + 1 - f) /\ f + (g + i - 1) - 1 = h + i - 1
    BY <1>0, <1>3
  <2>2. t[i] = s[g + i - 1]
    BY <1>2, <1>8
  <2>3. s[g + i - 1] = times[h + i - 1]
    BY <1>1, <2>1
  <2> QED
    BY <1>7, <2>2, <2>3
<1>10. t = u
  BY <1>2, <1>7, <1>8, <1>9, SeqEqual
<1> QED
  BY <1>10 DEF t, s, u

LEMMA AllOld ==
    ASSUME NEW times \in Seq(Nat), NEW moment \in Int, \A i \in DOMAIN times : times[i] < moment
    PROVE  Since(times, moment) = <<>>
<1> PICK n : n = Len(times)
  OBVIOUS
<1>1. n \in Nat /\ DOMAIN times = 1 .. n
  OBVIOUS
<1>2. n + 1 \in 1 .. n + 1 /\ IsFirst(times, moment, n + 1)
  BY <1>1 DEF IsFirst
<1>3. FirstSince(times, moment) = n + 1
  BY <1>2, FirstUnique
<1>4. SubSeq(times, n + 1, n) = <<>>
  BY <1>1, SubSeqEmpty
<1> QED
  BY <1>3, <1>4 DEF Since

\* A window holds every request of the last minute, so it bounds their number.
LEMMA CountedInWindow ==
    ASSUME NEW times \in Seq(Nat), NEW moment \in Int
    PROVE  /\ Cardinality({i \in DOMAIN times : times[i] >= moment}) \in Nat
           /\ Cardinality({i \in DOMAIN times : times[i] >= moment}) <= Len(Since(times, moment))
<1> DEFINE n == Len(times)
           f == FirstSince(times, moment)
           Late == {i \in DOMAIN times : times[i] >= moment}
<1>0. n \in Nat /\ DOMAIN times = 1 .. n /\ \A i \in 1 .. n : times[i] \in Nat
  OBVIOUS
<1>1. f \in 1 .. n + 1 /\ IsFirst(times, moment, f) /\ Len(Since(times, moment)) = n + 1 - f
  BY SinceType
<1> HIDE DEF n, f
<1>2. Late \subseteq f .. n
  <2> SUFFICES ASSUME NEW i \in Late, ~ (i \in f .. n)
               PROVE  FALSE
    OBVIOUS
  <2>1. i \in 1 .. n /\ times[i] >= moment /\ times[i] \in Nat
    BY <1>0
  <2>2. i \in 1 .. (f - 1)
    BY <1>0, <1>1, <2>1
  <2>3. times[i] < moment
    BY <1>1, <2>2 DEF IsFirst
  <2> QED
    BY <2>1, <2>3
<1>3. IsFiniteSet(f .. n) /\ Cardinality(f .. n) = n + 1 - f
  <2>1. f \in Int /\ n \in Int /\ f <= n + 1
    BY <1>0, <1>1
  <2>2. IsFiniteSet(f .. n) /\ Cardinality(f .. n) = IF f > n THEN 0 ELSE n - f + 1
    BY <2>1, FS_Interval
  <2> QED
    BY <2>1, <2>2
<1>4. IsFiniteSet(Late) /\ Cardinality(Late) <= Cardinality(f .. n)
  BY <1>2, <1>3, FS_Subset
<1>5. Cardinality(Late) \in Nat
  BY <1>4, FS_CardinalityType
<1> QED
  BY <1>1, <1>3, <1>4, <1>5

-----------------------------------------------------------------------------
(***************************************************************************)
(* The windows.  What a key's window holds and what was let in agree on    *)
(* the last minute; what only the history still has is older than the last *)
(* time the key was seen, and a key that is forgotten has nothing younger  *)
(* than a window.                                                          *)
(***************************************************************************)
Matches(times, kept, lastSeen, limit, now) ==
    /\ times \in Seq(Nat) /\ kept \in Seq(Nat) /\ Len(times) <= limit
    /\ Since(times, now - Window) = Since(kept, now - Window)
    /\ lastSeen \in Nat => lastSeen <= now /\ \A i \in DOMAIN kept : kept[i] <= lastSeen
    /\ lastSeen \notin Nat => times = <<>> /\ \A i \in DOMAIN kept : kept[i] < now - Window

AllMatch(times, kept, lastSeen, limit, now) ==
    /\ times \in [Keys -> Seq(Nat)] /\ kept \in [Keys -> Seq(Nat)] /\ lastSeen \in [Keys -> Nat \cup {Unseen}]
    /\ \A k \in Keys : Matches(times[k], kept[k], lastSeen[k], limit, now)

ApiInv ==
    /\ apiNow \in Nat
    /\ AllMatch(stamps, granted, seen, Limit, apiNow)
    /\ AllMatch(replayStamps, replayGranted, replaySeen, ReplayLimit, apiNow)

LEMMA SinceParts ==
    ASSUME NEW times \in Seq(Nat), NEW moment \in Int
    PROVE  /\ Since(times, moment) \in Seq(Nat) /\ Len(Since(times, moment)) <= Len(times)
           /\ \A i \in DOMAIN Since(times, moment) :
                 \E j \in DOMAIN times : Since(times, moment)[i] = times[j]
<1> DEFINE f == FirstSince(times, moment)
           n == Len(times)
           s == Since(times, moment)
<1>1. n \in Nat /\ DOMAIN times = 1 .. n
  OBVIOUS
<1>2. /\ s \in Seq(Nat) /\ Len(s) = n + 1 - f /\ f \in 1 .. n + 1
      /\ \A i \in 1 .. (n + 1 - f) : s[i] = times[f + i - 1]
  BY SinceType
<1> HIDE DEF f, n, s
<1>3. DOMAIN s = 1 .. (n + 1 - f)
  BY <1>2
<1>4. n + 1 - f <= n
  BY <1>1, <1>2
<1>5. ASSUME NEW i \in 1 .. (n + 1 - f)
      PROVE  \E j \in DOMAIN times : s[i] = times[j]
  <2>1. f + i - 1 \in DOMAIN times
    BY <1>1, <1>2
  <2> QED
    BY <1>2, <2>1
<1>6. s \in Seq(Nat) /\ Len(s) <= n /\ \A i \in DOMAIN s : \E j \in DOMAIN times : s[i] = times[j]
  BY <1>2, <1>3, <1>4, <1>5
<1> QED
  BY <1>6 DEF s, n

LEMMA SinceOfEmpty == ASSUME NEW moment \in Int PROVE Since(<<>>, moment) = <<>>
<1>1. <<>> \in Seq(Nat) /\ \A i \in DOMAIN <<>> : <<>>[i] < moment
  OBVIOUS
<1> QED
  BY <1>1, AllOld

\* What a later moment keeps is a matter of what an earlier one kept.
LEMMA LaterAgrees ==
    ASSUME NEW times \in Seq(Nat), NEW kept \in Seq(Nat), NEW a \in Int, NEW b \in Int, a <= b,
           Since(times, a) = Since(kept, a)
    PROVE  Since(times, b) = Since(kept, b)
  BY SinceTwice

LEMMA TimePasses ==
    ASSUME NEW times, NEW kept, NEW lastSeen, NEW limit, NEW now \in Nat, NEW later \in Nat,
           Matches(times, kept, lastSeen, limit, now), later = now + 1
    PROVE  Matches(times, kept, lastSeen, limit, later)
<1>1. /\ times \in Seq(Nat) /\ kept \in Seq(Nat) /\ Len(times) <= limit
      /\ Since(times, now - Window) = Since(kept, now - Window)
  BY DEF Matches
<1>2. now - Window \in Int /\ later - Window \in Int /\ now - Window <= later - Window
  BY ApiAssumption
<1>3. Since(times, later - Window) = Since(kept, later - Window)
  BY <1>1, <1>2, LaterAgrees
<1>4. \A i \in DOMAIN kept : kept[i] \in Nat
  BY <1>1
<1>5. \A m \in Nat : m < now - Window => m < later - Window
  BY ApiAssumption
<1>6. \A m \in Nat : m <= now => m <= later
  OBVIOUS
<1>7. ASSUME lastSeen \in Nat
      PROVE  lastSeen <= later /\ \A i \in DOMAIN kept : kept[i] <= lastSeen
  <2>1. lastSeen <= now /\ \A i \in DOMAIN kept : kept[i] <= lastSeen
    BY <1>7 DEF Matches
  <2> QED
    BY <1>6, <1>7, <2>1
<1>8. ASSUME lastSeen \notin Nat
      PROVE  times = <<>> /\ \A i \in DOMAIN kept : kept[i] < later - Window
  <2>1. times = <<>> /\ \A i \in DOMAIN kept : kept[i] < now - Window
    BY <1>8 DEF Matches
  <2> QED
    BY <1>4, <1>5, <2>1
<1> QED
  BY <1>1, <1>3, <1>7, <1>8 DEF Matches

\* A key that was not seen for a window holds nothing that still counts.
LEMMA StaleIsOld ==
    ASSUME NEW times, NEW kept, NEW lastSeen \in Nat, NEW limit \in Nat, NEW now \in Nat,
           Matches(times, kept, lastSeen, limit, now),
           lastSeen < now - (IF KeyTtl > Window THEN KeyTtl ELSE Window)
    PROVE  Matches(<<>>, kept, Unseen, limit, now)
<1>1. kept \in Seq(Nat) /\ \A i \in DOMAIN kept : kept[i] <= lastSeen
  BY DEF Matches
<1>2. now - Window \in Int /\ lastSeen < now - Window
  BY ApiAssumption
<1>3. \A m \in Nat : m <= lastSeen => m < now - Window
  BY <1>2
<1>4. \A i \in DOMAIN kept : kept[i] \in Nat
  BY <1>1
<1>5. \A i \in DOMAIN kept : kept[i] < now - Window
  BY <1>1, <1>3, <1>4
<1>6. Since(kept, now - Window) = <<>> /\ Since(<<>>, now - Window) = <<>>
  BY <1>1, <1>2, <1>5, AllOld, SinceOfEmpty
<1>7. <<>> \in Seq(Nat) /\ Len(<<>>) <= limit /\ Unseen \notin Nat
  BY DEF Unseen
<1> QED
  BY <1>1, <1>5, <1>6, <1>7 DEF Matches

LEMMA NothingMatches ==
    ASSUME NEW limit \in Nat, NEW now \in Nat
    PROVE  Matches(<<>>, <<>>, Unseen, limit, now)
<1>1. Len(<<>>) <= limit /\ Unseen \notin Nat /\ <<>> \in Seq(Nat) /\ DOMAIN <<>> = {}
  BY DEF Unseen
<1> QED
  BY <1>1 DEF Matches

LEMMA KeptIsPast ==
    ASSUME NEW times, NEW kept, NEW lastSeen \in Nat \cup {Unseen}, NEW limit, NEW now \in Nat,
           Matches(times, kept, lastSeen, limit, now)
    PROVE  \A i \in DOMAIN kept : kept[i] <= now
<1>1. \A i \in DOMAIN kept : kept[i] \in Nat
  BY DEF Matches
<1>2. CASE lastSeen \in Nat
  <2>1. lastSeen <= now /\ \A i \in DOMAIN kept : kept[i] <= lastSeen
    BY <1>2 DEF Matches
  <2>2. \A m \in Nat : m <= lastSeen => m <= now
    BY <1>2, <2>1
  <2> QED
    BY <1>1, <2>1, <2>2
<1>3. CASE lastSeen \notin Nat
  <2>1. \A i \in DOMAIN kept : kept[i] < now - Window
    BY <1>3 DEF Matches
  <2>2. \A m \in Nat : m < now - Window => m <= now
    BY ApiAssumption
  <2> QED
    BY <1>1, <2>1, <2>2
<1> QED
  BY <1>2, <1>3

LEMMA RefusedMatches ==
    ASSUME NEW times, NEW kept, NEW lastSeen \in Nat \cup {Unseen}, NEW limit \in Nat, NEW now \in Nat,
           Matches(times, kept, lastSeen, limit, now)
    PROVE  Matches(Since(times, now - Window), kept, now, limit, now)
<1> DEFINE from == now - Window
           recent == Since(times, from)
<1>1. /\ times \in Seq(Nat) /\ kept \in Seq(Nat) /\ Len(times) <= limit
      /\ Since(times, from) = Since(kept, from)
  BY DEF Matches
<1>2. from \in Int /\ from <= from
  BY ApiAssumption
<1> HIDE DEF from
<1>3. recent \in Seq(Nat) /\ Len(recent) <= Len(times)
  BY <1>1, <1>2, SinceParts
<1>4. Since(recent, from) = Since(kept, from)
  BY <1>1, <1>2, SinceTwice
<1> HIDE DEF recent
<1>5. Len(recent) <= limit
  <2>1. Len(recent) \in Nat /\ Len(times) \in Nat
    BY <1>1, <1>3
  <2> QED
    BY <1>1, <1>3, <2>1
<1>6. \A i \in DOMAIN kept : kept[i] <= now
  BY KeptIsPast
<1>7. now <= now
  OBVIOUS
<1>8. Matches(recent, kept, now, limit, now)
  BY <1>1, <1>3, <1>4, <1>5, <1>6, <1>7 DEF Matches, from
<1> QED
  BY <1>8 DEF recent, from

LEMMA AdmittedMatches ==
    ASSUME NEW times, NEW kept, NEW lastSeen \in Nat \cup {Unseen}, NEW limit \in Nat, NEW now \in Nat,
           Matches(times, kept, lastSeen, limit, now),
           Len(Since(times, now - Window)) < limit
    PROVE  Matches(Append(Since(times, now - Window), now), Append(Since(kept, now - Window), now),
                   now, limit, now)
<1> DEFINE from == now - Window
           recent == Since(kept, from)
           more == Append(recent, now)
<1>1. /\ times \in Seq(Nat) /\ kept \in Seq(Nat)
      /\ Since(times, from) = recent
  BY DEF Matches
<1>2. from \in Int
  BY ApiAssumption
<1>3. /\ recent \in Seq(Nat) /\ Len(recent) < limit
      /\ \A i \in DOMAIN recent : \E j \in DOMAIN kept : recent[i] = kept[j]
  BY <1>1, <1>2, SinceParts
<1>4. \A i \in DOMAIN kept : kept[i] <= now
  BY KeptIsPast
<1>5. \A i \in DOMAIN recent : recent[i] <= now
  BY <1>3, <1>4
<1> HIDE DEF from, recent
<1>6. /\ more \in Seq(Nat) /\ Len(more) = Len(recent) + 1
      /\ \A i \in DOMAIN more : (i \in DOMAIN recent /\ more[i] = recent[i]) \/ more[i] = now
  BY <1>3
<1>7. Len(more) <= limit
  BY <1>3, <1>6
<1> HIDE DEF more
<1>8. now <= now
  OBVIOUS
<1>9. \A i \in DOMAIN more : more[i] <= now
  BY <1>5, <1>6, <1>8
<1>10. Matches(more, more, now, limit, now)
  BY <1>6, <1>7, <1>8, <1>9 DEF Matches
<1> QED
  BY <1>1, <1>10 DEF more, recent, from

\* What a request does to the windows keeps them in agreement.
LEMMA RequestKeeps ==
    ASSUME NEW times, NEW kept, NEW lastSeen, NEW limit \in Nat, NEW now \in Nat, NEW k \in Keys,
           AllMatch(times, kept, lastSeen, limit, now),
           NEW recent, recent = Since(times[k], now - Window),
           NEW times2, NEW kept2, NEW lastSeen2,
           times2 = [times EXCEPT ![k] = IF Len(recent) < limit THEN Append(recent, now) ELSE recent],
           kept2 = [kept EXCEPT ![k] = IF Len(recent) < limit THEN Append(Since(@, now - Window), now) ELSE @],
           lastSeen2 = [lastSeen EXCEPT ![k] = now]
    PROVE  AllMatch(times2, kept2, lastSeen2, limit, now)
<1> DEFINE from == now - Window
           admitted == Len(recent) < limit
           t == IF admitted THEN Append(recent, now) ELSE recent
           g == IF admitted THEN Append(Since(kept[k], from), now) ELSE kept[k]
           T == [times EXCEPT ![k] = t]
           G == [kept EXCEPT ![k] = g]
           L == [lastSeen EXCEPT ![k] = now]
<1>1. /\ times \in [Keys -> Seq(Nat)] /\ kept \in [Keys -> Seq(Nat)] /\ lastSeen \in [Keys -> Nat \cup {Unseen}]
      /\ \A j \in Keys : Matches(times[j], kept[j], lastSeen[j], limit, now)
  BY DEF AllMatch
<1>2. Matches(times[k], kept[k], lastSeen[k], limit, now) /\ lastSeen[k] \in Nat \cup {Unseen}
  BY <1>1
<1>3. Matches(t, g, now, limit, now)
  <2>1. CASE admitted
    BY <1>2, <2>1, AdmittedMatches
  <2>2. CASE ~ admitted
    BY <1>2, <2>2, RefusedMatches
  <2> QED
    BY <2>1, <2>2
<1> HIDE DEF t, g
<1>4. t \in Seq(Nat) /\ g \in Seq(Nat)
  BY <1>3 DEF Matches
<1>5. T \in [Keys -> Seq(Nat)] /\ G \in [Keys -> Seq(Nat)] /\ L \in [Keys -> Nat \cup {Unseen}]
  BY <1>1, <1>4
<1>6. ASSUME NEW j \in Keys
      PROVE  Matches(T[j], G[j], L[j], limit, now)
  <2>1. CASE j = k
    <3>1. T[j] = t /\ G[j] = g /\ L[j] = now
      BY <1>1, <2>1
    <3> QED
      BY <1>3, <3>1
  <2>2. CASE j # k
    <3>1. T[j] = times[j] /\ G[j] = kept[j] /\ L[j] = lastSeen[j]
      BY <1>1, <2>2
    <3> QED
      BY <1>1, <3>1
  <2> QED
    BY <2>1, <2>2
<1>7. AllMatch(T, G, L, limit, now)
  BY <1>5, <1>6 DEF AllMatch
<1> QED
  BY <1>7 DEF t, g

\* So does a sweep, by age or by number.
LEMMA SweepKeeps ==
    ASSUME NEW times, NEW kept, NEW lastSeen, NEW limit \in Nat,
           AllMatch(times, kept, lastSeen, limit, apiNow), apiNow \in Nat,
           NEW old \in SUBSET Stale(lastSeen), NEW evicted \in SUBSET Keys
    PROVE  AllMatch(Without(times, evicted \cup old, <<>>), Without(kept, evicted, <<>>),
                    Without(lastSeen, evicted \cup old, Unseen), limit, apiNow)
<1> DEFINE T == Without(times, evicted \cup old, <<>>)
           G == Without(kept, evicted, <<>>)
           L == Without(lastSeen, evicted \cup old, Unseen)
<1>1. /\ times \in [Keys -> Seq(Nat)] /\ kept \in [Keys -> Seq(Nat)] /\ lastSeen \in [Keys -> Nat \cup {Unseen}]
      /\ \A j \in Keys : Matches(times[j], kept[j], lastSeen[j], limit, apiNow)
  BY DEF AllMatch
<1>2. <<>> \in Seq(Nat)
  OBVIOUS
<1>3. T \in [Keys -> Seq(Nat)] /\ G \in [Keys -> Seq(Nat)] /\ L \in [Keys -> Nat \cup {Unseen}]
  BY <1>1, <1>2 DEF Without
<1>4. ASSUME NEW j \in Keys
      PROVE  Matches(T[j], G[j], L[j], limit, apiNow)
  <2>1. CASE j \in evicted
    <3>1. T[j] = <<>> /\ G[j] = <<>> /\ L[j] = Unseen
      BY <2>1 DEF Without
    <3> QED
      BY <3>1, NothingMatches
  <2>2. CASE j \notin evicted /\ j \in old
    <3>1. T[j] = <<>> /\ G[j] = kept[j] /\ L[j] = Unseen
      BY <2>2 DEF Without
    <3>2. lastSeen[j] # Unseen /\ lastSeen[j] < apiNow - (IF KeyTtl > Window THEN KeyTtl ELSE Window)
      BY <2>2 DEF Stale, StaleBefore
    <3>3. lastSeen[j] \in Nat
      BY <1>1, <3>2
    <3>4. Matches(<<>>, kept[j], Unseen, limit, apiNow)
      BY <1>1, <3>2, <3>3, StaleIsOld
    <3> QED
      BY <3>1, <3>4
  <2>3. CASE j \notin evicted /\ j \notin old
    <3>1. T[j] = times[j] /\ G[j] = kept[j] /\ L[j] = lastSeen[j]
      BY <2>3 DEF Without
    <3> QED
      BY <1>1, <3>1
  <2> QED
    BY <2>1, <2>2, <2>3
<1> QED
  BY <1>3, <1>4 DEF AllMatch

LEMMA ApiInitInv == ApiInit => ApiInv
<1> SUFFICES ASSUME ApiInit PROVE ApiInv
  OBVIOUS
<1>1. apiNow = 0 /\ Limit \in Nat /\ ReplayLimit \in Nat
  BY ApiAssumption DEF ApiInit
<1>2. Matches(<<>>, <<>>, Unseen, Limit, 0) /\ Matches(<<>>, <<>>, Unseen, ReplayLimit, 0)
  BY <1>1, NothingMatches
<1>3. <<>> \in Seq(Nat)
  OBVIOUS
<1>4. /\ stamps = [k \in Keys |-> <<>>] /\ granted = [k \in Keys |-> <<>>] /\ seen = [k \in Keys |-> Unseen]
      /\ replayStamps = [k \in Keys |-> <<>>] /\ replayGranted = [k \in Keys |-> <<>>]
      /\ replaySeen = [k \in Keys |-> Unseen]
  BY DEF ApiInit
<1>5. AllMatch(stamps, granted, seen, Limit, apiNow)
  BY <1>1, <1>2, <1>3, <1>4 DEF AllMatch
<1>6. AllMatch(replayStamps, replayGranted, replaySeen, ReplayLimit, apiNow)
  BY <1>1, <1>2, <1>3, <1>4 DEF AllMatch
<1> QED
  BY <1>1, <1>5, <1>6 DEF ApiInv

LEMMA EnterKeeps ==
    ASSUME NEW k \in Keys, ApiInv, Enter(k)
    PROVE  AllMatch(stamps', granted', seen', Limit, apiNow)
<1>p. PICK E \in (IF SweepDue THEN Overflows ELSE {{}}) :
        LET gone == IF SweepDue THEN E \cup Stale(seen) ELSE {}
            recent == Recent(Without(stamps, gone, <<>>)[k])
            admitted == Len(recent) < Limit
        IN  /\ stamps' = [Without(stamps, gone, <<>>) EXCEPT
                             ![k] = IF admitted THEN Append(recent, apiNow) ELSE recent]
            /\ seen' = [Without(seen, gone, Unseen) EXCEPT ![k] = apiNow]
            /\ granted' = [Without(granted, E, <<>>) EXCEPT
                              ![k] = IF admitted THEN Append(Recent(@), apiNow) ELSE @]
  BY DEF Enter
<1> DEFINE old == IF SweepDue THEN Stale(seen) ELSE {}
           gone == IF SweepDue THEN E \cup Stale(seen) ELSE {}
           T == Without(stamps, gone, <<>>)
           G == Without(granted, E, <<>>)
           L == Without(seen, gone, Unseen)
           recent == Recent(T[k])
           admitted == Len(recent) < Limit
<1>1. /\ stamps' = [T EXCEPT ![k] = IF admitted THEN Append(recent, apiNow) ELSE recent]
      /\ seen' = [L EXCEPT ![k] = apiNow]
      /\ granted' = [G EXCEPT ![k] = IF admitted THEN Append(Recent(@), apiNow) ELSE @]
  BY <1>p
<1>2. gone = E \cup old
  OBVIOUS
<1>3. E \in SUBSET Keys /\ old \in SUBSET Stale(seen)
  BY DEF Overflows
<1>4. apiNow \in Nat /\ Limit \in Nat /\ AllMatch(stamps, granted, seen, Limit, apiNow)
  BY ApiAssumption DEF ApiInv
<1> HIDE DEF old, gone
<1>5. AllMatch(T, G, L, Limit, apiNow)
  BY <1>2, <1>3, <1>4, SweepKeeps
<1> HIDE DEF T, G, L
<1>6. recent = Since(T[k], apiNow - Window)
  BY DEF Recent
<1>7. granted' = [G EXCEPT ![k] = IF admitted THEN Append(Since(@, apiNow - Window), apiNow) ELSE @]
  BY <1>1 DEF Recent
<1> HIDE DEF recent
<1> QED
  BY <1>1, <1>4, <1>5, <1>6, <1>7, RequestKeeps

LEMMA ReplayKeeps ==
    ASSUME NEW k \in Keys, ApiInv, Replay(k)
    PROVE  AllMatch(replayStamps', replayGranted', replaySeen', ReplayLimit, apiNow)
<1> DEFINE swept == apiNow - replaySweptAt >= SweepInterval
           gone == IF swept THEN Stale(replaySeen) ELSE {}
           T == Without(replayStamps, gone, <<>>)
           L == Without(replaySeen, gone, Unseen)
           G == Without(replayGranted, {}, <<>>)
           recent == Recent(T[k])
           admitted == Len(recent) < ReplayLimit
<1>1. /\ replayStamps' = [T EXCEPT ![k] = IF admitted THEN Append(recent, apiNow) ELSE recent]
      /\ replaySeen' = [L EXCEPT ![k] = apiNow]
      /\ replayGranted' = [replayGranted EXCEPT ![k] = IF admitted THEN Append(Recent(@), apiNow) ELSE @]
  BY DEF Replay
<1>2. apiNow \in Nat /\ ReplayLimit \in Nat /\ AllMatch(replayStamps, replayGranted, replaySeen, ReplayLimit, apiNow)
  BY ApiAssumption DEF ApiInv
<1>3. G = replayGranted
  BY <1>2 DEF AllMatch, Without
<1>4. gone \in SUBSET Stale(replaySeen) /\ gone = {} \cup gone
  OBVIOUS
<1> HIDE DEF gone
<1>5. AllMatch(T, G, L, ReplayLimit, apiNow)
  BY <1>2, <1>4, SweepKeeps
<1> HIDE DEF T, G, L
<1>6. recent = Since(T[k], apiNow - Window)
  BY DEF Recent
<1>7. replayGranted' = [G EXCEPT ![k] = IF admitted THEN Append(Since(@, apiNow - Window), apiNow) ELSE @]
  BY <1>1, <1>3 DEF Recent
<1> HIDE DEF recent
<1> QED
  BY <1>1, <1>2, <1>5, <1>6, <1>7, RequestKeeps

LEMMA ApiInvStep == ApiInv /\ [ApiNext]_apiVars => ApiInv'
<1> SUFFICES ASSUME ApiInv, [ApiNext]_apiVars PROVE ApiInv'
  OBVIOUS
<1>0. /\ apiNow \in Nat
      /\ AllMatch(stamps, granted, seen, Limit, apiNow)
      /\ AllMatch(replayStamps, replayGranted, replaySeen, ReplayLimit, apiNow)
  BY DEF ApiInv
<1>1. CASE ApiTick
  <2>1. /\ apiNow' = apiNow + 1 /\ apiNow' \in Nat
        /\ stamps' = stamps /\ granted' = granted /\ seen' = seen
        /\ replayStamps' = replayStamps /\ replayGranted' = replayGranted /\ replaySeen' = replaySeen
    BY <1>0, <1>1 DEF ApiTick, windowVars, replayVars
  <2>2. AllMatch(stamps, granted, seen, Limit, apiNow')
    BY <1>0, <2>1, TimePasses DEF AllMatch
  <2>3. AllMatch(replayStamps, replayGranted, replaySeen, ReplayLimit, apiNow')
    BY <1>0, <2>1, TimePasses DEF AllMatch
  <2> QED
    BY <2>1, <2>2, <2>3 DEF ApiInv
<1>2. ASSUME NEW k \in Keys, Enter(k)
      PROVE  ApiInv'
  <2>1. AllMatch(stamps', granted', seen', Limit, apiNow)
    BY <1>2, EnterKeeps
  <2>2. /\ apiNow' = apiNow
        /\ replayStamps' = replayStamps /\ replayGranted' = replayGranted /\ replaySeen' = replaySeen
    BY <1>2 DEF Enter, replayVars
  <2> QED
    BY <1>0, <2>1, <2>2 DEF ApiInv
<1>3. ASSUME NEW k \in Keys, Replay(k)
      PROVE  ApiInv'
  <2>1. AllMatch(replayStamps', replayGranted', replaySeen', ReplayLimit, apiNow)
    BY <1>3, ReplayKeeps
  <2>2. apiNow' = apiNow /\ stamps' = stamps /\ granted' = granted /\ seen' = seen
    BY <1>3 DEF Replay, Leaves, windowVars
  <2> QED
    BY <1>0, <2>1, <2>2 DEF ApiInv
<1>4. ASSUME UNCHANGED <<apiNow, windowVars, replayVars>>
      PROVE  ApiInv'
  BY <1>0, <1>4 DEF windowVars, replayVars, ApiInv
<1>5. ASSUME NEW k \in Keys, Unauthorized(k) \/ Serve(k) \/ ReplayForbidden(k)
      PROVE  ApiInv'
  BY <1>4, <1>5 DEF Unauthorized, Serve, ReplayForbidden, Leaves
<1>6. CASE UNCHANGED apiVars
  BY <1>4, <1>6 DEF apiVars, windowVars, replayVars
<1> QED
  BY <1>1, <1>2, <1>3, <1>5, <1>6 DEF ApiNext

LEMMA MatchesWithin ==
    ASSUME NEW times, NEW kept, NEW lastSeen, NEW limit \in Nat, NEW now \in Nat,
           Matches(times, kept, lastSeen, limit, now)
    PROVE  Cardinality({i \in DOMAIN kept : kept[i] >= now - Window}) <= limit
<1> DEFINE from == now - Window
           late == Cardinality({i \in DOMAIN kept : kept[i] >= from})
<1>1. /\ times \in Seq(Nat) /\ kept \in Seq(Nat) /\ Len(times) <= limit
      /\ Since(times, from) = Since(kept, from)
  BY DEF Matches
<1>2. from \in Int
  BY ApiAssumption
<1>3. Since(times, from) \in Seq(Nat) /\ Len(Since(times, from)) <= Len(times)
  BY <1>1, <1>2, SinceParts
<1>4. late <= Len(Since(kept, from)) /\ late \in Nat
  BY <1>1, <1>2, CountedInWindow
<1>5. Len(Since(times, from)) \in Nat /\ Len(times) \in Nat
  BY <1>1, <1>3
<1> QED
  BY <1>1, <1>3, <1>4, <1>5

\* The limits hold whoever asks, whatever is swept and evicted, and however
\* long the process runs: in the last window no more requests of a key were let
\* in than its limit, and no more replays than theirs.
THEOREM LimitsHold == ApiSpec => []WindowLimitHeld
<1>1. ApiInv => WindowLimitHeld
  <2> SUFFICES ASSUME ApiInv, NEW k \in Keys
               PROVE  InWindow(granted[k]) <= Limit /\ InWindow(replayGranted[k]) <= ReplayLimit
    BY DEF WindowLimitHeld
  <2>1. /\ apiNow \in Nat /\ Limit \in Nat /\ ReplayLimit \in Nat
        /\ Matches(stamps[k], granted[k], seen[k], Limit, apiNow)
        /\ Matches(replayStamps[k], replayGranted[k], replaySeen[k], ReplayLimit, apiNow)
    BY ApiAssumption DEF ApiInv, AllMatch
  <2> QED
    BY <2>1, MatchesWithin DEF InWindow
<1> QED
  BY <1>1, ApiInitInv, ApiInvStep, PTL DEF ApiSpec

-----------------------------------------------------------------------------
(***************************************************************************)
(* The types of the requests' state.                                       *)
(***************************************************************************)
LEMMA SinceTyped ==
    ASSUME NEW times \in Seq(Moments), NEW moment \in Int
    PROVE  Since(times, moment) \in Seq(Moments)
<1> PICK s : s = Since(times, moment)
  OBVIOUS
<1>1. times \in Seq(Nat)
  <2>1. Moments \subseteq Nat
    BY ApiAssumption DEF Moments
  <2> QED
    BY <2>1, SeqMonotonic
<1>2. s \in Seq(Nat) /\ \A i \in DOMAIN s : \E j \in DOMAIN times : s[i] = times[j]
  BY <1>1, SinceParts
<1>3. \A j \in DOMAIN times : times[j] \in Moments
  OBVIOUS
<1>4. \A i \in 1 .. Len(s) : s[i] \in Moments
  BY <1>2, <1>3
<1> QED
  BY <1>2, <1>4

\* A request leaves sequences of moments behind it, swept or not.
LEMMA WindowTyped ==
    ASSUME NEW times \in [Keys -> Seq(Moments)], NEW K, NEW k \in Keys, apiNow \in Moments
    PROVE  /\ Without(times, K, <<>>) \in [Keys -> Seq(Moments)]
           /\ Recent(times[k]) \in Seq(Moments)
           /\ Append(Recent(times[k]), apiNow) \in Seq(Moments)
<1>1. <<>> \in Seq(Moments)
  OBVIOUS
<1>2. Without(times, K, <<>>) \in [Keys -> Seq(Moments)]
  BY <1>1 DEF Without
<1>3. apiNow - Window \in Int /\ times[k] \in Seq(Moments)
  BY ApiAssumption DEF Moments
<1>4. Recent(times[k]) \in Seq(Moments)
  BY <1>3, SinceTyped DEF Recent
<1> QED
  BY <1>2, <1>4

LEMMA ToldTyped ==
    ASSUME NEW k \in Keys,
           NEW what \in {"unauthorized", "limited", "forbidden", "invalid", "failed", "done"},
           Told(k, what)
    PROVE  answer' \in {NoAnswer} \cup [key : Keys, told : {"unauthorized", "limited", "forbidden", "invalid", "failed", "done"}]
  BY DEF Told

LEMMA LeavesTyped ==
    ASSUME ApiTypeOK, NEW k \in Keys,
           NEW what \in {"unauthorized", "limited", "forbidden", "invalid", "failed", "done"},
           Leaves(k, what)
    PROVE  /\ answer' \in {NoAnswer} \cup [key : Keys, told : {"unauthorized", "limited", "forbidden", "invalid", "failed", "done"}]
           /\ inside' \in [Keys -> 0 .. MaxInside]
           /\ UNCHANGED <<apiNow, stamps, seen, sweptAt, granted>>
<1>1. inside \in [Keys -> 0 .. MaxInside] /\ inside[k] > 0 /\ inside' = [inside EXCEPT ![k] = @ - 1]
  BY DEF Leaves, ApiTypeOK
<1>2. inside[k] - 1 \in 0 .. MaxInside
  BY <1>1, ApiAssumption
<1>3. inside' \in [Keys -> 0 .. MaxInside]
  BY <1>1, <1>2
<1> QED
  BY <1>3, ToldTyped DEF Leaves, windowVars

LEMMA EnterTyped ==
    ASSUME ApiTypeOK, NEW k \in Keys, Enter(k)
    PROVE  ApiTypeOK'
<1> DEFINE outcomes == {"unauthorized", "limited", "forbidden", "invalid", "failed", "done"}
<1>p. PICK E \in (IF SweepDue THEN Overflows ELSE {{}}) :
        LET gone == IF SweepDue THEN E \cup Stale(seen) ELSE {}
            recent == Recent(Without(stamps, gone, <<>>)[k])
            admitted == Len(recent) < Limit
        IN  /\ stamps' = [Without(stamps, gone, <<>>) EXCEPT
                             ![k] = IF admitted THEN Append(recent, apiNow) ELSE recent]
            /\ seen' = [Without(seen, gone, Unseen) EXCEPT ![k] = apiNow]
            /\ granted' = [Without(granted, E, <<>>) EXCEPT
                              ![k] = IF admitted THEN Append(Recent(@), apiNow) ELSE @]
            /\ IF admitted THEN inside' = [inside EXCEPT ![k] = @ + 1] /\ UNCHANGED answer
                           ELSE Told(k, "limited") /\ UNCHANGED inside
  BY DEF Enter
<1> DEFINE gone == IF SweepDue THEN E \cup Stale(seen) ELSE {}
           T == Without(stamps, gone, <<>>)
           G == Without(granted, E, <<>>)
           L == Without(seen, gone, Unseen)
           recent == Recent(T[k])
           admitted == Len(recent) < Limit
<1>1. /\ stamps' = [T EXCEPT ![k] = IF admitted THEN Append(recent, apiNow) ELSE recent]
      /\ seen' = [L EXCEPT ![k] = apiNow]
      /\ granted' = [G EXCEPT ![k] = IF admitted THEN Append(Recent(@), apiNow) ELSE @]
      /\ inside' = [inside EXCEPT ![k] = @ + 1] \/ inside' = inside
      /\ answer' = answer \/ Told(k, "limited")
  BY <1>p
<1> HIDE DEF gone
<1>2. /\ apiNow \in Moments /\ stamps \in [Keys -> Seq(Moments)] /\ granted \in [Keys -> Seq(Moments)]
      /\ seen \in [Keys -> Moments \cup {Unseen}] /\ inside \in [Keys -> 0 .. MaxInside]
  BY DEF ApiTypeOK
<1>3. T \in [Keys -> Seq(Moments)] /\ G \in [Keys -> Seq(Moments)]
  BY <1>2, WindowTyped
<1>4. L \in [Keys -> Moments \cup {Unseen}]
  BY <1>2 DEF Without
<1> HIDE DEF T, G, L
<1>5. /\ recent \in Seq(Moments) /\ Append(recent, apiNow) \in Seq(Moments)
      /\ Append(Recent(G[k]), apiNow) \in Seq(Moments)
  BY <1>2, <1>3, WindowTyped
<1> HIDE DEF recent, admitted
<1>6. stamps' \in [Keys -> Seq(Moments)] /\ granted' \in [Keys -> Seq(Moments)]
  BY <1>1, <1>3, <1>5
<1>7. seen' \in [Keys -> Moments \cup {Unseen}]
  BY <1>1, <1>2, <1>4
<1>8. inside' \in [Keys -> 0 .. MaxInside]
  <2>1. inside[k] < MaxInside
    BY DEF Enter
  <2>2. inside[k] + 1 \in 0 .. MaxInside
    BY <1>2, <2>1, ApiAssumption
  <2> QED
    BY <1>1, <1>2, <2>2
<1>9. answer' \in {NoAnswer} \cup [key : Keys, told : outcomes]
  BY <1>1, ToldTyped DEF ApiTypeOK
<1>10. sweptAt' \in Moments /\ apiNow' = apiNow /\ services' = services /\ UNCHANGED replayVars
  BY <1>2 DEF Enter, ApiTypeOK
<1> QED
  BY <1>2, <1>6, <1>7, <1>8, <1>9, <1>10 DEF ApiTypeOK, replayVars

LEMMA ReplayTyped ==
    ASSUME ApiTypeOK, NEW k \in Keys, Replay(k)
    PROVE  ApiTypeOK'
<1> DEFINE swept == apiNow - replaySweptAt >= SweepInterval
           gone == IF swept THEN Stale(replaySeen) ELSE {}
           T == Without(replayStamps, gone, <<>>)
           L == Without(replaySeen, gone, Unseen)
           G == Without(replayGranted, {}, <<>>)
           recent == Recent(T[k])
           admitted == Len(recent) < ReplayLimit
<1>1. /\ replayStamps' = [T EXCEPT ![k] = IF admitted THEN Append(recent, apiNow) ELSE recent]
      /\ replaySeen' = [L EXCEPT ![k] = apiNow]
      /\ replayGranted' = [replayGranted EXCEPT ![k] = IF admitted THEN Append(Recent(@), apiNow) ELSE @]
      /\ replaySweptAt' \in {apiNow, replaySweptAt}
      /\ Leaves(k, IF admitted THEN PipelineAnswer(k) ELSE "limited")
      /\ services' = services
  BY DEF Replay
<1> HIDE DEF swept, gone
<1>2. /\ apiNow \in Moments /\ replayStamps \in [Keys -> Seq(Moments)] /\ replayGranted \in [Keys -> Seq(Moments)]
      /\ replaySeen \in [Keys -> Moments \cup {Unseen}] /\ replaySweptAt \in Moments
  BY DEF ApiTypeOK
<1>3. T \in [Keys -> Seq(Moments)] /\ Append(Recent(replayGranted[k]), apiNow) \in Seq(Moments)
  BY <1>2, WindowTyped
<1>4. L \in [Keys -> Moments \cup {Unseen}]
  BY <1>2 DEF Without
<1> HIDE DEF T, L
<1>5. recent \in Seq(Moments) /\ Append(recent, apiNow) \in Seq(Moments)
  BY <1>2, <1>3, WindowTyped
<1> HIDE DEF recent, admitted
<1>6. replayStamps' \in [Keys -> Seq(Moments)] /\ replayGranted' \in [Keys -> Seq(Moments)]
  BY <1>1, <1>2, <1>3, <1>5
<1>7. replaySeen' \in [Keys -> Moments \cup {Unseen}] /\ replaySweptAt' \in Moments
  BY <1>1, <1>2, <1>4
<1>8. PipelineAnswer(k) \in {"failed", "invalid"}
  BY DEF PipelineAnswer
<1> PICK what \in {"failed", "invalid", "limited"} : Leaves(k, what)
  BY <1>1, <1>8
<1> QED
  BY <1>1, <1>6, <1>7, LeavesTyped DEF ApiTypeOK

LEMMA ServeTyped ==
    ASSUME ApiTypeOK, NEW k \in Keys, Serve(k) \/ ReplayForbidden(k)
    PROVE  ApiTypeOK'
<1>1. CASE Serve(k)
  <2> PICK what \in Answers(k) : Leaves(k, what)
    BY <1>1 DEF Serve
  <2>1. what \in {"done", "failed", "invalid"}
    BY DEF Answers, PipelineAnswer
  <2>2. services' \subseteq {"pipeline", "backtest"} \X Supported
    BY <1>1 DEF Serve, ServicesAfter, ApiTypeOK
  <2> QED
    BY <1>1, <2>1, <2>2, LeavesTyped DEF Serve, replayVars, ApiTypeOK
<1>2. CASE ReplayForbidden(k)
  <2> PICK what \in {"unauthorized", "forbidden"} : Leaves(k, what)
    BY <1>2 DEF ReplayForbidden
  <2> QED
    BY <1>2, LeavesTyped DEF ReplayForbidden, replayVars, ApiTypeOK
<1> QED
  BY <1>1, <1>2

(***************************************************************************)
(* The windows, counters and answers of the requests keep their types.     *)
(***************************************************************************)
THEOREM RequestsTyped == ApiSpec => []ApiTypeOK
<1>1. ApiInit => ApiTypeOK
  <2> SUFFICES ASSUME ApiInit PROVE ApiTypeOK
    OBVIOUS
  <2>1. 0 \in Moments /\ 0 \in 0 .. MaxInside /\ <<>> \in Seq(Moments)
    BY ApiAssumption DEF Moments
  <2> QED
    BY <2>1 DEF ApiInit, ApiTypeOK
<1>2. ApiTypeOK /\ [ApiNext]_apiVars => ApiTypeOK'
  <2> SUFFICES ASSUME ApiTypeOK, [ApiNext]_apiVars PROVE ApiTypeOK'
    OBVIOUS
  <2>1. CASE ApiTick
    <3>1. apiNow' \in Moments
      BY <2>1, ApiAssumption DEF ApiTick, ApiTypeOK, Moments
    <3> QED
      BY <2>1, <3>1 DEF ApiTick, windowVars, replayVars, ApiTypeOK
  <2>2. ASSUME NEW k \in Keys, Unauthorized(k)
        PROVE  ApiTypeOK'
    BY <2>2, ToldTyped DEF Unauthorized, windowVars, replayVars, ApiTypeOK
  <2>3. CASE UNCHANGED apiVars
    BY <2>3 DEF apiVars, windowVars, replayVars, ApiTypeOK
  <2> QED
    BY <2>1, <2>2, <2>3, EnterTyped, ReplayTyped, ServeTyped DEF ApiNext
<1> QED
  BY <1>1, <1>2, PTL DEF ApiSpec

=============================================================================

------------------------- MODULE PipelineRunsProofs -------------------------
(***************************************************************************)
(* Theorems about PipelineRuns for any number of runs and windows: the     *)
(* safety invariants the runs check, and that PipelineRuns implements the  *)
(* ledger of RunLedger.                                                    *)
(*                                                                         *)
(* The invariants are not inductive by themselves.  What makes them so is  *)
(* Shape: which thread jobs and which row go with which stage of the       *)
(* coroutine, above all that the three jobs are started in order and that  *)
(* a row is only ever touched by the jobs of its own run.                  *)
(***************************************************************************)
EXTENDS PipelineRuns, TLAPS, FiniteSetTheorems

BeforeRunClaimed == {"unborn", "claiming", "skipped", "locked", "counted"}

InLock(r) == stage[r] \in {"locked", "counted"}

\* The claim: one thread, started once, and only for a run that is no replay.
ClaimShape(r) ==
    /\ trigger[r] = "replay" => claimJob[r] = "none"
    /\ stage[r] = "claiming" => trigger[r] = "claim" /\ claimJob[r] # "none"
    /\ trigger[r] = "claim" => (claimJob[r] = "done" <=> status[r] # "absent")
    /\ stage[r] = "unborn" => claimJob[r] = "none" /\ status[r] = "absent"

\* The replay: who is under the lock holds it and has no row yet.
LockShape(r) ==
    /\ lockHolder = r <=> InLock(r)
    /\ InLock(r) => trigger[r] = "replay" /\ status[r] = "absent"

\* The jobs of run_claimed against its stage.
JobShape(r) ==
    /\ stage[r] \in BeforeRunClaimed \/ status[r] = "absent"
          => persistJob[r] = "none" /\ markJob[r] = "none"
    /\ stage[r] = "preparing"
          => status[r] = "running" /\ persistJob[r] = "none" /\ markJob[r] = "none"
    /\ stage[r] = "persisting" => persistJob[r] # "none" /\ markJob[r] = "none"
    /\ stage[r] = "returned" => persistJob[r] = "done" /\ markJob[r] = "none"
    /\ stage[r] \in {"persisting", "marking"} => status[r] # "absent"

\* The row says what the jobs that have committed wrote last.
RowShape(r) ==
    /\ status[r] = "success" => persistJob[r] = "done"
    /\ status[r] = "failed" => markJob[r] = "done"
    /\ status[r] = "running" => persistJob[r] # "done" /\ markJob[r] # "done"

Shape == \A r \in Runs : ClaimShape(r) /\ LockShape(r) /\ JobShape(r) /\ RowShape(r)

DataShape ==
    \A w \in Windows : data[w] # NoRun => window[data[w]] = w /\ persistJob[data[w]] = "done"

\* A replay is not stale while it executes.
ReplaysFresh ==
    \A r \in Runs : trigger[r] = "replay" /\ stage[r] \in {"preparing", "persisting"} => fresh[r]

\* What the replay guard relies on between its count and its insert.
ReplayShape ==
    /\ Cardinality(ActiveReplays) <= ReplayLimit
    /\ \A r \in Runs : stage[r] = "counted" => Cardinality(ActiveReplays) < ReplayLimit
    /\ ReplaysFresh

IInv == TypeOK /\ Shape /\ OneClaimPerWindow /\ DataShape /\ ReplayShape

-----------------------------------------------------------------------------
LEMMA TypeStep ==
    TypeOK /\ [Next]_vars => TypeOK'
<1> SUFFICES ASSUME TypeOK, [Next]_vars PROVE TypeOK'
    OBVIOUS
<1> USE DEF TypeOK, Stages, Jobs
<1>1. CASE UNCHANGED vars
    BY <1>1 DEF vars
<1>2. ASSUME NEW r \in Runs, Threads(r) \/ Coroutine(r) \/ Environment(r)
      PROVE TypeOK'
  <2>1. CASE StartClaim(r)
    BY <2>1 DEF StartClaim
  <2>2. CASE ClaimInsert(r)
    BY <2>2 DEF ClaimInsert
  <2>3. CASE ClaimConflict(r)
    BY <2>3 DEF ClaimConflict
  <2>4. CASE ClaimRollback(r)
    BY <2>4 DEF ClaimRollback
  <2>5. CASE ClaimResume(r)
    BY <2>5 DEF ClaimResume, AfterClaim
  <2>6. CASE ClaimCancelled(r)
    BY <2>6 DEF ClaimCancelled, Abandoned
  <2>7. CASE ReplayLock(r)
    BY <2>7 DEF ReplayLock
  <2>8. CASE ReplayLockDenied(r)
    BY <2>8 DEF ReplayLockDenied
  <2>9. CASE ReplayCount(r)
    BY <2>9 DEF ReplayCount
  <2>10. CASE ReplayRefused(r)
    BY <2>10 DEF ReplayRefused, Unlocked
  <2>11. CASE ReplayInsert(r)
    BY <2>11 DEF ReplayInsert, Unlocked
  <2>12. CASE GrowStale(r)
    BY <2>12 DEF GrowStale
  <2>13. CASE StartPersist(r)
    BY <2>13 DEF StartPersist
  <2>14. CASE PrepareFails(r)
    BY <2>14 DEF PrepareFails, BeginMark
  <2>15. CASE PersistCommit(r)
    BY <2>15 DEF PersistCommit
  <2>16. CASE PersistRollback(r)
    BY <2>16 DEF PersistRollback
  <2>17. CASE PersistReturns(r)
    BY <2>17 DEF PersistReturns
  <2>18. CASE PersistRaises(r)
    BY <2>18 DEF PersistRaises, BeginMark
  <2>19. CASE PersistAbandoned(r)
    BY <2>19 DEF PersistAbandoned, Abandoned, BeginMark
  <2>20. CASE MarkCommit(r)
    BY <2>20 DEF MarkCommit
  <2>21. CASE MarkRollback(r)
    BY <2>21 DEF MarkRollback
  <2>22. CASE MarkReturns(r)
    BY <2>22 DEF MarkReturns
  <2>23. CASE MarkCancelled(r)
    BY <2>23 DEF MarkCancelled, Abandoned
  <2>24. CASE Crash(r)
    BY <2>24 DEF Crash, Unlocked
  <2>25. QED
    BY <1>2, <2>1, <2>2, <2>3, <2>4, <2>5, <2>6, <2>7, <2>8, <2>9, <2>10, <2>11, <2>12,
        <2>13, <2>14, <2>15, <2>16, <2>17, <2>18, <2>19, <2>20, <2>21, <2>22, <2>23, <2>24 DEF
        Threads, Coroutine, Environment
<1>3. QED
    BY <1>1, <1>2 DEF Next

LEMMA ShapeStep ==
    TypeOK /\ Shape /\ [Next]_vars => Shape'
<1> SUFFICES ASSUME TypeOK, Shape, [Next]_vars PROVE Shape'
    OBVIOUS
<1> USE DEF TypeOK, Stages, Jobs, Shape, ClaimShape, LockShape, JobShape, RowShape, InLock,
    BeforeRunClaimed
<1>1. CASE UNCHANGED vars
    BY <1>1 DEF vars
<1>2. ASSUME NEW r \in Runs, Threads(r) \/ Coroutine(r) \/ Environment(r)
      PROVE Shape'
  <2>1. CASE StartClaim(r)
    BY <2>1 DEF StartClaim
  <2>2. CASE ClaimInsert(r)
    BY <2>2 DEF ClaimInsert
  <2>3. CASE ClaimConflict(r)
    BY <2>3 DEF ClaimConflict
  <2>4. CASE ClaimRollback(r)
    BY <2>4 DEF ClaimRollback
  <2>5. CASE ClaimResume(r)
    BY <2>5 DEF ClaimResume, AfterClaim
  <2>6. CASE ClaimCancelled(r)
    BY <2>6 DEF ClaimCancelled, Abandoned
  <2>7. CASE ReplayLock(r)
    BY <2>7, PipelineAssumption DEF ReplayLock
  <2>8. CASE ReplayLockDenied(r)
    BY <2>8 DEF ReplayLockDenied
  <2>9. CASE ReplayCount(r)
    BY <2>9 DEF ReplayCount
  <2>10. CASE ReplayRefused(r)
    BY <2>10, PipelineAssumption DEF ReplayRefused, Unlocked
  <2>11. CASE ReplayInsert(r)
    BY <2>11, PipelineAssumption DEF ReplayInsert, Unlocked
  <2>12. CASE GrowStale(r)
    BY <2>12 DEF GrowStale
  <2>13. CASE StartPersist(r)
    BY <2>13 DEF StartPersist
  <2>14. CASE PrepareFails(r)
    BY <2>14 DEF PrepareFails, BeginMark
  <2>15. CASE PersistCommit(r)
    BY <2>15 DEF PersistCommit
  <2>16. CASE PersistRollback(r)
    BY <2>16 DEF PersistRollback
  <2>17. CASE PersistReturns(r)
    BY <2>17 DEF PersistReturns
  <2>18. CASE PersistRaises(r)
    BY <2>18 DEF PersistRaises, BeginMark
  <2>19. CASE PersistAbandoned(r)
    BY <2>19 DEF PersistAbandoned, Abandoned, BeginMark
  <2>20. CASE MarkCommit(r)
    BY <2>20 DEF MarkCommit
  <2>21. CASE MarkRollback(r)
    BY <2>21 DEF MarkRollback
  <2>22. CASE MarkReturns(r)
    BY <2>22 DEF MarkReturns
  <2>23. CASE MarkCancelled(r)
    BY <2>23 DEF MarkCancelled, Abandoned
  <2>24. CASE Crash(r)
    BY <2>24, PipelineAssumption DEF Crash, Unlocked
  <2>25. QED
    BY <1>2, <2>1, <2>2, <2>3, <2>4, <2>5, <2>6, <2>7, <2>8, <2>9, <2>10, <2>11, <2>12,
        <2>13, <2>14, <2>15, <2>16, <2>17, <2>18, <2>19, <2>20, <2>21, <2>22, <2>23, <2>24 DEF
        Threads, Coroutine, Environment
<1>3. QED
    BY <1>1, <1>2 DEF Next

LEMMA ClaimStep ==
    TypeOK /\ Shape /\ OneClaimPerWindow /\ [Next]_vars => OneClaimPerWindow'
<1> SUFFICES ASSUME TypeOK, Shape, OneClaimPerWindow, [Next]_vars PROVE OneClaimPerWindow'
    OBVIOUS
<1> USE DEF TypeOK, OneClaimPerWindow, Shape, ClaimShape, LockShape, JobShape, RowShape,
    InLock, BeforeRunClaimed
<1>1. CASE UNCHANGED vars
    BY <1>1 DEF vars
<1>2. ASSUME NEW r \in Runs, Threads(r) \/ Coroutine(r) \/ Environment(r)
      PROVE OneClaimPerWindow'
  <2>1. CASE StartClaim(r)
    BY <2>1 DEF StartClaim
  <2>2. CASE ClaimInsert(r)
    BY <2>2 DEF ClaimInsert, Conflicting
  <2>3. CASE ClaimConflict(r)
    BY <2>3 DEF ClaimConflict
  <2>4. CASE ClaimRollback(r)
    BY <2>4 DEF ClaimRollback
  <2>5. CASE ClaimResume(r)
    BY <2>5 DEF ClaimResume, AfterClaim
  <2>6. CASE ClaimCancelled(r)
    BY <2>6 DEF ClaimCancelled, Abandoned
  <2>7. CASE ReplayLock(r)
    BY <2>7 DEF ReplayLock
  <2>8. CASE ReplayLockDenied(r)
    BY <2>8 DEF ReplayLockDenied
  <2>9. CASE ReplayCount(r)
    BY <2>9 DEF ReplayCount
  <2>10. CASE ReplayRefused(r)
    BY <2>10 DEF ReplayRefused, Unlocked
  <2>11. CASE ReplayInsert(r)
    BY <2>11 DEF ReplayInsert, Unlocked
  <2>12. CASE GrowStale(r)
    BY <2>12 DEF GrowStale
  <2>13. CASE StartPersist(r)
    BY <2>13 DEF StartPersist
  <2>14. CASE PrepareFails(r)
    BY <2>14 DEF PrepareFails, BeginMark
  <2>15. CASE PersistCommit(r)
    BY <2>15 DEF PersistCommit
  <2>16. CASE PersistRollback(r)
    BY <2>16 DEF PersistRollback
  <2>17. CASE PersistReturns(r)
    BY <2>17 DEF PersistReturns
  <2>18. CASE PersistRaises(r)
    BY <2>18 DEF PersistRaises, BeginMark
  <2>19. CASE PersistAbandoned(r)
    BY <2>19 DEF PersistAbandoned, Abandoned, BeginMark
  <2>20. CASE MarkCommit(r)
    BY <2>20 DEF MarkCommit
  <2>21. CASE MarkRollback(r)
    BY <2>21 DEF MarkRollback
  <2>22. CASE MarkReturns(r)
    BY <2>22 DEF MarkReturns
  <2>23. CASE MarkCancelled(r)
    BY <2>23 DEF MarkCancelled, Abandoned
  <2>24. CASE Crash(r)
    BY <2>24 DEF Crash, Unlocked
  <2>25. QED
    BY <1>2, <2>1, <2>2, <2>3, <2>4, <2>5, <2>6, <2>7, <2>8, <2>9, <2>10, <2>11, <2>12,
        <2>13, <2>14, <2>15, <2>16, <2>17, <2>18, <2>19, <2>20, <2>21, <2>22, <2>23, <2>24 DEF
        Threads, Coroutine, Environment
<1>3. QED
    BY <1>1, <1>2 DEF Next

LEMMA DataStep ==
    TypeOK /\ Shape /\ DataShape /\ [Next]_vars => DataShape'
<1> SUFFICES ASSUME TypeOK, Shape, DataShape, [Next]_vars PROVE DataShape'
    OBVIOUS
<1> USE DEF TypeOK, DataShape, Shape, JobShape
<1>1. CASE UNCHANGED vars
    BY <1>1 DEF vars
<1>2. ASSUME NEW r \in Runs, Threads(r) \/ Coroutine(r) \/ Environment(r)
      PROVE DataShape'
  <2>1. CASE StartClaim(r)
    BY <2>1 DEF StartClaim
  <2>2. CASE ClaimInsert(r)
    BY <2>2 DEF ClaimInsert
  <2>3. CASE ClaimConflict(r)
    BY <2>3 DEF ClaimConflict
  <2>4. CASE ClaimRollback(r)
    BY <2>4 DEF ClaimRollback
  <2>5. CASE ClaimResume(r)
    BY <2>5 DEF ClaimResume, AfterClaim
  <2>6. CASE ClaimCancelled(r)
    BY <2>6 DEF ClaimCancelled, Abandoned
  <2>7. CASE ReplayLock(r)
    BY <2>7 DEF ReplayLock
  <2>8. CASE ReplayLockDenied(r)
    BY <2>8 DEF ReplayLockDenied
  <2>9. CASE ReplayCount(r)
    BY <2>9 DEF ReplayCount
  <2>10. CASE ReplayRefused(r)
    BY <2>10 DEF ReplayRefused, Unlocked
  <2>11. CASE ReplayInsert(r)
    BY <2>11 DEF ReplayInsert, Unlocked
  <2>12. CASE GrowStale(r)
    BY <2>12 DEF GrowStale
  <2>13. CASE StartPersist(r)
    BY <2>13 DEF StartPersist
  <2>14. CASE PrepareFails(r)
    BY <2>14 DEF PrepareFails, BeginMark
  <2>15. CASE PersistCommit(r)
    BY <2>15 DEF PersistCommit
  <2>16. CASE PersistRollback(r)
    BY <2>16 DEF PersistRollback
  <2>17. CASE PersistReturns(r)
    BY <2>17 DEF PersistReturns
  <2>18. CASE PersistRaises(r)
    BY <2>18 DEF PersistRaises, BeginMark
  <2>19. CASE PersistAbandoned(r)
    BY <2>19 DEF PersistAbandoned, Abandoned, BeginMark
  <2>20. CASE MarkCommit(r)
    BY <2>20 DEF MarkCommit
  <2>21. CASE MarkRollback(r)
    BY <2>21 DEF MarkRollback
  <2>22. CASE MarkReturns(r)
    BY <2>22 DEF MarkReturns
  <2>23. CASE MarkCancelled(r)
    BY <2>23 DEF MarkCancelled, Abandoned
  <2>24. CASE Crash(r)
    BY <2>24 DEF Crash, Unlocked
  <2>25. QED
    BY <1>2, <2>1, <2>2, <2>3, <2>4, <2>5, <2>6, <2>7, <2>8, <2>9, <2>10, <2>11, <2>12,
        <2>13, <2>14, <2>15, <2>16, <2>17, <2>18, <2>19, <2>20, <2>21, <2>22, <2>23, <2>24 DEF
        Threads, Coroutine, Environment
<1>3. QED
    BY <1>1, <1>2 DEF Next

\* Only the insert of a replay adds to the replays that count as active.
LEMMA ActiveGrowth ==
    TypeOK /\ Shape /\ [Next]_vars =>
        \/ ActiveReplays' \subseteq ActiveReplays
        \/ \E r \in Runs : ReplayInsert(r) /\ ActiveReplays' \subseteq ActiveReplays \cup {r}
<1> SUFFICES ASSUME TypeOK, Shape, [Next]_vars
             PROVE  \/ ActiveReplays' \subseteq ActiveReplays
                    \/ \E r \in Runs : ReplayInsert(r) /\ ActiveReplays' \subseteq ActiveReplays \cup {r}
    OBVIOUS
<1> USE DEF TypeOK, Shape, ClaimShape, ActiveReplays
<1>1. CASE UNCHANGED vars
    BY <1>1 DEF vars
<1>2. ASSUME NEW r \in Runs, Threads(r) \/ Coroutine(r) \/ Environment(r)
      PROVE  \/ ActiveReplays' \subseteq ActiveReplays
             \/ ReplayInsert(r) /\ ActiveReplays' \subseteq ActiveReplays \cup {r}
  <2>1. CASE StartClaim(r)
    BY <2>1 DEF StartClaim
  <2>2. CASE ClaimInsert(r)
    BY <2>2 DEF ClaimInsert
  <2>3. CASE ClaimConflict(r)
    BY <2>3 DEF ClaimConflict
  <2>4. CASE ClaimRollback(r)
    BY <2>4 DEF ClaimRollback
  <2>5. CASE ClaimResume(r)
    BY <2>5 DEF ClaimResume, AfterClaim
  <2>6. CASE ClaimCancelled(r)
    BY <2>6 DEF ClaimCancelled, Abandoned
  <2>7. CASE ReplayLock(r)
    BY <2>7 DEF ReplayLock
  <2>8. CASE ReplayLockDenied(r)
    BY <2>8 DEF ReplayLockDenied
  <2>9. CASE ReplayCount(r)
    BY <2>9 DEF ReplayCount
  <2>10. CASE ReplayRefused(r)
    BY <2>10 DEF ReplayRefused, Unlocked
  <2>11. CASE ReplayInsert(r)
    BY <2>11 DEF ReplayInsert, Unlocked
  <2>12. CASE GrowStale(r)
    BY <2>12 DEF GrowStale
  <2>13. CASE StartPersist(r)
    BY <2>13 DEF StartPersist
  <2>14. CASE PrepareFails(r)
    BY <2>14 DEF PrepareFails, BeginMark
  <2>15. CASE PersistCommit(r)
    BY <2>15 DEF PersistCommit
  <2>16. CASE PersistRollback(r)
    BY <2>16 DEF PersistRollback
  <2>17. CASE PersistReturns(r)
    BY <2>17 DEF PersistReturns
  <2>18. CASE PersistRaises(r)
    BY <2>18 DEF PersistRaises, BeginMark
  <2>19. CASE PersistAbandoned(r)
    BY <2>19 DEF PersistAbandoned, Abandoned, BeginMark
  <2>20. CASE MarkCommit(r)
    BY <2>20 DEF MarkCommit
  <2>21. CASE MarkRollback(r)
    BY <2>21 DEF MarkRollback
  <2>22. CASE MarkReturns(r)
    BY <2>22 DEF MarkReturns
  <2>23. CASE MarkCancelled(r)
    BY <2>23 DEF MarkCancelled, Abandoned
  <2>24. CASE Crash(r)
    BY <2>24 DEF Crash, Unlocked
  <2>25. QED
    BY <1>2, <2>1, <2>2, <2>3, <2>4, <2>5, <2>6, <2>7, <2>8, <2>9, <2>10, <2>11, <2>12,
        <2>13, <2>14, <2>15, <2>16, <2>17, <2>18, <2>19, <2>20, <2>21, <2>22, <2>23, <2>24 DEF
        Threads, Coroutine, Environment
<1>3. QED
    BY <1>1, <1>2 DEF Next

LEMMA ActiveFinite == IsFiniteSet(ActiveReplays) /\ Cardinality(ActiveReplays) \in Nat
<1>1. ActiveReplays \subseteq Runs
    BY DEF ActiveReplays
<1>2. QED
    BY <1>1, PipelineAssumption, FS_Subset, FS_CardinalityType

\* A run comes to be counted only when there is room.
LEMMA CountedHasRoom ==
    TypeOK /\ [Next]_vars =>
        \A s \in Runs : stage'[s] = "counted" =>
            stage[s] = "counted" \/ Cardinality(ActiveReplays) < ReplayLimit
<1> SUFFICES ASSUME TypeOK, [Next]_vars, NEW s \in Runs, stage'[s] = "counted"
             PROVE  stage[s] = "counted" \/ Cardinality(ActiveReplays) < ReplayLimit
    OBVIOUS
<1> USE DEF TypeOK
<1>1. CASE UNCHANGED vars
    BY <1>1 DEF vars
<1>2. ASSUME NEW r \in Runs, Threads(r) \/ Coroutine(r) \/ Environment(r)
      PROVE  stage[s] = "counted" \/ Cardinality(ActiveReplays) < ReplayLimit
  <2>1. CASE StartClaim(r)
    BY <2>1 DEF StartClaim
  <2>2. CASE ClaimInsert(r)
    BY <2>2 DEF ClaimInsert
  <2>3. CASE ClaimConflict(r)
    BY <2>3 DEF ClaimConflict
  <2>4. CASE ClaimRollback(r)
    BY <2>4 DEF ClaimRollback
  <2>5. CASE ClaimResume(r)
    BY <2>5 DEF ClaimResume, AfterClaim
  <2>6. CASE ClaimCancelled(r)
    BY <2>6 DEF ClaimCancelled, Abandoned
  <2>7. CASE ReplayLock(r)
    BY <2>7 DEF ReplayLock
  <2>8. CASE ReplayLockDenied(r)
    BY <2>8 DEF ReplayLockDenied
  <2>9. CASE ReplayCount(r)
    BY <2>9 DEF ReplayCount
  <2>10. CASE ReplayRefused(r)
    BY <2>10 DEF ReplayRefused, Unlocked
  <2>11. CASE ReplayInsert(r)
    BY <2>11 DEF ReplayInsert, Unlocked
  <2>12. CASE GrowStale(r)
    BY <2>12 DEF GrowStale
  <2>13. CASE StartPersist(r)
    BY <2>13 DEF StartPersist
  <2>14. CASE PrepareFails(r)
    BY <2>14 DEF PrepareFails, BeginMark
  <2>15. CASE PersistCommit(r)
    BY <2>15 DEF PersistCommit
  <2>16. CASE PersistRollback(r)
    BY <2>16 DEF PersistRollback
  <2>17. CASE PersistReturns(r)
    BY <2>17 DEF PersistReturns
  <2>18. CASE PersistRaises(r)
    BY <2>18 DEF PersistRaises, BeginMark
  <2>19. CASE PersistAbandoned(r)
    BY <2>19 DEF PersistAbandoned, Abandoned, BeginMark
  <2>20. CASE MarkCommit(r)
    BY <2>20 DEF MarkCommit
  <2>21. CASE MarkRollback(r)
    BY <2>21 DEF MarkRollback
  <2>22. CASE MarkReturns(r)
    BY <2>22 DEF MarkReturns
  <2>23. CASE MarkCancelled(r)
    BY <2>23 DEF MarkCancelled, Abandoned
  <2>24. CASE Crash(r)
    BY <2>24 DEF Crash, Unlocked
  <2>25. QED
    BY <1>2, <2>1, <2>2, <2>3, <2>4, <2>5, <2>6, <2>7, <2>8, <2>9, <2>10, <2>11, <2>12,
        <2>13, <2>14, <2>15, <2>16, <2>17, <2>18, <2>19, <2>20, <2>21, <2>22, <2>23, <2>24 DEF
        Threads, Coroutine, Environment
<1>3. QED
    BY <1>1, <1>2 DEF Next

LEMMA FreshStep ==
    TypeOK /\ Shape /\ ReplaysFresh /\ [Next]_vars => ReplaysFresh'
<1> SUFFICES ASSUME TypeOK, Shape, ReplaysFresh, [Next]_vars PROVE ReplaysFresh'
    OBVIOUS
<1> USE DEF TypeOK, Shape, ClaimShape, ReplaysFresh
<1>1. CASE UNCHANGED vars
    BY <1>1 DEF vars
<1>2. ASSUME NEW r \in Runs, Threads(r) \/ Coroutine(r) \/ Environment(r)
      PROVE ReplaysFresh'
  <2>1. CASE StartClaim(r)
    BY <2>1 DEF StartClaim
  <2>2. CASE ClaimInsert(r)
    BY <2>2 DEF ClaimInsert
  <2>3. CASE ClaimConflict(r)
    BY <2>3 DEF ClaimConflict
  <2>4. CASE ClaimRollback(r)
    BY <2>4 DEF ClaimRollback
  <2>5. CASE ClaimResume(r)
    BY <2>5 DEF ClaimResume, AfterClaim
  <2>6. CASE ClaimCancelled(r)
    BY <2>6 DEF ClaimCancelled, Abandoned
  <2>7. CASE ReplayLock(r)
    BY <2>7 DEF ReplayLock
  <2>8. CASE ReplayLockDenied(r)
    BY <2>8 DEF ReplayLockDenied
  <2>9. CASE ReplayCount(r)
    BY <2>9 DEF ReplayCount
  <2>10. CASE ReplayRefused(r)
    BY <2>10 DEF ReplayRefused, Unlocked
  <2>11. CASE ReplayInsert(r)
    BY <2>11 DEF ReplayInsert, Unlocked
  <2>12. CASE GrowStale(r)
    BY <2>12 DEF GrowStale
  <2>13. CASE StartPersist(r)
    BY <2>13 DEF StartPersist
  <2>14. CASE PrepareFails(r)
    BY <2>14 DEF PrepareFails, BeginMark
  <2>15. CASE PersistCommit(r)
    BY <2>15 DEF PersistCommit
  <2>16. CASE PersistRollback(r)
    BY <2>16 DEF PersistRollback
  <2>17. CASE PersistReturns(r)
    BY <2>17 DEF PersistReturns
  <2>18. CASE PersistRaises(r)
    BY <2>18 DEF PersistRaises, BeginMark
  <2>19. CASE PersistAbandoned(r)
    BY <2>19 DEF PersistAbandoned, Abandoned, BeginMark
  <2>20. CASE MarkCommit(r)
    BY <2>20 DEF MarkCommit
  <2>21. CASE MarkRollback(r)
    BY <2>21 DEF MarkRollback
  <2>22. CASE MarkReturns(r)
    BY <2>22 DEF MarkReturns
  <2>23. CASE MarkCancelled(r)
    BY <2>23 DEF MarkCancelled, Abandoned
  <2>24. CASE Crash(r)
    BY <2>24 DEF Crash, Unlocked
  <2>25. QED
    BY <1>2, <2>1, <2>2, <2>3, <2>4, <2>5, <2>6, <2>7, <2>8, <2>9, <2>10, <2>11, <2>12,
        <2>13, <2>14, <2>15, <2>16, <2>17, <2>18, <2>19, <2>20, <2>21, <2>22, <2>23, <2>24 DEF
        Threads, Coroutine, Environment
<1>3. QED
    BY <1>1, <1>2 DEF Next

LEMMA ReplayStep == TypeOK /\ Shape /\ ReplayShape /\ [Next]_vars => ReplayShape'
<1> SUFFICES ASSUME TypeOK, Shape, ReplayShape, [Next]_vars PROVE ReplayShape'
    OBVIOUS
<1>1. ReplaysFresh'
    BY FreshStep DEF ReplayShape
<1>2. ReplayLimit \in Nat
    BY PipelineAssumption
<1>3. CASE ActiveReplays' \subseteq ActiveReplays
  <2>1. Cardinality(ActiveReplays') <= Cardinality(ActiveReplays) /\ Cardinality(ActiveReplays') \in Nat
    BY <1>3, ActiveFinite, FS_Subset, FS_CardinalityType
  <2>2. QED
    BY <1>1, <1>2, <2>1, ActiveFinite, CountedHasRoom DEF ReplayShape
<1>4. CASE \E r \in Runs : ReplayInsert(r) /\ ActiveReplays' \subseteq ActiveReplays \cup {r}
  <2>1. PICK r \in Runs : ReplayInsert(r) /\ ActiveReplays' \subseteq ActiveReplays \cup {r}
    BY <1>4
  <2>2. Cardinality(ActiveReplays) < ReplayLimit
    BY <2>1 DEF ReplayInsert, ReplayShape
  <2>3. IsFiniteSet(ActiveReplays \cup {r}) /\ Cardinality(ActiveReplays \cup {r}) <= Cardinality(ActiveReplays) + 1
    BY ActiveFinite, FS_AddElement
  <2>4. Cardinality(ActiveReplays') <= Cardinality(ActiveReplays) + 1 /\ Cardinality(ActiveReplays') \in Nat
    BY <2>1, <2>3, ActiveFinite, FS_Subset, FS_CardinalityType
  <2>5. \A s \in Runs : stage'[s] # "counted"
    BY <2>1 DEF ReplayInsert, TypeOK, Shape, LockShape, InLock
  <2>6. QED
    BY <1>1, <1>2, <2>2, <2>4, <2>5, ActiveFinite DEF ReplayShape
<1>5. QED
    BY <1>3, <1>4, ActiveGrowth

LEMMA InitInv == Init => IInv
<1> SUFFICES ASSUME Init PROVE IInv
    OBVIOUS
<1> USE DEF Init
<1>1. TypeOK
    BY PipelineAssumption DEF TypeOK, Stages, Jobs
<1>2. Shape
    BY PipelineAssumption DEF Shape, ClaimShape, LockShape, JobShape, RowShape, InLock,
        BeforeRunClaimed
<1>3. OneClaimPerWindow
    BY DEF OneClaimPerWindow
<1>4. DataShape
    BY DEF DataShape
<1>5. ReplayShape
  <2>1. ActiveReplays = {}
    BY DEF ActiveReplays
  <2>2. Cardinality(ActiveReplays) = 0
    BY <2>1, FS_EmptySet
  <2>3. QED
    BY <2>2, PipelineAssumption DEF ReplayShape, ReplaysFresh
<1>6. QED
    BY <1>1, <1>2, <1>3, <1>4, <1>5 DEF IInv

LEMMA Invariance == Spec => []IInv
<1>1. IInv /\ [Next]_vars => IInv'
    BY TypeStep, ShapeStep, ClaimStep, DataStep, ReplayStep DEF IInv
<1>2. QED
    BY InitInv, <1>1, PTL DEF Spec

(***************************************************************************)
(* Every reachable state is well typed, for any number of runs.            *)
(***************************************************************************)
THEOREM TypeCorrect == Spec => []TypeOK
<1>1. IInv => TypeOK
    BY DEF IInv
<1>2. QED
    BY Invariance, <1>1, PTL

(***************************************************************************)
(* A window is claimed at most once by schedulers and manual calls.        *)
(***************************************************************************)
THEOREM ClaimedOnce == Spec => []OneClaimPerWindow
<1>1. IInv => OneClaimPerWindow
    BY DEF IInv
<1>2. QED
    BY Invariance, <1>1, PTL

(***************************************************************************)
(* Rows and market data agree: no success without committed data, no data  *)
(* of a run that is still recorded as running.                             *)
(***************************************************************************)
THEOREM DataAndStatusAgree == Spec => []StatusMatchesData
<1>1. IInv => StatusMatchesData
  <2> SUFFICES ASSUME IInv PROVE StatusMatchesData
    OBVIOUS
  <2>1. \A r \in Runs : status[r] = "success" => persistJob[r] = "done"
    BY DEF IInv, Shape, RowShape
  <2>2. ASSUME NEW w \in Windows, data[w] # NoRun
        PROVE  window[data[w]] = w /\ status[data[w]] \in {"success", "failed"}
    <3>1. data[w] \in Runs /\ window[data[w]] = w /\ persistJob[data[w]] = "done"
      BY <2>2 DEF IInv, TypeOK, DataShape
    <3>2. QED
      BY <3>1 DEF IInv, TypeOK, Shape, JobShape, RowShape
  <2>3. QED
    BY <2>1, <2>2 DEF StatusMatchesData
<1>2. QED
    BY Invariance, <1>1, PTL

(***************************************************************************)
(* A summary that was returned stays true of the database.                 *)
(***************************************************************************)
THEOREM ReturnedRunsAreDurable == Spec => []ReturnedIsDurable
<1>1. IInv => ReturnedIsDurable
    BY DEF IInv, TypeOK, Shape, JobShape, RowShape, ReturnedIsDurable
<1>2. QED
    BY Invariance, <1>1, PTL

(***************************************************************************)
(* Replays stay within replay_max_in_flight_per_chain, for any limit.      *)
(***************************************************************************)
THEOREM ReplaysAreLimited == Spec => []ReplayLimitHeld
<1>1. IInv => ReplayLimitHeld
  <2> SUFFICES ASSUME IInv PROVE ReplayLimitHeld
    OBVIOUS
  <2>1. ASSUME NEW r \in Runs, trigger[r] = "replay", Executing(r) PROVE r \in ActiveReplays
    BY <2>1 DEF IInv, TypeOK, Shape, JobShape, RowShape, ReplayShape, ReplaysFresh,
                Executing, ActiveReplays
  <2>2. QED
    BY <2>1 DEF IInv, ReplayShape, ReplayLimitHeld
<1>2. QED
    BY Invariance, <1>1, PTL

\* A thread that is about to commit works for a run that has a row.
LEMMA JobNeedsRow ==
    ASSUME TypeOK, Shape, NEW r \in Runs, persistJob[r] = "pending" \/ markJob[r] = "pending"
    PROVE  status[r] # "absent"
BY DEF Shape, JobShape

\* The transaction of _persist_success is the ledger's commit.
LEMMA CommitLemma ==
    ASSUME TypeOK, Shape, NEW r \in Runs, PersistCommit(r)
    PROVE  Ledger!CommitRun(r)
<1>1. persistJob[r] = "pending" /\ status[r] # "absent"
    BY JobNeedsRow DEF PersistCommit
<1>2. /\ persistJob' = [persistJob EXCEPT ![r] = "done"]
      /\ status' = [status EXCEPT ![r] = "success"]
      /\ data' = [data EXCEPT ![window[r]] = r]
      /\ UNCHANGED <<window, trigger, markJob>>
    BY DEF PersistCommit
<1>3. "success" \notin Written(r)
    BY <1>1 DEF Written
<1>4. ASSUME NEW s \in Runs
      PROVE  Written(s)' = IF s = r THEN Written(s) \cup {"success"} ELSE Written(s)
    BY <1>1, <1>2 DEF Written, TypeOK
<1>5. [s \in Runs |-> Written(s)]'
        = [[s \in Runs |-> Written(s)] EXCEPT ![r] = @ \cup {"success"}]
    BY <1>4, Zenon
<1>6. QED
    BY <1>1, <1>2, <1>3, <1>5 DEF Ledger!CommitRun, Ledger!Recorded

\* The UPDATE of _mark_failed is the ledger's failure.
LEMMA MarkLemma ==
    ASSUME TypeOK, Shape, NEW r \in Runs, MarkCommit(r)
    PROVE  Ledger!FailRun(r)
<1>1. markJob[r] = "pending" /\ status[r] # "absent"
    BY JobNeedsRow DEF MarkCommit
<1>2. /\ markJob' = [markJob EXCEPT ![r] = "done"]
      /\ status' = [status EXCEPT ![r] = "failed"]
      /\ UNCHANGED <<window, trigger, data, persistJob>>
    BY DEF MarkCommit
<1>3. "failed" \notin Written(r)
    BY <1>1 DEF Written
<1>4. ASSUME NEW s \in Runs
      PROVE  Written(s)' = IF s = r THEN Written(s) \cup {"failed"} ELSE Written(s)
    BY <1>1, <1>2 DEF Written, TypeOK
<1>5. [s \in Runs |-> Written(s)]'
        = [[s \in Runs |-> Written(s)] EXCEPT ![r] = @ \cup {"failed"}]
    BY <1>4, Zenon
<1>6. QED
    BY <1>1, <1>2, <1>3, <1>5 DEF Ledger!FailRun, Ledger!Recorded

LEMMA LedgerStep ==
    TypeOK /\ Shape /\ [Next]_vars => [Ledger!LedgerNext]_(Ledger!ledger)
<1> SUFFICES ASSUME TypeOK, Shape, [Next]_vars PROVE [Ledger!LedgerNext]_(Ledger!ledger)
    OBVIOUS
<1> USE DEF TypeOK, Ledger!ledger, Written
<1>1. CASE UNCHANGED vars
    BY <1>1 DEF vars
<1>2. ASSUME NEW r \in Runs, Threads(r) \/ Coroutine(r) \/ Environment(r)
      PROVE  Ledger!Record(r) \/ Ledger!CommitRun(r) \/ Ledger!FailRun(r) \/ UNCHANGED Ledger!ledger
  <2>1. CASE StartClaim(r)
    BY <2>1 DEF StartClaim
  <2>2. CASE ClaimInsert(r)
    <3>1. status[r] = "absent"
      BY <2>2 DEF ClaimInsert, Shape, ClaimShape
    <3>2. /\ status' = [status EXCEPT ![r] = "running"]
          /\ UNCHANGED <<window, trigger, data, persistJob, markJob>>
      BY <2>2 DEF ClaimInsert
    <3>3. ~Ledger!ClaimedWindow(window[r])
      BY <2>2 DEF ClaimInsert, Conflicting, Ledger!Recorded, Ledger!ClaimedWindow
    <3>4. QED
      BY <3>1, <3>2, <3>3 DEF Ledger!Record, Ledger!Recorded
  <2>3. CASE ClaimConflict(r)
    BY <2>3 DEF ClaimConflict
  <2>4. CASE ClaimRollback(r)
    BY <2>4 DEF ClaimRollback
  <2>5. CASE ClaimResume(r)
    BY <2>5 DEF ClaimResume, AfterClaim
  <2>6. CASE ClaimCancelled(r)
    BY <2>6 DEF ClaimCancelled, Abandoned
  <2>7. CASE ReplayLock(r)
    BY <2>7 DEF ReplayLock
  <2>8. CASE ReplayLockDenied(r)
    BY <2>8 DEF ReplayLockDenied
  <2>9. CASE ReplayCount(r)
    BY <2>9 DEF ReplayCount
  <2>10. CASE ReplayRefused(r)
    BY <2>10 DEF ReplayRefused, Unlocked
  <2>11. CASE ReplayInsert(r)
    <3>1. status[r] = "absent" /\ trigger[r] = "replay"
      BY <2>11 DEF ReplayInsert, Shape, LockShape, InLock
    <3>2. /\ status' = [status EXCEPT ![r] = "running"]
          /\ UNCHANGED <<window, trigger, data, persistJob, markJob>>
      BY <2>11 DEF ReplayInsert
    <3>3. QED
      BY <3>1, <3>2 DEF Ledger!Record, Ledger!Recorded
  <2>12. CASE GrowStale(r)
    BY <2>12 DEF GrowStale
  <2>13. CASE StartPersist(r)
    BY <2>13 DEF StartPersist, Shape, JobShape
  <2>14. CASE PrepareFails(r)
    BY <2>14 DEF PrepareFails, BeginMark, Shape, JobShape
  <2>15. CASE PersistCommit(r)
    BY <2>15, CommitLemma
  <2>16. CASE PersistRollback(r)
    BY <2>16 DEF PersistRollback
  <2>17. CASE PersistReturns(r)
    BY <2>17 DEF PersistReturns
  <2>18. CASE PersistRaises(r)
    BY <2>18 DEF PersistRaises, BeginMark, Shape, JobShape
  <2>19. CASE PersistAbandoned(r)
    BY <2>19 DEF PersistAbandoned, Abandoned, BeginMark, Shape, JobShape
  <2>20. CASE MarkCommit(r)
    BY <2>20, MarkLemma
  <2>21. CASE MarkRollback(r)
    BY <2>21 DEF MarkRollback
  <2>22. CASE MarkReturns(r)
    BY <2>22 DEF MarkReturns
  <2>23. CASE MarkCancelled(r)
    BY <2>23 DEF MarkCancelled, Abandoned
  <2>24. CASE Crash(r)
    BY <2>24 DEF Crash, Unlocked
  <2>25. QED
    BY <1>2, <2>1, <2>2, <2>3, <2>4, <2>5, <2>6, <2>7, <2>8, <2>9, <2>10, <2>11, <2>12,
        <2>13, <2>14, <2>15, <2>16, <2>17, <2>18, <2>19, <2>20, <2>21, <2>22, <2>23, <2>24 DEF
        Threads, Coroutine, Environment
<1>3. QED
    BY <1>1, <1>2 DEF Next, Ledger!LedgerNext

(***************************************************************************)
(* The runs implement the ledger: every transaction of theirs is one of    *)
(* its three updates, or changes nothing a reader of the database sees.    *)
(***************************************************************************)
THEOREM RunsImplementLedger == Spec => ImplementsLedger
<1>1. Init => Ledger!LedgerInit
    BY DEF Init, Ledger!LedgerInit, Written
<1>2. IInv /\ [Next]_vars => [Ledger!LedgerNext]_(Ledger!ledger)
    BY LedgerStep DEF IInv
<1>3. QED
    BY <1>1, <1>2, Invariance, PTL DEF Spec, ImplementsLedger, Ledger!LedgerSpec
=============================================================================

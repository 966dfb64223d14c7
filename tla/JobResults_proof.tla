------------------------- MODULE JobResults_proof ---------------------------
(* What handleSubmitJobResult keeps, whatever its workers and faults.      *)
EXTENDS JobResults, TLAPS

Levels == 0..MaxLevel

(* Where a worker holds the claim unless something went wrong *)
Searching == {"searching", "caching", "consuming"}
Submitting == {"scheduling", "saving", "adding", "resaving", "rebuilding", "releasing"}
Claiming == {"marking"} \cup Searching \cup Submitting

TypeInv ==
  /\ discs \in LeafDiscs..BoardSquares
  /\ row \in Levels \cup {NoRow}
  /\ analysis \in Levels \cup {NoEval}
  /\ marker \in BOOLEAN
  /\ owner \in Workers \cup {Nobody}
  /\ pc \in [Workers -> Claiming \cup {"idle", "answered"}]
  /\ level \in [Workers -> Levels]
  /\ priority \in [Workers -> BOOLEAN]
  /\ answer \in [Workers -> {0, 200, 404, 500}]
  /\ unsaved \in [Workers -> BOOLEAN]
  /\ errors \in Nat /\ expiries \in Nat

(* A worker past its save has the row at its level, unless there was       *)
(* nothing to save or an error was logged.                                 *)
SavedInv ==
  \A w \in Workers :
    /\ answer[w] # 0 => pc[w] = "answered"
    /\ pc[w] = "scheduling" => ~IsBookQuality(discs, level[w])
    /\ pc[w] = "resaving" => row # NoRow
    /\ pc[w] \in {"rebuilding", "releasing"} \/ answer[w] = 200 =>
         (Savable /\ IsBookQuality(discs, level[w]) /\ ~unsaved[w] =>
            row # NoRow /\ row >= level[w])

(* Without a fault, a worker with a job holds its claim and a position     *)
(* without a row has its marker, or its handler has read it.               *)
FaultlessInv ==
  errors + expiries = 0 =>
    /\ \A w \in Workers :
         /\ pc[w] \in Claiming => owner = w
         /\ pc[w] \in Searching /\ row = NoRow => marker
         /\ pc[w] = "saving" /\ row = NoRow => priority[w]
         /\ answer[w] \notin {404, 500}
    /\ owner # Nobody => pc[owner] \in Claiming
    /\ marker => owner # Nobody /\ pc[owner] \in Searching

IInv == TypeInv /\ SavedInv /\ FaultlessInv
-----------------------------------------------------------------------------
LEMMA ResultsInit == Init => IInv
<1> SUFFICES ASSUME Init PROVE IInv
  OBVIOUS
<1>1. TypeInv
  <2>1. row \in Levels \cup {NoRow}
    BY ResultsAssumption DEF Init, Levels
  <2>2. discs \in LeafDiscs..BoardSquares
    BY ResultsAssumption DEF Init
  <2>3. marker \in BOOLEAN /\ priority \in [Workers -> BOOLEAN] /\ unsaved \in [Workers -> BOOLEAN]
    BY Zenon DEF Init
  <2> QED
    BY <2>1, <2>2, <2>3, ResultsAssumption DEF Init, TypeInv, Levels, Claiming, Searching, Submitting, MaxLevel
<1>2. SavedInv
  BY DEF Init, SavedInv
<1>3. FaultlessInv
  BY DEF Init, FaultlessInv, Claiming, Searching, Submitting
<1> QED
  BY <1>1, <1>2, <1>3 DEF IInv

LEMMA MinIs == ASSUME NEW S \in SUBSET Nat, NEW m \in S, \A x \in S : m <= x PROVE Min(S) = m
<1>1. ASSUME NEW x \in S, \A y \in S : x <= y PROVE x = m
  BY <1>1
<1> QED
  BY <1>1 DEF Min

(* The first tier that covers a disc count is its target. *)
LEMMA TargetLevels ==
  ASSUME NEW d \in 0..BoardSquares
  PROVE  TargetLevel(d) = IF d <= 13 THEN 40 ELSE IF d <= 16 THEN 36 ELSE IF d <= 20 THEN 34 ELSE 32
<1> DEFINE covering == {i \in DOMAIN TargetLevelTiers : d <= TargetLevelTiers[i][1]}
           first == IF d <= 13 THEN 1 ELSE IF d <= 16 THEN 2 ELSE IF d <= 20 THEN 3 ELSE 4
<1>1. covering \in SUBSET Nat /\ first \in covering /\ \A i \in covering : first <= i
  BY DEF TargetLevelTiers, BoardSquares
<1>2. Min(covering) = first
  <2> HIDE DEF covering, first
  <2> QED
    BY <1>1, MinIs
<1>3. TargetLevel(d) = TargetLevelTiers[first][2]
  BY <1>2 DEF TargetLevel
<1> QED
  BY <1>3 DEF TargetLevelTiers

LEMMA EffectiveTargets ==
  ASSUME NEW d \in 0..BoardSquares
  PROVE  EffectiveTargetLevel(d) = TargetLevel(IF d <= MaxSavableDiscs THEN d ELSE MaxSavableDiscs)
<1> DEFINE m == IF d <= MaxSavableDiscs THEN d ELSE MaxSavableDiscs
<1>1. {d, MaxSavableDiscs} \in SUBSET Nat /\ m \in {d, MaxSavableDiscs} /\ \A x \in {d, MaxSavableDiscs} : m <= x
  BY DEF MaxSavableDiscs, BoardSquares
<1>2. Min({d, MaxSavableDiscs}) = m
  <2> HIDE DEF m
  <2> QED
    BY <1>1, MinIs
<1> QED
  BY <1>2 DEF EffectiveTargetLevel

LEMMA LevelsOffered ==
  ASSUME TypeInv
  PROVE  {PriorityLevel, EffectiveTargetLevel(discs)} \subseteq Levels /\ TargetLevel(discs) \in Levels
<1>1. discs \in 0..BoardSquares /\ MaxSavableDiscs \in 0..BoardSquares
  BY DEF TypeInv, LeafDiscs, BoardSquares, MaxSavableDiscs
<1>2. \A d \in 0..BoardSquares : TargetLevel(d) \in Levels
  BY TargetLevels DEF Levels, MaxLevel
<1> QED
  BY <1>1, <1>2, EffectiveTargets DEF PriorityLevel, Levels, MaxLevel

LEMMA TypeStep == IInv /\ [Next]_vars => TypeInv'
<1> SUFFICES ASSUME IInv, [Next]_vars PROVE TypeInv'
  OBVIOUS
<1> USE ResultsAssumption DEF IInv, TypeInv, Levels, Claiming, Searching, Submitting, MaxLevel, Move, Error, NoError, Log
<1>1. ASSUME NEW w \in Workers, NEW l \in Levels, ClaimPriority(w, l) PROVE TypeInv'
  BY <1>1 DEF ClaimPriority
<1>2. ASSUME NEW w \in Workers, Mark(w) PROVE TypeInv'
  <2>1. marker' \in BOOLEAN
    BY <1>2 DEF Mark
  <2> QED
    BY <1>2, <2>1 DEF Mark
<1>3. ASSUME NEW w \in Workers, ClaimLearnable(w) PROVE TypeInv'
  BY LevelsOffered, <1>3 DEF ClaimLearnable
<1>4. ASSUME NEW w \in Workers, Searched(w) PROVE TypeInv'
  BY <1>4 DEF Searched
<1>5. ASSUME NEW w \in Workers, SearchFails(w) PROVE TypeInv'
  BY <1>5 DEF SearchFails
<1>6. ASSUME NEW w \in Workers, CacheResult(w) PROVE TypeInv'
  BY <1>6 DEF CacheResult
<1>7. ASSUME NEW w \in Workers, Consume(w) PROVE TypeInv'
  <2>1. marker' \in BOOLEAN
    BY <1>7 DEF Consume, MarkerConsumed
  <2>2. priority' \in [Workers -> BOOLEAN]
    <3>1. CASE priority' = [priority EXCEPT ![w] = marker]
      BY <3>1
    <3>2. CASE priority' = [priority EXCEPT ![w] = FALSE]
      BY <3>2
    <3> QED
      BY <1>7, <3>1, <3>2 DEF Consume
  <2>3. Stage(level[w], priority'[w]) \in Submitting
     BY DEF Stage
  <2> QED
    BY <1>7, <2>1, <2>2, <2>3 DEF Consume
<1>8. ASSUME NEW w \in Workers, Schedule(w) PROVE TypeInv'
  <2>1. unsaved' \in [Workers -> BOOLEAN]
    <3>1. CASE UNCHANGED unsaved
      BY <3>1
    <3>2. CASE Log(w)
      BY <3>2
    <3> QED
      BY <1>8, <3>1, <3>2 DEF Schedule
  <2>2. row' \in Levels \cup {NoRow}
    BY <1>8 DEF Schedule, RowAdded
  <2>3. pc' \in [Workers -> Claiming \cup {"idle", "answered"}]
    BY <1>8 DEF Schedule, RowAdded
  <2>4. errors' \in Nat
    BY <1>8 DEF Schedule
  <2> QED
    BY <1>8, <2>1, <2>2, <2>3, <2>4 DEF Schedule
<1>9. ASSUME NEW w \in Workers, Save(w) PROVE TypeInv'
  BY <1>9 DEF Save, RowSaved, StageAfterSave
<1>10. ASSUME NEW w \in Workers, SaveNotFound(w) PROVE TypeInv'
  BY <1>10 DEF SaveNotFound, Answer
<1>11. ASSUME NEW w \in Workers, Add(w) PROVE TypeInv'
  <2>1. unsaved' \in [Workers -> BOOLEAN]
    <3>1. CASE UNCHANGED unsaved
      BY <3>1
    <3>2. CASE Log(w)
      BY <3>2
    <3> QED
      BY <1>11, <3>1, <3>2 DEF Add
  <2>2. row' \in Levels \cup {NoRow}
    BY <1>11 DEF Add, RowAdded
  <2>3. pc' \in [Workers -> Claiming \cup {"idle", "answered"}]
    BY <1>11 DEF Add, RowAdded
  <2>4. errors' \in Nat
    BY <1>11 DEF Add
  <2> QED
    BY <1>11, <2>1, <2>2, <2>3, <2>4 DEF Add
<1>12. ASSUME NEW w \in Workers, Resave(w) PROVE TypeInv'
  <2>1. unsaved' \in [Workers -> BOOLEAN]
    <3>1. CASE UNCHANGED unsaved
      BY <3>1
    <3>2. CASE Log(w)
      BY <3>2
    <3> QED
      BY <1>12, <3>1, <3>2 DEF Resave
  <2>2. row' \in Levels \cup {NoRow}
    BY <1>12 DEF Resave, RowSaved, StageAfterSave
  <2>3. pc' \in [Workers -> Claiming \cup {"idle", "answered"}]
    BY <1>12 DEF Resave, RowSaved, StageAfterSave
  <2>4. errors' \in Nat
    BY <1>12 DEF Resave
  <2> QED
    BY <1>12, <2>1, <2>2, <2>3, <2>4 DEF Resave
<1>13. ASSUME NEW w \in Workers, Rebuild(w) PROVE TypeInv'
  BY <1>13 DEF Rebuild
<1>14. ASSUME NEW w \in Workers, Release(w) PROVE TypeInv'
  BY <1>14 DEF Release, Answer
<1>15. ASSUME NEW w \in Workers, Fails(w) PROVE TypeInv'
  BY <1>15 DEF Fails, Answer
<1>16. ASSUME NEW w \in Workers, NextJob(w) PROVE TypeInv'
  BY <1>16 DEF NextJob
<1>17. ASSUME MarkerExpires PROVE TypeInv'
  <2>1. marker' \in BOOLEAN
    BY <1>17 DEF MarkerExpires
  <2> QED
    BY <1>17, <2>1 DEF MarkerExpires, workerVars
<1>18. ASSUME ClaimExpires PROVE TypeInv'
  BY <1>18 DEF ClaimExpires, workerVars
<1>19. ASSUME UNCHANGED vars PROVE TypeInv'
  BY <1>19 DEF vars, workerVars
<1> QED
  BY <1>1, <1>2, <1>3, <1>4, <1>5, <1>6, <1>7, <1>8, <1>9, <1>10, <1>11, <1>12, <1>13, <1>14, <1>15, <1>16, <1>17, <1>18, <1>19, LevelsOffered DEF Next, WorkerStep

LEMMA SavedStep == IInv /\ [Next]_vars => SavedInv'
<1> SUFFICES ASSUME IInv, [Next]_vars PROVE SavedInv'
  OBVIOUS
<1> USE ResultsAssumption DEF IInv, TypeInv, SavedInv, Levels, MaxLevel, Savable, Move, Error, NoError, Log
<1>1. ASSUME NEW w \in Workers, NEW l \in Levels, ClaimPriority(w, l) PROVE SavedInv'
  BY <1>1 DEF ClaimPriority
<1>2. ASSUME NEW w \in Workers, Mark(w) PROVE SavedInv'
  BY <1>2 DEF Mark
<1>3. ASSUME NEW w \in Workers, ClaimLearnable(w) PROVE SavedInv'
  BY LevelsOffered, <1>3 DEF ClaimLearnable
<1>4. ASSUME NEW w \in Workers, Searched(w) PROVE SavedInv'
  BY <1>4 DEF Searched
<1>5. ASSUME NEW w \in Workers, SearchFails(w) PROVE SavedInv'
  BY <1>5 DEF SearchFails
<1>6. ASSUME NEW w \in Workers, CacheResult(w) PROVE SavedInv'
  BY <1>6 DEF CacheResult
<1>7. ASSUME NEW w \in Workers, Consume(w) PROVE SavedInv'
  BY <1>7 DEF Consume, Stage, MarkerConsumed
<1>8. ASSUME NEW w \in Workers, Schedule(w) PROVE SavedInv'
  BY <1>8 DEF Schedule, RowAdded
<1>9. ASSUME NEW w \in Workers, Save(w) PROVE SavedInv'
  BY <1>9 DEF Save, RowSaved, StageAfterSave
<1>10. ASSUME NEW w \in Workers, SaveNotFound(w) PROVE SavedInv'
  BY <1>10 DEF SaveNotFound, Answer
<1>11. ASSUME NEW w \in Workers, Add(w) PROVE SavedInv'
  BY <1>11 DEF Add, RowAdded
<1>12. ASSUME NEW w \in Workers, Resave(w) PROVE SavedInv'
  BY <1>12 DEF Resave, RowSaved, StageAfterSave
<1>13. ASSUME NEW w \in Workers, Rebuild(w) PROVE SavedInv'
  BY <1>13 DEF Rebuild
<1>14. ASSUME NEW w \in Workers, Release(w) PROVE SavedInv'
  BY <1>14 DEF Release, Answer
<1>15. ASSUME NEW w \in Workers, Fails(w) PROVE SavedInv'
  BY <1>15 DEF Fails, Answer
<1>16. ASSUME NEW w \in Workers, NextJob(w) PROVE SavedInv'
  BY <1>16 DEF NextJob
<1>17. ASSUME MarkerExpires PROVE SavedInv'
  BY <1>17 DEF MarkerExpires, workerVars
<1>18. ASSUME ClaimExpires PROVE SavedInv'
  BY <1>18 DEF ClaimExpires, workerVars
<1>19. ASSUME UNCHANGED vars PROVE SavedInv'
  BY <1>19 DEF vars, workerVars
<1> QED
  BY <1>1, <1>2, <1>3, <1>4, <1>5, <1>6, <1>7, <1>8, <1>9, <1>10, <1>11, <1>12, <1>13, <1>14, <1>15, <1>16, <1>17, <1>18, <1>19, LevelsOffered DEF Next, WorkerStep

LEMMA FaultlessStep == IInv /\ [Next]_vars => FaultlessInv'
<1> SUFFICES ASSUME IInv, [Next]_vars PROVE FaultlessInv'
  OBVIOUS
<1> USE ResultsAssumption DEF IInv, TypeInv, FaultlessInv, Levels, Claiming, Searching, Submitting, Move, Error, NoError, Log
<1>1. ASSUME NEW w \in Workers, NEW l \in Levels, ClaimPriority(w, l) PROVE FaultlessInv'
  BY <1>1 DEF ClaimPriority
<1>2. ASSUME NEW w \in Workers, Mark(w) PROVE FaultlessInv'
  BY <1>2 DEF Mark
<1>3. ASSUME NEW w \in Workers, ClaimLearnable(w) PROVE FaultlessInv'
  BY LevelsOffered, <1>3 DEF ClaimLearnable
<1>4. ASSUME NEW w \in Workers, Searched(w) PROVE FaultlessInv'
  BY <1>4 DEF Searched
<1>5. ASSUME NEW w \in Workers, SearchFails(w) PROVE FaultlessInv'
  BY <1>5 DEF SearchFails
<1>6. ASSUME NEW w \in Workers, CacheResult(w) PROVE FaultlessInv'
  BY <1>6 DEF CacheResult
<1>7. ASSUME NEW w \in Workers, Consume(w) PROVE FaultlessInv'
  BY <1>7 DEF Consume, Stage, MarkerConsumed
<1>8. ASSUME NEW w \in Workers, Schedule(w) PROVE FaultlessInv'
  BY <1>8 DEF Schedule, RowAdded
<1>9. ASSUME NEW w \in Workers, Save(w) PROVE FaultlessInv'
  BY <1>9 DEF Save, RowSaved, StageAfterSave
<1>10. ASSUME NEW w \in Workers, SaveNotFound(w) PROVE FaultlessInv'
  BY <1>10 DEF SaveNotFound, Answer
<1>11. ASSUME NEW w \in Workers, Add(w) PROVE FaultlessInv'
  BY <1>11 DEF Add, RowAdded
<1>12. ASSUME NEW w \in Workers, Resave(w) PROVE FaultlessInv'
  BY <1>12 DEF Resave, RowSaved, StageAfterSave
<1>13. ASSUME NEW w \in Workers, Rebuild(w) PROVE FaultlessInv'
  BY <1>13 DEF Rebuild
<1>14. ASSUME NEW w \in Workers, Release(w) PROVE FaultlessInv'
  BY <1>14 DEF Release, Answer
<1>15. ASSUME NEW w \in Workers, Fails(w) PROVE FaultlessInv'
  BY <1>15 DEF Fails, Answer
<1>16. ASSUME NEW w \in Workers, NextJob(w) PROVE FaultlessInv'
  BY <1>16 DEF NextJob
<1>17. ASSUME MarkerExpires PROVE FaultlessInv'
  BY <1>17 DEF MarkerExpires, workerVars
<1>18. ASSUME ClaimExpires PROVE FaultlessInv'
  BY <1>18 DEF ClaimExpires, workerVars
<1>19. ASSUME UNCHANGED vars PROVE FaultlessInv'
  BY <1>19 DEF vars, workerVars
<1> QED
  BY <1>1, <1>2, <1>3, <1>4, <1>5, <1>6, <1>7, <1>8, <1>9, <1>10, <1>11, <1>12, <1>13, <1>14, <1>15, <1>16, <1>17, <1>18, <1>19, LevelsOffered DEF Next, WorkerStep

(* A submission keeps the types, the results it saved, and, without a      *)
(* fault, the claim, the marker and the row it goes by.                    *)
THEOREM ResultsInvariant == Spec => []IInv
<1>1. IInv /\ [Next]_vars => IInv'
  BY TypeStep, SavedStep, FaultlessStep DEF IInv
<1> QED
  BY ResultsInit, <1>1, PTL DEF Spec

-----------------------------------------------------------------------------
(* However the handlers of several workers interleave, and whichever of    *)
(* their commands fail, a result of book quality that was answered with    *)
(* 200 is in the book at its level or better, or its loss was logged.      *)
THEOREM AckedResultIsStored == Spec => []AckedIsStored
<1>1. IInv => AckedIsStored
  BY DEF IInv, SavedInv, AckedIsStored
<1> QED
  BY ResultsInvariant, <1>1, PTL

(* Without a failed command or an expiry, no worker is told that its       *)
(* position is not in the book.                                            *)
THEOREM NotFoundNeedsFault == Spec => []NotFoundOnlyAfterFaults
<1>1. IInv => NotFoundOnlyAfterFaults
  BY DEF IInv, TypeInv, FaultlessInv, NotFoundOnlyAfterFaults
<1> QED
  BY ResultsInvariant, <1>1, PTL

(* Without one, workers that are not at work leave neither a claim nor a   *)
(* marker behind.                                                          *)
THEOREM LeftoversNeedFault == Spec => []LeftoversOnlyByFaults
<1>1. IInv => LeftoversOnlyByFaults
  <2> SUFFICES ASSUME IInv, \A w \in Workers : pc[w] = "idle", owner # Nobody \/ marker
               PROVE  errors + expiries > 0
    BY DEF LeftoversOnlyByFaults
  <2> SUFFICES ASSUME errors + expiries = 0 PROVE FALSE
    BY DEF IInv, TypeInv
  <2>1. owner # Nobody /\ pc[owner] \in Claiming
    BY DEF IInv, FaultlessInv, Claiming
  <2>2. owner \in Workers
    BY <2>1 DEF IInv, TypeInv
  <2> QED
    BY <2>1, <2>2 DEF Claiming, Searching, Submitting
<1> QED
  BY ResultsInvariant, <1>1, PTL

(* No step of any handler lowers the level of the position's row, and none *)
(* removes it.                                                             *)
THEOREM RowRises == Spec => RowNeverRegresses
<1>1. IInv /\ [Next]_vars => [row # NoRow => row' # NoRow /\ row' >= row]_vars
  <2> SUFFICES ASSUME IInv, [Next]_vars, row # NoRow PROVE row' # NoRow /\ row' >= row
    OBVIOUS
  <2> USE ResultsAssumption DEF IInv, TypeInv, Levels
  <2>1. CASE UNCHANGED row
    BY <2>1
  <2>2. ASSUME NEW w \in Workers, row' = RowAdded \/ row' = RowSaved(level[w])
        PROVE  row' # NoRow /\ row' >= row
    BY <2>2 DEF RowAdded, RowSaved
  <2>3. ASSUME NEW w \in Workers, WorkerStep(w)
        PROVE  UNCHANGED row \/ row' = RowAdded \/ row' = RowSaved(level[w])
    BY <2>3, Zenon DEF WorkerStep, ClaimPriority, Mark, ClaimLearnable, Searched, SearchFails,
       CacheResult, Consume, Schedule, Save, SaveNotFound, Add, Resave, Rebuild, Release, Fails, NextJob
  <2> QED
    BY <2>1, <2>2, <2>3 DEF Next, MarkerExpires, ClaimExpires, vars
<1> QED
  BY ResultsInvariant, <1>1, PTL DEF Spec, RowNeverRegresses
=============================================================================

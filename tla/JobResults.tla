----------------------------- MODULE JobResults -----------------------------
(***************************************************************************)
(* What becomes of a worker's result for one position: POST                *)
(* /api/jobs/result (handleSubmitJobResult, internal/api/handlers.go),     *)
(* which runs through up to seven commands to Redis and Postgres, any of   *)
(* which may fail, and tells priority jobs from learning jobs by a marker  *)
(* with a TTL of its own (internal/api/redis.go).                          *)
(*                                                                         *)
(* Claims are taken as in claimJob; a claim that expires gives the         *)
(* position a second worker, whose handlers interleave with the first's.   *)
(* Abstracted: scores; the hash of workers; requests that fail validation. *)
(***************************************************************************)
EXTENDS SearchLevels

CONSTANTS
  Workers,
  Nobody,        \* no worker
  NoRow,         \* the position has no row in boards
  NoEval,        \* no cached analysis
  DiscCounts,    \* disc counts the position may have
  StoredLevels,  \* levels its row may have at first, NoRow for none
  MaxErrors,     \* bound on commands and searches that fail
  MaxExpiries    \* bound on markers and claims that expire under their worker

ASSUME ResultsAssumption ==
  /\ Nobody \notin Workers
  /\ NoRow \notin 0..MaxLevel /\ NoEval \notin 0..MaxLevel
  /\ DiscCounts \subseteq LeafDiscs..BoardSquares
  /\ StoredLevels \subseteq 0..MaxLevel \cup {NoRow}
  /\ MaxErrors \in Nat /\ MaxExpiries \in Nat

VARIABLES
  discs,     \* the position's disc count
  row,       \* its level in boards
  analysis,  \* the level of its ephemeral analysis
  marker,    \* priority_claim:<p> is set
  owner,     \* claim:<p>
  pc,        \* per worker: where it, or the handler of its submission, is
  level,     \* per worker: its job's level
  priority,  \* per worker: isPriority in the handler of its submission
  answer,    \* per worker: the status of the answer
  unsaved,   \* per worker: an error was logged in place of saving the result
  errors, expiries

workerVars == <<pc, level, priority, answer, unsaved>>
vars == <<discs, row, analysis, marker, owner, workerVars, errors, expiries>>

-----------------------------------------------------------------------------
Savable == discs <= MaxSavableDiscs

(* AddPositions: ON CONFLICT DO NOTHING *)
RowAdded == IF row = NoRow THEN 0 ELSE row

RowSavedAlways(l) == l  \* mutant: UPDATE without comparing levels

(* SaveEvaluation on an existing row *)
RowSaved(l) == IF l > row THEN l ELSE row

StageShallow(l, isPriority) ==  \* mutant: every priority result is taken for a shallow one
  CASE isPriority \/ ~IsBookQuality(discs, l) ->
         IF isPriority /\ Savable THEN "scheduling" ELSE "releasing"
    [] OTHER -> "saving"

(* The handler's switch *)
Stage(l, isPriority) ==
  CASE ~IsBookQuality(discs, l) -> IF isPriority /\ Savable THEN "scheduling" ELSE "releasing"
    [] IsBookQuality(discs, l) /\ isPriority -> IF Savable THEN "saving" ELSE "releasing"
    [] OTHER -> "saving"

(* Only a leaf can change the minimax cache. *)
StageAfterSave == IF discs = LeafDiscs THEN "rebuilding" ELSE "releasing"

MarkerRead == marker  \* mutant: the marker is read and not deleted

(* GETDEL: the marker is consumed with the read. *)
MarkerConsumed == FALSE

Init ==
  /\ discs \in DiscCounts
  /\ row \in IF Savable THEN StoredLevels ELSE {NoRow}
  /\ analysis = NoEval /\ marker = FALSE /\ owner = Nobody
  /\ pc = [w \in Workers |-> "idle"]
  /\ level = [w \in Workers |-> 0]
  /\ priority = [w \in Workers |-> FALSE]
  /\ answer = [w \in Workers |-> 0]
  /\ unsaved = [w \in Workers |-> FALSE]
  /\ errors = 0 /\ expiries = 0

-----------------------------------------------------------------------------
Move(w, from, to) == pc[w] = from /\ pc' = [pc EXCEPT ![w] = to]
Error == errors < MaxErrors /\ errors' = errors + 1
NoError == UNCHANGED errors
Log(w) == unsaved' = [unsaved EXCEPT ![w] = TRUE]
Answer(w, from, status) ==
  Move(w, from, "answered") /\ answer' = [answer EXCEPT ![w] = status]

(* claimJob: a priority job at any rung, marked by a second command *)
ClaimPriority(w, l) ==
  /\ owner = Nobody
  /\ Move(w, "idle", "marking")
  /\ owner' = w
  /\ level' = [level EXCEPT ![w] = l]
  /\ NoError /\ UNCHANGED <<discs, row, analysis, marker, priority, answer, unsaved, expiries>>

MarkNever(w) ==  \* mutant: claimJob does not mark the claim
  /\ Move(w, "marking", "searching") /\ NoError
  /\ UNCHANGED <<discs, row, analysis, marker, owner, level, priority, answer, unsaved, expiries>>

Mark(w) ==
  /\ Move(w, "marking", "searching")
  /\ \/ marker' = TRUE /\ NoError
     \/ UNCHANGED marker /\ Error
  /\ UNCHANGED <<discs, row, analysis, owner, level, priority, answer, unsaved, expiries>>

(* claimJob: a learnable row, at its target *)
ClaimLearnable(w) ==
  /\ owner = Nobody
  /\ Savable /\ row # NoRow /\ row < TargetLevel(discs)
  /\ Move(w, "idle", "searching")
  /\ owner' = w
  /\ level' = [level EXCEPT ![w] = TargetLevel(discs)]
  /\ NoError /\ UNCHANGED <<discs, row, analysis, marker, priority, answer, unsaved, expiries>>

Searched(w) ==
  /\ Move(w, "searching", "caching") /\ NoError
  /\ UNCHANGED <<discs, row, analysis, marker, owner, level, priority, answer, unsaved, expiries>>

SearchFails(w) ==
  /\ Move(w, "searching", "idle") /\ Error
  /\ UNCHANGED <<discs, row, analysis, marker, owner, level, priority, answer, unsaved, expiries>>

-----------------------------------------------------------------------------
(* handleSubmitJobResult, command by command *)

(* setAnalysisResult is best-effort. *)
CacheResult(w) ==
  /\ Move(w, "caching", "consuming")
  /\ \/ analysis' = level[w] /\ NoError
     \/ UNCHANGED analysis /\ Error
  /\ UNCHANGED <<discs, row, marker, owner, level, priority, answer, unsaved, expiries>>

(* consumePriorityClaim; "treating as non-priority" on an error *)
Consume(w) ==
  /\ \/ /\ marker' = MarkerConsumed /\ NoError
        /\ priority' = [priority EXCEPT ![w] = marker]
     \/ /\ UNCHANGED marker /\ Error
        /\ priority' = [priority EXCEPT ![w] = FALSE]
  /\ Move(w, "consuming", Stage(level[w], priority'[w]))
  /\ UNCHANGED <<discs, row, analysis, owner, level, answer, unsaved, expiries>>

(* AddPositions for a shallow priority result; an error is only logged. *)
Schedule(w) ==
  /\ Move(w, "scheduling", "releasing")
  /\ \/ row' = RowAdded /\ NoError /\ UNCHANGED unsaved
     \/ UNCHANGED row /\ Error /\ Log(w)
  /\ UNCHANGED <<discs, analysis, marker, owner, level, priority, answer, expiries>>

Save(w) ==
  /\ row # NoRow
  /\ Move(w, "saving", StageAfterSave) /\ NoError
  /\ row' = RowSaved(level[w])
  /\ UNCHANGED <<discs, analysis, marker, owner, level, priority, answer, unsaved, expiries>>

(* ErrPositionNotFound: a priority job adds the row, a learning job is told. *)
SaveNotFound(w) ==
  /\ row = NoRow /\ NoError
  /\ IF priority[w] THEN Move(w, "saving", "adding") /\ UNCHANGED answer
                    ELSE Answer(w, "saving", 404)
  /\ UNCHANGED <<discs, row, analysis, marker, owner, level, priority, unsaved, expiries>>

(* AddPositions, then SaveEvaluation once more; errors are only logged. *)
Add(w) ==
  /\ \/ Move(w, "adding", "resaving") /\ row' = RowAdded /\ NoError /\ UNCHANGED unsaved
     \/ Move(w, "adding", "releasing") /\ UNCHANGED row /\ Error /\ Log(w)
  /\ UNCHANGED <<discs, analysis, marker, owner, level, priority, answer, expiries>>

Resave(w) ==
  /\ \/ Move(w, "resaving", StageAfterSave) /\ row' = RowSaved(level[w]) /\ NoError /\ UNCHANGED unsaved
     \/ Move(w, "resaving", "releasing") /\ UNCHANGED row /\ Error /\ Log(w)
  /\ UNCHANGED <<discs, analysis, marker, owner, level, priority, answer, expiries>>

(* The cache's rebuild: BookCache. *)
Rebuild(w) ==
  /\ Move(w, "rebuilding", "releasing") /\ NoError
  /\ UNCHANGED <<discs, row, analysis, marker, owner, level, priority, answer, unsaved, expiries>>

(* releaseClaim *)
Release(w) ==
  /\ Answer(w, "releasing", 200) /\ NoError
  /\ owner' = IF owner = w THEN Nobody ELSE owner
  /\ UNCHANGED <<discs, row, analysis, marker, level, priority, unsaved, expiries>>

(* 500: the handler returns at once, before it releases the claim. *)
Fails(w) ==
  /\ \E from \in {"saving", "rebuilding", "releasing"} : Answer(w, from, 500)
  /\ Error
  /\ UNCHANGED <<discs, row, analysis, marker, owner, level, priority, unsaved, expiries>>

(* The worker asks for its next job, whatever the answer. *)
NextJob(w) ==
  /\ Move(w, "answered", "idle") /\ NoError
  /\ answer' = [answer EXCEPT ![w] = 0]
  /\ unsaved' = [unsaved EXCEPT ![w] = FALSE]
  /\ priority' = [priority EXCEPT ![w] = FALSE]
  /\ UNCHANGED <<discs, row, analysis, marker, owner, level, expiries>>

-----------------------------------------------------------------------------
(* The marker's TTL runs from the claim and no heartbeat refreshes it. *)
MarkerExpires ==
  /\ marker /\ expiries < MaxExpiries
  /\ marker' = FALSE /\ expiries' = expiries + 1
  /\ NoError /\ UNCHANGED <<discs, row, analysis, owner, workerVars>>

(* A claim expires: nobody works on it, or heartbeats were late. *)
ClaimExpires ==
  /\ owner # Nobody
  /\ \/ pc[owner] = "idle" /\ UNCHANGED expiries
     \/ pc[owner] # "idle" /\ expiries < MaxExpiries /\ expiries' = expiries + 1
  /\ owner' = Nobody
  /\ NoError /\ UNCHANGED <<discs, row, analysis, marker, workerVars>>

-----------------------------------------------------------------------------
WorkerStep(w) ==
  \/ \E l \in {PriorityLevel, EffectiveTargetLevel(discs)} : ClaimPriority(w, l)
  \/ Mark(w) \/ ClaimLearnable(w) \/ Searched(w) \/ SearchFails(w)
  \/ CacheResult(w) \/ Consume(w) \/ Schedule(w) \/ Save(w) \/ SaveNotFound(w)
  \/ Add(w) \/ Resave(w) \/ Rebuild(w) \/ Release(w) \/ Fails(w) \/ NextJob(w)

Next == (\E w \in Workers : WorkerStep(w)) \/ MarkerExpires \/ ClaimExpires

Spec == Init /\ [][Next]_vars

-----------------------------------------------------------------------------
(* Whoever submits whatever, late or twice, the row's level never falls.   *)
RowNeverRegresses == [][row # NoRow => row' # NoRow /\ row' >= row]_vars

(* A result of book quality that was answered with 200 is in the book, or  *)
(* an error was logged on the way: no order of handlers loses one.         *)
AckedIsStored ==
  \A w \in Workers :
    answer[w] = 200 /\ Savable /\ IsBookQuality(discs, level[w]) /\ ~unsaved[w] =>
      row # NoRow /\ row >= level[w]

(* "ErrPositionNotFound is a real bug here: every ListLearnable position   *)
(* already has a row" (handlers.go): a position without a row is never     *)
(* taken for one to learn, its marker is there when its result comes --    *)
(* unless a command failed, or the marker expired during the search.       *)
NotFoundOnlyAfterFaults == \A w \in Workers : answer[w] = 404 => errors + expiries > 0

(* A worker that got 200 left no claim behind, and one that is not at work *)
(* left a claim or a marker only through an error.                         *)
LeftoversOnlyByFaults ==
  (\A w \in Workers : pc[w] = "idle") /\ (owner # Nobody \/ marker) => errors + expiries > 0
=============================================================================

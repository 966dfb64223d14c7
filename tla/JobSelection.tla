---------------------------- MODULE JobSelection ----------------------------
(***************************************************************************)
(* How idle workers get the book's positions to learn: claimJob behind     *)
(* GET /api/jobs once the priority queue is empty (internal/api/jobs.go),  *)
(* the query ListLearnable (internal/db/repository.go), the lower bound    *)
(* jobFloor gives it from the book_stats hash, and the goroutine that      *)
(* rebuilds the hash (internal/api/redis.go).                              *)
(*                                                                         *)
(* A handler reads the hash, lists a batch of rows and tries to claim them *)
(* one by one; rows are added, learned and claimed by others meanwhile.    *)
(*                                                                         *)
(* Abstracted: a submission stores and releases in one step (JobResults);  *)
(* a claim nobody works on expires at any time (Claims); scores.  All rows *)
(* have a legal move, as those of the loader and of the server have.       *)
(***************************************************************************)
EXTENDS SearchLevels, SequencesExt

CONSTANTS
  Rows,           \* normalized positions that may have a row in boards
  Discs,          \* the disc count of each
  Workers,
  Nobody,         \* no worker
  NoRow,          \* level of a position without a row; not a position
  NoStats,        \* the book_stats hash is missing
  Batch,          \* jobCandidateBatch
  InitialLevels,  \* levels rows have at first
  MaxFails        \* bound on searches that fail

ASSUME SelectionAssumption ==
  /\ IsFiniteSet(Rows) /\ Discs \in [Rows -> LeafDiscs..MaxSavableDiscs]
  /\ InitialLevels \subseteq 0..MaxLevel \cup {NoRow}
  /\ Nobody \notin Workers /\ NoRow \notin Rows /\ NoRow \notin 0..MaxLevel
  /\ Batch \in Nat \ {0} /\ MaxFails \in Nat

VARIABLES
  level,       \* boards: the level of each row
  stats,       \* book_stats: the (depth, confidence, discs) keys of the hash
  rebuilding,  \* rows and keys as rebuildBookStats queried them, NoStats between rebuilds
  counted,     \* the rows that stats counts
  owner,       \* claim:<p>
  pc,          \* per worker: "idle", "listing", "claiming", "none" or "searching"
  floor,       \* per worker: jobFloor's result
  candidates,  \* per worker: the rows listed and not yet tried, with their levels
  job,         \* per worker: the position it searches
  fails

statsVars == <<stats, rebuilding, counted>>
callVars == <<pc, floor, candidates, job>>
vars == <<level, statsVars, owner, callVars, fails>>

-----------------------------------------------------------------------------
Present(levels) == {r \in Rows : levels[r] # NoRow}
Learnable(levels) == {r \in Present(levels) : levels[r] < TargetLevel(Discs[r])}

(* The entry a row counts for; one that is not learned has no depth. *)
StatsKey(r, l) == <<IF l = 0 THEN <<0, 0>> ELSE SearchParams(Discs[r], l), Discs[r]>>

(* statEntries of the GROUP BY *)
StatsKeys(levels) == {StatsKey(r, levels[r]) : r \in Present(levels)}

(* An empty book has no hash. *)
Hash(levels) == IF Present(levels) = {} THEN NoStats ELSE StatsKeys(levels)

LearnableKeysByDepth(keys) ==  \* mutant: the confidence is not compared
  {k \in keys : k[1][1] < SearchParams(k[2], TargetLevel(k[2]))[1]}

LearnableKeysAll(keys) == keys  \* mutant: learned entries hold the floor down

LearnableKeys(keys) == {k \in keys : LearnableStats(k[2], k[1][1], k[1][2])}

JobFloor ==
  IF stats = NoStats THEN LeafDiscs
  ELSE Min({k[2] : k \in LearnableKeys(stats)} \cup {MaxSavableDiscs})

(* ListLearnable's WHERE: one level for all disc counts above the leaves' *)
BelowQueriedLevel(r) ==
  level[r] < TargetLevel(IF Discs[r] = LeafDiscs THEN LeafDiscs ELSE LeafDiscs + 1)

(* ORDER BY disc_count, level; ties come in any order. *)
Ordered(s) ==
  \A i, j \in DOMAIN s : i < j =>
    \/ Discs[s[i]] < Discs[s[j]]
    \/ Discs[s[i]] = Discs[s[j]] /\ level[s[i]] <= level[s[j]]

Listings(minDiscs) ==
  {SubSeq(s, 1, Min({Len(s), Batch})) :
     s \in {t \in SetToSeqs({r \in Present(level) : Discs[r] >= minDiscs /\ BelowQueriedLevel(r)}) : Ordered(t)}}

-----------------------------------------------------------------------------
Init ==
  /\ level \in [Rows -> InitialLevels]
  /\ stats = Hash(level) /\ rebuilding = NoStats /\ counted = Present(level)
  /\ owner = [r \in Rows |-> Nobody]
  /\ pc = [w \in Workers |-> "idle"]
  /\ floor = [w \in Workers |-> LeafDiscs]
  /\ candidates = [w \in Workers |-> <<>>]
  /\ job = [w \in Workers |-> NoRow]
  /\ fails = 0

(* The loader, or a shallow priority result, adds a row. *)
AddRow(r) ==
  /\ level[r] = NoRow
  /\ level' = [level EXCEPT ![r] = 0]
  /\ UNCHANGED <<statsVars, owner, callVars, fails>>

(* rebuildBookStats: the query, then the swap (or DEL, for an empty book) *)
QueryStats ==
  /\ rebuilding = NoStats
  /\ rebuilding' = [hash |-> Hash(level), rows |-> Present(level)]
  /\ UNCHANGED <<level, stats, counted, owner, callVars, fails>>

SwapStats ==
  /\ rebuilding # NoStats
  /\ stats' = rebuilding.hash
  /\ counted' = rebuilding.rows
  /\ rebuilding' = NoStats
  /\ UNCHANGED <<level, owner, callVars, fails>>

-----------------------------------------------------------------------------
(* claimJob *)

ReadFloor(w) ==
  /\ pc[w] = "idle"
  /\ floor' = [floor EXCEPT ![w] = JobFloor]
  /\ pc' = [pc EXCEPT ![w] = "listing"]
  /\ UNCHANGED <<level, statsVars, owner, candidates, job, fails>>

List(w) ==
  /\ pc[w] = "listing"
  /\ \E s \in Listings(floor[w]) :
       candidates' = [candidates EXCEPT ![w] = [i \in DOMAIN s |-> <<s[i], level[s[i]]>>]]
  /\ floor' = [floor EXCEPT ![w] = LeafDiscs]
  /\ pc' = [pc EXCEPT ![w] = "claiming"]
  /\ UNCHANGED <<level, statsVars, owner, job, fails>>

(* The next candidate is at its target, or claimed by another worker. *)
SkipCandidate(w) ==
  /\ pc[w] = "claiming" /\ candidates[w] # <<>>
  /\ LET c == Head(candidates[w]) IN c[2] >= TargetLevel(Discs[c[1]]) \/ owner[c[1]] # Nobody
  /\ candidates' = [candidates EXCEPT ![w] = Tail(@)]
  /\ UNCHANGED <<level, statsVars, owner, pc, floor, job, fails>>

ClaimCandidate(w) ==
  /\ pc[w] = "claiming" /\ candidates[w] # <<>>
  /\ LET c == Head(candidates[w]) IN
       /\ c[2] < TargetLevel(Discs[c[1]]) /\ owner[c[1]] = Nobody
       /\ owner' = [owner EXCEPT ![c[1]] = w]
       /\ job' = [job EXCEPT ![w] = c[1]]
  /\ candidates' = [candidates EXCEPT ![w] = <<>>]
  /\ pc' = [pc EXCEPT ![w] = "searching"]
  /\ UNCHANGED <<level, statsVars, floor, fails>>

(* 204; the worker sleeps and asks again. *)
NoJob(w) ==
  /\ pc[w] = "claiming" /\ candidates[w] = <<>>
  /\ pc' = [pc EXCEPT ![w] = "none"]
  /\ UNCHANGED <<level, statsVars, owner, floor, candidates, job, fails>>

Sleep(w) ==
  /\ pc[w] = "none"
  /\ pc' = [pc EXCEPT ![w] = "idle"]
  /\ UNCHANGED <<level, statsVars, owner, floor, candidates, job, fails>>

-----------------------------------------------------------------------------
(* The result at the target level is saved if it improves on the row. *)
Submit(w) ==
  /\ pc[w] = "searching"
  /\ level' = [level EXCEPT ![job[w]] = Max({@, TargetLevel(Discs[job[w]])})]
  /\ owner' = [owner EXCEPT ![job[w]] = IF @ = w THEN Nobody ELSE @]
  /\ job' = [job EXCEPT ![w] = NoRow]
  /\ pc' = [pc EXCEPT ![w] = "idle"]
  /\ UNCHANGED <<statsVars, floor, candidates, fails>>

(* The search or the submission fails: the claim stays until it expires. *)
SearchFails(w) ==
  /\ pc[w] = "searching" /\ fails < MaxFails
  /\ fails' = fails + 1
  /\ job' = [job EXCEPT ![w] = NoRow]
  /\ pc' = [pc EXCEPT ![w] = "idle"]
  /\ UNCHANGED <<level, statsVars, owner, floor, candidates>>

ClaimExpires(r) ==
  /\ owner[r] # Nobody /\ job[owner[r]] # r
  /\ owner' = [owner EXCEPT ![r] = Nobody]
  /\ UNCHANGED <<level, statsVars, callVars, fails>>

-----------------------------------------------------------------------------
WorkerStep(w) ==
  ReadFloor(w) \/ List(w) \/ SkipCandidate(w) \/ ClaimCandidate(w) \/ NoJob(w) \/ Sleep(w)
  \/ Submit(w) \/ SearchFails(w)

Next ==
  \/ \E r \in Rows : AddRow(r) \/ ClaimExpires(r)
  \/ QueryStats \/ SwapStats
  \/ \E w \in Workers : WorkerStep(w)

Spec == Init /\ [][Next]_vars

(* Workers keep polling, searches end, the ticker rebuilds the hash, and   *)
(* claims nobody refreshes expire.                                         *)
Fairness ==
  /\ \A w \in Workers :
       WF_vars(ReadFloor(w) \/ List(w) \/ SkipCandidate(w) \/ ClaimCandidate(w) \/ NoJob(w) \/ Sleep(w) \/ Submit(w))
  /\ WF_vars(QueryStats \/ SwapStats)
  /\ WF_vars(\E r \in Rows : ClaimExpires(r))

FairSpec == Spec /\ Fairness

-----------------------------------------------------------------------------
(* jobFloor "may be stale by one refresh; it is only a lower bound for the *)
(* ListLearnable scan" (redis.go): no row that the hash counts and that is *)
(* still below its target lies under it, however many rows were learned    *)
(* since, although the hash keeps what a level stands for (depth and       *)
(* confidence) and not the level.                                          *)
FloorIsLowerBound == \A r \in Learnable(level) \cap counted : JobFloor <= Discs[r]

(* Every row of the book reaches its target level and stays there, the     *)
(* rows added last, those whose search failed and those behind a full      *)
(* batch of learned ones (jobFloor passes these once the hash is rebuilt)  *)
(* included.                                                               *)
EveryRowLearned == <>[](Learnable(level) = {})
=============================================================================

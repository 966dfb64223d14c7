----------------------------- MODULE BookCache ------------------------------
(***************************************************************************)
(* The minimax cache of the server (internal/book): scores of all early    *)
(* positions, computed from the learned leaves and rebuilt from scratch by *)
(* every handler that saved a leaf (handleSubmitJobResult), and once when  *)
(* the server starts (cmd/server/main.go).                                 *)
(*                                                                         *)
(* Rebuild queries the leaves, computes, and installs under a lock that    *)
(* covers only the last of these; handlers interleave between them.        *)
(*                                                                         *)
(* Abstracted: the game is any acyclic graph of normalized positions; the  *)
(* rest of the handler is in JobResults.                                   *)
(***************************************************************************)
EXTENDS Integers, SearchLevels

CONSTANTS
  Positions,     \* normalized positions
  Root,          \* the starting position
  Discs,         \* disc count of each position
  Moves,         \* its children
  Passed,        \* the position after a pass
  FinalScore,    \* score if the game is over
  Undetermined,  \* no score
  Submissions,   \* [leaf, level, score] that workers may submit
  Handlers,
  MaxErrors,     \* bound on queries that fail
  MaxRestarts    \* bound on restarts of the server

HasMoves(p) == Moves[p] # {}
GameOver(p) == ~HasMoves(p) /\ ~HasMoves(Passed[p])
Leaves == {p \in Positions : Discs[p] = LeafDiscs /\ HasMoves(p)}

ASSUME CacheAssumption ==
  /\ Discs \in [Positions -> 4..BoardSquares]
  /\ Root \in Positions /\ Discs[Root] < LeafDiscs
  /\ Moves \in [Positions -> SUBSET Positions]
  /\ \A p \in Positions : Discs[p] < LeafDiscs => \A q \in Moves[p] : Discs[q] = Discs[p] + 1
  /\ Passed \in [Positions -> Positions]
  /\ \A p \in Positions : Discs[Passed[p]] = Discs[p] /\ (~HasMoves(p) => Passed[Passed[p]] = p)
  /\ FinalScore \in [Positions -> -BoardSquares..BoardSquares]
  /\ Undetermined \notin -BoardSquares..BoardSquares
  /\ Submissions \subseteq [leaf : Leaves, level : 1..MaxLevel, score : -BoardSquares..BoardSquares]
  /\ MaxErrors \in Nat /\ MaxRestarts \in Nat

VARIABLES
  boards,    \* [level, score] of each leaf, level 0 when it is not learned
  cache,     \* Cache.values
  pc,        \* per handler: "idle", "loading" or "building"
  leaves,    \* per handler: the leaf scores Rebuild has queried
  source,    \* history: the leaf scores cache was computed from
  errors, restarts,
  raced      \* history: two rebuilds overlapped since the server started

codeVars == <<boards, cache, pc, leaves>>
vars == <<codeVars, source, errors, restarts, raced>>

-----------------------------------------------------------------------------
(* minimax.go *)

Negated(v) == IF v = Undetermined THEN Undetermined ELSE -v

(* below every score: what minimaxChildren starts from *)
NoValue == -65

(* minimaxChildren skipping the children that have no value *)
BestOfKnown(scores) ==  \* mutant
  IF scores = {Undetermined} THEN Undetermined ELSE Max(scores \ {Undetermined})

(* minimaxChildren: no value unless every child has one *)
Best(scores) ==
  IF Undetermined \in scores THEN Undetermined ELSE Max(scores \cup {NoValue})

(* minimaxValue for all positions; a leaf without moves passes first *)
MinimaxValue(leafScores) ==
  LET value[p \in Positions] ==
        CASE GameOver(p)               -> FinalScore[p]
          [] ~HasMoves(p) /\ ~GameOver(p) -> Negated(value[Passed[p]])
          [] Discs[p] >= LeafDiscs /\ HasMoves(p) ->
               IF p \in DOMAIN leafScores THEN leafScores[p] ELSE Undetermined
          [] OTHER                     -> Best({Negated(value[q]) : q \in Moves[p]})
  IN value

(* The positions minimaxValue goes on to from one. *)
Successors(p) ==
  CASE ~HasMoves(p) -> IF GameOver(p) THEN {} ELSE {Passed[p]}
    [] HasMoves(p) /\ Discs[p] >= LeafDiscs -> {}
    [] OTHER -> Moves[p]

(* Every ply adds a disc or passes to a player with moves. *)
MaxPlies == 2 * LeafDiscs

Nearby(near) == near \cup UNION {Successors(q) : q \in near}

ReachedFrom(p) ==
  LET within[n \in 0..MaxPlies] == IF n = 0 THEN {p} ELSE Nearby(within[n - 1])
  IN within[MaxPlies]

(* buildCache *)
BuildCache(leafScores) ==
  LET value == MinimaxValue(leafScores)
  IN [p \in {q \in ReachedFrom(Root) : Discs[q] < LeafDiscs /\ value[q] # Undetermined} |-> value[p]]

-----------------------------------------------------------------------------
(* EvaluatedPositions *)
LearnedLeaves == [p \in {q \in Leaves : boards[q].level > 0} |-> boards[p].score]

CacheAtStart == [cache |-> BuildCache(LearnedLeaves), source |-> LearnedLeaves]

Init ==
  /\ boards = [p \in Leaves |-> [level |-> 0, score |-> 0]]
  /\ cache = CacheAtStart.cache /\ source = CacheAtStart.source
  /\ pc = [h \in Handlers |-> "idle"]
  /\ leaves = [h \in Handlers |-> <<>>]
  /\ errors = 0 /\ restarts = 0 /\ raced = FALSE

RebuildAfterFirst(s) == boards[s.leaf].level = 0  \* mutant: improved scores rebuild nothing

(* savedToDB: whether or not the row was improved *)
RebuildAfter(s) == TRUE

(* handleSubmitJobResult: SaveEvaluation improves on the row, or is a no-op. *)
Save(h, s) ==
  /\ pc[h] = "idle"
  /\ boards' = [boards EXCEPT ![s.leaf] =
       IF s.level > @.level THEN [level |-> s.level, score |-> s.score] ELSE @]
  /\ pc' = [pc EXCEPT ![h] = IF RebuildAfter(s) THEN "loading" ELSE "idle"]
  /\ UNCHANGED <<cache, leaves, source, errors, restarts, raced>>

(* Rebuild: the query *)
Load(h) ==
  /\ pc[h] = "loading"
  /\ leaves' = [leaves EXCEPT ![h] = LearnedLeaves]
  /\ pc' = [pc EXCEPT ![h] = "building"]
  /\ raced' = (raced \/ \E other \in Handlers : pc[other] = "building")
  /\ UNCHANGED <<boards, cache, source, errors, restarts>>

(* The query fails; the worker is told, its result stays saved. *)
LoadFails(h) ==
  /\ pc[h] = "loading" /\ errors < MaxErrors
  /\ errors' = errors + 1
  /\ pc' = [pc EXCEPT ![h] = "idle"]
  /\ UNCHANGED <<boards, cache, leaves, source, restarts, raced>>

(* Rebuild: buildCache, and the assignment under the lock *)
Install(h) ==
  /\ pc[h] = "building"
  /\ cache' = BuildCache(leaves[h]) /\ source' = leaves[h]
  /\ leaves' = [leaves EXCEPT ![h] = <<>>]
  /\ pc' = [pc EXCEPT ![h] = "idle"]
  /\ UNCHANGED <<boards, errors, restarts, raced>>

(* The server restarts: requests are gone, the cache is rebuilt before it  *)
(* listens.                                                                *)
Restart ==
  /\ restarts < MaxRestarts
  /\ restarts' = restarts + 1
  /\ cache' = CacheAtStart.cache /\ source' = CacheAtStart.source
  /\ pc' = [h \in Handlers |-> "idle"]
  /\ leaves' = [h \in Handlers |-> <<>>]
  /\ errors' = 0 /\ raced' = FALSE
  /\ UNCHANGED boards

-----------------------------------------------------------------------------
Next ==
  \/ \E h \in Handlers : (\E s \in Submissions : Save(h, s)) \/ Load(h) \/ LoadFails(h) \/ Install(h)
  \/ Restart

Spec == Init /\ [][Next]_vars

-----------------------------------------------------------------------------
(* What the cache promises: the outcome of play between two sides that     *)
(* each fix a move for every position.  A play ends at a leaf or when the  *)
(* game is over; its score is that of the side to move at the start.       *)
Ends(p) == Successors(p) = {}
Deciding == {p \in ReachedFrom(Root) : HasMoves(p) /\ ~Ends(p)}
Strategies == {s \in [Deciding -> UNION {Moves[p] : p \in Deciding}] : \A p \in Deciding : s[p] \in Moves[p]}

Ply(s) ==
  IF Ends(s.at) THEN s
  ELSE [at |-> IF HasMoves(s.at) THEN s.mover[s.at] ELSE Passed[s.at],
        mover |-> s.waiter, waiter |-> s.mover, sign |-> -s.sign]
EndOfPlay(p, own, other) ==
  LET play[n \in 0..MaxPlies] ==
        IF n = 0 THEN [at |-> p, mover |-> own, waiter |-> other, sign |-> 1] ELSE Ply(play[n - 1])
  IN play[MaxPlies]
Outcome(p, own, other, leafScores) ==
  LET end == EndOfPlay(p, own, other)
  IN end.sign * (IF GameOver(end.at) THEN FinalScore[end.at] ELSE leafScores[end.at])
Covered(p, leafScores) == \A q \in ReachedFrom(p) : Ends(q) => GameOver(q) \/ q \in DOMAIN leafScores

(* Every score served is what best play leads to from leaf scores that     *)
(* were in the book together, and a position is covered as soon as all     *)
(* leaves it leads to are ("omitting any position with an unlearned        *)
(* leafDiscs-disc descendant rather than guessing at it", minimax.go).     *)
CacheIsBestPlay ==
  /\ DOMAIN cache = {p \in ReachedFrom(Root) : Discs[p] < LeafDiscs /\ Covered(p, source)}
  /\ \A p \in DOMAIN cache :
       cache[p] = Max({Min({Outcome(p, own, other, source) : other \in Strategies}) : own \in Strategies})

Quiet == \A h \in Handlers : pc[h] = "idle"

(* "Rebuild recomputes the cache from the LeafDiscs-disc evaluations       *)
(* currently in the DB" (cache.go): when no rebuild is under way the cache *)
(* lacks a stored leaf only after a rebuild that failed, or two that       *)
(* overlapped; a restart heals both.                                       *)
StaleOnlyByFaults == Quiet /\ errors = 0 /\ ~raced => source = LearnedLeaves

=============================================================================

---------------------------- MODULE SearchLevels ----------------------------
(***************************************************************************)
(* The arithmetic of edax search levels: what a search at a level means    *)
(* for a position (internal/edax/search_params.go), the level every disc   *)
(* count is to reach (internal/api/jobs.go), and the predicates of the     *)
(* server that compare evaluations through it.  No state: the modules of   *)
(* the server and of the frontend build on these operators.                *)
(***************************************************************************)
EXTENDS Naturals, Sequences, FiniteSetsExt

BoardSquares == 64
LeafDiscs == 12          \* learned directly; everything below is minimaxed
MaxSavableDiscs == 30    \* highest disc count that gets a row in boards
MaxLevel == 60           \* validateJobResult: highest level a result may have
PriorityLevel == 10      \* level of the first interactive request

-----------------------------------------------------------------------------
(* Selectivity is an index into edax's table; 5 is a full-width search. *)
SelectivityPercent == <<73, 87, 95, 98, 99, 100>>
NoSelectivity == 5

(* The endgame bands of a level: up to band[1] empty squares the search    *)
(* runs the game out at selectivity band[2]; beyond the last band it is a  *)
(* midgame search of depth level at selectivity 0.                         *)
Bands(level) ==
  CASE level \in 11..12 -> << <<21, 5>>, <<24, 3>> >>
    [] level \in 13..18 -> << <<21, 5>>, <<24, 3>>, <<27, 1>> >>
    [] level \in 19..21 -> << <<24, 5>>, <<27, 3>>, <<30, 1>> >>
    [] level \in 22..24 -> << <<24, 5>>, <<27, 4>>, <<30, 2>>, <<33, 0>> >>
    [] level \in 25..27 -> << <<27, 5>>, <<30, 3>>, <<33, 1>> >>
    [] level \in 28..29 -> << <<27, 5>>, <<30, 4>>, <<33, 2>>, <<36, 0>> >>
    [] level \in 30..31 -> << <<30, 5>>, <<33, 3>>, <<36, 1>> >>
    [] level \in 32..33 -> << <<30, 5>>, <<33, 4>>, <<36, 2>>, <<39, 0>> >>
    [] level \in 34..35 -> << <<30, 5>>, <<33, 4>>, <<36, 3>>, <<39, 1>> >>
    [] OTHER            -> << <<level - 6, 5>>, <<level - 3, 4>>, <<level, 3>>,
                              <<level + 3, 2>>, <<level + 6, 1>>, <<level + 9, 0>> >>

BandSearch(level, empties) ==
  LET bands == Bands(level)
      fits  == {i \in DOMAIN bands : empties <= bands[i][1]}
  IN IF fits = {} THEN [depth |-> level, selectivity |-> 0]
     ELSE [depth |-> empties, selectivity |-> bands[Min(fits)][2]]

(* depthAndSelectivity: what edax searches at a level with so many empties. *)
DepthAndSelectivity(level, empties) ==
  CASE level = 0                -> [depth |-> 0, selectivity |-> NoSelectivity]
    [] level \in 1..10          -> [depth |-> IF empties > 2 * level THEN level ELSE empties,
                                    selectivity |-> NoSelectivity]
    [] level \in 11..(MaxLevel - 1) -> BandSearch(level, empties)
    [] level >= MaxLevel        -> [depth |-> empties, selectivity |-> NoSelectivity]

(* SearchParams: the (depth, confidence) pair edax reports. *)
SearchParams(discs, level) ==
  LET s == DepthAndSelectivity(level, BoardSquares - discs)
  IN <<s.depth, SelectivityPercent[s.selectivity + 1]>>

(* IsFinal: the search ran the game out at full width. *)
IsFinal(discs, level) == SearchParams(discs, level) = <<BoardSquares - discs, 100>>

-----------------------------------------------------------------------------
TargetLevelTiers == << <<13, 40>>, <<16, 36>>, <<20, 34>>, <<64, 32>> >>

TargetLevel(discs) ==
  LET covering == {i \in DOMAIN TargetLevelTiers : discs <= TargetLevelTiers[i][1]}
  IN TargetLevelTiers[Min(covering)][2]

EffectiveTargetLevel(discs) == TargetLevel(Min({discs, MaxSavableDiscs}))

(* isBookQuality: deep enough for the boards table. *)
IsBookQuality(discs, level) == level >= TargetLevel(discs) \/ IsFinal(discs, level)

(* searchAddsNothing: a search at level repeats the evaluation stored at   *)
(* level stored.                                                           *)
SearchAddsNothing(discs, stored, level) ==
  \/ IsFinal(discs, stored)
  \/ SearchParams(discs, stored) = SearchParams(discs, level)

(* The learnable test jobFloor applies to a book_stats entry, whose key    *)
(* holds the (depth, confidence) of the rows it counts.                    *)
LearnableStats(discs, depth, confidence) ==
  LET target == SearchParams(discs, TargetLevel(discs))
  IN \/ depth = 0
     \/ depth < target[1]
     \/ depth = target[1] /\ confidence < target[2]
=============================================================================

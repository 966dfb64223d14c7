----------------------------- MODULE Evaluation -----------------------------
(***************************************************************************)
(* The trained evaluation of the wasm evaluator: the 46 patterns of the    *)
(* board and their values (wasm/edax-eval/src/eval.rs), and the tables of  *)
(* weights they index, unpacked from words that mirrored patterns share    *)
(* (weights.rs).                                                           *)
(***************************************************************************)
EXTENDS Bitboard, SequencesExt, Weights

-----------------------------------------------------------------------------
(* The regions of the weight tables, in the order of EVAL_PACKED_OFS: a    *)
(* pattern of so many squares is a number of so many base-3 digits, its    *)
(* first square the highest, added to the region's offset in its table.    *)
Regions ==
  << [group |-> "c9",    offset |-> 0,     digits |-> 9],
     [group |-> "c10",   offset |-> 0,     digits |-> 10],
     [group |-> "s100",  offset |-> 0,     digits |-> 10],
     [group |-> "s101",  offset |-> 0,     digits |-> 10],
     [group |-> "s8x4",  offset |-> 0,     digits |-> 8],
     [group |-> "s8x4",  offset |-> 6561,  digits |-> 8],
     [group |-> "s8x4",  offset |-> 13122, digits |-> 8],
     [group |-> "s8x4",  offset |-> 19683, digits |-> 8],
     [group |-> "s7654", offset |-> 0,     digits |-> 7],
     [group |-> "s7654", offset |-> 2187,  digits |-> 6],
     [group |-> "s7654", offset |-> 2916,  digits |-> 5],
     [group |-> "s7654", offset |-> 3159,  digits |-> 4] >>

InRegion(region, patterns) == [i \in DOMAIN patterns |-> [region |-> region, squares |-> patterns[i]]]
Line(start, step, n) == [i \in 1..n |-> start + step * (i - 1)]
Lines(n, starts, steps) == [i \in DOMAIN starts |-> Line(starts[i], steps[i], n)]

FEATURES ==
     InRegion(1, << <<0, 1, 8, 9, 2, 16, 10, 17, 18>>, <<7, 6, 15, 14, 5, 23, 13, 22, 21>>,
                   <<56, 48, 57, 49, 40, 58, 41, 50, 42>>, <<63, 55, 62, 54, 47, 61, 46, 53, 45>> >>)
  \o InRegion(2, << <<32, 24, 16, 8, 0, 9, 1, 2, 3, 4>>, <<39, 31, 23, 15, 7, 14, 6, 5, 4, 3>>,
                   <<24, 32, 40, 48, 56, 49, 57, 58, 59, 60>>, <<31, 39, 47, 55, 63, 54, 62, 61, 60, 59>> >>)
  \o InRegion(3, << <<9, 0, 1, 2, 3, 4, 5, 6, 7, 14>>, <<49, 56, 57, 58, 59, 60, 61, 62, 63, 54>>,
                   <<9, 0, 8, 16, 24, 32, 40, 48, 56, 49>>, <<14, 7, 15, 23, 31, 39, 47, 55, 63, 54>> >>)
  \o InRegion(4, << <<0, 2, 3, 10, 11, 12, 13, 4, 5, 7>>, <<56, 58, 59, 50, 51, 52, 53, 60, 61, 63>>,
                   <<0, 16, 24, 17, 25, 33, 41, 32, 40, 56>>, <<7, 23, 31, 22, 30, 38, 46, 39, 47, 63>> >>)
  \o InRegion(5, Lines(8, <<8, 48, 1, 6>>, <<1, 1, 8, 8>>))
  \o InRegion(6, Lines(8, <<16, 40, 2, 5>>, <<1, 1, 8, 8>>))
  \o InRegion(7, Lines(8, <<24, 32, 3, 4>>, <<1, 1, 8, 8>>))
  \o InRegion(8, Lines(8, <<0, 56>>, <<9, -7>>))
  \o InRegion(9, Lines(7, <<1, 15, 8, 6>>, <<9, 7, 9, 7>>))
  \o InRegion(10, Lines(6, <<2, 16, 5, 23>>, <<9, 9, 7, 7>>))
  \o InRegion(11, Lines(5, <<3, 24, 4, 31>>, <<9, 9, 7, 7>>))
  \o InRegion(12, Lines(4, <<3, 32, 4, 39>>, <<7, 9, 9, 7>>))

Features == DOMAIN FEATURES

-----------------------------------------------------------------------------
(* Values of the patterns *)

n_empties(b) == 64 - Cardinality(Discs(b))

Horner(digits) ==
  LET x[n \in 0..Len(digits)] == IF n = 0 THEN 0 ELSE 3 * x[n - 1] + digits[n]
  IN  x[Len(digits)]
Colour(b, s) == CASE s \in b.player -> 0 [] s \in b.opponent -> 1 [] OTHER -> 2

compute_features(b) ==
  [i \in Features |->
    LET squares == FEATURES[i].squares
    IN  Regions[FEATURES[i].region].offset + Horner([j \in DOMAIN squares |-> Colour(b, squares[j])])]

(* Colour 0 is the mover's when the number of empty squares is even. *)
init_features(b, empties) ==
  compute_features(IF empties % 2 = 1 THEN Passed(b) ELSE b)

(* SQ_FEAT_COUNT, SQ_FEAT_IDX and SQ_FEAT_WEIGHT: what a square's digit    *)
(* counts for in each pattern: the number with a 1 at the square's places  *)
SquareWeight ==
  [i \in Features |->
    LET squares == FEATURES[i].squares
    IN  [s \in Squares |-> Horner([j \in DOMAIN squares |-> IF squares[j] = s THEN 1 ELSE 0])]]

Changed(f, sq, flipped, placed, turned) ==
  [i \in Features |-> f[i] + placed * SquareWeight[i][sq]
                           + turned * SumFunctionOnSet(SquareWeight[i], flipped)]

update_features(f, sq, flipped, mover_is_eval_player) ==
  IF mover_is_eval_player THEN Changed(f, sq, flipped, -2, -1) ELSE Changed(f, sq, flipped, -1, 1)

undo_features(f, sq, flipped, mover_is_eval_player) ==
  IF mover_is_eval_player THEN Changed(f, sq, flipped, 2, 1) ELSE Changed(f, sq, flipped, 1, -1)

-----------------------------------------------------------------------------
(* Packing: a state of a pattern and its mirror image have one word.       *)

Digit(l, j) == (l \div 3^j) % 3

(* KD_S10, KD_C10, KD_C9: the place digit j has in the mirror image *)
MirrorPlace(r, j) ==
  LET n == Regions[r].digits
  IN  CASE r = 1 -> <<0, 2, 1, 4, 3, 5, 7, 6, 8>>[j + 1]
        [] r = 2 -> IF j \in {4, 5} THEN j ELSE 9 - j
        [] OTHER -> n - 1 - j

States(r) == 0..3^Regions[r].digits - 1

Mirror(r, l) ==
  LET k[n \in 0..Regions[r].digits] ==
        IF n = 0 THEN 0 ELSE k[n - 1] + Digit(l, n - 1) * 3^MirrorPlace(r, n - 1)
  IN  k[Regions[r].digits]

(* set_eval_packing: one index for a state and its mirror *)
Packed(r, l) == LET m == Mirror(r, l) IN IF m < l THEN m ELSE l

(* set_opponent_feature: in each of d digits, 0 and 1 change places. *)
opponent_feature(d, o) == Horner([j \in 1..d |-> <<1, 0, 2>>[Digit(o, d - j) + 1]])

(* build_symmetry_packing: the tables of odd plies are indexed by the      *)
(* opponent's view.                                                        *)
symmetry_packingOneColour(r, parity, l) == Packed(r, l)  \* mutant: every ply as an even one

symmetry_packing(r, parity, l) ==
  Packed(r, IF parity = 1 THEN opponent_feature(Regions[r].digits, l) ELSE l)

EVAL_PACKED_OFS ==
  <<0, 10206, 40095, 69741, 99387, 102708, 106029, 109350, 112671, 113805, 114183, 114318>>

(* The word of a packed index of a region.  The words of a ply are cut     *)
(* down to N_W, the last the constant s0: those of different indices may   *)
(* coincide.                                                               *)
Word(r, index) == (EVAL_PACKED_OFS[r] + index) % (N_W - 1)
S0 == N_W - 1

(* unpack: the weight at an index of a table; ply 0 of the slice is ply 2. *)
UnpackedWeight(raw, ply, group, index) ==
  LET r == CHOOSE r \in DOMAIN Regions :
             /\ Regions[r].group = group
             /\ index - Regions[r].offset \in States(r)
  IN  raw[ply * N_W + Word(r, symmetry_packing(r, ply % 2, index - Regions[r].offset))]

-----------------------------------------------------------------------------
(* Scores *)

TableOfPly(ply) ==
  LET p == (IF ply >= EVAL_N_PLY THEN EVAL_N_PLY - 2 + (ply % 2) ELSE ply) - 2
  IN  IF p < 0 THEN p % 2 ELSE p

accumulate_eval(ply, f, raw) ==
  LET table == TableOfPly(ply)
      sum[i \in {0} \cup Features] ==
        IF i = 0 THEN raw[table * N_W + S0]
        ELSE sum[i - 1] + UnpackedWeight(raw, table, Regions[FEATURES[i].region].group, f[i])
  IN  sum[Len(FEATURES)]

(* Scaled to discs, rounded to the nearest, within -63..63; division       *)
(* truncates.                                                              *)
Discounted(sum) ==
  LET score == IF sum > 0 THEN (sum + 64) \div 128 ELSE -((64 - sum) \div 128)
  IN  Max({-63, Min({63, score})})

eval_from_features(f, empties, raw) == Discounted(accumulate_eval(60 - empties, f, raw))

search_eval_0(b, raw) ==
  eval_from_features(init_features(b, n_empties(b)), n_empties(b), raw)
=============================================================================

---------------------------- MODULE MCJobResults ----------------------------
(* Instances of JobResults for TLC. *)
EXTENDS JobResults, TLC

CONSTANTS w1, w2

MCWorkers == {w1, w2}
MCSymmetry == Permutations(Workers)

(* a leaf, a savable position and one beyond the book *)
MCDiscCounts == {12, 14, 33}

(* no row, not learned, below the target, above the target of 14 discs *)
MCStoredLevels == {NoRow, 0, 16, 40}
=============================================================================

------------------------------ MODULE MCLadder ------------------------------
(* Instances of AnalysisLadder for TLC. *)
EXTENDS AnalysisLadder

(* Positions a review climbs all the way: some that a row is kept for --   *)
(* the first of each target level, and the last of each way the rungs'     *)
(* searches change with the empty squares -- and some near the end that a  *)
(* rung solves outright.                                                   *)
MCOffBook == {31, 37, 40}   \* 33, 27 and 24 empty squares
MCClimbable == {12, 14, 17, 21, 27, 30, 43, 45, 50, 63}

(* No row, a row not learned yet, one at the book's usual level            *)
(* (docs/next-steps.md), and one at a level every target meets.            *)
MCRows == {NoRow, 0, 16, 40}
MCNoRow == {NoRow}

MCEmptyCache == {0}
MCAnyCache == {0, 14}
=============================================================================

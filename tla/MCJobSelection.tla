--------------------------- MODULE MCJobSelection ---------------------------
(* An instance of JobSelection for TLC.  Level 36 is the target of 14 discs *)
(* and above that of 29, for which levels 31 and 32 differ in confidence    *)
(* alone.                                                                   *)
EXTENDS JobSelection

CONSTANTS early, last, w1, w2

MCRows == {early, last}
MCDiscs == [r \in Rows |-> IF r = last THEN 29 ELSE 14]
MCWorkers == {w1, w2}
MCLevels == {NoRow, 31, 36}
=============================================================================

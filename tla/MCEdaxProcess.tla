--------------------------- MODULE MCEdaxProcess ----------------------------
(* Instances of EdaxProcess for TLC. *)
EXTENDS EdaxProcess, TLC

CONSTANTS p1, p2, e1, e2, e3

MCPositions == {p1, p2}
MCLevels == {10, 40}
MCProcesses == {e1, e2, e3}
MCSymmetry == Permutations(EdaxPositions) \cup Permutations(Processes)
=============================================================================

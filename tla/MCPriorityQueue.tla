--------------------------- MODULE MCPriorityQueue --------------------------
(* Instances of PriorityQueue for TLC. *)
EXTENDS PriorityQueue, TLC
CONSTANTS p1, p2, c1, c2, w1, w2
MCPositions == {p1, p2}
MCOnePosition == {p1}
MCClients == {c1, c2}
MCWorkers == {w1, w2}
MCOneWorker == {w1}
MCSymmetry == Permutations(MCPositions) \cup Permutations(MCClients) \cup Permutations(MCWorkers)
=============================================================================

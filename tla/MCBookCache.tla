---------------------------- MODULE MCBookCache -----------------------------
(* Instances of BookCache for TLC: a game in which the root leads to a     *)
(* position with moves and to one that must pass, to two leaves, to a      *)
(* position of the leaves' disc count that must pass to a leaf, and to one *)
(* where the game is over.                                                 *)
EXTENDS BookCache, TLC

CONSTANTS root, a, b, bPassed, stray, leaf1, leaf2, leaf2Passed, over, overPassed, deeper, h1, h2

MCPositions == {root, a, b, bPassed, stray, leaf1, leaf2, leaf2Passed, over, overPassed, deeper}
MCDiscs ==
  [p \in MCPositions |->
     CASE p = root -> 10 [] p \in {a, b, bPassed, stray} -> 11 [] p = deeper -> 13 [] OTHER -> 12]
MCMoves ==
  [p \in MCPositions |->
     CASE p = root    -> {a, b}
       [] p = a       -> {leaf1, leaf2Passed}
       [] p = bPassed -> {leaf2, over}
       [] p = stray   -> {leaf1}
       [] p \in {leaf1, leaf2} -> {deeper}
       [] OTHER       -> {}]
MCPassed ==
  [p \in MCPositions |->
     CASE p = b -> bPassed [] p = bPassed -> b
       [] p = leaf2 -> leaf2Passed [] p = leaf2Passed -> leaf2
       [] p = over -> overPassed [] p = overPassed -> over
       [] OTHER -> p]
MCFinalScore == [p \in MCPositions |-> IF p = over THEN 4 ELSE IF p = overPassed THEN -4 ELSE 0]
MCHandlers == {h1, h2}
MCSubmissions ==
  {[leaf |-> leaf1, level |-> 36, score |-> 2], [leaf |-> leaf1, level |-> 40, score |-> -6],
   [leaf |-> leaf2, level |-> 36, score |-> 8], [leaf |-> leaf2, level |-> 40, score |-> -8],
   [leaf |-> leaf2, level |-> 40, score |-> 0]}
MCSymmetry == Permutations(Handlers)
=============================================================================

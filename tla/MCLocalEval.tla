----------------------------- MODULE MCLocalEval -----------------------------
(* A game tree of depth two, two levels per position, one PGN. *)
EXTENDS LocalEval, TLC

CONSTANTS r, a, b, c

MCBoards == {r, a, b, c}
MCMoves == (r :> <<a, b>>) @@ (a :> <<c>>) @@ (b :> <<>>) @@ (c :> <<>>)
MCEmpties == (r :> 13) @@ (a :> 12) @@ (b :> 12) @@ (c :> 11)
MCOnBook == {b}
MCLines == {<<r, a>>}
=============================================================================

------------------------------ MODULE MCSearch ------------------------------
(***************************************************************************)
(* Two games for Search.  One of nine positions for searches at full       *)
(* width: from r, three empty squares, a and b lead to c by different      *)
(* moves; after a also d, whose mover must pass, to d2; after b also e,    *)
(* where the game is over.  The search is exact or takes two moves and     *)
(* evaluates; the cap of stable discs is tight, loose or, in midgame,      *)
(* wrong.                                                                  *)
(*                                                                         *)
(* One for selective searches, nine moves deep: from q, ten empty squares, *)
(* to t, where the game is over, or to 9, from where it is over at once at *)
(* u or goes down to 1, position i with i squares empty, the mover of 5    *)
(* passing to p5.  With t first 9 has a null window and is probed, as      *)
(* are the positions below it and those its probes reach.                  *)
(***************************************************************************)
EXTENDS Search, FiniteSets, FiniteSetsExt, Folds, TLC

CONSTANTS r, a, b, c, d, d2, e, g, h, q, t, u, p5

Narrow == {r, a, b, c, d, d2, e, g, h}
Chain == 1..9
MCPositions == Narrow \cup Chain \cup {q, t, u, p5}
MCMoves == [p \in MCPositions |->
  CASE p = r -> {a, b} [] p = a -> {c, d} [] p = b -> {c, e}
    [] p = c -> {g, h} [] p = d2 -> {g}
    [] p = q -> {t, 9} [] p = 9 -> {u, 8} [] p \in {8, 7, 6, 4, 3, 2} -> {p - 1} [] p = p5 -> {4}
    [] OTHER -> {}]
MCPassed == [p \in MCPositions |->
  CASE p = d -> d2 [] p = d2 -> d [] p = 5 -> p5 [] p = p5 -> 5 [] OTHER -> p]
MCEmpties == [p \in MCPositions |->
  CASE p = r -> 3 [] p \in {a, b} -> 2 [] p \in {c, d, d2, e} -> 1
    [] p = q -> 10 [] p = t -> 9 [] p = u -> 8 [] p = p5 -> 5 [] p \in Chain -> p [] OTHER -> 0]
(* The narrow game has two entries: a position of one and of two empty     *)
(* squares collide.                                                        *)
MCSlot == [p \in MCPositions |->
  CASE p \in {r, c, d} -> 1 [] p \in Chain -> 2 + (p % 4) [] OTHER -> 2]
MCThreshold == [p \in MCPositions |-> IF p \in {r, e} THEN 99 ELSE 0]

Everywhere(x) == [p \in MCPositions |-> [n \in Depths |-> x]]
Zero == [p \in MCPositions |-> 0]
Low == [p \in MCPositions |-> -1]

-----------------------------------------------------------------------------
(* Full width: the minimax value, by the rules of the game alone *)
Value(depth, final, eval) ==
  LET v[p \in Narrow] ==
        CASE MCEmpties[p] = 0 -> final[p]
          [] MCEmpties[p] = 3 - depth -> eval[p]
          [] MCMoves[p] = {} /\ MCMoves[MCPassed[p]] = {} -> final[p]
          [] MCMoves[p] = {} -> -v[MCPassed[p]]
          [] OTHER -> Max({-v[x] : x \in MCMoves[p]})
  IN  [p \in {x \in Narrow : MCEmpties[x] >= 3 - depth} |-> v[p]] @@ Zero

Tight(v) == v
Loose(v) == [p \in MCPositions |-> IF p \in {a, c} THEN v[p] ELSE 2]

Finals == {[p \in MCPositions |-> CASE p = g -> x[1] [] p = h -> x[2] [] p = e -> x[3] [] OTHER -> 0] :
             x \in {-2, -1, 0, 2} \X {-2, 0, 1} \X {-1, 0, 1}}
Evals == {[p \in MCPositions |-> CASE p = c -> x[1] [] p = d -> x[2] [] p = e -> x[3] [] OTHER -> 0] :
             x \in {-1, 0, 1} \X {-1, 0, 1} \X {-1, 1}}

Full(depth, final, eval, cap, v) ==
  LET exact == [p \in MCPositions |-> [n \in Depths |-> v[p]]]
  IN  [root |-> r, depth |-> depth, selective |-> FALSE, final |-> final, eval |-> eval,
       cap |-> CASE cap = "tight" -> Tight(v) [] cap = "loose" -> Loose(v) [] OTHER -> Low,
       error |-> Everywhere(0), evalError |-> Everywhere(0),
       asked |-> {<<p, depth - 3 + MCEmpties[p]>> : p \in {x \in Narrow : depth - 3 + MCEmpties[x] >= 0}},
       low |-> exact, high |-> exact]

Solved(depth, final, eval, cap) == {Full(depth, final, eval, cap, v) : v \in {Value(depth, final, eval)}}

-----------------------------------------------------------------------------
(* Selective: the tightest bounds there are, position by position from the *)
(* ends of the game                                                        *)

(* The depths a position of the selective game is searched to: one less    *)
(* than the position before, and those of probes *)
AskedDepths == [p \in Chain \cup {q, t, u, p5} |->
  CASE p = q -> {3, 5, 9} [] p \in {9, t} -> {2, 4, 8} [] p \in {8, u} -> {1, 3, 7} [] p = 7 -> {0, 2, 6}
    [] p = 6 -> {1, 3, 5} [] p \in {5, p5} -> {0, 2, 4} [] p = 4 -> {1, 3} [] p = 3 -> {0, 2}
    [] p = 2 -> {1} [] p = 1 -> {0}]

(* What a position's own rule makes of the bounds found so far *)
Own(p, k, eval, final, f) ==
  IF k = 0 THEN <<eval[p], eval[p]>>
  ELSE IF p \in {t, u} THEN <<final[p], final[p]>>
  ELSE IF p = 5 THEN <<-f[<<p5, k>>][2], -f[<<p5, k>>][1]>>
  ELSE << Max({-f[<<x, k - 1>>][2] : x \in MCMoves[p]}), Max({-f[<<x, k - 1>>][1] : x \in MCMoves[p]}) >>

BoundsAt(p, eval, final, error, f) ==
  LET depths == AskedDepths[p]
      own == [k \in depths |-> Own(p, k, eval, final, f)]
      deeper(k) == {n \in depths : n >= k}
      missed(k) == IF MCMoves[p] = {} THEN {}
                   ELSE {n \in deeper(k) : probcut_depth(n) >= 2 /\ probcut_depth(n) < k}
      bounds[k \in depths] ==
        IF k = 0 THEN own[k]
        ELSE << Min({own[n][1] : n \in deeper(k)} \cup {bounds[probcut_depth(n)][1] + error : n \in missed(k)}),
                Max({own[n][2] : n \in deeper(k)} \cup {bounds[probcut_depth(n)][2] - error : n \in missed(k)}) >>
  IN  [x \in {p} \X depths |-> bounds[x[2]]]

Bounds2(eval, final, error) ==
  LET up == <<t, u, 1, 2, 3, 4, p5, 5, 6, 7, 8, 9, q>>
      all[i \in 0..Len(up)] ==
        IF i = 0 THEN <<>>
        ELSE LET f == all[i - 1] IN BoundsAt(up[i], eval, final, error, f) @@ f
  IN  all[Len(up)]

Selective(eval, final, error, evalError, bounds) ==
  LET side(i) == [p \in MCPositions |->
                   [n \in Depths |-> IF <<p, n>> \in DOMAIN bounds THEN bounds[<<p, n>>][i] ELSE 0]]
  IN  [root |-> q, depth |-> 9, selective |-> TRUE, final |-> final, eval |-> eval, cap |-> Low,
       error |-> Everywhere(error), evalError |-> Everywhere(evalError),
       asked |-> DOMAIN bounds, low |-> side(1), high |-> side(2)]

Probed(x) ==
  LET eval == [p \in MCPositions |-> CASE p = 9 -> x[1] [] p = 7 -> x[2] [] p = 5 -> x[3] [] p = 1 -> x[4] [] OTHER -> 0]
      final == [p \in MCPositions |-> CASE p = t -> x[5] [] p = u -> x[6] [] OTHER -> 0]
  IN  {Selective(eval, final, x[7], x[8], bounds) : bounds \in {Bounds2(eval, final, x[7])}}

MCSolves ==
  UNION ({Solved(3, f, Zero, k) : f \in Finals, k \in {"tight", "loose"}} \cup
         {Solved(2, Zero, f, "low") : f \in Evals} \cup
         {Probed(x) : x \in {-1, 1} \X {-1, 0, 1} \X {-1, 0, 1} \X {-1, 0, 1} \X {-1, 0} \X {-1, 1} \X {0, 1} \X {0, 2}})
=============================================================================

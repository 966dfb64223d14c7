------------------------------ MODULE Bitboard ------------------------------
(***************************************************************************)
(* Othello positions and moves, as the three programs compute them: the    *)
(* server (internal/othello/bitboard.go, position.go), the local evaluator *)
(* (wasm/edax-eval/src/board.rs) and the page (static/board.js).           *)
(*                                                                         *)
(* A bitboard is the set of its squares: bit s is square s, at column      *)
(* s % 8 and row s \div 8.  A position is seen from the player to move.    *)
(***************************************************************************)
EXTENDS Integers, FiniteSets, FiniteSetsExt, Folds

Squares == 0..63
Col(s) == s % 8
Row(s) == s \div 8

Position == [player : SUBSET Squares, opponent : SUBSET Squares]
Discs(b) == b.player \cup b.opponent
Passed(b) == [player |-> b.opponent, opponent |-> b.player]

(* x << d, or x >> -d *)
Shift(x, d) == {s + d : s \in x} \cap Squares

Xor(x, y) == (x \ y) \cup (y \ x)

-----------------------------------------------------------------------------
(* Symmetries *)

(* Neighbouring groups of d bits change places; those in k are the lower. *)
Swap(x, d, k) == (Shift(x, -d) \cap k) \cup Shift(x \cap k, d)

(* k1, k2, k4 of the code *)
EvenColumns == {s \in Squares : s % 2 = 0}
LowColumnsOfFour == {s \in Squares : s % 4 < 2}
LowColumns == {s \in Squares : Col(s) < 4}
EvenRows == {s \in Squares : Row(s) % 2 = 0}
LowRowsOfFour == {s \in Squares : Row(s) % 4 < 2}
LowRows == {s \in Squares : Row(s) < 4}

flipHorizontally(x) ==
  Swap(Swap(Swap(x, 1, EvenColumns), 2, LowColumnsOfFour), 4, LowColumns)

flipVertically(x) ==
  LET y == Swap(Swap(x, 8, EvenRows), 16, LowRowsOfFour)
  IN  Shift(y, -32) \cup Shift(y, 32)

DeltaSwap(x, d, k) ==
  LET t == k \cap Xor(x, Shift(x, d))
  IN  Xor(x, Xor(t, Shift(t, -d)))

Blocks4 == LowColumns \ LowRows
Blocks2 == LowColumnsOfFour \ LowRowsOfFour
Blocks1 == EvenColumns \ EvenRows

flipDiagonally(x) == DeltaSwap(DeltaSwap(DeltaSwap(x, 28, Blocks4), 14, Blocks2), 7, Blocks1)

Rotations == 0..7

rotateBits(x, r) ==
  LET h == IF r % 2 = 1 THEN flipHorizontally(x) ELSE x
      v == IF (r \div 2) % 2 = 1 THEN flipVertically(h) ELSE h
  IN  IF r \div 4 = 1 THEN flipDiagonally(v) ELSE v

Rotated(b, r) == [player |-> rotateBits(b.player, r), opponent |-> rotateBits(b.opponent, r)]

(* x < y as numbers *)
Below(x, y) == x # y /\ Max(Xor(x, y)) \in y

less(a, b) ==
  \/ Below(a.player, b.player)
  \/ a.player = b.player /\ Below(a.opponent, b.opponent)

NormalizeFlipsOnly(b) ==  \* mutant: without the diagonal
  LET all == {Rotated(b, r) : r \in 0..3}
  IN  CHOOSE a \in all : \A c \in all : ~less(c, a)

Normalize(b) ==
  LET all == {Rotated(b, r) : r \in Rotations}
  IN  CHOOSE a \in all : \A c \in all : ~less(c, a)

-----------------------------------------------------------------------------
(* The server's moves *)

middleColumns == {s \in Squares : Col(s) \notin {0, 7}}

(* The squares beyond the runs of mask, of up to six discs, that begin     *)
(* next to a disc of player in direction d                                 *)
Beyond(player, mask, d) ==
  LET one  == mask \cap Shift(player, d)
      two  == one \cup (mask \cap Shift(one, d))
      pair == mask \cap Shift(mask, d)
      four == two \cup (pair \cap Shift(two, 2 * d))
      six  == four \cup (pair \cap Shift(four, 2 * d))
  IN  Shift(six, d)

legalMoves(b) ==
  LET mask == b.opponent \cap middleColumns
      moves == UNION ({Beyond(b.player, mask, d) : d \in {1, -1, 7, -7, 9, -9}}
                      \cup {Beyond(b.player, b.opponent, d) : d \in {8, -8}})
  IN  moves \ Discs(b)

Directions == {dir \in (-1..1) \X (-1..1) : dir # <<0, 0>>}

OnBoard(s, dir, k) == Col(s) + k * dir[1] \in 0..7 /\ Row(s) + k * dir[2] \in 0..7
Along(s, dir, k) == s + k * (8 * dir[2] + dir[1])

(* The opponent's discs between s and the first other square along dir, if *)
(* the player has a disc there                                             *)
Bracketed(b, s, dir) ==
  UNION {{Along(s, dir, i) : i \in 1..k - 1} :
           k \in {k \in 2..7 :
                    /\ OnBoard(s, dir, k) /\ Along(s, dir, k) \in b.player
                    /\ \A i \in 1..k - 1 : Along(s, dir, i) \in b.opponent}}

flippedDiscs(b, move) == UNION {Bracketed(b, move, dir) : dir \in Directions}

applyMoveUnplaced(b, move) ==  \* mutant: the square stays empty
  LET opponent == b.player \cup flippedDiscs(b, move)
  IN  [player |-> b.opponent \ opponent, opponent |-> opponent]

applyMove(b, move) ==
  LET opponent == b.player \cup flippedDiscs(b, move) \cup {move}
  IN  [player |-> b.opponent \ opponent, opponent |-> opponent]

FinalScore(b) ==
  LET player == Cardinality(b.player) opponent == Cardinality(b.opponent)
  IN  CASE player > opponent -> 64 - 2 * opponent
        [] opponent > player -> 2 * player - 64
        [] OTHER -> 0

-----------------------------------------------------------------------------
(* The page's moves *)

(* The walk of x, the row, and y, the column, from index to the first      *)
(* square that is off the board or has no disc of the other side           *)
getFlippedPerDirection(b, index, dx, dy) ==
  LET x(n) == Row(index) + n * dx
      y(n) == Col(index) + n * dy
      current(n) == x(n) * 8 + y(n)
      Inside(n) == x(n) \in 0..7 /\ y(n) \in 0..7
      GoesOn(n) == Inside(n) /\ current(n) \in b.opponent
      last == CHOOSE n \in 1..8 : ~GoesOn(n) /\ \A i \in 1..n - 1 : GoesOn(i)
  IN  IF index \notin Discs(b) /\ Inside(last) /\ current(last) \in b.player
      THEN {current(i) : i \in 1..last - 1} ELSE {}

getFlipped(b, index) ==
  UNION {getFlippedPerDirection(b, index, dir[1], dir[2]) : dir \in Directions}

getValidMoves(b) == {s \in Squares : getFlipped(b, s) # {}}

(* for a square that flips something *)
doMove(b, index) ==
  LET opponent == b.player \cup getFlipped(b, index) \cup {index}
  IN  [player |-> b.opponent \ opponent, opponent |-> opponent]

-----------------------------------------------------------------------------
(* The local evaluator's moves *)

Both(x, d) == Shift(x, d) \cup Shift(x, -d)
FiveTimes(Op(_), x) == Op(Op(Op(Op(Op(x)))))

get_some_moves(p, mask, d) ==
  Both(FiveTimes(LAMBDA flip : flip \cup (Both(flip, d) \cap mask), Both(p, d) \cap mask), d)

get_moves(b) ==
  LET om == b.opponent \cap middleColumns
  IN  (UNION ({get_some_moves(b.player, om, d) : d \in {1, 7, 9}}
              \cup {get_some_moves(b.player, b.opponent, 8)})) \ Discs(b)

FlipAlongOpen(p, mask, x, d) ==  \* mutant: what is beyond the run is not looked at
  FiveTimes(LAMBDA g : g \cup (Shift(g, d) \cap mask), Shift({x}, d) \cap mask)

(* The run of mask next to x in direction d, if a disc of p is beyond it *)
FlipAlong(p, mask, x, d) ==
  LET gen == FiveTimes(LAMBDA g : g \cup (Shift(g, d) \cap mask), Shift({x}, d) \cap mask)
  IN  IF Shift(gen, d) \cap p # {} THEN gen ELSE {}

get_flip(b, x) ==
  LET om == b.opponent \cap middleColumns
  IN  UNION ({FlipAlong(b.player, om, x, d) : d \in {1, -1, 7, -7, 9, -9}}
             \cup {FlipAlong(b.player, b.opponent, x, d) : d \in {8, -8}})

play(b, x) ==
  LET flipped == get_flip(b, x)
  IN  [player |-> Xor(b.opponent, flipped), opponent |-> Xor(b.player, flipped \cup {x})]

(* The empty squares go to the side that is ahead. *)
final_score(b) ==
  LET score == 2 * Cardinality(b.player) - 64
      empties == 64 - Cardinality(Discs(b))
      diff == score + empties
  IN  IF diff = 0 THEN 0 ELSE IF diff > 0 THEN diff + empties ELSE score
=============================================================================

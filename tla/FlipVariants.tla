---------------------------- MODULE FlipVariants ----------------------------
(***************************************************************************)
(* The discs a move turns, by the three other algorithms the local         *)
(* evaluator carries as oracles for Board::get_flip                        *)
(* (wasm/edax-eval/src/flip_variants.rs): the kindergarten tables over     *)
(* lines, the carry over rays, and the Kogge-Stone fill.                   *)
(***************************************************************************)
EXTENDS Bitboard

SquaresBetween(a, b) == (a + 1..b - 1) \cup (b + 1..a - 1)

-----------------------------------------------------------------------------
(* get_flip_kindergarten: a line of up to eight squares, its cells         *)
(* numbered from its lowest square; opp is within the middle cells 1..6.   *)

(* OUTFLANK[pos][opp]: the cells that may close a run beside pos *)
Outflank(pos, opp) ==
  IF pos \in opp THEN {}
  ELSE {e \in 0..7 : /\ SquaresBetween(pos, e) # {} /\ SquaresBetween(pos, e) \subseteq opp
                     /\ e \notin opp}

(* FLIPPED[pos][ends] *)
Flipped(pos, ends) == UNION {SquaresBetween(pos, e) : e \in ends}

rowMiddle == {s \in Squares : Row(s) \notin {0, 7}}
midMask == rowMiddle \cap middleColumns

Diagonal9(x) == {s \in Squares : Row(s) - Col(s) = Row(x) - Col(x)}
Diagonal7(x) == {s \in Squares : Row(s) + Col(s) = Row(x) + Col(x)}

Gather(x, cells, start, step) == {k \in cells : start + step * k \in x}
Scatter(cells, start, step) == {start + step * k : k \in cells}

(* Whatever is turned on the line with these squares, whose middle cells   *)
(* are those of mid                                                        *)
FlipLine(b, line, mid, pos, step) ==
  LET start == Min(line)
      opp   == Gather(b.opponent \cap line \cap mid, 1..6, start, step)
      ends  == Outflank(pos, opp) \cap Gather(b.player \cap line, 0..7, start, step)
  IN  Scatter(Flipped(pos, ends), start, step)

get_flip_kindergarten(b, x) ==
  LET col == Col(x) row == Row(x)
  IN  UNION {FlipLine(b, {s \in Squares : Row(s) = row}, middleColumns, col, 1),
             FlipLine(b, {s \in Squares : Col(s) = col}, rowMiddle, row, 8),
             FlipLine(b, Diagonal9(x), midMask, Min({row, col}), 9),
             FlipLine(b, Diagonal7(x), midMask, Min({row, 7 - col}), 7)}

-----------------------------------------------------------------------------
(* get_flip_carry *)

(* ray_masks *)
Ray(x, dir) == {Along(x, dir, k) : k \in {k \in 1..7 : OnBoard(x, dir, k)}}

(* The numbers x + 1 and x - 1, modulo 2^64 *)
PlusOne(x) ==
  LET zeros == Squares \ x
  IN  IF zeros = {} THEN {} ELSE {Min(zeros)} \cup {s \in x : s > Min(zeros)}
MinusOne(x) == IF x = {} THEN Squares ELSE (x \ {Min(x)}) \cup (0..Min(x) - 1)

FlipForward(b, ray) ==
  LET outflank == PlusOne(b.opponent \cup (Squares \ ray)) \cap b.player \cap ray
  IN  IF outflank = {} THEN {} ELSE MinusOne(outflank) \cap ray

FlipBackwardOpen(b, ray) ==  \* mutant: the end of the run is not looked at
  LET nonOpponent == ray \ b.opponent
      outflank == {Max(nonOpponent)}
  IN  IF nonOpponent = {} THEN {} ELSE ray \ (outflank \cup MinusOne(outflank))

FlipBackward(b, ray) ==
  LET nonOpponent == ray \ b.opponent
      outflank == {Max(nonOpponent)} \cap b.player
  IN  IF nonOpponent = {} \/ outflank = {} THEN {}
      ELSE ray \ (outflank \cup MinusOne(outflank))

get_flip_carry(b, x) ==
  (UNION {FlipForward(b, Ray(x, dir)) : dir \in {<<1, 0>>, <<0, 1>>, <<1, 1>>, <<-1, 1>>}})
  \cup (UNION {FlipBackward(b, Ray(x, dir)) : dir \in {<<-1, 0>>, <<0, -1>>, <<-1, -1>>, <<1, -1>>}})

-----------------------------------------------------------------------------
(* get_flip_kogge_stone: the run doubles three times, 1, 2 and 4 squares. *)
OccludedFill(p, pro, x, d) ==
  LET one  == {x} \cup (Shift({x}, d) \cap pro)
      pro2 == pro \cap Shift(pro, d)
      two  == one \cup (pro2 \cap Shift(one, 2 * d))
      pro4 == pro2 \cap Shift(pro2, 2 * d)
      four == two \cup (pro4 \cap Shift(two, 4 * d))
  IN  IF one # {x} /\ Shift(four, d) \cap p # {} THEN four \ {x} ELSE {}

get_flip_kogge_stone(b, x) ==
  (UNION {OccludedFill(b.player, b.opponent \cap middleColumns, x, d) : d \in {1, -1, 9, -9, 7, -7}})
  \cup (UNION {OccludedFill(b.player, b.opponent, x, d) : d \in {8, -8}})
=============================================================================

--------------------------- MODULE MCOthelloGame ----------------------------
(* Games of OthelloGame for TLC. *)
EXTENDS OthelloGame

S == INSTANCE SequencesExt

(* The squares of a bitboard, given by its eight bytes, the highest first *)
Bits(bytes) == {s \in Squares : (bytes[8 - Row(s)] \div 2^Col(s)) % 2 = 1}

Start == [player |-> {28, 35}, opponent |-> {27, 36}]
After(ms) == S!FoldLeft(LAMBDA b, m : applyMove(b, m), Start, ms)

(* One move before an early pass (game_test.go) *)
EarlyPass == After(<<19, 18, 17, 9, 1, 0, 37, 43, 51>>)

(* One move before a side has lost all its discs *)
WipeOut == After(<<44, 29, 20, 45, 38, 43, 52, 37>>)

(* Eight empty squares, before the forced passes of the game in board.rs *)
LatePasses ==
  [player   |-> Bits(<<126, 32, 25, 45, 69, 3, 1, 0>>),
   opponent |-> Bits(<<0, 30, 230, 210, 186, 252, 254, 124>>)]

MCMaxMoves ==
  [b \in {Start, EarlyPass, WipeOut, LatePasses} |->
     IF b = LatePasses THEN 64 ELSE IF b = Start THEN 3 ELSE 2]
MCStarts == DOMAIN MCMaxMoves
=============================================================================

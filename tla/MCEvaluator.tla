---------------------------- MODULE MCEvaluator ----------------------------
(* Weights, files and requests of WasmEvaluator for TLC. *)
EXTENDS WasmEvaluator

(* Ply and place determine a word; word 3 changes from ply 20 to ply 21 by *)
(* more than 16 bits can hold.                                             *)
MCWords ==
  [ply \in 0..EVAL_N_PLY - 1 |->
    [i \in 0..N_W - 1 |->
      IF i = 3 /\ ply \in 20..21 THEN IF ply = 20 THEN 30000 ELSE -30000
      ELSE Wrap16(9973 * (ply + 3) * (i + 1) + 12345 * ply * ply + 517 * i * i) \div 64]]

MCFiles ==
  LET little == Written(MCWords, "little", EVAL_N_PLY)
  IN  {little, Written(MCWords, "big", EVAL_N_PLY), Written(MCWords, "little", EVAL_N_PLY - 1),
       [little EXCEPT !.complete = FALSE], [little EXCEPT !.magic = <<"OTHER", "OTHER">>]}

(* The squares of a bitboard, given by its eight bytes, the highest first *)
Bits(bytes) == {s \in Squares : (bytes[8 - Row(s)] \div 2^Col(s)) % 2 = 1}

START == [player |-> {28, 35}, opponent |-> {27, 36}]
After(ms) == FoldLeft(LAMBDA b, m : play(b, m), START, ms)

(* One move before an early pass (game_test.go) *)
EarlyPass == After(<<19, 18, 17, 9, 1, 0, 37, 43, 51>>)

(* Eight empty squares, before the forced passes of the game in board.rs *)
LatePasses ==
  [player   |-> Bits(<<126, 32, 25, 45, 69, 3, 1, 0>>),
   opponent |-> Bits(<<0, 30, 230, 210, 186, 252, 254, 124>>)]

(* Five empty squares and no move (search.rs, tests) *)
ForcedPass ==
  [player   |-> Bits(<<0, 126, 228, 210, 170, 220, 190, 124>>),
   opponent |-> Bits(<<126, 1, 27, 45, 85, 35, 65, 128>>)]

MCRequests == {<<START, 61>>, <<START, 0>>, <<EarlyPass, 11>>,
               <<LatePasses, 3>>, <<LatePasses, 2>>, <<ForcedPass, 2>>, <<ForcedPass, 3>>}
=============================================================================

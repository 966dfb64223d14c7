----------------------------- MODULE OthelloGame -----------------------------
(***************************************************************************)
(* A game as the server records it (Game, internal/othello/game.go) and as *)
(* the page plays it (onCellClick and undoMove, static/board.js).  The     *)
(* page reviews games the server has parsed, stores evaluations the server *)
(* and the local evaluator have computed, and finds all of them by normal  *)
(* forms: the programs must agree on passes, moves and symmetries.         *)
(***************************************************************************)
EXTENDS Stability, Sequences

CONSTANTS
  Starts,        \* positions with moves from which games are played
  MaxGameMoves   \* per start, bound on the moves of its games

PassMove == -1

ASSUME GameAssumption ==
  /\ Starts \subseteq Position /\ MaxGameMoves \in [Starts -> Nat]
  /\ \A b \in Starts : b.player \cap b.opponent = {} /\ legalMoves(b) # {}

VARIABLES
  moves, positions,               \* Game
  board, blackTurn, boardHistory  \* the page

serverVars == <<moves, positions>>
pageVars == <<board, blackTurn, boardHistory>>
gameVars == <<serverVars, pageVars>>

GameInit ==
  /\ board \in Starts /\ blackTurn = TRUE /\ boardHistory = <<>>
  /\ moves = <<>> /\ positions = <<board>>

Latest(s) == s[Len(s)]
Shortened(s, n) == SubSeq(s, 1, Len(s) - n)

-----------------------------------------------------------------------------
(* The server *)

HasMoves(b) == legalMoves(b) # {}
IsValidMove(b, move) == IF move = PassMove THEN ~HasMoves(b) ELSE move \in legalMoves(b)
DoMove(b, move) == IF move = PassMove THEN Passed(b) ELSE applyMove(b, move)

Record(ms, bs) == moves' = moves \o ms /\ positions' = positions \o bs

PushMoveOnly(move) ==  \* mutant: no pass is added
  Record(<<move>>, <<DoMove(Latest(positions), move)>>)

(* A pass is added for a player who cannot move, if the other one can. *)
PushMove(move) ==
  LET next == DoMove(Latest(positions), move)
  IN  IF move # PassMove /\ ~HasMoves(next) /\ HasMoves(Passed(next))
      THEN Record(<<move, PassMove>>, <<next, Passed(next)>>)
      ELSE Record(<<move>>, <<next>>)

RepeatsPass(move) == moves # <<>> /\ Latest(moves) = PassMove /\ move = PassMove

PopMoveOnly ==  \* mutant: a pass is a move like any other
  moves' = Shortened(moves, 1) /\ positions' = Shortened(positions, 1)

PopMove ==
  LET n == IF Len(moves) >= 2 /\ Latest(moves) = PassMove THEN 2 ELSE 1
  IN  moves' = Shortened(moves, n) /\ positions' = Shortened(positions, n)

-----------------------------------------------------------------------------
(* The page *)

hasValidMoves(b) == getValidMoves(b) # {}
ShownPosition == [board |-> board, black |-> blackTurn]

(* "up to two forced passes" *)
onCellClick(index) ==
  LET child == doMove(board, index)
      passes == IF hasValidMoves(child) THEN 0 ELSE IF hasValidMoves(Passed(child)) THEN 1 ELSE 2
      then == <<[board |-> child, black |-> ~blackTurn], [board |-> Passed(child), black |-> blackTurn],
                [board |-> child, black |-> ~blackTurn]>>
  IN  /\ board' = then[passes + 1].board /\ blackTurn' = then[passes + 1].black
      /\ boardHistory' = Append(boardHistory, ShownPosition) \o SubSeq(then, 1, passes)

(* Back to the last board with moves, or to the first *)
undoMove ==
  LET n == Max({1} \cup {i \in DOMAIN boardHistory : hasValidMoves(boardHistory[i].board)})
  IN  /\ board' = boardHistory[n].board /\ blackTurn' = boardHistory[n].black
      /\ boardHistory' = SubSeq(boardHistory, 1, n - 1)

-----------------------------------------------------------------------------
(* Both are given the same squares; each refuses what it takes for illegal, *)
(* which leaves a square that both refuse without effect.                  *)
Play(square) ==
  /\ Len(moves) < MaxGameMoves[positions[1]]
  /\ IF IsValidMove(Latest(positions), square) THEN PushMove(square) ELSE UNCHANGED serverVars
  /\ IF getFlipped(board, square) # {} THEN onCellClick(square) ELSE UNCHANGED pageVars

(* A record may name passes; the page has no such move. *)
PlayPass ==
  /\ IsValidMove(Latest(positions), PassMove) /\ ~RepeatsPass(PassMove)
  /\ PushMove(PassMove)
  /\ UNCHANGED pageVars

Undo ==
  /\ moves # <<>> /\ PopMove
  /\ IF boardHistory = <<>> THEN UNCHANGED pageVars ELSE undoMove

GameNext ==
  \/ \E square \in legalMoves(Latest(positions)) \cup getValidMoves(board) : Play(square)
  \/ PlayPass
  \/ Undo

GameSpec == GameInit /\ [][GameNext]_gameVars

-----------------------------------------------------------------------------
GameOver(b) == ~HasMoves(b) /\ ~HasMoves(Passed(b))
RealMoves == {i \in DOMAIN moves : moves[i] # PassMove}

(* Type invariant; discs never overlap and every move places one. *)
TypeOK ==
  /\ moves \in Seq(Squares \cup {PassMove})
  /\ positions \in Seq(Position) /\ Len(positions) = Len(moves) + 1
  /\ board \in Position /\ blackTurn \in BOOLEAN
  /\ boardHistory \in Seq([board : Position, black : BOOLEAN])
  /\ \A b \in {board, Latest(positions)} :
       /\ b.player \cap b.opponent = {}
       /\ Cardinality(Discs(b)) = Cardinality(Discs(positions[1])) + Cardinality(RealMoves)

(* Black's discs, if black is the one to move *)
BlackDiscs(b, black) == IF black THEN b.player ELSE b.opponent
RecordTurn == Len(moves) % 2 = 0

(* The page shows the discs, in their colors, of the game the server       *)
(* records, and hands control back only to a player who can move, as the   *)
(* server does, unless the game is over: whoever had to pass, on whichever *)
(* side the pass was added.                                                *)
SameGame ==
  /\ \A black \in BOOLEAN :
       BlackDiscs(board, blackTurn = black) = BlackDiscs(Latest(positions), RecordTurn = black)
  /\ \A b \in {board, Latest(positions)} : HasMoves(b) \/ GameOver(b)

(* Undoing takes back the last square played, with the passes that         *)
(* followed it, on the server and on the page ("PopMove undoes the last    *)
(* move, and the move before it too if it was an automatically inserted    *)
(* pass", game.go), even if the game was over and a pass was recorded.     *)
UndoTakesBack ==
  [][Len(moves') < Len(moves) =>
       LET i == Max(RealMoves) IN
       moves' = SubSeq(moves, 1, i - 1) /\ Latest(positions') = positions[i] /\ board' = positions[i]]_gameVars

(* The server, the page and the local evaluator find the same moves, the   *)
(* same boards after them and the same final scores.                       *)
ProgramsAgree ==
  LET b == Latest(positions) IN
  /\ \A c \in {b, Passed(b)} : legalMoves(c) = get_moves(c) /\ legalMoves(c) = getValidMoves(c)
  /\ \A s \in legalMoves(b) : applyMove(b, s) = play(b, s) /\ applyMove(b, s) = doMove(b, s)
  /\ GameOver(b) => FinalScore(b) = final_score(b)

(* Positions that are images of each other have one normal form and the    *)
(* same moves up to the symmetry: what is stored for the normal form holds *)
(* for all of them.                                                        *)
NormalFormIsCommon ==
  LET b == Latest(positions) IN
  \A r \in Rotations :
    /\ Normalize(Rotated(b, r)) = Normalize(b)
    /\ legalMoves(Rotated(b, r)) = rotateBits(legalMoves(b), r)

(* Where the exact search asks for stable discs: its thresholds exclude    *)
(* fewer than 4 and more than 47 empty squares.                            *)
AskedFor(b) == 64 - Cardinality(Discs(b)) \in 4..47

(* The player's own discs in position j, seen from the mover of position i *)
Own(i, j) == IF (j - i) % 2 = 0 THEN positions[j].player ELSE positions[j].opponent

(* "stable discs (never flippable again)" (stability.rs): whatever is      *)
(* played, and passed, later.                                              *)
StableForever ==
  \A i \in DOMAIN positions : AskedFor(positions[i]) =>
    LET b == positions[i] j == Len(positions) IN
    /\ StableDiscs(b.player, b.opponent) \subseteq Own(i, j)
    /\ StableDiscs(b.opponent, b.player) \subseteq Own(i + 1, j)

(* No game ends better for a player than the cap the opponent's stable     *)
(* discs set on any position before: what Search assumes of its caps.      *)
CapHolds ==
  LET n == Len(positions) end == positions[n] IN
  GameOver(end) =>
    \A i \in DOMAIN positions : AskedFor(positions[i]) =>
      (IF (n - i) % 2 = 0 THEN FinalScore(end) ELSE -FinalScore(end)) <= StabilityCap(positions[i])
=============================================================================

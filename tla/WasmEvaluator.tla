--------------------------- MODULE WasmEvaluator ----------------------------
(***************************************************************************)
(* The wasm evaluator as the page drives it (wasm/edax-eval): the          *)
(* extraction tool makes the blob of weights, the page hands it to         *)
(* init_weights, and evaluate searches a position                          *)
(* (src/wasm_api.rs, src/search.rs).  The search is followed for the       *)
(* positions its nested calls stand at and for the pattern values they     *)
(* maintain by reference; scores are the subject of module Search, so      *)
(* every test on a score or a window, and every cutoff, may go either way. *)
(***************************************************************************)
EXTENDS Evaluation, FlipVariants

Server == INSTANCE SearchLevels

CONSTANTS
  Words,     \* the trained words: Words[ply][i] for the plies of eval.dat
  Files,     \* what the extraction tool may be given as eval.dat
  Requests,  \* the <<board, level>> pairs evaluate is asked for
  MaxCalls,  \* bound: a call this deep returns at once
  MaxMoves   \* bound: a call that has searched so many moves returns

ASSUME EvaluatorAssumption ==
  /\ \A r \in Requests : /\ r[1] \in Position /\ r[1].player \cap r[1].opponent = {}
                         /\ r[2] \in Nat
  /\ \A ply \in 0..EVAL_N_PLY - 1, i \in 0..N_W - 1 :
       Words[ply][i] \in Int /\ -32768 <= Words[ply][i] /\ Words[ply][i] <= 32767
  \* a file the tool accepts was written by edax on some machine
  /\ \A f \in Files : Extractable(f) =>
       \E order \in {"little", "big"} :
         /\ parse_header(f).byte_swapped <=> order = "big"
         /\ \A ply \in FIRST_PLY..EVAL_N_PLY - 1 :
              f.blocks[ply] = Written(Words, order, EVAL_N_PLY).blocks[ply]

VARIABLES
  blob,      \* the encoded words the page loads, NoBlob before
  weights,   \* the static WEIGHTS: the decoded words, Unset before
  result,    \* what the last call of the API returned
  search,    \* depth and selectivity of the running solve
  calls,     \* the calls of negamax, innermost last
  features   \* the arrays of pattern values, the one in use last

vars == <<blob, weights, result, search, calls, features>>

NoBlob == <<>>
Unset == <<>>

-----------------------------------------------------------------------------
(* depth_and_selectivity *)

NO_SELECTIVITY == 5
MAX_LEVEL == 60

(* For levels up to the first entry of a row, the selectivity of an        *)
(* endgame search with up to so many squares empty                         *)
LevelTable ==
  << <<12, << <<21, 5>>, <<24, 3>> >> >>,
     <<18, << <<21, 5>>, <<24, 3>>, <<27, 1>> >> >>,
     <<21, << <<24, 5>>, <<27, 3>>, <<30, 1>> >> >>,
     <<24, << <<24, 5>>, <<27, 4>>, <<30, 2>>, <<33, 0>> >> >>,
     <<27, << <<27, 5>>, <<30, 3>>, <<33, 1>> >> >>,
     <<29, << <<27, 5>>, <<30, 4>>, <<33, 2>>, <<36, 0>> >> >>,
     <<31, << <<30, 5>>, <<33, 3>>, <<36, 1>> >> >>,
     <<33, << <<30, 5>>, <<33, 4>>, <<36, 2>>, <<39, 0>> >> >>,
     <<35, << <<30, 5>>, <<33, 4>>, <<36, 3>>, <<39, 1>> >> >> >>

EndgameBands(level) ==
  LET rows == {i \in DOMAIN LevelTable : level <= LevelTable[i][1]}
  IN  IF rows # {} THEN LevelTable[Min(rows)][2]
      ELSE [i \in 1..6 |-> <<level - 9 + 3 * i, 6 - i>>]

SelectiveSearch(level, empties) ==
  LET bands == EndgameBands(level)
      covering == {i \in DOMAIN bands : empties <= bands[i][1]}
  IN  IF covering = {} THEN [depth |-> level, selectivity |-> 0]
      ELSE [depth |-> empties, selectivity |-> bands[Min(covering)][2]]

FixedDepth(level, empties) ==
  [depth |-> IF level = 0 THEN 0
             ELSE IF level <= 10 /\ empties > 2 * level THEN level ELSE empties,
   selectivity |-> NO_SELECTIVITY]

depth_and_selectivityLate(level, empties) ==  \* mutant: the endgame begins one square late
  IF level \in 11..59 THEN SelectiveSearch(level, empties + 1) ELSE FixedDepth(level, empties)

depth_and_selectivity(level, empties) ==
  IF level \in 11..59 THEN SelectiveSearch(level, empties) ELSE FixedDepth(level, empties)

-----------------------------------------------------------------------------
(* Calls of negamax.  at: where the call is, or what it waits for; todo:   *)
(* the moves not searched yet; move, flipped: the one being searched;      *)
(* again: it is searched a second time; fresh: the array of features is    *)
(* this call's own.                                                        *)
Call(board, depth, probcut_level, in_midgame, evalPlayer, fresh) ==
  [board |-> board, depth |-> depth, probcut_level |-> probcut_level,
   in_midgame |-> in_midgame, mover_is_eval_player |-> evalPlayer, fresh |-> fresh,
   at |-> "entered", todo |-> get_moves(board), move |-> 0, flipped |-> {}, again |-> FALSE]

top == Last(calls)
pattern == Last(features)

(* The innermost call becomes call and calls next. *)
Calling(call, next) == calls' = Append(Append(Front(calls), call), next)

Return ==
  /\ calls' = Front(calls)
  /\ features' = IF top.fresh THEN Front(features) ELSE features
  /\ result' = IF Len(calls) = 1 THEN "score" ELSE result
  /\ UNCHANGED <<blob, weights, search>>

Searching == calls # <<>>
(* past the cutoffs at the head of negamax *)
GoesOn == /\ Searching /\ Len(calls) < MaxCalls
          /\ top.depth > 0 /\ n_empties(top.board) > 0

Init ==
  /\ blob = NoBlob /\ weights = Unset /\ result = "none"
  /\ search = [depth |-> 0, selectivity |-> NO_SELECTIVITY]
  /\ calls = <<>> /\ features = <<>>

-----------------------------------------------------------------------------
(* Loading *)

(* The tool is run; it stops at a file it does not accept. *)
ExtractWeights(f) ==
  /\ blob = NoBlob /\ Extractable(f)
  /\ blob' = encode(extract_raw_slice(f), N_W, N_PLIES)
  /\ UNCHANGED <<weights, result, search, calls, features>>

(* init_weights, after alloc of the blob's length and a copy *)
init_weights(bytes) ==
  /\ ~Searching /\ blob # NoBlob
  /\ IF DOMAIN bytes # 0..2 * N_W * N_PLIES - 1
     THEN result' = "wrong length" /\ UNCHANGED weights
     ELSE IF weights # Unset
     THEN result' = "already initialized" /\ UNCHANGED weights
     ELSE result' = "loaded" /\ weights' = decode(bytes, N_W, N_PLIES)
  /\ UNCHANGED <<blob, search, calls, features>>

CutShort == [i \in 0..N_W * N_PLIES - 1 |-> blob[i]]

(* evaluate and solve *)
evaluate(board, level) ==
  /\ ~Searching
  /\ IF weights = Unset
     THEN result' = "not initialized" /\ UNCHANGED <<search, calls, features>>
     ELSE IF level > MAX_LEVEL
     THEN result' = "unsupported level" /\ UNCHANGED <<search, calls, features>>
     ELSE LET empties == n_empties(board)
              s == depth_and_selectivity(level, empties)
          IN  /\ search' = s
              /\ calls' = <<Call(board, s.depth, 0, s.depth < empties, empties % 2 = 0, TRUE)>>
              /\ features' = <<init_features(board, empties)>>
              /\ UNCHANGED result
  /\ UNCHANGED <<blob, weights>>

-----------------------------------------------------------------------------
(* negamax *)

(* A full board, depth 0, a cutoff by the table or by stable discs, or no  *)
(* move for either side                                                    *)
ReturnAtOnce == Searching /\ top.at = "entered" /\ Return

PassSharing ==  \* mutant: the array is passed on as it is
  /\ GoesOn /\ top.at = "entered" /\ top.todo = {}
  /\ get_moves(Passed(top.board)) # {}
  /\ Calling([top EXCEPT !.at = "passed"],
             Call(Passed(top.board), top.depth, top.probcut_level, top.in_midgame,
                  top.mover_is_eval_player, FALSE))
  /\ UNCHANGED <<blob, weights, result, search, features>>

(* No move: the other side goes on, at the same depth, on values of its    *)
(* own if they will be read.                                               *)
Pass ==
  LET passed == Passed(top.board)
  IN  /\ GoesOn /\ top.at = "entered" /\ top.todo = {}
      /\ get_moves(passed) # {}
      /\ Calling([top EXCEPT !.at = "passed"],
                 Call(passed, top.depth, top.probcut_level, top.in_midgame,
                      top.mover_is_eval_player, top.in_midgame))
      /\ features' = IF top.in_midgame
                     THEN Append(features, init_features(passed, n_empties(passed)))
                     ELSE features
      /\ UNCHANGED <<blob, weights, result, search>>

ReturnPassed == Searching /\ top.at = "passed" /\ Return

probcut_depth(depth) == 2 * (depth \div 4) + (depth % 2)

CanProbe ==
  /\ top.in_midgame /\ search.selectivity < NO_SELECTIVITY /\ top.probcut_level < 2
  /\ probcut_depth(top.depth) >= 2

(* ProbCut: the same position less deep, for a cut above beta, then for    *)
(* one below alpha                                                         *)
Probe(from, at) ==
  LET depth == probcut_depth(top.depth)  empties == n_empties(top.board)
  IN  /\ GoesOn /\ top.at \in from /\ top.todo # {} /\ CanProbe
      /\ Calling([top EXCEPT !.at = at],
                 Call(top.board, depth, top.probcut_level + 1, depth < empties,
                      top.mover_is_eval_player, TRUE))
      /\ features' = Append(features, init_features(top.board, empties))
      /\ UNCHANGED <<blob, weights, result, search>>

ProbeUpper == Probe({"entered"}, "upper")
ProbeLower == Probe({"entered", "upper"}, "lower")

(* the probe's score allows the cut *)
ReturnProbed == Searching /\ top.at \in {"upper", "lower"} /\ Return

Searched == get_moves(top.board) \ top.todo

(* fewest replies first; equal numbers in any order *)
Mobility(x) == Cardinality(get_moves(play(top.board, x)))
NextMoves ==
  LET fewest == Min({Mobility(y) : y \in top.todo})
  IN  {x \in top.todo : Mobility(x) = fewest}

ChildCall(board) ==
  Call(board, top.depth - 1, top.probcut_level, top.in_midgame, ~top.mover_is_eval_player, FALSE)

SearchMove(x) ==
  LET child == play(top.board, x)
      flipped == Xor(child.player, top.board.opponent)
  IN  /\ GoesOn /\ top.at \in {"entered", "upper", "lower", "moves"}
      /\ x \in NextMoves /\ Cardinality(Searched) < MaxMoves
      /\ Calling([top EXCEPT !.at = "child", !.todo = @ \ {x}, !.move = x, !.flipped = flipped,
                             !.again = FALSE],
                 ChildCall(child))
      /\ features' = IF top.in_midgame
                     THEN Append(Front(features),
                                 update_features(pattern, x, flipped, top.mover_is_eval_player))
                     ELSE features
      /\ UNCHANGED <<blob, weights, result, search>>

(* The null-window search of a later move improved alpha: once more, on    *)
(* the values as they are.                                                 *)
SearchAgain ==
  /\ GoesOn /\ top.at = "child" /\ ~top.again
  /\ Searched # {top.move}
  /\ Calling([top EXCEPT !.again = TRUE], ChildCall(play(top.board, top.move)))
  /\ UNCHANGED <<blob, weights, result, search, features>>

MoveSearched ==
  /\ Searching /\ top.at = "child"
  /\ calls' = Append(Front(calls), [top EXCEPT !.at = "moves"])
  /\ features' = IF top.in_midgame
                 THEN Append(Front(features),
                             undo_features(pattern, top.move, top.flipped, top.mover_is_eval_player))
                 ELSE features
  /\ UNCHANGED <<blob, weights, result, search>>

(* no move is left, or alpha has reached beta *)
ReturnBest == Searching /\ top.at = "moves" /\ Return

Next ==
  \/ \E f \in Files : ExtractWeights(f)
  \/ init_weights(blob)
  \/ init_weights(CutShort)
  \/ \E r \in Requests : evaluate(r[1], r[2])
  \/ ReturnAtOnce \/ Pass \/ ReturnPassed
  \/ ProbeUpper \/ ProbeLower \/ ReturnProbed
  \/ (GoesOn /\ \E x \in top.todo : SearchMove(x))
  \/ SearchAgain \/ MoveSearched \/ ReturnBest

Spec == Init /\ [][Next]_vars

-----------------------------------------------------------------------------
(* Properties *)

(* The position whose pattern values the array in use should hold: a       *)
(* call's own, or that of the move it has just searched                    *)
Shown == IF top.at = "child" THEN play(top.board, top.move)
         ELSE IF top.at = "passed" /\ ~top.in_midgame THEN Passed(top.board)
         ELSE top.board

(* Wherever a midgame search may read the pattern values, after any moves, *)
(* passes, probes and second searches of any depth, they are those of the  *)
(* position it stands at, computed afresh, in the colours its number of    *)
(* empty squares calls for; and the flags handed down from call to call    *)
(* are what the position says (search.rs::negamax, eval.rs::update_features *)
(* and undo_features).                                                     *)
FeaturesFollowBoard ==
  Searching =>
    LET empties == n_empties(top.board)
    IN  /\ top.in_midgame = (top.depth < empties)
        /\ top.mover_is_eval_player = (empties % 2 = 0)
        /\ top.in_midgame => pattern = init_features(Shown, n_empties(Shown))

(* The words a position is to be scored with: those trained for its ply,   *)
(* or for the nearest of the same parity                                   *)
TrainedPly(empties) ==
  LET ply == 60 - empties
  IN  IF ply > 53 THEN 52 + (ply % 2) ELSE IF ply < 2 THEN 2 + (ply % 2) ELSE ply

MoverWord(i, b) ==
  LET r == FEATURES[i].region
  IN  Word(r, Packed(r, compute_features(b)[i] - Regions[r].offset))

TrainedScore(b) ==
  LET words == Words[TrainedPly(n_empties(b))]
      sum[i \in {0} \cup Features] == IF i = 0 THEN words[S0] ELSE sum[i - 1] + words[MoverWord(i, b)]
  IN  Discounted(sum[Len(FEATURES)])

Leaf == /\ Searching /\ top.at = "entered" /\ top.in_midgame
        /\ top.depth = 0 /\ n_empties(top.board) > 0

(* The score of a leaf, from the tracked values and the words that came    *)
(* through the extraction tool, the blob and the unpacking, is the sum of  *)
(* the words trained for the patterns as the player to move sees them; and *)
(* neither of the two ways to mirror the board nor its transposition,      *)
(* which together make every rotation, changes it (eval.rs, weights.rs,    *)
(* weights_transform.rs, extract_weights.rs).                              *)
EvaluatesAsTrained ==
  Leaf =>
    LET trained == TrainedScore(top.board)
    IN  /\ eval_from_features(pattern, n_empties(top.board), weights) = trained
        /\ \A r \in {1, 2, 4} : search_eval_0(Rotated(top.board, r), weights) = trained

(* The four ways to compute what a move turns agree on every move of every *)
(* position searched (flip_variants.rs and board.rs::get_flip).            *)
FlipVariantsAgree ==
  Searching /\ top.at = "entered" =>
    \A x \in top.todo :
      LET flipped == get_flip(top.board, x)
      IN  /\ get_flip_kindergarten(top.board, x) = flipped
          /\ get_flip_carry(top.board, x) = flipped
          /\ get_flip_kogge_stone(top.board, x) = flipped

(* When a search starts, what it is to search is what the server takes     *)
(* edax to search at the same level, and would be for every level and      *)
(* number of empty squares: one (depth, confidence) stands for the results *)
(* of both.  The table is written twice, in search.rs and in               *)
(* internal/edax/search_params.go.                                         *)
SearchesAsTheServer ==
  Len(calls) = 1 /\ top.at = "entered" =>
    \A level \in 0..MAX_LEVEL, empties \in 0..60 :
      depth_and_selectivity(level, empties) = Server!DepthAndSelectivity(level, empties)
=============================================================================

------------------------------- MODULE Search --------------------------------
(***************************************************************************)
(* The search of the local evaluator (negamax, solve and                   *)
(* TranspositionTable, wasm/edax-eval/src/search.rs): principal variation  *)
(* search with a transposition table, a cutoff by stable discs and, in     *)
(* selective searches, ProbCut, over any game in which a move takes an     *)
(* empty square and a pass takes none.                                     *)
(*                                                                         *)
(* A call of negamax is a frame of stack.  A step goes from one call or    *)
(* return to the next.                                                     *)
(*                                                                         *)
(* Abstracted: boards and their hashes are positions; moves are ordered by *)
(* mobility, here in any order; evaluation, disc counts and ProbCut's      *)
(* margins are given with the call of solve.                               *)
(***************************************************************************)
EXTENDS Integers, Sequences

CONSTANTS
  Positions, NoPosition,
  Moves,      \* position -> positions after its legal moves
  Passed,     \* position -> position with sides swapped
  Empties,    \* position -> number of empty squares
  Slot,       \* position -> index in the table
  MaxScore,   \* 64 in the code
  MaxDepth,   \* 60 in the code
  Threshold,  \* position -> NWS_STABILITY_THRESHOLD of its empty squares
  Solves      \* calls of solve

MinScore == -MaxScore
Scores == MinScore..MaxScore
Depths == 0..MaxDepth
Slots == {Slot[p] : p \in Positions}

Over(p) == Moves[p] = {} /\ Moves[Passed[p]] = {}
IsLeaf(p, d) == Empties[p] = 0 \/ d = 0

(* in_midgame: moves lower both by one and passes neither, and a probe is  *)
(* less deep, so it is the root's in every call.                           *)
InMidgame(p, d) == d < Empties[p]

(* Half as deep, of the same parity *)
probcut_depth(d) == 2 * (d \div 4) + (d % 2)

(* A selective search may probe p before it searches p to depth d. *)
Probes(s, p, d) == s.selective /\ InMidgame(p, d) /\ probcut_depth(d) >= 2

Solve == [root : Positions, depth : Depths,
          selective : BOOLEAN,            \* below NO_SELECTIVITY
          final : [Positions -> Scores],  \* final_score
          eval : [Positions -> Scores],   \* eval_from_features
          cap : [Positions -> Scores],    \* what the opponent's stable discs leave
          error : [Positions -> [Depths -> Nat]],      \* probcut_error
          evalError : [Positions -> [Depths -> Nat]],  \* eval_error
          (* what the search may call upon, and the bounds it may find there *)
          asked : SUBSET (Positions \X Depths),
          low : [Positions -> [Depths -> Scores]],
          high : [Positions -> [Depths -> Scores]]]

Asked(s, p, d) == <<p, d>> \in s.asked

Within(s, x, p, d) == s.low[p][d] <= x /\ x <= s.high[p][d]

(* The rules of the game, for one position searched to one depth: low and  *)
(* high bound what minimax makes of the bounds one move on; a probe may    *)
(* miss by its margin.                                                     *)
Minimax(s, p, d) ==
  /\ Empties[p] = 0 => Within(s, s.final[p], p, d)
  /\ Empties[p] # 0 /\ d = 0 => Within(s, s.eval[p], p, d)
  /\ ~IsLeaf(p, d) /\ Over(p) => Within(s, s.final[p], p, d)
  /\ ~IsLeaf(p, d) /\ Moves[p] = {} /\ ~Over(p) =>
       /\ Asked(s, Passed[p], d)
       /\ s.low[p][d] <= -s.high[Passed[p]][d] /\ -s.low[Passed[p]][d] <= s.high[p][d]
  /\ ~IsLeaf(p, d) /\ Moves[p] # {} =>
       /\ \A c \in Moves[p] : Asked(s, c, d - 1) /\ -s.low[c][d - 1] <= s.high[p][d]
       /\ \E c \in Moves[p] : s.low[p][d] <= -s.high[c][d - 1]
  /\ ~IsLeaf(p, d) /\ Moves[p] # {} /\ Probes(s, p, d) =>
       LET probed == probcut_depth(d)
       IN  /\ Asked(s, p, probed)
           /\ s.high[p][probed] - s.error[p][d] <= s.high[p][d]
           /\ s.low[p][d] <= s.low[p][probed] + s.error[p][d]

(* An entry of the table answers calls that are less deep. *)
Deepens(s, p, d, deeper) ==
  /\ s.low[p][d] <= s.low[p][deeper]
  /\ s.high[p][deeper] <= s.high[p][d]

(* low and high are bounds on the minimax value as far as the margins of   *)
(* ProbCut hold.  At full width a position is searched to one depth, and   *)
(* both are its minimax value.                                             *)
BoundsMinimax(s) ==
  /\ Asked(s, s.root, s.depth)
  /\ \A p \in Positions, d \in Depths : Asked(s, p, d) =>
       /\ Minimax(s, p, d)
       /\ ~InMidgame(p, d) => s.low[p][d] <= s.cap[p]
       /\ \A deeper \in Depths : 0 < d /\ d <= deeper /\ Asked(s, p, deeper) => Deepens(s, p, d, deeper)

ASSUME SearchAssumption ==
  /\ NoPosition \notin Positions
  /\ Moves \in [Positions -> SUBSET Positions] /\ Passed \in [Positions -> Positions]
  /\ Empties \in [Positions -> Nat]
  /\ \A p \in Positions : \A c \in Moves[p] : Empties[c] = Empties[p] - 1
  /\ \A p \in Positions : Empties[Passed[p]] = Empties[p]
  /\ MaxScore \in Nat \ {0} /\ MaxDepth \in Nat /\ Threshold \in [Positions -> Int]
  /\ Solves \subseteq Solve
  /\ \A s \in Solves : BoundsMinimax(s)

VARIABLES
  solve,      \* the call of solve
  tt,         \* the transposition table
  stack,      \* the calls of negamax under way, the innermost last
  returning,  \* the last call has just returned
  score       \* what it returned

vars == <<solve, tt, stack, returning, score>>

Top == stack[Len(stack)]
Below == [i \in 1..Len(stack) - 1 |-> stack[i]]

(* A call of negamax: level is probcut_level, at where the call is, child  *)
(* the position it searches, todo the moves it has not tried.              *)
Call(p, depth, alpha, beta, level) ==
  [pos |-> p, depth |-> depth, level |-> level, original |-> alpha, alpha |-> alpha, beta |-> beta,
   best |-> MinScore - 1, todo |-> Moves[p], child |-> p, at |-> "entry"]

EmptyEntry == [pos |-> NoPosition, depth |-> -1, lower |-> MinScore, upper |-> MaxScore]

Init ==
  /\ solve \in Solves
  /\ tt = [i \in Slots |-> EmptyEntry]
  /\ stack = <<Call(solve.root, solve.depth, MinScore, MaxScore, 0)>>
  /\ returning = FALSE /\ score = 0

Goes(f, g) ==
  /\ stack' = Append(Append(Below, f), g)
  /\ returning' = FALSE
  /\ UNCHANGED <<solve, tt, score>>

Returns(s) == stack' = Below /\ returning' = TRUE /\ score' = s /\ UNCHANGED solve

-----------------------------------------------------------------------------
(* TranspositionTable *)

Entry(f) == tt[Slot[f.pos]]
Known(f) == Entry(f).pos = f.pos /\ Entry(f).depth >= f.depth

(* try_cutoff *)
Cutoff(f) ==
  /\ Known(f)
  /\ \/ Entry(f).lower >= f.beta
     \/ Entry(f).upper <= f.alpha
     \/ Entry(f).lower = Entry(f).upper

CutoffScore(f) ==
  IF Entry(f).lower < f.beta /\ Entry(f).upper <= f.alpha THEN Entry(f).upper ELSE Entry(f).lower

BoundsPastBeta(f, s) ==  \* mutant: a score of just beta passes for exact
  IF s > f.beta THEN <<s, MaxScore>>
  ELSE IF s > f.original THEN <<s, s>> ELSE <<MinScore, s>>

Bounds(f, s) ==
  IF s >= f.beta THEN <<s, MaxScore>>
  ELSE IF s > f.original THEN <<s, s>> ELSE <<MinScore, s>>

Store(f, s) ==
  tt' = IF Entry(f).pos = f.pos /\ Entry(f).depth > f.depth THEN tt
        ELSE [tt EXCEPT ![Slot[f.pos]] = [pos |-> f.pos, depth |-> f.depth,
                                         lower |-> Bounds(f, s)[1], upper |-> Bounds(f, s)[2]]]

-----------------------------------------------------------------------------
(* A call begins: the early returns, in the order of the code *)

Enters == stack # <<>> /\ ~returning /\ Top.at = "entry"
AtLeaf(f) == IsLeaf(f.pos, f.depth)

CappedInMidgame(f) ==  \* mutant: also where the evaluation decides
  f.alpha >= Threshold[f.pos] /\ solve.cap[f.pos] <= f.alpha

Capped(f) ==
  /\ ~InMidgame(f.pos, f.depth) /\ f.alpha >= Threshold[f.pos]
  /\ solve.cap[f.pos] <= f.alpha

Searches == Enters /\ ~AtLeaf(Top) /\ ~Cutoff(Top) /\ ~Capped(Top)

Leaf ==
  /\ Enters /\ AtLeaf(Top)
  /\ Returns(IF Empties[Top.pos] = 0 THEN solve.final[Top.pos] ELSE solve.eval[Top.pos])
  /\ UNCHANGED tt

TableCutoff ==
  /\ Enters /\ ~AtLeaf(Top) /\ Cutoff(Top)
  /\ Returns(CutoffScore(Top)) /\ UNCHANGED tt

StabilityCutoff ==
  /\ Enters /\ ~AtLeaf(Top) /\ ~Cutoff(Top) /\ Capped(Top)
  /\ Returns(solve.cap[Top.pos]) /\ UNCHANGED tt

GameOver ==
  /\ Searches /\ Over(Top.pos)
  /\ Returns(solve.final[Top.pos]) /\ UNCHANGED tt

Pass ==
  /\ Searches /\ Moves[Top.pos] = {} /\ ~Over(Top.pos)
  /\ Goes([Top EXCEPT !.at = "pass", !.child = Passed[Top.pos]],
          Call(Passed[Top.pos], Top.depth, -Top.beta, -Top.alpha, Top.level))

Returned(at) == stack # <<>> /\ returning /\ Top.at \in at

-----------------------------------------------------------------------------
(* ProbCut: a less deep search with a window beyond beta, or below alpha,  *)
(* by the margin, if the evaluation says it may succeed                    *)

CanProbe(f) ==
  /\ Probes(solve, f.pos, f.depth)
  /\ f.alpha + 1 = f.beta /\ f.level < 2

probcut_betaBare(f) == f.beta  \* mutant: the margin is left out

probcut_beta(f) == f.beta + solve.error[f.pos][f.depth]
probcut_alpha(f) == f.alpha - solve.error[f.pos][f.depth]

TriesUpper(f) ==
  /\ CanProbe(f) /\ probcut_beta(f) < MaxScore
  /\ solve.eval[f.pos] >= f.beta - solve.evalError[f.pos][f.depth]

TriesLower(f) ==
  /\ CanProbe(f) /\ probcut_alpha(f) > MinScore
  /\ solve.eval[f.pos] < f.alpha + solve.evalError[f.pos][f.depth]

Probe(f, alpha) == Call(f.pos, probcut_depth(f.depth), alpha, alpha + 1, f.level + 1)

PastUpper ==
  \/ Searches /\ Moves[Top.pos] # {} /\ ~TriesUpper(Top)
  \/ Returned({"upper"}) /\ score < probcut_beta(Top)

PastProbes ==
  \/ PastUpper /\ ~TriesLower(Top)
  \/ Returned({"lower"}) /\ score > probcut_alpha(Top)

ProbeUpper ==
  /\ Searches /\ Moves[Top.pos] # {} /\ TriesUpper(Top)
  /\ Goes([Top EXCEPT !.at = "upper"], Probe(Top, probcut_beta(Top) - 1))

UpperCut ==
  /\ Returned({"upper"}) /\ score >= probcut_beta(Top)
  /\ Returns(Top.beta) /\ UNCHANGED tt

ProbeLower ==
  /\ PastUpper /\ TriesLower(Top)
  /\ Goes([Top EXCEPT !.at = "lower"], Probe(Top, probcut_alpha(Top)))

LowerCut ==
  /\ Returned({"lower"}) /\ score <= probcut_alpha(Top)
  /\ Returns(Top.alpha) /\ UNCHANGED tt

First(c) ==
  /\ PastProbes /\ c \in Moves[Top.pos]
  /\ Goes([Top EXCEPT !.at = "first", !.child = c, !.todo = @ \ {c}],
          Call(c, Top.depth - 1, -Top.beta, -Top.alpha, Top.level))

-----------------------------------------------------------------------------
(* The loop over the moves *)

(* Every move but the first has a null window. *)
Null(c) ==
  /\ stack # <<>> /\ ~returning /\ Top.at = "moves" /\ c \in Top.todo
  /\ Goes([Top EXCEPT !.at = "null", !.child = c, !.todo = @ \ {c}],
          Call(c, Top.depth - 1, -Top.alpha - 1, -Top.alpha, Top.level))

PassReturns == Returned({"pass"}) /\ Returns(-score) /\ UNCHANGED tt

(* It is better than alpha, by how much is not known. *)
Improves(f) == f.at = "null" /\ -score > f.alpha /\ -score < f.beta

Research ==
  /\ Returned({"null"}) /\ Improves(Top)
  /\ Goes([Top EXCEPT !.at = "full"], Call(Top.child, Top.depth - 1, -Top.beta, -Top.alpha, Top.level))

Larger(a, b) == IF a >= b THEN a ELSE b

(* best and alpha after the score of a move *)
Scored(f) ==
  LET best == Larger(f.best, -score)
  IN  [f EXCEPT !.best = best, !.alpha = Larger(f.alpha, best), !.at = "moves"]

ReachesBeta(f) == f.alpha >= f.beta

NextMove ==
  /\ Returned({"first", "null", "full"}) /\ ~Improves(Top)
  /\ ~ReachesBeta(Scored(Top)) /\ Top.todo # {}
  /\ stack' = Append(Below, Scored(Top)) /\ returning' = FALSE
  /\ UNCHANGED <<solve, tt, score>>

Finish ==
  /\ Returned({"first", "null", "full"}) /\ ~Improves(Top)
  /\ ReachesBeta(Scored(Top)) \/ Top.todo = {}
  /\ Store(Scored(Top), Scored(Top).best)
  /\ Returns(Scored(Top).best)

Next ==
  \/ Leaf \/ TableCutoff \/ StabilityCutoff \/ GameOver
  \/ Pass \/ PassReturns
  \/ ProbeUpper \/ UpperCut \/ ProbeLower \/ LowerCut
  \/ (\E c \in Positions : First(c) \/ Null(c))
  \/ Research \/ NextMove \/ Finish

Spec == Init /\ [][Next]_vars

-----------------------------------------------------------------------------
Frame == [pos : Positions, depth : Depths, level : 0..2,
          original : Scores, alpha : Scores, beta : Scores,
          best : (MinScore - 1)..MaxScore, todo : SUBSET Positions, child : Positions,
          at : {"entry", "pass", "upper", "lower", "first", "moves", "null", "full"}]

TableEntry == [pos : Positions \cup {NoPosition}, depth : Depths \cup {-1}, lower : Scores, upper : Scores]

(* Type invariant *)
TypeOK ==
  /\ solve \in Solves
  /\ tt \in [Slots -> TableEntry]
  /\ stack \in Seq(Frame)
  /\ returning \in BOOLEAN /\ score \in Scores

(* Real moves left at p in the search of solve, probes aside *)
Left(s, p) == s.depth - Empties[s.root] + Empties[p]

(* "depth - n_empties is invariant from the root (moves decrement both,    *)
(* passes neither)" (search.rs): in_midgame is handed down from the root,  *)
(* and recomputed for probes, but it is the root's in every call, so no    *)
(* call of a midgame search trusts stable discs and none of an exact one   *)
(* is cut by a probe.                                                      *)
DepthFollowsEmpties ==
  \A i \in 1..Len(stack) :
    /\ stack[i].level = 0 => stack[i].depth = Left(solve, stack[i].pos)
    /\ InMidgame(stack[i].pos, stack[i].depth) = InMidgame(solve.root, solve.depth)

(* "lower/upper are proven bounds" (search.rs), whichever windows the      *)
(* position was searched with, and whatever probes left in the table.      *)
TableIsProven ==
  \A i \in Slots : tt[i].pos # NoPosition =>
    /\ Asked(solve, tt[i].pos, tt[i].depth)
    /\ tt[i].lower <= solve.high[tt[i].pos][tt[i].depth]
    /\ solve.low[tt[i].pos][tt[i].depth] <= tt[i].upper

(* A re-search confirms the null window that asked for it: it raises alpha *)
(* and never falls back on a table entry or a bound that denies it, as     *)
(* long as no probe misses by more than its margin.                        *)
ResearchRaisesAlpha ==
  solve.low = solve.high /\ returning /\ stack # <<>> /\ Top.at = "full" => -score > Top.alpha

(* solve returns the minimax value: "at full width the minimax value       *)
(* depends only on position, depth, and eval" (search.rs), not on the      *)
(* order of moves, the windows, the table and its collisions; and a        *)
(* selective search misses it by no more than its probes miss their        *)
(* margins, however many of them, and whatever they leave in the table.    *)
ResultIsProven == stack = <<>> => Within(solve, score, solve.root, solve.depth)

=============================================================================

-------------------------- MODULE LocalSearch_proof -------------------------
(***************************************************************************)
(* Proofs about the evaluation that runs in the page: Search, for any game, *)
(* any scores, any margins of ProbCut, any table and any order of the moves, *)
(* and LocalEval, for every game tree, book, set of PGNs and number of     *)
(* workers.                                                                *)
(***************************************************************************)
EXTENDS Search, LocalEval, SequenceTheorems, FiniteSetTheorems, WellFoundedInduction, TLAPS

-----------------------------------------------------------------------------
(***************************************************************************)
(* Search                                                                  *)
(***************************************************************************)

-----------------------------------------------------------------------------
(* The inductive invariant: what every call under way has established.     *)

(* What a call with the window (alpha, beta) promises of the score x that  *)
(* it returns for p at depth d                                             *)
Contract(s, x, alpha, beta, p, d) ==
  /\ x > alpha => x <= s.high[p][d]
  /\ x < beta => s.low[p][d] <= x

Waiting(f) == f.at \in {"pass", "upper", "lower", "first", "null", "full"}

(* probcut_beta and probcut_alpha *)
UpperBeta(s, f) == f.beta + s.error[f.pos][f.depth]
LowerAlpha(s, f) == f.alpha - s.error[f.pos][f.depth]

(* The window and the depth of the call a frame waits for *)
Low(s, f) ==
  IF f.at = "null" THEN -f.alpha - 1
  ELSE IF f.at = "upper" THEN UpperBeta(s, f) - 1
  ELSE IF f.at = "lower" THEN LowerAlpha(s, f) ELSE -f.beta

High(s, f) ==
  IF f.at = "upper" THEN UpperBeta(s, f)
  ELSE IF f.at = "lower" THEN LowerAlpha(s, f) + 1 ELSE -f.alpha

ChildDepth(f) ==
  IF f.at = "pass" THEN f.depth
  ELSE IF f.at \in {"upper", "lower"} THEN probcut_depth(f.depth) ELSE f.depth - 1

Fresh(f) ==
  /\ f.original = f.alpha /\ f.best = MinScore - 1
  /\ f.todo = Moves[f.pos] /\ f.child = f.pos

Inside(f) == ~IsLeaf(f.pos, f.depth) /\ Moves[f.pos] # {}

Passing(f) ==
  /\ ~IsLeaf(f.pos, f.depth) /\ Moves[f.pos] = {} /\ ~Over(f.pos)
  /\ f.child = Passed[f.pos] /\ f.original = f.alpha

Probing(s, f) ==
  /\ Fresh(f) /\ Inside(f) /\ Probes(s, f.pos, f.depth)
  /\ f.beta = f.alpha + 1 /\ f.level < 2
  /\ f.at = "upper" => UpperBeta(s, f) < MaxScore
  /\ f.at = "lower" => LowerAlpha(s, f) > MinScore

Pending(f, c) == c \in f.todo \/ (f.at # "moves" /\ c = f.child)

(* best is what the moves tried are worth, and alpha the larger of it and  *)
(* the alpha of the call.                                                  *)
InLoop(s, f) ==
  /\ Inside(f)
  /\ f.todo \subseteq Moves[f.pos] /\ f.child \in Moves[f.pos]
  /\ \A c \in Moves[f.pos] : Pending(f, c) \/ -s.high[c][f.depth - 1] <= f.best
  /\ f.best > f.original => f.best = f.alpha /\ f.best <= s.high[f.pos][f.depth]
  /\ f.best <= f.original => f.alpha = f.original
  /\ f.at = "full" => -s.low[f.child][f.depth - 1] > f.alpha

(* The depth of a call: midgame or not it is as the root, and outside of   *)
(* probes by its empty squares.                                            *)
DepthOK(s, f) ==
  /\ Asked(s, f.pos, f.depth)
  /\ f.level = 0 => f.depth = Left(s, f.pos)
  /\ InMidgame(f.pos, f.depth) = InMidgame(s.root, s.depth)

FrameOK(s, f) ==
  /\ DepthOK(s, f)
  /\ f.alpha < f.beta
  /\ f.at = "entry" => Fresh(f)
  /\ f.at = "pass" => Passing(f)
  /\ f.at \in {"upper", "lower"} => Probing(s, f)
  /\ f.at \in {"first", "moves", "null", "full"} => InLoop(s, f)

Linked(s, f, g) ==
  /\ Waiting(f)
  /\ g.pos = f.child /\ g.depth = ChildDepth(f)
  /\ g.original = Low(s, f) /\ g.beta = High(s, f)

RootCall(s, f) == f.pos = s.root /\ f.depth = s.depth /\ f.original = MinScore /\ f.beta = MaxScore

StackOK(s, st) ==
  /\ \A i \in 1..Len(st) : FrameOK(s, st[i])
  /\ \A i \in 1..Len(st) - 1 : Linked(s, st[i], st[i + 1])
  /\ Len(st) > 0 => RootCall(s, st[1])

(* What the last call returned, for the one that waits for it or for solve *)
Answered(s, st, x) ==
  /\ st # <<>> => LET f == st[Len(st)]
                  IN  Waiting(f) /\ Contract(s, x, Low(s, f), High(s, f), f.child, ChildDepth(f))
  /\ st = <<>> => Contract(s, x, MinScore, MaxScore, s.root, s.depth)

Control ==
  /\ returning => Answered(solve, stack, score)
  /\ ~returning => stack # <<>> /\ Top.at \in {"entry", "moves"}

TableOK(s, e) ==
  e.pos # NoPosition =>
    Asked(s, e.pos, e.depth) /\ e.lower <= s.high[e.pos][e.depth] /\ s.low[e.pos][e.depth] <= e.upper

IInv ==
  /\ TypeOK
  /\ StackOK(solve, stack)
  /\ Control
  /\ \A i \in Slots : TableOK(solve, tt[i])

-----------------------------------------------------------------------------
(* The stack *)

LEMMA StackShape ==
  ASSUME NEW S, NEW st \in Seq(S), st # <<>>, NEW f \in S, NEW g \in S
  PROVE  LET low == [i \in 1..Len(st) - 1 |-> st[i]]
         IN  /\ Len(st) \in Nat /\ Len(st) > 0 /\ st[Len(st)] \in S
             /\ low \in Seq(S) /\ Len(low) = Len(st) - 1
             /\ \A i \in 1..Len(st) - 1 : low[i] = st[i]
             /\ Append(low, f) \in Seq(S) /\ Len(Append(low, f)) = Len(st)
             /\ Append(low, f)[Len(st)] = f
             /\ \A i \in 1..Len(st) - 1 : Append(low, f)[i] = st[i]
             /\ Append(Append(low, f), g) \in Seq(S)
             /\ Len(Append(Append(low, f), g)) = Len(st) + 1
             /\ Append(Append(low, f), g)[Len(st) + 1] = g
             /\ Append(Append(low, f), g)[Len(st)] = f
             /\ \A i \in 1..Len(st) - 1 : Append(Append(low, f), g)[i] = st[i]
<1> DEFINE low == [i \in 1..Len(st) - 1 |-> st[i]]
<1>1. Len(st) \in Nat /\ Len(st) > 0 /\ st[Len(st)] \in S
  OBVIOUS
<1>2. low \in Seq(S) /\ Len(low) = Len(st) - 1 /\ \A i \in 1..Len(st) - 1 : low[i] = st[i]
  BY <1>1
<1> HIDE DEF low
<1>3. /\ Append(low, f) \in Seq(S) /\ Len(Append(low, f)) = Len(st)
      /\ Append(low, f)[Len(st)] = f
      /\ \A i \in 1..Len(st) - 1 : Append(low, f)[i] = st[i]
  BY <1>1, <1>2
<1> DEFINE up == Append(low, f)
<1> HIDE DEF up
<1>4. /\ Append(up, g) \in Seq(S) /\ Len(Append(up, g)) = Len(st) + 1
      /\ Append(up, g)[Len(st) + 1] = g
      /\ \A i \in 1..Len(st) : Append(up, g)[i] = up[i]
  BY <1>1, <1>3 DEF up
<1> QED
  BY <1>1, <1>2, <1>3, <1>4 DEF up, low

LEMMA EmptyLen ==
  ASSUME NEW st \in Seq(Frame)
  PROVE  /\ Len(st) \in Nat
         /\ st # <<>> <=> Len(st) > 0
         /\ Len(st) > 0 => Len(st) = 1 \/ Len(st) > 1
<1>1. Len(st) \in Nat
  OBVIOUS
<1>2. \A n \in Nat : n > 0 => n = 1 \/ n > 1
  OBVIOUS
<1>3. st # <<>> <=> Len(st) > 0
  OBVIOUS
<1> QED
  BY <1>1, <1>2, <1>3

(* What a step leaves of the calls below the innermost one. *)
LEMMA CallKeeps ==
  ASSUME NEW s, NEW st \in Seq(Frame), st # <<>>, StackOK(s, st),
         NEW f \in Frame, NEW g \in Frame, FrameOK(s, f), FrameOK(s, g), Linked(s, f, g),
         f.pos = st[Len(st)].pos, f.depth = st[Len(st)].depth, f.original = st[Len(st)].original, f.beta = st[Len(st)].beta,
         NEW new \in Seq(Frame), Len(new) = Len(st) + 1,
         new[Len(st) + 1] = g, new[Len(st)] = f, \A i \in 1..Len(st) - 1 : new[i] = st[i]
  PROVE  new # <<>> /\ new[Len(new)] = g /\ StackOK(s, new)
<1>1. Len(st) \in Nat /\ Len(st) > 0
  BY EmptyLen
<1>2. \A i \in 1..Len(new) : FrameOK(s, new[i])
  BY <1>1 DEF StackOK
<1>3. ASSUME NEW i \in 1..Len(new) - 1 PROVE Linked(s, new[i], new[i + 1])
  <2>1. CASE i = Len(st)
    BY <2>1, <1>1
  <2>2. CASE i < Len(st) - 1
    BY <2>2, <1>1 DEF StackOK
  <2>3. CASE i = Len(st) - 1
    <3>1. Linked(s, st[i], st[i + 1]) /\ new[i] = st[i] /\ new[i + 1] = f
      BY <2>3, <1>1 DEF StackOK
    <3> QED
      BY <3>1, <2>3 DEF Linked
  <2> QED
    BY <2>1, <2>2, <2>3, <1>1
<1>4. new # <<>>
  BY <1>1, EmptyLen
<1>5. RootCall(s, new[1])
  <2>1. RootCall(s, st[1])
    BY <1>1 DEF StackOK
  <2>2. CASE Len(st) = 1
    BY <1>1, <2>1, <2>2 DEF RootCall
  <2>3. CASE Len(st) > 1
    <3>1. new[1] = st[1]
      BY <1>1, <2>3
    <3> QED
      BY <2>1, <3>1
  <2>4. Len(st) = 1 \/ Len(st) > 1
    BY EmptyLen
  <2> QED
    BY <2>2, <2>3, <2>4
<1> QED
  BY <1>1, <1>2, <1>3, <1>4, <1>5 DEF StackOK

LEMMA MoveKeeps ==
  ASSUME NEW s, NEW st \in Seq(Frame), st # <<>>, StackOK(s, st),
         NEW f \in Frame, FrameOK(s, f),
         f.pos = st[Len(st)].pos, f.depth = st[Len(st)].depth, f.original = st[Len(st)].original, f.beta = st[Len(st)].beta,
         NEW new \in Seq(Frame), Len(new) = Len(st),
         new[Len(st)] = f, \A i \in 1..Len(st) - 1 : new[i] = st[i]
  PROVE  new # <<>> /\ new[Len(new)] = f /\ StackOK(s, new)
<1>1. Len(st) \in Nat /\ Len(st) > 0
  BY EmptyLen
<1>2. \A i \in 1..Len(new) : FrameOK(s, new[i])
  BY <1>1 DEF StackOK
<1>3. ASSUME NEW i \in 1..Len(new) - 1 PROVE Linked(s, new[i], new[i + 1])
  <2>1. Linked(s, st[i], st[i + 1]) /\ new[i] = st[i]
    BY <1>1 DEF StackOK
  <2>2. CASE i < Len(st) - 1
    BY <2>1, <2>2, <1>1
  <2>3. CASE i = Len(st) - 1
    BY <2>1, <2>3, <1>1 DEF Linked
  <2> QED
    BY <2>2, <2>3, <1>1
<1>4. new # <<>>
  BY <1>1, EmptyLen
<1>5. RootCall(s, new[1])
  <2>1. RootCall(s, st[1])
    BY <1>1 DEF StackOK
  <2>2. CASE Len(st) = 1
    BY <1>1, <2>1, <2>2 DEF RootCall
  <2>3. CASE Len(st) > 1
    <3>1. new[1] = st[1]
      BY <1>1, <2>3
    <3> QED
      BY <2>1, <3>1
  <2>4. Len(st) = 1 \/ Len(st) > 1
    BY EmptyLen
  <2> QED
    BY <2>2, <2>3, <2>4
<1> QED
  BY <1>1, <1>2, <1>3, <1>4, <1>5 DEF StackOK

LEMMA ReturnKeeps ==
  ASSUME NEW s, NEW st \in Seq(Frame), st # <<>>, StackOK(s, st), NEW x,
         Contract(s, x, st[Len(st)].original, st[Len(st)].beta, st[Len(st)].pos, st[Len(st)].depth),
         NEW new \in Seq(Frame), Len(new) = Len(st) - 1,
         \A i \in 1..Len(st) - 1 : new[i] = st[i]
  PROVE  StackOK(s, new) /\ Answered(s, new, x)
<1>1. Len(st) \in Nat /\ Len(st) > 0 /\ st[Len(st)] \in Frame
  BY EmptyLen
<1>2. StackOK(s, new)
  BY <1>1 DEF StackOK
<1>3. CASE new = <<>>
  <2>1. Len(st) = 1
    BY <1>1, <1>3, EmptyLen
  <2>2. RootCall(s, st[1])
    BY <1>1 DEF StackOK
  <2> QED
    BY <1>1, <1>2, <1>3, <2>1, <2>2 DEF Answered, RootCall
<1>4. CASE new # <<>>
  <2>1. Len(new) > 0 /\ new[Len(new)] = st[Len(st) - 1]
    BY <1>1, <1>4, EmptyLen
  <2>2. Linked(s, st[Len(st) - 1], st[Len(st)])
    BY <1>1, <2>1 DEF StackOK
  <2> QED
    BY <1>1, <1>2, <1>4, <2>1, <2>2 DEF Answered, Linked
<1> QED
  BY <1>3, <1>4

-----------------------------------------------------------------------------
(* One call *)

LEMMA Numbers ==
  /\ MaxScore \in Nat /\ MaxScore > 0 /\ MinScore \in Int /\ MinScore = -MaxScore
  /\ \A x : x \in Scores <=> x \in Int /\ MinScore <= x /\ x <= MaxScore
  /\ \A x \in Scores : -x \in Scores
  BY SearchAssumption DEF MinScore, Scores

LEMMA NullWindow ==
  ASSUME NEW alpha \in Scores, NEW beta \in Scores, alpha < beta
  PROVE  -alpha - 1 \in Scores /\ -alpha - 1 < -alpha
  BY SearchAssumption DEF Scores, MinScore

LEMMA SolveTypes ==
  ASSUME NEW s \in Solves
  PROVE  /\ s \in Solve /\ BoundsMinimax(s)
         /\ s.root \in Positions /\ s.depth \in Depths
         /\ \A p \in Positions : /\ Left(s, p) \in Int
                                 /\ s.final[p] \in Scores /\ s.eval[p] \in Scores /\ s.cap[p] \in Scores
         /\ \A p \in Positions, d \in Depths : /\ s.low[p][d] \in Scores /\ s.high[p][d] \in Scores
                                               /\ s.error[p][d] \in Nat
<1>1. s \in Solve /\ BoundsMinimax(s)
  BY SearchAssumption
<1>2. s.root \in Positions /\ s.depth \in Depths /\ s.depth \in Int
  BY <1>1, SearchAssumption DEF Solve, Depths
<1> QED
  BY <1>1, <1>2, SearchAssumption DEF Solve, Left

LEMMA FrameFields ==
  ASSUME NEW f \in Frame
  PROVE  /\ f.pos \in Positions /\ f.depth \in Depths /\ f.depth \in Nat /\ f.level \in 0..2
         /\ f.todo \subseteq Positions /\ f.child \in Positions
         /\ f.original \in Scores /\ f.alpha \in Scores /\ f.beta \in Scores
         /\ f.best \in Int /\ MinScore - 1 <= f.best /\ f.best <= MaxScore
  BY Numbers, SearchAssumption DEF Frame, Depths

(* What the rules of the game say of one position searched to one depth *)
LEMMA OneMove ==
  ASSUME NEW s \in Solves, NEW p \in Positions, NEW d \in Depths, Asked(s, p, d)
  PROVE  /\ Minimax(s, p, d)
         /\ ~InMidgame(p, d) => s.low[p][d] <= s.cap[p]
         /\ \A deeper \in Depths : 0 < d /\ d <= deeper /\ Asked(s, p, deeper) => Deepens(s, p, d, deeper)
<1>1. BoundsMinimax(s)
  BY SolveTypes
<1> QED
  BY <1>1 DEF BoundsMinimax

LEMMA NewCall ==
  ASSUME NEW s \in Solves, NEW p \in Positions, NEW d \in Depths, NEW n \in 0..2,
         Asked(s, p, d), n = 0 => d = Left(s, p), InMidgame(p, d) = InMidgame(s.root, s.depth),
         NEW alpha \in Scores, NEW beta \in Scores, alpha < beta
  PROVE  LET g == Call(p, d, alpha, beta, n)
         IN  /\ g \in Frame /\ FrameOK(s, g)
             /\ g.pos = p /\ g.depth = d /\ g.original = alpha /\ g.beta = beta /\ g.at = "entry"
<1> DEFINE g == Call(p, d, alpha, beta, n)
<1>1. g.pos = p /\ g.depth = d /\ g.level = n /\ g.original = alpha /\ g.alpha = alpha /\ g.beta = beta
      /\ g.best = MinScore - 1 /\ g.todo = Moves[p] /\ g.child = p /\ g.at = "entry"
  BY DEF Call
<1>2. g \in Frame
  BY SearchAssumption, Numbers DEF Call, Frame
<1>3. FrameOK(s, g)
  BY <1>1 DEF FrameOK, DepthOK, Fresh
<1> QED
  BY <1>1, <1>2, <1>3

(* Whatever lies within the bounds meets every contract. *)
LEMMA BoundedMeets ==
  ASSUME NEW s, NEW p, NEW d, NEW x, Within(s, x, p, d), NEW alpha, NEW beta
  PROVE  Contract(s, x, alpha, beta, p, d)
  BY DEF Contract, Within

(* The early returns *)
LEMMA EarlyReturn ==
  ASSUME NEW s \in Solves, NEW f \in Frame, FrameOK(s, f)
  PROVE  /\ Empties[f.pos] = 0 => Within(s, s.final[f.pos], f.pos, f.depth)
         /\ Empties[f.pos] # 0 /\ AtLeaf(f) => Within(s, s.eval[f.pos], f.pos, f.depth)
         /\ ~AtLeaf(f) /\ Over(f.pos) => Within(s, s.final[f.pos], f.pos, f.depth)
         /\ ~InMidgame(f.pos, f.depth) => s.low[f.pos][f.depth] <= s.cap[f.pos]
<1>1. f.pos \in Positions /\ f.depth \in Depths /\ Asked(s, f.pos, f.depth)
  BY FrameFields DEF FrameOK, DepthOK
<1>2. Minimax(s, f.pos, f.depth) /\ (~InMidgame(f.pos, f.depth) => s.low[f.pos][f.depth] <= s.cap[f.pos])
  BY <1>1, OneMove
<1> QED
  BY <1>1, <1>2 DEF Minimax, AtLeaf, IsLeaf

(* The moves of a position that is searched *)
LEMMA Inner ==
  ASSUME NEW s \in Solves, NEW f \in Frame, DepthOK(s, f), Inside(f)
  PROVE  /\ \A c \in Moves[f.pos] :
              /\ c \in Positions /\ -s.low[c][f.depth - 1] <= s.high[f.pos][f.depth]
              /\ Asked(s, c, f.depth - 1)
              /\ f.level = 0 => f.depth - 1 = Left(s, c)
              /\ InMidgame(c, f.depth - 1) = InMidgame(s.root, s.depth)
         /\ f.depth - 1 \in Depths
         /\ \E c \in Moves[f.pos] : s.low[f.pos][f.depth] <= -s.high[c][f.depth - 1]
<1>1. f.pos \in Positions /\ f.depth \in Depths /\ f.depth \in Nat /\ MaxDepth \in Nat
      /\ Asked(s, f.pos, f.depth)
  BY FrameFields, SearchAssumption DEF DepthOK
<1>2. f.depth # 0 /\ Minimax(s, f.pos, f.depth)
  BY <1>1, OneMove DEF Inside, IsLeaf
<1>3. f.depth - 1 \in Depths
  BY <1>1, <1>2 DEF Depths
<1>4. \A c \in Moves[f.pos] : c \in Positions /\ Empties[c] = Empties[f.pos] - 1 /\ Empties[f.pos] \in Nat
  BY <1>1, SearchAssumption
<1>5. \A c \in Moves[f.pos] : f.level = 0 => f.depth - 1 = Left(s, c)
  <2>1. s.depth \in Int /\ Empties[s.root] \in Int
    BY SolveTypes, SearchAssumption DEF Depths
  <2> QED
    BY <1>1, <1>4, <2>1 DEF Left, DepthOK
<1>6. \A c \in Moves[f.pos] : InMidgame(c, f.depth - 1) = InMidgame(s.root, s.depth)
  BY <1>1, <1>4 DEF InMidgame, DepthOK
<1> QED
  BY <1>2, <1>3, <1>4, <1>5, <1>6 DEF Minimax, Inside

LEMMA ProbeDepth ==
  ASSUME NEW d \in Depths
  PROVE  probcut_depth(d) \in Depths /\ probcut_depth(d) <= d
<1>1. d \in Nat /\ MaxDepth \in Nat /\ d <= MaxDepth
  BY SearchAssumption DEF Depths
<1>2. 2 * (d \div 4) + (d % 2) \in Nat /\ 2 * (d \div 4) + (d % 2) <= d
  BY <1>1
<1> QED
  BY <1>1, <1>2 DEF probcut_depth, Depths

(* The probes of a position, and what their answers say of it *)
LEMMA Probed ==
  ASSUME NEW s \in Solves, NEW f \in Frame, DepthOK(s, f), Inside(f), Probes(s, f.pos, f.depth)
  PROVE  LET d == probcut_depth(f.depth)
         IN  /\ d \in Depths /\ Asked(s, f.pos, d)
             /\ InMidgame(f.pos, d) = InMidgame(s.root, s.depth)
             /\ s.high[f.pos][d] - s.error[f.pos][f.depth] <= s.high[f.pos][f.depth]
             /\ s.low[f.pos][f.depth] <= s.low[f.pos][d] + s.error[f.pos][f.depth]
<1> DEFINE d == probcut_depth(f.depth)
<1>1. f.pos \in Positions /\ f.depth \in Depths /\ f.depth \in Nat /\ Asked(s, f.pos, f.depth)
      /\ Empties[f.pos] \in Nat
  BY FrameFields, SearchAssumption DEF DepthOK
<1>2. d \in Depths /\ d <= f.depth /\ d \in Nat
  BY <1>1, ProbeDepth, SearchAssumption DEF Depths
<1>3. InMidgame(f.pos, f.depth)
  BY DEF Probes
<1> HIDE DEF d
<1>4. InMidgame(f.pos, d)
  BY <1>1, <1>2, <1>3 DEF InMidgame
<1>5. Minimax(s, f.pos, f.depth)
  BY <1>1, OneMove
<1> QED
  BY <1>2, <1>3, <1>4, <1>5 DEF Minimax, Inside, DepthOK, d

(* The windows of probes *)
LEMMA ProbeWindows ==
  ASSUME NEW s \in Solves, NEW f \in Frame, FrameOK(s, f)
  PROVE  /\ UpperBeta(s, f) < MaxScore =>
              UpperBeta(s, f) \in Scores /\ UpperBeta(s, f) - 1 \in Scores
         /\ LowerAlpha(s, f) > MinScore =>
              LowerAlpha(s, f) \in Scores /\ LowerAlpha(s, f) + 1 \in Scores
<1>1. /\ f.alpha \in Int /\ f.beta \in Int /\ MinScore <= f.alpha /\ f.beta <= MaxScore /\ f.alpha < f.beta
      /\ s.error[f.pos][f.depth] \in Nat
  BY FrameFields, SolveTypes, Numbers DEF FrameOK
<1> QED
  BY <1>1, Numbers DEF UpperBeta, LowerAlpha

-----------------------------------------------------------------------------
(* A move's score, and the end of the loop *)

LEMMA ScoredFields ==
  ASSUME NEW f \in Frame, score \in Scores
  PROVE  LET g == Scored(f)
         IN  /\ g \in Frame /\ g.at = "moves" /\ g.child = f.child /\ g.todo = f.todo
             /\ g.pos = f.pos /\ g.depth = f.depth /\ g.level = f.level
             /\ g.original = f.original /\ g.beta = f.beta
             /\ g.best = Larger(f.best, -score) /\ g.alpha = Larger(f.alpha, g.best)
             /\ g.best \in Scores
<1> DEFINE best == Larger(f.best, -score)
<1>1. best \in Int /\ MinScore <= best /\ best <= MaxScore
  BY FrameFields, Numbers DEF Larger
<1>2. best \in Scores
  BY <1>1, Numbers
<1>3. best \in (MinScore - 1)..MaxScore
  BY <1>1, Numbers
<1>4. Larger(f.alpha, best) \in Scores
  BY <1>2, FrameFields DEF Larger
<1> HIDE DEF best
<1>5. Scored(f) = [f EXCEPT !.best = best, !.alpha = Larger(f.alpha, best), !.at = "moves"]
  BY DEF Scored, best
<1> QED
  BY <1>2, <1>3, <1>4, <1>5 DEF Frame, best

(* The loop's invariant after a move *)
LEMMA ScoreKeepsLoop ==
  ASSUME NEW s \in Solves, NEW f \in Frame, FrameOK(s, f), f.at \in {"first", "null", "full"},
         score \in Scores, Contract(s, score, Low(s, f), High(s, f), f.child, ChildDepth(f)), ~Improves(f)
  PROVE  LET g == Scored(f)
         IN  /\ \A c \in Moves[f.pos] : g.best < g.beta => c \in g.todo \/ -s.high[c][f.depth - 1] <= g.best
             /\ g.best > g.original => g.best = g.alpha /\ g.best <= s.high[f.pos][f.depth]
             /\ g.best <= g.original => g.alpha = g.original
             /\ g.alpha < g.beta => FrameOK(s, g)
             /\ g.original < g.beta
<1> DEFINE g == Scored(f)
           y == -score
           v == -s.low[f.child][f.depth - 1]
           w == -s.high[f.child][f.depth - 1]
<1>1. /\ DepthOK(s, f) /\ f.alpha < f.beta /\ InLoop(s, f)
      /\ Inside(f) /\ f.child \in Moves[f.pos]
  BY DEF FrameOK, InLoop
<1>2. /\ f.child \in Positions /\ v <= s.high[f.pos][f.depth]
      /\ y \in Int /\ v \in Int /\ w \in Int /\ s.high[f.pos][f.depth] \in Int
      /\ score \in Int /\ s.low[f.child][f.depth - 1] \in Int /\ s.high[f.child][f.depth - 1] \in Int
      /\ \A c \in Moves[f.pos] : s.high[c][f.depth - 1] \in Int
      /\ f.alpha \in Int /\ f.beta \in Int /\ f.original \in Int /\ f.best \in Int
  BY <1>1, Inner, SolveTypes, FrameFields, Numbers
<1>3. (y > f.alpha => y <= v) /\ (y < f.beta => w <= y)
  <2>1. CASE f.at = "null"
    BY <1>1, <1>2, <2>1 DEF Contract, Low, High, ChildDepth, Improves
  <2>2. CASE f.at # "null"
    BY <1>1, <1>2, <2>2 DEF Contract, Low, High, ChildDepth
  <2> QED
    BY <2>1, <2>2
<1>4. /\ g \in Frame /\ g.at = "moves" /\ g.child = f.child /\ g.todo = f.todo
      /\ g.pos = f.pos /\ g.depth = f.depth /\ g.level = f.level
      /\ g.original = f.original /\ g.beta = f.beta
      /\ g.best = Larger(f.best, y) /\ g.alpha = Larger(f.alpha, g.best)
  BY ScoredFields
<1> HIDE DEF g, y, v, w
<1>5. f.best > f.original => f.best = f.alpha /\ f.best <= s.high[f.pos][f.depth]
  BY <1>1 DEF InLoop
<1>6. f.best <= f.original => f.alpha = f.original
  BY <1>1 DEF InLoop
<1>7. g.best > g.original => g.best = g.alpha /\ g.best <= s.high[f.pos][f.depth]
  BY <1>2, <1>3, <1>4, <1>5, <1>6 DEF Larger
<1>8. g.best <= g.original => g.alpha = g.original
  BY <1>2, <1>4, <1>5, <1>6 DEF Larger
<1>9. ASSUME NEW c \in Moves[f.pos], g.best < g.beta PROVE c \in g.todo \/ -s.high[c][f.depth - 1] <= g.best
  <2>1. c \in f.todo \/ c = f.child \/ -s.high[c][f.depth - 1] <= f.best
    BY <1>1 DEF InLoop, Pending
  <2>2. y < f.beta => w <= g.best
    BY <1>2, <1>3, <1>4 DEF Larger
  <2>3. y < f.beta /\ f.best <= g.best
    BY <1>2, <1>4, <1>9 DEF Larger
  <2>4. CASE c = f.child
    BY <2>2, <2>3, <2>4 DEF w
  <2>5. CASE -s.high[c][f.depth - 1] <= f.best
    <3>1. -s.high[c][f.depth - 1] \in Int /\ g.best \in Int
      BY <1>2, <1>4 DEF Larger
    <3> QED
      BY <1>2, <2>3, <2>5, <3>1
  <2> QED
    BY <1>4, <2>1, <2>4, <2>5
<1>10. g.alpha < g.beta => FrameOK(s, g)
  <2> SUFFICES ASSUME g.alpha < g.beta PROVE FrameOK(s, g)
    OBVIOUS
  <2>1. g.best < g.beta
    BY <1>2, <1>4 DEF Larger
  <2>2. \A c \in Moves[g.pos] : Pending(g, c) \/ -s.high[c][f.depth - 1] <= g.best
    BY <1>4, <1>9, <2>1 DEF Pending
  <2>3. g.todo \subseteq Moves[g.pos] /\ g.child \in Moves[g.pos]
    BY <1>1, <1>4 DEF InLoop
  <2>4. InLoop(s, g)
    BY <1>1, <1>4, <1>7, <1>8, <2>2, <2>3 DEF InLoop, Inside
  <2>5. DepthOK(s, g)
    BY <1>1, <1>4 DEF DepthOK
  <2> QED
    BY <1>1, <1>4, <2>4, <2>5 DEF FrameOK
<1>11. g.original < g.beta
  BY <1>1, <1>2, <1>4, <1>5, <1>6
<1> QED
  BY <1>4, <1>7, <1>8, <1>9, <1>10, <1>11 DEF g

(* What the loop ends with is what the call promises. *)
LEMMA LoopEnds ==
  ASSUME NEW s \in Solves, NEW f \in Frame, FrameOK(s, f), f.at \in {"first", "null", "full"},
         score \in Scores, Contract(s, score, Low(s, f), High(s, f), f.child, ChildDepth(f)), ~Improves(f),
         ReachesBeta(Scored(f)) \/ f.todo = {}
  PROVE  LET g == Scored(f)
         IN  Contract(s, g.best, f.original, f.beta, f.pos, f.depth)
<1> DEFINE g == Scored(f)
<1>1. /\ \A c \in Moves[f.pos] : g.best < g.beta => c \in g.todo \/ -s.high[c][f.depth - 1] <= g.best
      /\ g.best > g.original => g.best = g.alpha /\ g.best <= s.high[f.pos][f.depth]
      /\ g.best <= g.original => g.alpha = g.original
      /\ g.original < g.beta
  BY ScoreKeepsLoop
<1>2. g.todo = f.todo /\ g.original = f.original /\ g.beta = f.beta /\ g.best \in Int
      /\ g.alpha = Larger(f.alpha, g.best)
  BY ScoredFields, Numbers
<1>3. f.alpha < f.beta /\ f.alpha \in Int /\ f.beta \in Int /\ f.original \in Int
  BY FrameFields, Numbers DEF FrameOK
<1>4. PICK c \in Moves[f.pos] : s.low[f.pos][f.depth] <= -s.high[c][f.depth - 1]
  BY Inner DEF FrameOK, InLoop
<1>5. s.low[f.pos][f.depth] \in Int /\ s.high[f.pos][f.depth] \in Int /\ s.high[c][f.depth - 1] \in Int
  BY <1>4, Inner, FrameFields, SolveTypes, Numbers DEF FrameOK, InLoop
<1> HIDE DEF g
<1>6. CASE f.todo = {}
  <2>1. g.best < g.beta => s.low[f.pos][f.depth] <= g.best
    BY <1>1, <1>2, <1>4, <1>5, <1>6
  <2> QED
    BY <1>1, <1>2, <1>3, <1>5, <2>1 DEF Contract, g
<1>7. CASE ReachesBeta(g)
  <2>1. g.best >= g.beta
    BY <1>2, <1>3, <1>7 DEF ReachesBeta, Larger
  <2> QED
    BY <1>1, <1>2, <1>3, <1>5, <2>1 DEF Contract, g
<1> QED
  BY <1>6, <1>7 DEF g

(* What it stores is proven. *)
LEMMA StoreIsProven ==
  ASSUME NEW s \in Solves, NEW f \in Frame, Asked(s, f.pos, f.depth), NEW x \in Scores,
         Contract(s, x, f.original, f.beta, f.pos, f.depth), f.original < f.beta,
         tt \in [Slots -> TableEntry], \A i \in Slots : TableOK(s, tt[i]), Store(f, x)
  PROVE  tt' \in [Slots -> TableEntry] /\ \A i \in Slots : TableOK(s, tt'[i])
<1> DEFINE e == [pos |-> f.pos, depth |-> f.depth, lower |-> Bounds(f, x)[1], upper |-> Bounds(f, x)[2]]
<1>1. f.pos \in Positions /\ f.depth \in Depths /\ Slot[f.pos] \in Slots
  BY FrameFields DEF Slots
<1>2. x \in Int /\ MinScore \in Scores /\ MaxScore \in Scores
      /\ s.low[f.pos][f.depth] \in Int /\ s.high[f.pos][f.depth] \in Int
      /\ MinScore <= s.high[f.pos][f.depth] /\ s.low[f.pos][f.depth] <= MaxScore
      /\ f.original \in Int /\ f.beta \in Int
  BY <1>1, Numbers, SolveTypes, FrameFields
<1>3. /\ Bounds(f, x)[1] \in Scores /\ Bounds(f, x)[2] \in Scores
      /\ Bounds(f, x)[1] <= s.high[f.pos][f.depth] /\ s.low[f.pos][f.depth] <= Bounds(f, x)[2]
  BY <1>2 DEF Bounds, Contract
<1>4. e \in TableEntry /\ TableOK(s, e)
  BY <1>1, <1>3 DEF TableEntry, TableOK
<1>5. tt' = tt \/ tt' = [tt EXCEPT ![Slot[f.pos]] = e]
  BY DEF Store
<1> HIDE DEF e
<1> QED
  BY <1>1, <1>4, <1>5

-----------------------------------------------------------------------------
(* The steps of the stack, for the whole invariant *)

Steady == solve' = solve /\ tt' \in [Slots -> TableEntry] /\ \A i \in Slots : TableOK(solve, tt'[i])

LEMMA TopFrame ==
  ASSUME IInv, stack # <<>>
  PROVE  /\ Top \in Frame /\ FrameOK(solve, Top) /\ solve \in Solves /\ stack \in Seq(Frame)
         /\ StackOK(solve, stack) /\ Len(stack) \in Nat /\ Len(stack) > 0
<1>1. stack \in Seq(Frame) /\ solve \in Solves /\ StackOK(solve, stack)
  BY DEF IInv, TypeOK
<1>2. Len(stack) \in Nat /\ Len(stack) > 0 /\ stack[Len(stack)] \in Frame
  BY <1>1, EmptyLen
<1> QED
  BY <1>1, <1>2 DEF Top, StackOK

LEMMA Calls ==
  ASSUME IInv, stack # <<>>, NEW f \in Frame, NEW g \in Frame,
         FrameOK(solve, f), FrameOK(solve, g), Linked(solve, f, g), g.at = "entry",
         f.pos = Top.pos, f.depth = Top.depth, f.original = Top.original, f.beta = Top.beta, Goes(f, g)
  PROVE  IInv'
<1>1. stack \in Seq(Frame) /\ StackOK(solve, stack)
  BY TopFrame
<1>2. /\ Len(stack) \in Nat /\ Len(stack) > 0
      /\ stack' \in Seq(Frame) /\ Len(stack') = Len(stack) + 1
      /\ stack'[Len(stack) + 1] = g /\ stack'[Len(stack)] = f
      /\ \A i \in 1..Len(stack) - 1 : stack'[i] = stack[i]
  BY <1>1, StackShape DEF Goes, Below
<1>3. stack' # <<>> /\ stack'[Len(stack')] = g /\ StackOK(solve, stack')
  BY <1>1, <1>2, CallKeeps DEF Top
<1> QED
  BY <1>2, <1>3 DEF IInv, TypeOK, Control, Goes, Top

LEMMA GoesOn ==
  ASSUME IInv, stack # <<>>, NEW f \in Frame, FrameOK(solve, f), f.at = "moves",
         f.pos = Top.pos, f.depth = Top.depth, f.original = Top.original, f.beta = Top.beta,
         stack' = Append(Below, f), returning' = FALSE, UNCHANGED <<solve, tt, score>>
  PROVE  IInv'
<1>1. stack \in Seq(Frame) /\ StackOK(solve, stack)
  BY TopFrame
<1>2. /\ Len(stack) \in Nat /\ Len(stack) > 0
      /\ stack' \in Seq(Frame) /\ Len(stack') = Len(stack)
      /\ stack'[Len(stack)] = f
      /\ \A i \in 1..Len(stack) - 1 : stack'[i] = stack[i]
  BY <1>1, StackShape DEF Below
<1>3. stack' # <<>> /\ stack'[Len(stack')] = f /\ StackOK(solve, stack')
  BY <1>1, <1>2, MoveKeeps DEF Top
<1> QED
  BY <1>2, <1>3 DEF IInv, TypeOK, Control, Top

LEMMA ReturnsTo ==
  ASSUME IInv, stack # <<>>, NEW x \in Scores, Returns(x), Steady,
         Contract(solve, x, Top.original, Top.beta, Top.pos, Top.depth)
  PROVE  IInv'
<1>1. stack \in Seq(Frame) /\ StackOK(solve, stack) /\ Top \in Frame
  BY TopFrame
<1>2. /\ stack' \in Seq(Frame) /\ Len(stack') = Len(stack) - 1
      /\ \A i \in 1..Len(stack) - 1 : stack'[i] = stack[i]
  BY <1>1, StackShape DEF Returns, Below
<1>3. StackOK(solve, stack') /\ Answered(solve, stack', x)
  BY <1>1, <1>2, ReturnKeeps DEF Top
<1> QED
  BY <1>2, <1>3 DEF IInv, TypeOK, Control, Returns, Steady

LEMMA TableKept == IInv /\ UNCHANGED <<solve, tt>> => Steady
  BY DEF IInv, TypeOK, Steady

-----------------------------------------------------------------------------
LEMMA InitHolds == Init => IInv
<1> SUFFICES ASSUME Init PROVE IInv
  OBVIOUS
<1> DEFINE g == Call(solve.root, solve.depth, MinScore, MaxScore, 0)
<1>1. solve \in Solves
  BY DEF Init
<1>2. solve.root \in Positions /\ solve.depth \in Depths /\ Asked(solve, solve.root, solve.depth)
  BY <1>1, SolveTypes DEF BoundsMinimax
<1>3. solve.depth = Left(solve, solve.root)
  BY <1>2, SearchAssumption DEF Left, Depths
<1>4. MinScore \in Scores /\ MaxScore \in Scores /\ MinScore < MaxScore /\ 0 \in Scores
  BY Numbers
<1>5. /\ g \in Frame /\ FrameOK(solve, g) /\ g.pos = solve.root /\ g.depth = solve.depth
      /\ g.original = MinScore /\ g.beta = MaxScore /\ g.at = "entry"
  BY <1>1, <1>2, <1>3, <1>4, NewCall
<1> HIDE DEF g
<1>6. stack = <<g>>
  BY DEF Init, g
<1>7. stack \in Seq(Frame) /\ Len(stack) = 1 /\ stack[1] = g /\ stack # <<>>
  BY <1>5, <1>6
<1>8. StackOK(solve, stack)
  BY <1>5, <1>7 DEF StackOK, RootCall
<1>9. EmptyEntry \in TableEntry /\ TableOK(solve, EmptyEntry)
  BY <1>4 DEF EmptyEntry, TableEntry, TableOK
<1> QED
  BY <1>1, <1>4, <1>5, <1>7, <1>8, <1>9 DEF Init, IInv, TypeOK, Control, Top

(* A call that is past its probes, or has made one of them, has not        *)
(* touched its window or its moves.                                        *)
LEMMA Untouched ==
  ASSUME IInv
  PROVE  /\ PastUpper => stack # <<>> /\ Fresh(Top) /\ Inside(Top)
         /\ PastProbes => stack # <<>> /\ Fresh(Top) /\ Inside(Top)
<1>1. ASSUME Searches, Moves[Top.pos] # {} PROVE stack # <<>> /\ Fresh(Top) /\ Inside(Top)
  <2>1. stack # <<>> /\ Top.at = "entry" /\ ~AtLeaf(Top)
    BY <1>1 DEF Searches, Enters
  <2> QED
    BY <1>1, <2>1, TopFrame DEF FrameOK, Inside, AtLeaf
<1>2. ASSUME NEW at, at \in {"upper", "lower"}, Returned({at}) PROVE stack # <<>> /\ Fresh(Top) /\ Inside(Top)
  <2>1. stack # <<>> /\ Top.at \in {"upper", "lower"}
    BY <1>2 DEF Returned
  <2> QED
    BY <2>1, TopFrame DEF FrameOK, Probing
<1> QED
  BY <1>1, <1>2 DEF PastUpper, PastProbes

LEMMA StepHolds == IInv /\ [Next]_vars => IInv'
<1> SUFFICES ASSUME IInv, [Next]_vars PROVE IInv'
  OBVIOUS
<1> DEFINE f == Top
           low == solve.low[f.pos][f.depth]
           high == solve.high[f.pos][f.depth]
<1>a. ASSUME stack # <<>>
      PROVE  /\ f \in Frame /\ FrameOK(solve, f) /\ DepthOK(solve, f) /\ solve \in Solves
             /\ f.pos \in Positions /\ f.depth \in Depths /\ f.level \in 0..2
             /\ f.original \in Scores /\ f.alpha \in Scores /\ f.beta \in Scores /\ f.alpha < f.beta
             /\ f.alpha \in Int /\ f.beta \in Int /\ -f.alpha \in Scores /\ -f.beta \in Scores
             /\ -f.beta < -f.alpha
             /\ low \in Int /\ high \in Int
             /\ UpperBeta(solve, f) = probcut_beta(f) /\ LowerAlpha(solve, f) = probcut_alpha(f)
  <2>1. f \in Frame /\ FrameOK(solve, f) /\ DepthOK(solve, f) /\ solve \in Solves
    BY <1>a, TopFrame DEF FrameOK
  <2> QED
    BY <2>1, FrameFields, SolveTypes, Numbers
       DEF FrameOK, UpperBeta, LowerAlpha, probcut_beta, probcut_alpha
<1>b. \A p \in Positions : /\ solve.final[p] \in Scores /\ solve.eval[p] \in Scores
                           /\ solve.cap[p] \in Scores /\ solve.cap[p] \in Int
  BY SolveTypes, Numbers DEF IInv, TypeOK
<1>c. \A p \in Positions, d \in Depths : solve.low[p][d] \in Int /\ solve.high[p][d] \in Int
  BY SolveTypes, Numbers DEF IInv, TypeOK
<1>d. score \in Scores /\ score \in Int /\ -score \in Scores
  BY Numbers DEF IInv, TypeOK
<1>e. ASSUME returning, stack # <<>>
      PROVE  Contract(solve, score, Low(solve, f), High(solve, f), f.child, ChildDepth(f))
  BY <1>e DEF IInv, Control, Answered, Top
<1> HIDE DEF low, high
<1>1. CASE Leaf
  <2>1. stack # <<>> /\ f.at = "entry" /\ AtLeaf(f) /\ UNCHANGED <<solve, tt>>
    BY <1>1 DEF Leaf, Enters, Returns
  <2>2. PICK x \in Scores : Within(solve, x, f.pos, f.depth) /\ Returns(x)
    BY <1>1, <1>a, <1>b, <2>1, EarlyReturn DEF Leaf
  <2> QED
    BY <2>1, <2>2, BoundedMeets, ReturnsTo, TableKept
<1>2. CASE TableCutoff
  <2>1. /\ stack # <<>> /\ f.at = "entry" /\ ~AtLeaf(f) /\ Cutoff(f)
        /\ UNCHANGED <<solve, tt>> /\ Returns(CutoffScore(f))
    BY <1>2 DEF TableCutoff, Enters, Returns
  <2>2. Slot[f.pos] \in Slots
    BY <1>a, <2>1 DEF Slots
  <2>3. Entry(f) \in TableEntry /\ TableOK(solve, Entry(f))
    BY <2>2 DEF IInv, TypeOK, Entry
  <2> DEFINE e == Entry(f)
  <2>4. e.pos = f.pos /\ e.pos # NoPosition /\ f.depth <= e.depth
    BY <1>a, <2>1, <2>3, SearchAssumption DEF Cutoff, Known, Depths, TableEntry
  <2>5. f.depth \in Nat /\ 0 < f.depth
    BY <1>a, <2>1, FrameFields DEF AtLeaf, IsLeaf
  <2>6. e.depth \in Depths
    BY <2>3, <2>4, <2>5 DEF TableEntry
  <2>7. Asked(solve, f.pos, e.depth)
    BY <2>3, <2>4 DEF TableOK
  <2>8. Deepens(solve, f.pos, f.depth, e.depth)
    BY <1>a, <2>1, <2>4, <2>5, <2>6, <2>7, OneMove DEF DepthOK
  <2>9. /\ e.lower \in Scores /\ e.upper \in Scores /\ e.lower \in Int /\ e.upper \in Int
    BY <2>3, Numbers DEF TableEntry
  <2>10. e.lower <= high /\ low <= e.upper
    <3>1. solve.low[f.pos][e.depth] \in Int /\ solve.high[f.pos][e.depth] \in Int
      BY <1>a, <1>c, <2>1, <2>6
    <3>2. e.lower <= solve.high[f.pos][e.depth] /\ solve.low[f.pos][e.depth] <= e.upper
      BY <2>3, <2>4 DEF TableOK
    <3> QED
      BY <1>a, <2>1, <2>8, <2>9, <3>1, <3>2 DEF Deepens, low, high
  <2>11. f.original = f.alpha
    BY <1>a, <2>1 DEF FrameOK, Fresh
  <2>12. CutoffScore(f) \in Scores
    BY <2>9 DEF CutoffScore
  <2>13. Contract(solve, CutoffScore(f), f.original, f.beta, f.pos, f.depth)
    <3>1. e.lower >= f.beta \/ e.upper <= f.alpha \/ e.lower = e.upper
      BY <2>1 DEF Cutoff
    <3>2. CutoffScore(f) = IF e.lower < f.beta /\ e.upper <= f.alpha THEN e.upper ELSE e.lower
      BY DEF CutoffScore
    <3> HIDE DEF e
    <3> QED
      BY <1>a, <2>1, <2>9, <2>10, <2>11, <3>1, <3>2 DEF Contract, low, high
  <2> QED
    BY <2>1, <2>12, <2>13, ReturnsTo, TableKept
<1>3. CASE StabilityCutoff
  <2>1. stack # <<>> /\ f.at = "entry" /\ Capped(f) /\ UNCHANGED <<solve, tt>> /\ Returns(solve.cap[f.pos])
    BY <1>3 DEF StabilityCutoff, Enters, Returns
  <2>2. f.original = f.alpha
    BY <1>a, <2>1 DEF FrameOK, Fresh
  <2>3. low <= solve.cap[f.pos] /\ solve.cap[f.pos] <= f.alpha
    BY <1>a, <2>1, EarlyReturn DEF Capped, low
  <2>4. Contract(solve, solve.cap[f.pos], f.original, f.beta, f.pos, f.depth)
    BY <1>a, <1>b, <2>1, <2>2, <2>3 DEF Contract, low
  <2> QED
    BY <1>a, <1>b, <2>1, <2>4, ReturnsTo, TableKept
<1>4. CASE GameOver
  <2>1. stack # <<>> /\ f.at = "entry" /\ ~AtLeaf(f) /\ Over(f.pos) /\ UNCHANGED <<solve, tt>>
        /\ Returns(solve.final[f.pos])
    BY <1>4 DEF GameOver, Searches, Enters, Returns
  <2>2. Within(solve, solve.final[f.pos], f.pos, f.depth)
    BY <1>a, <2>1, EarlyReturn
  <2> QED
    BY <1>a, <1>b, <2>1, <2>2, BoundedMeets, ReturnsTo, TableKept
<1>5. CASE Pass
  <2> DEFINE p == Passed[f.pos]
             w == [f EXCEPT !.at = "pass", !.child = p]
             g == Call(p, f.depth, -f.beta, -f.alpha, f.level)
  <2>1. stack # <<>> /\ f.at = "entry" /\ ~AtLeaf(f) /\ Moves[f.pos] = {} /\ ~Over(f.pos) /\ Goes(w, g)
    BY <1>5 DEF Pass, Searches, Enters
  <2>2. p \in Positions /\ Empties[p] = Empties[f.pos]
    BY <1>a, <2>1, SearchAssumption
  <2>3. Asked(solve, p, f.depth)
    <3>1. Minimax(solve, f.pos, f.depth)
      BY <1>a, <2>1, OneMove DEF DepthOK
    <3> QED
      BY <2>1, <3>1 DEF Minimax, AtLeaf
  <2>4. /\ f.level = 0 => f.depth = Left(solve, p)
        /\ InMidgame(p, f.depth) = InMidgame(solve.root, solve.depth)
    BY <1>a, <2>1, <2>2 DEF DepthOK, Left, InMidgame
  <2>5. /\ w \in Frame /\ w.at = "pass" /\ w.child = p /\ w.level = f.level
        /\ w.pos = f.pos /\ w.depth = f.depth /\ w.original = f.original
        /\ w.alpha = f.alpha /\ w.beta = f.beta
    BY <1>a, <2>1, <2>2 DEF Frame
  <2> HIDE DEF p
  <2>6. /\ g \in Frame /\ FrameOK(solve, g) /\ g.pos = p /\ g.depth = f.depth
        /\ g.original = -f.beta /\ g.beta = -f.alpha /\ g.at = "entry"
    BY <1>a, <2>1, <2>2, <2>3, <2>4, NewCall
  <2>7. f.original = f.alpha
    BY <1>a, <2>1 DEF FrameOK, Fresh
  <2> HIDE DEF w, g
  <2>8. FrameOK(solve, w)
    BY <1>a, <2>1, <2>5, <2>7 DEF FrameOK, DepthOK, Passing, AtLeaf, p
  <2>9. Linked(solve, w, g)
    BY <2>5, <2>6 DEF Linked, Waiting, Low, High, ChildDepth
  <2> QED
    BY <2>1, <2>5, <2>6, <2>8, <2>9, Calls
<1>6. CASE PassReturns
  <2>1. stack # <<>> /\ returning /\ f.at = "pass" /\ Returns(-score) /\ UNCHANGED <<solve, tt>>
    BY <1>6 DEF PassReturns, Returned, Returns
  <2> DEFINE p == Passed[f.pos]
  <2>2. Passing(f)
    BY <1>a, <2>1 DEF FrameOK
  <2>3. p \in Positions /\ f.child = p /\ f.original = f.alpha
    BY <1>a, <2>1, <2>2, SearchAssumption DEF Passing
  <2> DEFINE l == solve.low[p][f.depth]
             h == solve.high[p][f.depth]
  <2>4. Contract(solve, score, -f.beta, -f.alpha, p, f.depth)
    BY <1>e, <2>1, <2>3 DEF Low, High, ChildDepth
  <2>5. low <= -h /\ -l <= high
    <3>1. Minimax(solve, f.pos, f.depth)
      BY <1>a, <2>1, OneMove DEF DepthOK
    <3> QED
      BY <2>2, <3>1 DEF Minimax, Passing, low, high
  <2>6. l \in Int /\ h \in Int /\ (score > -f.beta => score <= h) /\ (score < -f.alpha => l <= score)
    BY <1>a, <1>c, <2>1, <2>3, <2>4 DEF Contract
  <2> HIDE DEF l, h, p
  <2>7. Contract(solve, -score, f.original, f.beta, f.pos, f.depth)
    BY <1>a, <1>d, <2>1, <2>3, <2>5, <2>6 DEF Contract, low, high
  <2> QED
    BY <1>d, <2>1, <2>7, ReturnsTo, TableKept
<1>7. ASSUME NEW c \in Positions, First(c) PROVE IInv'
  <2> DEFINE w == [f EXCEPT !.at = "first", !.child = c, !.todo = @ \ {c}]
             g == Call(c, f.depth - 1, -f.beta, -f.alpha, f.level)
  <2>1. stack # <<>> /\ Fresh(f) /\ Inside(f) /\ c \in Moves[f.pos] /\ Goes(w, g)
    BY <1>7, Untouched DEF First
  <2>2. /\ f.depth - 1 \in Depths /\ Asked(solve, c, f.depth - 1)
        /\ f.level = 0 => f.depth - 1 = Left(solve, c)
        /\ InMidgame(c, f.depth - 1) = InMidgame(solve.root, solve.depth)
    BY <1>a, <2>1, Inner
  <2>3. /\ w \in Frame /\ w.at = "first" /\ w.child = c /\ w.todo = f.todo \ {c} /\ w.level = f.level
        /\ w.pos = f.pos /\ w.depth = f.depth /\ w.original = f.original
        /\ w.alpha = f.alpha /\ w.beta = f.beta /\ w.best = f.best
    BY <1>a, <2>1 DEF Frame
  <2>4. /\ g \in Frame /\ FrameOK(solve, g) /\ g.pos = c /\ g.depth = f.depth - 1
        /\ g.original = -f.beta /\ g.beta = -f.alpha /\ g.at = "entry"
    BY <1>a, <2>1, <2>2, NewCall
  <2>5. f.best < f.original /\ f.best \in Int /\ f.original \in Int
    BY <1>a, <2>1, Numbers DEF Fresh
  <2> HIDE DEF w, g
  <2>6. InLoop(solve, w)
    BY <2>1, <2>3, <2>5 DEF InLoop, Inside, Fresh, Pending
  <2>7. FrameOK(solve, w)
    BY <1>a, <2>1, <2>3, <2>6 DEF FrameOK, DepthOK
  <2>8. Linked(solve, w, g)
    BY <2>3, <2>4 DEF Linked, Waiting, Low, High, ChildDepth
  <2> QED
    BY <2>1, <2>3, <2>4, <2>7, <2>8, Calls
<1>8. ASSUME NEW c \in Positions, Null(c) PROVE IInv'
  <2> DEFINE w == [f EXCEPT !.at = "null", !.child = c, !.todo = @ \ {c}]
             g == Call(c, f.depth - 1, -f.alpha - 1, -f.alpha, f.level)
  <2>1. stack # <<>> /\ f.at = "moves" /\ c \in f.todo /\ Goes(w, g)
    BY <1>8 DEF Null
  <2>2. InLoop(solve, f) /\ Inside(f) /\ c \in Moves[f.pos]
    BY <1>a, <2>1 DEF FrameOK, InLoop
  <2>3. /\ f.depth - 1 \in Depths /\ Asked(solve, c, f.depth - 1)
        /\ f.level = 0 => f.depth - 1 = Left(solve, c)
        /\ InMidgame(c, f.depth - 1) = InMidgame(solve.root, solve.depth)
    BY <1>a, <2>1, <2>2, Inner
  <2>4. -f.alpha - 1 \in Scores /\ -f.alpha - 1 < -f.alpha
    BY <1>a, <2>1, NullWindow
  <2>5. /\ w \in Frame /\ w.at = "null" /\ w.child = c /\ w.todo = f.todo \ {c} /\ w.level = f.level
        /\ w.pos = f.pos /\ w.depth = f.depth /\ w.original = f.original
        /\ w.alpha = f.alpha /\ w.beta = f.beta /\ w.best = f.best
    BY <1>a, <2>1 DEF Frame
  <2>6. /\ g \in Frame /\ FrameOK(solve, g) /\ g.pos = c /\ g.depth = f.depth - 1
        /\ g.original = -f.alpha - 1 /\ g.beta = -f.alpha /\ g.at = "entry"
    BY <1>a, <2>1, <2>3, <2>4, NewCall
  <2> HIDE DEF w, g
  <2>7. InLoop(solve, w)
    BY <2>1, <2>2, <2>5 DEF InLoop, Inside, Pending
  <2>8. FrameOK(solve, w)
    BY <1>a, <2>1, <2>5, <2>7 DEF FrameOK, DepthOK
  <2>9. Linked(solve, w, g)
    BY <2>5, <2>6 DEF Linked, Waiting, Low, High, ChildDepth
  <2> QED
    BY <2>1, <2>5, <2>6, <2>8, <2>9, Calls
<1>9. CASE Research
  <2> DEFINE w == [f EXCEPT !.at = "full"]
             g == Call(f.child, f.depth - 1, -f.beta, -f.alpha, f.level)
  <2>1. stack # <<>> /\ returning /\ f.at = "null" /\ Improves(f) /\ Goes(w, g)
    BY <1>9 DEF Research, Returned
  <2>2. InLoop(solve, f) /\ Inside(f) /\ f.child \in Moves[f.pos]
    BY <1>a, <2>1 DEF FrameOK, InLoop
  <2>3. /\ f.child \in Positions /\ f.depth - 1 \in Depths /\ Asked(solve, f.child, f.depth - 1)
        /\ f.level = 0 => f.depth - 1 = Left(solve, f.child)
        /\ InMidgame(f.child, f.depth - 1) = InMidgame(solve.root, solve.depth)
    BY <1>a, <2>1, <2>2, Inner
  <2>4. /\ w \in Frame /\ w.at = "full" /\ w.child = f.child /\ w.todo = f.todo /\ w.level = f.level
        /\ w.pos = f.pos /\ w.depth = f.depth /\ w.original = f.original
        /\ w.alpha = f.alpha /\ w.beta = f.beta /\ w.best = f.best
    BY <1>a, <2>1, <2>3 DEF Frame
  <2>5. /\ g \in Frame /\ FrameOK(solve, g) /\ g.pos = f.child /\ g.depth = f.depth - 1
        /\ g.original = -f.beta /\ g.beta = -f.alpha /\ g.at = "entry"
    BY <1>a, <2>1, <2>3, NewCall
  <2>6. Contract(solve, score, -f.alpha - 1, -f.alpha, f.child, f.depth - 1)
    BY <1>e, <2>1 DEF Low, High, ChildDepth
  <2>7. -solve.low[f.child][f.depth - 1] > f.alpha
    BY <1>a, <1>c, <1>d, <2>1, <2>3, <2>6 DEF Contract, Improves
  <2> HIDE DEF w, g
  <2>8. InLoop(solve, w)
    BY <2>1, <2>2, <2>4, <2>7 DEF InLoop, Inside, Pending
  <2>9. FrameOK(solve, w)
    BY <1>a, <2>1, <2>4, <2>8 DEF FrameOK, DepthOK
  <2>10. Linked(solve, w, g)
    BY <2>4, <2>5 DEF Linked, Waiting, Low, High, ChildDepth
  <2> QED
    BY <2>1, <2>4, <2>5, <2>9, <2>10, Calls
<1>f. ASSUME Returned({"first", "null", "full"})
      PROVE  /\ stack # <<>> /\ f.at \in {"first", "null", "full"}
             /\ Contract(solve, score, Low(solve, f), High(solve, f), f.child, ChildDepth(f))
  BY <1>e, <1>f DEF Returned
<1>10. CASE NextMove
  <2>1. /\ Returned({"first", "null", "full"}) /\ ~Improves(f) /\ ~ReachesBeta(Scored(f))
        /\ stack' = Append(Below, Scored(f)) /\ returning' = FALSE /\ UNCHANGED <<solve, tt, score>>
    BY <1>10 DEF NextMove
  <2> DEFINE g == Scored(f)
  <2>2. /\ g \in Frame /\ g.at = "moves"
        /\ g.pos = f.pos /\ g.depth = f.depth /\ g.original = f.original /\ g.beta = f.beta
    BY <1>a, <1>d, <1>f, <2>1, ScoredFields
  <2>3. g.alpha \in Int /\ g.beta \in Int
    BY <2>2, FrameFields, Numbers
  <2>4. FrameOK(solve, g)
    BY <1>a, <1>d, <1>f, <2>1, <2>3, ScoreKeepsLoop DEF ReachesBeta
  <2> HIDE DEF g
  <2> QED
    BY <1>f, <2>1, <2>2, <2>4, GoesOn DEF g
<1>11. CASE Finish
  <2> DEFINE g == Scored(f)
  <2>1. /\ Returned({"first", "null", "full"}) /\ ~Improves(f) /\ (ReachesBeta(g) \/ f.todo = {})
        /\ Store(g, g.best) /\ Returns(g.best)
    BY <1>11 DEF Finish
  <2>2. /\ g \in Frame /\ g.best \in Scores /\ g.depth = f.depth
        /\ g.pos = f.pos /\ g.original = f.original /\ g.beta = f.beta
    BY <1>a, <1>d, <1>f, <2>1, ScoredFields
  <2>3. Contract(solve, g.best, f.original, f.beta, f.pos, f.depth)
    BY <1>a, <1>d, <1>f, <2>1, LoopEnds
  <2>4. g.original < g.beta
    BY <1>a, <1>d, <1>f, <2>1, ScoreKeepsLoop
  <2>5. Asked(solve, f.pos, f.depth)
    BY <1>a, <1>f, <2>1 DEF DepthOK
  <2> HIDE DEF g
  <2>6. tt' \in [Slots -> TableEntry] /\ \A i \in Slots : TableOK(solve, tt'[i])
    <3>1. tt \in [Slots -> TableEntry] /\ \A i \in Slots : TableOK(solve, tt[i])
      BY DEF IInv, TypeOK
    <3> QED
      BY <1>a, <1>f, <2>1, <2>2, <2>3, <2>4, <2>5, <3>1, StoreIsProven
  <2>7. Steady
    BY <2>1, <2>6 DEF Steady, Returns
  <2> QED
    BY <1>f, <2>1, <2>2, <2>3, <2>7, ReturnsTo
<1>12. CASE ProbeUpper
  <2> DEFINE d == probcut_depth(f.depth)
             w == [f EXCEPT !.at = "upper"]
             g == Call(f.pos, d, probcut_beta(f) - 1, probcut_beta(f) - 1 + 1, f.level + 1)
  <2>1. stack # <<>> /\ f.at = "entry" /\ ~AtLeaf(f) /\ Moves[f.pos] # {} /\ TriesUpper(f) /\ Goes(w, g)
    BY <1>12 DEF ProbeUpper, Searches, Enters, Probe
  <2>2. Fresh(f) /\ Inside(f) /\ Probes(solve, f.pos, f.depth) /\ f.beta = f.alpha + 1 /\ f.level < 2
    BY <1>a, <2>1 DEF FrameOK, Inside, AtLeaf, TriesUpper, CanProbe
  <2>3. UpperBeta(solve, f) < MaxScore
    BY <1>a, <2>1 DEF TriesUpper
  <2>4. probcut_beta(f) \in Scores /\ probcut_beta(f) - 1 \in Scores /\ probcut_beta(f) \in Int
    BY <1>a, <2>1, <2>3, ProbeWindows, Numbers
  <2>5. d \in Depths /\ Asked(solve, f.pos, d) /\ InMidgame(f.pos, d) = InMidgame(solve.root, solve.depth)
    BY <1>a, <2>1, <2>2, Probed
  <2>6. f.level + 1 \in 0..2 /\ f.level + 1 # 0
    BY <1>a, <2>1, <2>2
  <2>7. /\ w \in Frame /\ w.at = "upper" /\ w.child = f.child /\ w.level = f.level
        /\ w.pos = f.pos /\ w.depth = f.depth /\ w.original = f.original
        /\ w.alpha = f.alpha /\ w.beta = f.beta /\ w.best = f.best /\ w.todo = f.todo
    BY <1>a, <2>1 DEF Frame
  <2> HIDE DEF d
  <2>8. /\ g \in Frame /\ FrameOK(solve, g) /\ g.pos = f.pos /\ g.depth = d
        /\ g.original = probcut_beta(f) - 1 /\ g.beta = probcut_beta(f) /\ g.at = "entry"
    BY <1>a, <2>1, <2>4, <2>5, <2>6, NewCall
  <2>9. UpperBeta(solve, w) = probcut_beta(f)
    BY <1>a, <2>1, <2>7 DEF UpperBeta, probcut_beta
  <2> HIDE DEF w, g
  <2>10. Probing(solve, w)
    BY <1>a, <2>1, <2>2, <2>3, <2>7, <2>9 DEF Probing, Fresh, Inside
  <2>11. FrameOK(solve, w)
    BY <1>a, <2>1, <2>7, <2>10 DEF FrameOK, DepthOK
  <2>12. Linked(solve, w, g)
    BY <2>2, <2>7, <2>8, <2>9 DEF Linked, Waiting, Low, High, ChildDepth, Fresh, d
  <2> QED
    BY <2>1, <2>7, <2>8, <2>11, <2>12, Calls
<1>13. CASE ProbeLower
  <2> DEFINE d == probcut_depth(f.depth)
             w == [f EXCEPT !.at = "lower"]
             g == Call(f.pos, d, probcut_alpha(f), probcut_alpha(f) + 1, f.level + 1)
  <2>1. stack # <<>> /\ Fresh(f) /\ Inside(f) /\ TriesLower(f) /\ Goes(w, g)
    BY <1>13, Untouched DEF ProbeLower, Probe
  <2>2. Probes(solve, f.pos, f.depth) /\ f.beta = f.alpha + 1 /\ f.level < 2
    BY <1>a, <2>1 DEF TriesLower, CanProbe
  <2>3. LowerAlpha(solve, f) > MinScore
    BY <1>a, <2>1 DEF TriesLower
  <2>4. probcut_alpha(f) \in Scores /\ probcut_alpha(f) + 1 \in Scores /\ probcut_alpha(f) \in Int
    BY <1>a, <2>1, <2>3, ProbeWindows, Numbers
  <2>5. d \in Depths /\ Asked(solve, f.pos, d) /\ InMidgame(f.pos, d) = InMidgame(solve.root, solve.depth)
    BY <1>a, <2>1, <2>2, Probed
  <2>6. f.level + 1 \in 0..2 /\ f.level + 1 # 0
    BY <1>a, <2>1, <2>2
  <2>7. /\ w \in Frame /\ w.at = "lower" /\ w.child = f.child /\ w.level = f.level
        /\ w.pos = f.pos /\ w.depth = f.depth /\ w.original = f.original
        /\ w.alpha = f.alpha /\ w.beta = f.beta /\ w.best = f.best /\ w.todo = f.todo
    BY <1>a, <2>1 DEF Frame
  <2> HIDE DEF d
  <2>8. /\ g \in Frame /\ FrameOK(solve, g) /\ g.pos = f.pos /\ g.depth = d
        /\ g.original = probcut_alpha(f) /\ g.beta = probcut_alpha(f) + 1 /\ g.at = "entry"
    BY <1>a, <2>1, <2>4, <2>5, <2>6, NewCall
  <2>9. LowerAlpha(solve, w) = probcut_alpha(f)
    BY <1>a, <2>1, <2>7 DEF LowerAlpha, probcut_alpha
  <2> HIDE DEF w, g
  <2>10. Probing(solve, w)
    BY <1>a, <2>1, <2>2, <2>3, <2>7, <2>9 DEF Probing, Fresh, Inside
  <2>11. FrameOK(solve, w)
    BY <1>a, <2>1, <2>7, <2>10 DEF FrameOK, DepthOK
  <2>12. Linked(solve, w, g)
    BY <2>1, <2>7, <2>8, <2>9 DEF Linked, Waiting, Low, High, ChildDepth, Fresh, d
  <2> QED
    BY <2>1, <2>7, <2>8, <2>11, <2>12, Calls
<1>g. ASSUME stack # <<>>, f.at \in {"upper", "lower"}
      PROVE  LET d == probcut_depth(f.depth)
             IN  /\ Probing(solve, f) /\ f.child = f.pos /\ f.original = f.alpha /\ ChildDepth(f) = d
                 /\ solve.error[f.pos][f.depth] \in Nat
                 /\ solve.low[f.pos][d] \in Int /\ solve.high[f.pos][d] \in Int
                 /\ solve.high[f.pos][d] - solve.error[f.pos][f.depth] <= high
                 /\ low <= solve.low[f.pos][d] + solve.error[f.pos][f.depth]
  <2>1. Probing(solve, f)
    BY <1>a, <1>g DEF FrameOK
  <2>2. f.child = f.pos /\ f.original = f.alpha /\ Inside(f) /\ Probes(solve, f.pos, f.depth)
    BY <2>1 DEF Probing, Fresh
  <2> QED
    BY <1>a, <1>c, <1>g, <2>1, <2>2, Probed, SolveTypes DEF ChildDepth, low, high
<1>14. CASE UpperCut
  <2>1. /\ stack # <<>> /\ returning /\ f.at = "upper" /\ score >= probcut_beta(f)
        /\ Returns(f.beta) /\ UNCHANGED <<solve, tt>>
    BY <1>14 DEF UpperCut, Returned, Returns
  <2> DEFINE d == probcut_depth(f.depth)
  <2>2. Contract(solve, score, probcut_beta(f) - 1, probcut_beta(f), f.pos, d)
    BY <1>a, <1>e, <1>g, <2>1 DEF Low, High
  <2> DEFINE v == solve.high[f.pos][d]
             error == solve.error[f.pos][f.depth]
  <2>3. probcut_beta(f) = f.beta + error /\ error \in Nat /\ v \in Int /\ v - error <= high
    BY <1>g, <2>1 DEF probcut_beta
  <2>4. f.beta <= high
    <3>1. probcut_beta(f) \in Int
      BY <1>a, <2>1, <2>3
    <3>2. score <= v
      BY <1>d, <2>1, <2>2, <3>1 DEF Contract
    <3> HIDE DEF v, error
    <3> QED
      BY <1>a, <1>d, <2>1, <2>3, <3>1, <3>2
  <2>5. Contract(solve, f.beta, f.original, f.beta, f.pos, f.depth)
    BY <1>a, <2>1, <2>4 DEF Contract, high
  <2> QED
    BY <1>a, <2>1, <2>5, ReturnsTo, TableKept
<1>15. CASE LowerCut
  <2>1. /\ stack # <<>> /\ returning /\ f.at = "lower" /\ score <= probcut_alpha(f)
        /\ Returns(f.alpha) /\ UNCHANGED <<solve, tt>>
    BY <1>15 DEF LowerCut, Returned, Returns
  <2> DEFINE d == probcut_depth(f.depth)
  <2>2. Contract(solve, score, probcut_alpha(f), probcut_alpha(f) + 1, f.pos, d)
    BY <1>a, <1>e, <1>g, <2>1 DEF Low, High
  <2> DEFINE v == solve.low[f.pos][d]
             error == solve.error[f.pos][f.depth]
  <2>3. probcut_alpha(f) = f.alpha - error /\ error \in Nat /\ v \in Int /\ low <= v + error
    BY <1>g, <2>1 DEF probcut_alpha
  <2>4. low <= f.alpha
    <3>1. probcut_alpha(f) \in Int
      BY <1>a, <2>1, <2>3
    <3>2. v <= score
      BY <1>d, <2>1, <2>2, <3>1 DEF Contract
    <3> HIDE DEF v, error
    <3> QED
      BY <1>a, <1>d, <2>1, <2>3, <3>1, <3>2
  <2>5. Contract(solve, f.alpha, f.original, f.beta, f.pos, f.depth)
    BY <1>a, <1>g, <2>1, <2>4 DEF Contract, low
  <2> QED
    BY <1>a, <2>1, <2>5, ReturnsTo, TableKept
<1>16. CASE UNCHANGED vars
  BY <1>16 DEF vars, IInv, TypeOK, Control, Top
<1> QED
  BY <1>1, <1>2, <1>3, <1>4, <1>5, <1>6, <1>7, <1>8, <1>9, <1>10, <1>11,
     <1>12, <1>13, <1>14, <1>15, <1>16 DEF Next

LEMMA AlwaysIInv == Spec => []IInv
  BY InitHolds, StepHolds, PTL DEF Spec

-----------------------------------------------------------------------------
(* Windows and bounds stay in the range of scores, null windows and those  *)
(* of probes included (negamax).                                           *)
THEOREM TypeCorrect == Spec => []TypeOK
<1>1. IInv => TypeOK
  BY DEF IInv
<1> QED
  BY <1>1, AlwaysIInv, PTL

(* Whatever the game: a call is in midgame when the root is, and outside   *)
(* of probes as deep as its empty squares say (the doc comment of negamax).*)
THEOREM DepthIsFixed == Spec => []DepthFollowsEmpties
<1>1. IInv => DepthFollowsEmpties
  BY DEF IInv, StackOK, FrameOK, DepthOK, DepthFollowsEmpties
<1> QED
  BY <1>1, AlwaysIInv, PTL

(* Whatever the game, the collisions and the order of moves: the bounds of *)
(* the table hold (TtEntry), those that probes leave as well.              *)
THEOREM TableProven == Spec => []TableIsProven
<1>1. IInv => TableIsProven
  BY DEF IInv, TableOK, TableIsProven
<1> QED
  BY <1>1, AlwaysIInv, PTL

(* A re-search never takes back what its null window has shown (negamax).  *)
THEOREM ResearchConfirms == Spec => []ResearchRaisesAlpha
<1>1. IInv => ResearchRaisesAlpha
  <2> SUFFICES ASSUME IInv, solve.low = solve.high, returning, stack # <<>>, Top.at = "full"
               PROVE  -score > Top.alpha
    BY DEF ResearchRaisesAlpha
  <2> DEFINE c == Top.child
             d == Top.depth - 1
  <2>1. InLoop(solve, Top) /\ DepthOK(solve, Top) /\ Top.alpha < Top.beta /\ Top \in Frame /\ solve \in Solves
    BY TopFrame DEF FrameOK
  <2>2. c \in Positions /\ d \in Depths /\ -solve.low[c][d] > Top.alpha
    BY <2>1, Inner DEF InLoop
  <2>3. Contract(solve, score, -Top.beta, -Top.alpha, c, d) /\ score \in Int
    BY Numbers DEF IInv, TypeOK, Control, Answered, Top, Low, High, ChildDepth
  <2>4. Top.alpha \in Int /\ Top.beta \in Int /\ solve.low[c][d] \in Int
    BY <2>1, <2>2, FrameFields, SolveTypes, Numbers
  <2> HIDE DEF c, d
  <2> QED
    BY <2>1, <2>2, <2>3, <2>4 DEF Contract
<1> QED
  BY <1>1, AlwaysIInv, PTL

(* Whatever the game: solve returns the minimax value of the search it was *)
(* asked for, or what the margins of its probes allow (solve, search.rs).  *)
THEOREM Proven == Spec => []ResultIsProven
<1>1. IInv => ResultIsProven
  <2> SUFFICES ASSUME IInv, stack = <<>> PROVE Within(solve, score, solve.root, solve.depth)
    BY DEF ResultIsProven
  <2>1. Contract(solve, score, MinScore, MaxScore, solve.root, solve.depth) /\ score \in Scores /\ solve \in Solves
    BY DEF IInv, TypeOK, Control, Answered
  <2>2. solve.low[solve.root][solve.depth] \in Scores /\ solve.high[solve.root][solve.depth] \in Scores
    BY <2>1, SolveTypes
  <2> QED
    BY <2>1, <2>2, Numbers DEF Contract, Within
<1> QED
  BY <1>1, AlwaysIInv, PTL

-----------------------------------------------------------------------------
(***************************************************************************)
(* LocalEval                                                               *)
(***************************************************************************)

-----------------------------------------------------------------------------
(* Sequences, and what is computed by going through them                   *)

LEMMA LeastElement ==
  ASSUME NEW S \in SUBSET Nat, S # {}
  PROVE  \E m \in S : \A x \in S : m <= x
<1>1. PICK m \in S : \A y \in S : ~(<<y, m>> \in OpToRel(<, Nat))
  BY NatLessThanWellFounded, WFMin
<1>2. ASSUME NEW x \in S PROVE m <= x
  <2>1. <<x, m>> \notin OpToRel(<, Nat)
    BY <1>1
  <2>2. x \in Nat /\ m \in Nat
    OBVIOUS
  <2> QED
    BY <2>1, <2>2 DEF OpToRel
<1> QED
  BY <1>2

LEMMA SetInduction ==
  ASSUME NEW S \in SUBSET Nat, 0 \in S, \A n \in S : n + 1 \in S
  PROVE  \A n \in Nat : n \in S
<1> SUFFICES ASSUME Nat \ S # {} PROVE FALSE
  OBVIOUS
<1>1. PICK m \in Nat \ S : \A x \in Nat \ S : m <= x
  BY LeastElement
<1>2. m - 1 \in Nat /\ m - 1 \notin Nat \ S
  BY <1>1
<1> QED
  BY <1>2

(* h starts with a; each step n goes through G[n]. *)
Passes(h, B, a, G, N) ==
  h \in [0..N -> B] /\ h[0] = a /\ \A n \in 1..N : h[n] = G[n][h[n - 1]]

LEMMA PassingThrough ==
  ASSUME NEW B, NEW a \in B, NEW N \in Nat, NEW G \in [1..N -> [B -> B]]
  PROVE  \E h : Passes(h, B, a, G, N)
<1> DEFINE Upto(n) == {h \in [0..n -> B] : h[0] = a /\ \A i \in 1..n : h[i] = G[i][h[i - 1]]}
           S == {n \in Nat : n <= N => Upto(n) # {}}
<1>1. 0 \in S
  <2>1. [i \in 0..0 |-> a] \in Upto(0)
    OBVIOUS
  <2> QED
    BY <2>1
<1>2. ASSUME NEW n \in S PROVE n + 1 \in S
  <2> SUFFICES ASSUME n + 1 <= N PROVE n + 1 \in Nat /\ Upto(n + 1) # {}
    OBVIOUS
  <2>1. PICK h \in [0..n -> B] : h[0] = a /\ \A i \in 1..n : h[i] = G[i][h[i - 1]]
    OBVIOUS
  <2>2. n + 1 \in 1..N /\ h[n] \in B /\ G[n + 1] \in [B -> B] /\ G[n + 1][h[n]] \in B
    BY <2>1
  <2> DEFINE g == [i \in 0..(n + 1) |-> IF i <= n THEN h[i] ELSE G[n + 1][h[n]]]
  <2>3. g \in [0..(n + 1) -> B]
    BY <2>1, <2>2
  <2>4. g[0] = a /\ \A i \in 1..(n + 1) : g[i] = G[i][g[i - 1]]
    BY <2>1
  <2>5. Upto(n + 1) # {}
    <3> HIDE DEF g
    <3> QED
      BY <2>3, <2>4
  <2> QED
    BY <2>5
<1>3. N \in S
  <2> HIDE DEF S
  <2>1. S \in SUBSET Nat
    BY DEF S
  <2> QED
    BY <1>1, <1>2, <2>1, SetInduction
<1> QED
  BY <1>3 DEF Passes

LEMMA MinIs ==
  ASSUME NEW S \in SUBSET Nat, S # {}
  PROVE  Min(S) \in S /\ \A x \in S : Min(S) <= x
<1>1. \E m \in S : \A x \in S : m <= x
  BY LeastElement
<1> QED
  BY <1>1 DEF Min

LEMMA MaxIs ==
  ASSUME NEW N \in Nat, NEW S \in SUBSET 0..N, S # {}
  PROVE  Max(S) \in S /\ \A x \in S : Max(S) >= x
<1> DEFINE T == {N - x : x \in S}
<1>1. T \in SUBSET Nat /\ T # {}
  <2>1. \A x \in S : N - x \in Nat
    OBVIOUS
  <2>2. \E x \in S : N - x \in T
    OBVIOUS
  <2> QED
    BY <2>1, <2>2
<1>2. PICK m \in T : \A y \in T : m <= y
  BY <1>1, LeastElement
<1>3. PICK z \in S : m = N - z
  OBVIOUS
<1>4. \A x \in S : N - x \in T
  OBVIOUS
<1> HIDE DEF T
<1>5. \A x \in S : N - z <= N - x
  BY <1>2, <1>3, <1>4
<1>6. \A x \in S : z >= x
  <2>1. \A x \in S : x \in Int /\ z \in Int
    OBVIOUS
  <2> QED
    BY <1>5, <2>1
<1> QED
  BY <1>6 DEF Max

(* The entries of r are those of s at the places f says, each once. *)
Embeds(f, r, s) ==
  /\ f \in [DOMAIN r -> DOMAIN s]
  /\ \A k \in DOMAIN r : r[k] = s[f[k]]
  /\ \A k, m \in DOMAIN r : f[k] = f[m] => k = m

LEMMA Removed ==
  ASSUME NEW T, NEW s \in Seq(T), NEW j \in DOMAIN s
  PROVE  /\ RemoveAt(s, j) \in Seq(T)
         /\ \E f : /\ Embeds(f, RemoveAt(s, j), s)
                   /\ \A k \in DOMAIN s : k # j <=> \E m \in DOMAIN RemoveAt(s, j) : f[m] = k
<1> DEFINE n == Len(s)
           a == SubSeq(s, 1, j - 1)
           c == SubSeq(s, j + 1, n)
           r == RemoveAt(s, j)
<1>1. n \in Nat /\ j \in 1..n /\ DOMAIN s = 1..n
  BY LenProperties
<1>2. a \in Seq(T) /\ Len(a) = j - 1 /\ \A i \in 1..j - 1 : a[i] = s[i]
  <2>1. 1 \in 1..n + 1 /\ j - 1 \in (1 - 1)..n /\ (j - 1) - 1 + 1 = j - 1
    BY <1>1
  <2>2. \A i \in 1..j - 1 : 1 + i - 1 = i
    BY <1>1
  <2> HIDE DEF n
  <2> QED
    BY <2>1, <2>2, SubSeqProperties DEF n
<1>3. c \in Seq(T) /\ Len(c) = n - j /\ \A i \in 1..n - j : c[i] = s[j + i]
  <2>1. j + 1 \in 1..n + 1 /\ n \in ((j + 1) - 1)..n /\ n - (j + 1) + 1 = n - j
    BY <1>1
  <2>2. \A i \in 1..n - j : (j + 1) + i - 1 = j + i
    BY <1>1
  <2> HIDE DEF n
  <2> QED
    BY <2>1, <2>2, SubSeqProperties DEF n
<1>4. r = a \o c
  BY DEF RemoveAt
<1> HIDE DEF a, c, r, n
<1>5. /\ r \in Seq(T) /\ Len(r) = n - 1 /\ DOMAIN r = 1..n - 1
      /\ \A k \in 1..n - 1 : r[k] = IF k < j THEN s[k] ELSE s[k + 1]
  <2>1. /\ r \in Seq(T) /\ Len(r) = Len(a) + Len(c)
        /\ \A i \in 1..Len(a) + Len(c) : r[i] = IF i <= Len(a) THEN a[i] ELSE c[i - Len(a)]
    BY <1>2, <1>3, <1>4, ConcatProperties
  <2>2. Len(a) + Len(c) = n - 1
    BY <1>1, <1>2, <1>3
  <2>3. DOMAIN r = 1..n - 1
    BY <2>1, <2>2, LenProperties
  <2>4. ASSUME NEW k \in 1..n - 1 PROVE r[k] = IF k < j THEN s[k] ELSE s[k + 1]
    <3>1. r[k] = IF k <= j - 1 THEN a[k] ELSE c[k - (j - 1)]
      BY <1>2, <2>1, <2>2
    <3>2. CASE k < j
      <4>1. k <= j - 1 /\ k \in 1..j - 1
        BY <1>1, <3>2
      <4> QED
        BY <1>2, <3>1, <3>2, <4>1
    <3>3. CASE ~(k < j)
      <4>1. ~(k <= j - 1) /\ k - (j - 1) \in 1..n - j /\ j + (k - (j - 1)) = k + 1
        BY <1>1, <3>3
      <4> QED
        BY <1>3, <3>1, <3>3, <4>1
    <3> QED
      BY <3>2, <3>3
  <2> QED
    BY <2>1, <2>2, <2>3, <2>4
<1> DEFINE f == [k \in 1..n - 1 |-> IF k < j THEN k ELSE k + 1]
<1>6. f \in [1..n - 1 -> 1..n] /\ \A k, m \in 1..n - 1 : f[k] = f[m] => k = m
  BY <1>1
<1>7. Embeds(f, r, s)
  BY <1>1, <1>5, <1>6 DEF Embeds
<1>8. ASSUME NEW k \in 1..n PROVE k # j <=> \E m \in 1..n - 1 : f[m] = k
  <2>1. k < j => k \in 1..n - 1 /\ f[k] = k
    BY <1>1
  <2>2. k > j => k - 1 \in 1..n - 1 /\ f[k - 1] = k
    BY <1>1
  <2>3. \A m \in 1..n - 1 : f[m] # j
    BY <1>1
  <2> HIDE DEF f
  <2> QED
    BY <1>1, <2>1, <2>2, <2>3
<1>9. \A k \in DOMAIN s : k # j <=> \E m \in DOMAIN r : f[m] = k
  <2> HIDE DEF f
  <2> QED
    BY <1>1, <1>5, <1>8
<1> HIDE DEF f
<1> QED
  BY <1>5, <1>7, <1>9 DEF r

-----------------------------------------------------------------------------
(* Types, and the ladder of levels of a position                           *)

Tag == [of : {"board", "line"}, n : Nat]

Task == [pos : Boards, level : LOCAL_EVAL_LEVELS, prefetch : BOOLEAN, tag : Tag]

Pools ==
  [queue : Seq(Task), running : [Workers -> Task \cup {NoTask}],
   slots : [Boards -> Tag \cup {NoTag}], boardKey : Boards,
   generation : Nat, lineGeneration : Nat]

Levels == LOCAL_EVAL_LEVELS \cup {0, Server}

LEMMA WorkersAre ==
  /\ Workers \in SUBSET Nat /\ 0 \in Workers /\ IsFiniteSet(Workers)
  /\ \A i \in Nat : i \in Workers <=> i < NumWorkers
<1>1. NumWorkers \in Nat /\ NumWorkers # 0
  BY LocalEvalAssumption
<1>2. 0 \in Int /\ NumWorkers - 1 \in Int
  BY <1>1
<1>3. IsFiniteSet(Workers)
  BY <1>2, FS_Interval DEF Workers
<1> QED
  BY <1>1, <1>3 DEF Workers

LEMMA NotATask == NoTask \notin Task /\ NoTag \notin Tag
<1>1. \A t \in Task : t.level # 0
  BY DEF Task, LOCAL_EVAL_LEVELS
<1>2. NoTask.level = 0
  BY DEF NoTask
<1>3. \A t \in Tag : t.of # "none"
  BY DEF Tag
<1>4. NoTag.of = "none"
  BY DEF NoTag
<1> QED
  BY <1>1, <1>2, <1>3, <1>4

(* A ladder has a shallowest level, so it has a deepest. *)
LEMMA LadderIs ==
  ASSUME NEW p \in Boards
  PROVE  /\ LevelsOf(p) \subseteq LOCAL_EVAL_LEVELS
         /\ Deepest(p) \in LevelsOf(p)
         /\ \A l \in LevelsOf(p) : l <= Deepest(p)
<1>1. 4 \in LevelsOf(p)
  BY DEF LevelsOf, localEvalLevelsFor, LOCAL_EVAL_LEVELS, TooDear
<1>2. LevelsOf(p) \subseteq LOCAL_EVAL_LEVELS
  BY DEF LevelsOf, localEvalLevelsFor
<1>3. LOCAL_EVAL_LEVELS \subseteq 0..16
  BY DEF LOCAL_EVAL_LEVELS
<1>4. LevelsOf(p) \in SUBSET 0..16 /\ LevelsOf(p) # {} /\ 16 \in Nat
  BY <1>1, <1>2, <1>3
<1>5. Max(LevelsOf(p)) \in LevelsOf(p) /\ \A l \in LevelsOf(p) : Max(LevelsOf(p)) >= l
  <2> HIDE DEF LevelsOf
  <2> QED
    BY <1>4, MaxIs
<1>6. \A l \in LevelsOf(p) : l \in Int
  BY <1>4
<1> QED
  BY <1>2, <1>5, <1>6 DEF Deepest

LEMMA DeeperIs ==
  ASSUME NEW p \in Boards, NEW e \in Levels
  PROVE  /\ Deeper(p, e) # {} => Min(Deeper(p, e)) \in LOCAL_EVAL_LEVELS
         /\ Deeper(p, e) = {} <=> e >= Deepest(p)
         /\ Deepest(p) <= Server
<1>1. /\ LOCAL_EVAL_LEVELS \subseteq 0..16 /\ e \in Nat
      /\ \A l \in LOCAL_EVAL_LEVELS : l \in Nat
  BY DEF LOCAL_EVAL_LEVELS, Levels, Server
<1>2. Deepest(p) \in 0..16 /\ Deepest(p) \in LevelsOf(p)
  BY <1>1, LadderIs
<1>3. ASSUME Deeper(p, e) # {} PROVE Min(Deeper(p, e)) \in LOCAL_EVAL_LEVELS
  <2>1. Deeper(p, e) \subseteq LOCAL_EVAL_LEVELS
    BY LadderIs DEF Deeper
  <2>2. Deeper(p, e) \in SUBSET Nat
    <3> HIDE DEF LOCAL_EVAL_LEVELS, Deeper
    <3> QED
      BY <1>1, <2>1
  <2> QED
    BY <1>3, <2>1, <2>2, MinIs
<1>4. ASSUME e >= Deepest(p) PROVE Deeper(p, e) = {}
  <2>1. \A l \in LevelsOf(p) : l \in Nat /\ l <= Deepest(p)
    <3>1. \A l \in LevelsOf(p) : l \in LOCAL_EVAL_LEVELS
      BY LadderIs
    <3> QED
      BY <1>1, <3>1, LadderIs
  <2> QED
    BY <1>1, <1>2, <1>4, <2>1 DEF Deeper
<1>5. ASSUME ~(e >= Deepest(p)) PROVE Deeper(p, e) # {}
  <2>1. Deepest(p) > e
    BY <1>1, <1>2, <1>5
  <2> QED
    BY <1>2, <2>1 DEF Deeper
<1>6. Deepest(p) <= Server
  BY <1>2 DEF Server
<1> QED
  BY <1>3, <1>4, <1>5, <1>6

-----------------------------------------------------------------------------
(* The pool gives a free worker what it may run.                           *)

LEMMA PriorityIs ==
  ASSUME NEW t \in Task
  PROVE  /\ Priority(t) \in Nat
         /\ t.prefetch <=> Priority(t) >= 100
<1>1. t.level \in 0..16 /\ t.prefetch \in BOOLEAN
  BY DEF Task, LOCAL_EVAL_LEVELS
<1>2. CASE t.prefetch
  BY <1>1, <1>2 DEF Priority, LOCAL_EVAL_PREFETCH_PRIORITY
<1>3. CASE ~t.prefetch
  BY <1>1, <1>3 DEF Priority, LOCAL_EVAL_PREFETCH_PRIORITY
<1> QED
  BY <1>2, <1>3

(* If it may run anything, there is a task to take. *)
LEMMA SomethingToTake ==
  ASSUME NEW q \in Seq(Task), NEW i \in Workers, NEW j0 \in DOMAIN q, MayRun(i, q[j0])
  PROVE  takeTaskFor(q, i) # {}
<1> DEFINE R == {j \in DOMAIN q : MayRun(i, q[j])}
           P == {Priority(q[j]) : j \in R}
<1>1. DOMAIN q \in SUBSET Nat /\ \A j \in DOMAIN q : q[j] \in Task
  BY LenProperties
<1>2. P \in SUBSET Nat /\ P # {}
  <2>1. \A j \in R : Priority(q[j]) \in Nat
    BY <1>1, PriorityIs
  <2>2. j0 \in R
    OBVIOUS
  <2> HIDE DEF R
  <2> QED
    BY <2>1, <2>2
<1>3. PICK m \in P : \A x \in P : m <= x
  <2> HIDE DEF P
  <2> QED
    BY <1>2, LeastElement
<1> DEFINE L == {j \in R : Priority(q[j]) = m}
<1>4. L \in SUBSET Nat /\ L # {}
  BY <1>1, <1>3
<1>5. PICK j \in L : \A x \in L : j <= x
  <2> HIDE DEF L
  <2> QED
    BY <1>4, LeastElement
<1>6. ASSUME NEW k \in R
      PROVE  \/ Priority(q[j]) < Priority(q[k])
             \/ Priority(q[j]) = Priority(q[k]) /\ j <= k
  <2>1. m <= Priority(q[k]) /\ m = Priority(q[j])
    BY <1>3, <1>5
  <2>2. Priority(q[k]) \in Nat /\ m \in Nat
    BY <1>1, <1>2, PriorityIs
  <2>3. Priority(q[k]) = m => k \in L
    OBVIOUS
  <2> HIDE DEF R, L, P
  <2> QED
    BY <1>5, <2>1, <2>2, <2>3
<1>7. j \in takeTaskFor(q, i)
  BY <1>5, <1>6 DEF takeTaskFor
<1> QED
  BY <1>7

(* What Give does when it does something *)
Gives(l, i, j, m) ==
  /\ l.running[i] = NoTask
  /\ j \in DOMAIN l.queue /\ MayRun(i, l.queue[j])
  /\ \A k \in DOMAIN l.queue :
       MayRun(i, l.queue[k]) /\ ~l.queue[k].prefetch => ~l.queue[j].prefetch
  /\ m = [l EXCEPT !.running[i] = l.queue[j], !.queue = RemoveAt(@, j)]

LEMMA GiveIs ==
  ASSUME NEW l \in Pools, NEW i \in Workers
  PROVE  \/ /\ Give(l, i) = l
            /\ l.running[i] = NoTask => \A k \in DOMAIN l.queue : ~MayRun(i, l.queue[k])
         \/ \E j \in DOMAIN l.queue : Gives(l, i, j, Give(l, i))
<1>1. l.queue \in Seq(Task)
  BY DEF Pools
<1>2. CASE l.running[i] # NoTask
  BY <1>2 DEF Give
<1>3. CASE l.running[i] = NoTask /\ takeTaskFor(l.queue, i) = {}
  <2>1. Give(l, i) = l
    BY <1>3 DEF Give
  <2> QED
    BY <1>1, <1>3, <2>1, SomethingToTake
<1>4. CASE l.running[i] = NoTask /\ takeTaskFor(l.queue, i) # {}
  <2> DEFINE j == CHOOSE j \in takeTaskFor(l.queue, i) : TRUE
  <2>1. Give(l, i) = [l EXCEPT !.running[i] = l.queue[j], !.queue = RemoveAt(@, j)]
    BY <1>4 DEF Give
  <2>2. j \in takeTaskFor(l.queue, i)
    BY <1>4
  <2> HIDE DEF j
  <2>3. j \in DOMAIN l.queue /\ MayRun(i, l.queue[j])
    BY <2>2 DEF takeTaskFor
  <2>4. \A k \in DOMAIN l.queue : MayRun(i, l.queue[k]) =>
          \/ Priority(l.queue[j]) < Priority(l.queue[k])
          \/ Priority(l.queue[j]) = Priority(l.queue[k]) /\ j <= k
    BY <2>2 DEF takeTaskFor
  <2>5. ASSUME NEW k \in DOMAIN l.queue, MayRun(i, l.queue[k]), ~l.queue[k].prefetch
        PROVE  ~l.queue[j].prefetch
    <3>1. l.queue[j] \in Task /\ l.queue[k] \in Task
      BY <1>1, <2>3, LenProperties
    <3>2. Priority(l.queue[j]) \in Nat /\ Priority(l.queue[k]) \in Nat
          /\ ~(Priority(l.queue[k]) >= 100) /\ Priority(l.queue[j]) <= Priority(l.queue[k])
      BY <2>4, <2>5, <3>1, PriorityIs
    <3>3. ~(Priority(l.queue[j]) >= 100)
      BY <3>2
    <3> QED
      BY <3>1, <3>3, PriorityIs
  <2>6. Gives(l, i, j, Give(l, i))
    BY <1>4, <2>1, <2>3, <2>5 DEF Gives
  <2> QED
    BY <2>3, <2>6
<1> QED
  BY <1>2, <1>3, <1>4

LEMMA GivesIs ==
  ASSUME NEW l \in Pools, NEW i \in Workers, NEW j \in DOMAIN l.queue, NEW m, Gives(l, i, j, m)
  PROVE  /\ m \in Pools
         /\ m.slots = l.slots /\ m.boardKey = l.boardKey
         /\ m.generation = l.generation /\ m.lineGeneration = l.lineGeneration
         /\ m.running[i] = l.queue[j] /\ m.running[i] \in Task
         /\ \A w \in Workers : w # i => m.running[w] = l.running[w]
         /\ \E f : /\ Embeds(f, m.queue, l.queue)
                   /\ \A k \in DOMAIN l.queue : k # j <=> \E x \in DOMAIN m.queue : f[x] = k
<1>1. l.queue \in Seq(Task) /\ l.running \in [Workers -> Task \cup {NoTask}] /\ l.queue[j] \in Task
  BY LenProperties DEF Pools
<1>2. m = [l EXCEPT !.running[i] = l.queue[j], !.queue = RemoveAt(@, j)]
  BY DEF Gives
<1>3. m = [l EXCEPT !.running = [@ EXCEPT ![i] = l.queue[j]], !.queue = RemoveAt(@, j)]
  BY <1>2
<1>4. RemoveAt(l.queue, j) \in Seq(Task)
  BY <1>1, Removed
<1>5. [l.running EXCEPT ![i] = l.queue[j]] \in [Workers -> Task \cup {NoTask}]
  BY <1>1
<1>6. /\ m \in Pools
      /\ m.slots = l.slots /\ m.boardKey = l.boardKey
      /\ m.generation = l.generation /\ m.lineGeneration = l.lineGeneration
      /\ m.running = [l.running EXCEPT ![i] = l.queue[j]]
      /\ m.queue = RemoveAt(l.queue, j)
  BY <1>3, <1>4, <1>5 DEF Pools
<1>7. m.running[i] = l.queue[j] /\ \A w \in Workers : w # i => m.running[w] = l.running[w]
  BY <1>1, <1>6
<1>8. \E f : /\ Embeds(f, m.queue, l.queue)
             /\ \A k \in DOMAIN l.queue : k # j <=> \E x \in DOMAIN m.queue : f[x] = k
  <2> DEFINE q == l.queue
             r == RemoveAt(q, j)
  <2>1. q \in Seq(Task) /\ j \in DOMAIN q /\ m.queue = r
    BY <1>1, <1>6
  <2> HIDE DEF q
  <2>2. \E f : /\ Embeds(f, r, q)
              /\ \A k \in DOMAIN q : k # j <=> \E x \in DOMAIN r : f[x] = k
    BY <2>1, Removed
  <2> HIDE DEF r
  <2> QED
    BY <2>1, <2>2 DEF q
<1> QED
  BY <1>1, <1>6, <1>7, <1>8

-----------------------------------------------------------------------------
(* The chains.  A position in ex has a slot whose next search is not       *)
(* queued yet.                                                             *)

Live(l, i) == l.running[i] # NoTask /\ IsCurrent(l, l.running[i].tag)

SlotsCurrent(l) == \A p \in Boards : l.slots[p] \in {NoTag, BoardTag(l), LineTag(l)}

QueueHeld(l, ex) ==
  \A j \in DOMAIN l.queue :
    /\ IsCurrent(l, l.queue[j].tag)
    /\ l.slots[l.queue[j].pos] = l.queue[j].tag
    /\ l.queue[j].pos \notin ex

RunHeld(l, ex) ==
  \A i \in Workers : Live(l, i) =>
    l.slots[l.running[i].pos] = l.running[i].tag /\ l.running[i].pos \notin ex

QueuedOnce(l) ==
  \A j \in DOMAIN l.queue : \A k \in DOMAIN l.queue : l.queue[j].pos = l.queue[k].pos => j = k

RunOnce(l) ==
  \A i \in Workers : \A k \in Workers :
    Live(l, i) /\ Live(l, k) /\ l.running[i].pos = l.running[k].pos => i = k

QueuedOrRun(l) ==
  \A j \in DOMAIN l.queue : \A i \in Workers :
    Live(l, i) => l.queue[j].pos # l.running[i].pos

AtWork(l, ex) ==
  \A p \in Boards : l.slots[p] # NoTag /\ p \notin ex =>
    \/ \E j \in DOMAIN l.queue : l.queue[j].pos = p
    \/ \E i \in Workers : Live(l, i) /\ l.running[i].pos = p

(* No tag of a generation to come *)
Issued(l) ==
  \A i \in Workers : l.running[i] # NoTask =>
    l.running[i].tag.n <= IF l.running[i].tag.of = "board" THEN l.generation ELSE l.lineGeneration

Chains(l, ex) ==
  /\ SlotsCurrent(l) /\ QueueHeld(l, ex) /\ RunHeld(l, ex)
  /\ QueuedOnce(l) /\ RunOnce(l) /\ QueuedOrRun(l)
  /\ AtWork(l, ex) /\ Issued(l)

LEMMA PoolsAre ==
  ASSUME NEW l \in Pools
  PROVE  /\ l.queue \in Seq(Task)
         /\ \A j \in DOMAIN l.queue :
              l.queue[j] \in Task /\ l.queue[j].pos \in Boards /\ l.queue[j].tag \in Tag
         /\ \A i \in Workers : l.running[i] # NoTask =>
              l.running[i] \in Task /\ l.running[i].pos \in Boards /\ l.running[i].tag \in Tag
         /\ l.running \in [Workers -> Task \cup {NoTask}]
         /\ l.slots \in [Boards -> Tag \cup {NoTag}]
         /\ l.boardKey \in Boards /\ l.generation \in Nat /\ l.lineGeneration \in Nat
         /\ BoardTag(l) \in Tag /\ LineTag(l) \in Tag /\ BoardTag(l) # LineTag(l)
<1>1. /\ l.queue \in Seq(Task) /\ l.running \in [Workers -> Task \cup {NoTask}]
      /\ l.slots \in [Boards -> Tag \cup {NoTag}]
      /\ l.boardKey \in Boards /\ l.generation \in Nat /\ l.lineGeneration \in Nat
  BY DEF Pools
<1>2. \A t \in Task : t.pos \in Boards /\ t.tag \in Tag
  BY DEF Task
<1>3. \A j \in DOMAIN l.queue : l.queue[j] \in Task
  BY <1>1, LenProperties
<1>4. BoardTag(l) \in Tag /\ LineTag(l) \in Tag
  BY <1>1 DEF BoardTag, LineTag, Tag
<1>5. BoardTag(l).of = "board" /\ LineTag(l).of = "line"
  BY DEF BoardTag, LineTag
<1>6. \A i \in Workers : l.running[i] # NoTask => l.running[i] \in Task
  BY <1>1
<1> HIDE DEF Task, Tag, NoTask
<1> QED
  BY <1>1, <1>2, <1>3, <1>4, <1>5, <1>6

LEMMA SameTags ==
  ASSUME NEW l, NEW m, m.generation = l.generation, m.lineGeneration = l.lineGeneration
  PROVE  /\ BoardTag(m) = BoardTag(l) /\ LineTag(m) = LineTag(l)
         /\ \A tag : IsCurrent(m, tag) <=> IsCurrent(l, tag)
BY DEF BoardTag, LineTag, IsCurrent

LEMMA GivesKeepsChains ==
  ASSUME NEW l \in Pools, NEW ex \in SUBSET Boards, Chains(l, ex),
         NEW i \in Workers, NEW j \in DOMAIN l.queue, NEW m, Gives(l, i, j, m)
  PROVE  Chains(m, ex)
<1>1. /\ m \in Pools
      /\ m.slots = l.slots
      /\ m.generation = l.generation /\ m.lineGeneration = l.lineGeneration
      /\ m.running[i] = l.queue[j] /\ m.running[i] \in Task
      /\ \A w \in Workers : w # i => m.running[w] = l.running[w]
  BY GivesIs
<1>2. PICK f : /\ Embeds(f, m.queue, l.queue)
               /\ \A k \in DOMAIN l.queue : k # j <=> \E x \in DOMAIN m.queue : f[x] = k
  BY GivesIs
<1>3. /\ \A k \in DOMAIN m.queue :
           f[k] \in DOMAIN l.queue /\ f[k] # j /\ m.queue[k] = l.queue[f[k]]
      /\ \A k, x \in DOMAIN m.queue : f[k] = f[x] => k = x
      /\ \A k \in DOMAIN l.queue : k # j => \E x \in DOMAIN m.queue : f[x] = k
  BY <1>2 DEF Embeds
<1>4. BoardTag(m) = BoardTag(l) /\ LineTag(m) = LineTag(l)
      /\ \A tag : IsCurrent(m, tag) <=> IsCurrent(l, tag)
  BY <1>1, SameTags
<1>5. l.running[i] = NoTask /\ ~Live(l, i)
  BY DEF Gives, Live
<1>6. IsCurrent(l, l.queue[j].tag) /\ l.slots[l.queue[j].pos] = l.queue[j].tag /\ l.queue[j].pos \notin ex
  BY DEF Chains, QueueHeld
<1>7. Live(m, i) /\ \A w \in Workers : w # i => (Live(m, w) <=> Live(l, w))
  BY <1>1, <1>4, <1>6, NotATask DEF Live
<1>8. SlotsCurrent(m)
  BY <1>1, <1>4 DEF SlotsCurrent, Chains
<1>9. QueueHeld(m, ex)
  BY <1>1, <1>3, <1>4 DEF QueueHeld, Chains
<1>10. RunHeld(m, ex)
  BY <1>1, <1>6, <1>7 DEF RunHeld, Chains
<1>11. QueuedOnce(m)
  BY <1>3 DEF QueuedOnce, Chains
<1>12. RunOnce(m)
  <2> SUFFICES ASSUME NEW w \in Workers, NEW k \in Workers, Live(m, w), Live(m, k),
                      m.running[w].pos = m.running[k].pos
               PROVE  w = k
    BY DEF RunOnce
  <2>1. \A x \in Workers : Live(l, x) => l.queue[j].pos # l.running[x].pos
    BY DEF QueuedOrRun, Chains
  <2>2. \A x \in Workers : \A y \in Workers :
          Live(l, x) /\ Live(l, y) /\ l.running[x].pos = l.running[y].pos => x = y
    BY DEF RunOnce, Chains
  <2> QED
    BY <1>1, <1>7, <2>1, <2>2
<1>13. QueuedOrRun(m)
  <2> SUFFICES ASSUME NEW k \in DOMAIN m.queue, NEW w \in Workers, Live(m, w)
               PROVE  m.queue[k].pos # m.running[w].pos
    BY DEF QueuedOrRun
  <2>1. CASE w = i
    BY <1>1, <1>3, <2>1 DEF QueuedOnce, Chains
  <2>2. CASE w # i
    BY <1>1, <1>3, <1>7, <2>2 DEF QueuedOrRun, Chains
  <2> QED
    BY <2>1, <2>2
<1>14. AtWork(m, ex)
  <2> SUFFICES ASSUME NEW p \in Boards, m.slots[p] # NoTag, p \notin ex
               PROVE  \/ \E k \in DOMAIN m.queue : m.queue[k].pos = p
                      \/ \E w \in Workers : Live(m, w) /\ m.running[w].pos = p
    BY DEF AtWork
  <2>1. \/ \E k \in DOMAIN l.queue : l.queue[k].pos = p
        \/ \E w \in Workers : Live(l, w) /\ l.running[w].pos = p
    BY <1>1 DEF AtWork, Chains
  <2>2. CASE \E w \in Workers : Live(l, w) /\ l.running[w].pos = p
    BY <1>1, <1>5, <1>7, <2>2
  <2>3. CASE \E k \in DOMAIN l.queue : l.queue[k].pos = p
    BY <1>1, <1>3, <1>7, <2>3
  <2> QED
    BY <2>1, <2>2, <2>3
<1>15. Issued(m)
  <2>1. \A w \in Workers : w # i /\ l.running[w] # NoTask =>
          l.running[w].tag.n <= IF l.running[w].tag.of = "board" THEN l.generation ELSE l.lineGeneration
    BY DEF Issued, Chains
  <2>2. m.running[i].tag.n <= IF m.running[i].tag.of = "board" THEN m.generation ELSE m.lineGeneration
    <3>1. m.running[i].tag = BoardTag(m) \/ m.running[i].tag = LineTag(m)
      BY <1>7 DEF Live, IsCurrent
    <3>2. m.generation \in Nat /\ m.lineGeneration \in Nat
      BY <1>1, PoolsAre
    <3> QED
      BY <3>1, <3>2 DEF BoardTag, LineTag
  <2> QED
    BY <1>1, <2>1, <2>2 DEF Issued
<1> QED
  BY <1>8, <1>9, <1>10, <1>11, <1>12, <1>13, <1>14, <1>15 DEF Chains

-----------------------------------------------------------------------------
(* What dispatching and queueing leave alone                               *)

(* Workers that search go on; slots that are held stay so. *)
Extends(l, m) ==
  /\ m.boardKey = l.boardKey
  /\ m.generation = l.generation /\ m.lineGeneration = l.lineGeneration
  /\ \A w \in Workers : l.running[w] # NoTask => m.running[w] = l.running[w]
  /\ \A p \in Boards : l.slots[p] # NoTag => m.slots[p] # NoTag

LEMMA ExtendsMore ==
  ASSUME NEW l, NEW m, NEW n, Extends(l, m), Extends(m, n)
  PROVE  Extends(l, n)
BY DEF Extends

LEMMA ExtendsSelf ==
  ASSUME NEW l PROVE Extends(l, l)
BY DEF Extends

NoIdle(l) ==
  \A i \in Workers : l.running[i] = NoTask =>
    \A j \in DOMAIN l.queue : ~MayRun(i, l.queue[j])

LEMMA GiveKeeps ==
  ASSUME NEW l \in Pools, NEW i \in Workers
  PROVE  /\ Give(l, i) \in Pools
         /\ Extends(l, Give(l, i)) /\ Give(l, i).slots = l.slots
         /\ \A ex \in SUBSET Boards : Chains(l, ex) => Chains(Give(l, i), ex)
         /\ \A k \in DOMAIN Give(l, i).queue : \E j \in DOMAIN l.queue : Give(l, i).queue[k] = l.queue[j]
         /\ Give(l, i).running[i] = NoTask => \A k \in DOMAIN Give(l, i).queue : ~MayRun(i, Give(l, i).queue[k])
         /\ \A w \in Workers : w # i => Give(l, i).running[w] = l.running[w]
<1> DEFINE m == Give(l, i)
<1>1. CASE /\ m = l
           /\ l.running[i] = NoTask => \A k \in DOMAIN l.queue : ~MayRun(i, l.queue[k])
  <2> HIDE DEF m
  <2>1. Extends(l, m)
    BY <1>1, ExtendsSelf
  <2>2. \A k \in DOMAIN m.queue : \E j \in DOMAIN l.queue : m.queue[k] = l.queue[j]
    BY <1>1
  <2> QED
    BY <1>1, <2>1, <2>2 DEF m
<1>2. CASE \E j \in DOMAIN l.queue : Gives(l, i, j, m)
  <2>1. PICK j \in DOMAIN l.queue : Gives(l, i, j, m)
    BY <1>2
  <2> HIDE DEF m
  <2>2. /\ m \in Pools
        /\ m.slots = l.slots /\ m.boardKey = l.boardKey
        /\ m.generation = l.generation /\ m.lineGeneration = l.lineGeneration
        /\ m.running[i] \in Task
        /\ \A w \in Workers : w # i => m.running[w] = l.running[w]
    BY <2>1, GivesIs
  <2>3. PICK f : Embeds(f, m.queue, l.queue)
    BY <2>1, GivesIs
  <2>4. \A k \in DOMAIN m.queue : f[k] \in DOMAIN l.queue /\ m.queue[k] = l.queue[f[k]]
    BY <2>3 DEF Embeds
  <2>5. l.running[i] = NoTask /\ m.running[i] # NoTask
    BY <2>1, <2>2, NotATask DEF Gives
  <2>6. Extends(l, m)
    BY <2>2, <2>5 DEF Extends
  <2>7. \A ex \in SUBSET Boards : Chains(l, ex) => Chains(m, ex)
    BY <2>1, GivesKeepsChains
  <2> QED
    BY <2>2, <2>4, <2>5, <2>6, <2>7 DEF m
<1> HIDE DEF m
<1> QED
  BY <1>1, <1>2, GiveIs DEF m

LEMMA DispatchSteps ==
  ASSUME NEW S \in SUBSET Pools, NEW l \in S, \A x \in S : \A i \in Workers : Give(x, i) \in S
  PROVE  \E y \in [0..NumWorkers -> S] :
           /\ y[0] = l /\ dispatch(l) = y[NumWorkers]
           /\ \A n \in 1..NumWorkers : y[n] = Give(y[n - 1], n - 1)
<1>1. NumWorkers \in Nat /\ \A n \in 1..NumWorkers : n - 1 \in Workers
  BY LocalEvalAssumption DEF Workers
<1> DEFINE F(y) == y = [i \in 0..NumWorkers |-> IF i = 0 THEN l ELSE Give(y[i - 1], i - 1)]
           G == [n \in 1..NumWorkers |-> [x \in S |-> Give(x, n - 1)]]
<1>2. G \in [1..NumWorkers -> [S -> S]]
  BY <1>1
<1>3. PICK h : Passes(h, S, l, G, NumWorkers)
  <2> HIDE DEF G
  <2> QED
    BY <1>1, <1>2, PassingThrough
<1>4. h \in [0..NumWorkers -> S] /\ h[0] = l /\ \A n \in 1..NumWorkers : h[n] = Give(h[n - 1], n - 1)
  <2>1. h \in [0..NumWorkers -> S] /\ h[0] = l /\ \A n \in 1..NumWorkers : h[n] = G[n][h[n - 1]]
    BY <1>3 DEF Passes
  <2>2. \A n \in 1..NumWorkers : h[n - 1] \in S
    BY <1>1, <2>1
  <2> QED
    BY <2>1, <2>2
<1>5. F(h)
  <2>1. \A n \in 0..NumWorkers : h[n] = IF n = 0 THEN l ELSE Give(h[n - 1], n - 1)
    BY <1>1, <1>4
  <2> QED
    BY <1>4, <2>1
<1>6. F(CHOOSE y : F(y))
  <2> HIDE DEF F
  <2> QED
    BY <1>5
<1> DEFINE y == CHOOSE y : F(y)
<1>7. dispatch(l) = y[NumWorkers]
  BY DEF dispatch
<1>8. y = [i \in 0..NumWorkers |-> IF i = 0 THEN l ELSE Give(y[i - 1], i - 1)]
  BY <1>6
<1> HIDE DEF y
<1>9. y[0] = l /\ \A n \in 1..NumWorkers : y[n] = Give(y[n - 1], n - 1)
  BY <1>1, <1>8
<1>10. \A n \in Nat : n \in {k \in Nat : k <= NumWorkers => y[k] \in S}
  <2> DEFINE T == {k \in Nat : k <= NumWorkers => y[k] \in S}
  <2>1. 0 \in T
    BY <1>9
  <2>2. ASSUME NEW n \in T PROVE n + 1 \in T
    <3> SUFFICES ASSUME n + 1 <= NumWorkers PROVE y[n + 1] \in S
      OBVIOUS
    <3>1. n + 1 \in 1..NumWorkers /\ y[n] \in S /\ n \in Workers
      BY <1>1 DEF Workers
    <3> QED
      BY <1>9, <3>1
  <2> HIDE DEF T
  <2>3. T \in SUBSET Nat
    BY DEF T
  <2>4. \A n \in Nat : n \in T
    BY <2>1, <2>2, <2>3, SetInduction
  <2> QED
    BY <2>4 DEF T
<1>11. \A n \in 0..NumWorkers : y[n] \in S
  BY <1>1, <1>10
<1>12. y \in [0..NumWorkers -> S]
  BY <1>8, <1>11
<1> QED
  BY <1>7, <1>9, <1>12

LEMMA DispatchKeeps ==
  ASSUME NEW l \in Pools
  PROVE  /\ dispatch(l) \in Pools
         /\ Extends(l, dispatch(l)) /\ dispatch(l).slots = l.slots
         /\ \A ex \in SUBSET Boards : Chains(l, ex) => Chains(dispatch(l), ex)
         /\ NoIdle(dispatch(l))
<1> DEFINE S == {x \in Pools : /\ Extends(l, x) /\ x.slots = l.slots
                               /\ \A ex \in SUBSET Boards : Chains(l, ex) => Chains(x, ex)}
<1>1. l \in S
  BY ExtendsSelf
<1>2. ASSUME NEW x \in S, NEW i \in Workers PROVE Give(x, i) \in S
  <2>1. x \in Pools /\ Extends(l, x) /\ x.slots = l.slots
        /\ \A ex \in SUBSET Boards : Chains(l, ex) => Chains(x, ex)
    OBVIOUS
  <2>2. Give(x, i) \in Pools /\ Extends(x, Give(x, i)) /\ Give(x, i).slots = x.slots
        /\ \A ex \in SUBSET Boards : Chains(x, ex) => Chains(Give(x, i), ex)
    BY <2>1, GiveKeeps
  <2>3. Extends(l, Give(x, i))
    BY <2>1, <2>2, ExtendsMore
  <2> QED
    BY <2>1, <2>2, <2>3
<1>3. S \in SUBSET Pools
  OBVIOUS
<1> HIDE DEF S
<1>4. PICK y \in [0..NumWorkers -> S] :
        /\ y[0] = l /\ dispatch(l) = y[NumWorkers]
        /\ \A n \in 1..NumWorkers : y[n] = Give(y[n - 1], n - 1)
  BY <1>1, <1>2, <1>3, DispatchSteps
<1>5. NumWorkers \in Nat
  BY LocalEvalAssumption
<1>6. dispatch(l) \in S
  BY <1>4, <1>5
<1> DEFINE Busy(x, n) == \A w \in Workers : w < n /\ x.running[w] = NoTask =>
                           \A j \in DOMAIN x.queue : ~MayRun(w, x.queue[j])
           T == {n \in Nat : n <= NumWorkers => Busy(y[n], n)}
<1>7. 0 \in T
  BY DEF Workers
<1>8. ASSUME NEW n \in T PROVE n + 1 \in T
  <2> SUFFICES ASSUME n + 1 <= NumWorkers PROVE Busy(y[n + 1], n + 1)
    OBVIOUS
  <2>1. n + 1 \in 1..NumWorkers /\ n \in Workers /\ n \in 0..NumWorkers /\ (n + 1) - 1 = n
    BY <1>5 DEF Workers
  <2>2. y[n] \in Pools /\ y[n + 1] = Give(y[n], n)
    BY <1>3, <1>4, <2>1
  <2>3. Busy(y[n], n)
    BY <2>1
  <2> DEFINE x == y[n]
             z == Give(x, n)
  <2>4. x \in Pools /\ Busy(x, n)
    BY <2>2, <2>3
  <2> HIDE DEF x
  <2>5. /\ \A k \in DOMAIN z.queue : \E j \in DOMAIN x.queue : z.queue[k] = x.queue[j]
        /\ z.running[n] = NoTask => \A k \in DOMAIN z.queue : ~MayRun(n, z.queue[k])
        /\ \A w \in Workers : w # n => z.running[w] = x.running[w]
    BY <2>1, <2>4, GiveKeeps
  <2> HIDE DEF z
  <2>6. ASSUME NEW w \in Workers, w < n + 1, z.running[w] = NoTask
        PROVE  \A j \in DOMAIN z.queue : ~MayRun(w, z.queue[j])
    <3>1. w = n \/ w < n
      BY <2>1, <2>6, WorkersAre
    <3>2. CASE w = n
      BY <2>5, <2>6, <3>2
    <3>3. CASE w # n /\ w < n
      BY <2>4, <2>5, <2>6, <3>3
    <3> QED
      BY <3>1, <3>2, <3>3
  <2> HIDE DEF Busy
  <2>7. Busy(z, n + 1)
    BY <2>6 DEF Busy
  <2> QED
    BY <2>2, <2>7 DEF x, z
<1>9. T \in SUBSET Nat
  OBVIOUS
<1>10. \A n \in Nat : n \in T
  <2> HIDE DEF T
  <2> QED
    BY <1>7, <1>8, <1>9, SetInduction
<1>11. Busy(dispatch(l), NumWorkers)
  <2> HIDE DEF Busy
  <2> QED
    BY <1>4, <1>5, <1>10
<1>12. \A w \in Workers : w < NumWorkers
  BY WorkersAre
<1>13. NoIdle(dispatch(l))
  BY <1>11, <1>12 DEF NoIdle
<1>14. dispatch(l) \in Pools /\ Extends(l, dispatch(l)) /\ dispatch(l).slots = l.slots
       /\ \A ex \in SUBSET Boards : Chains(l, ex) => Chains(dispatch(l), ex)
  BY <1>6 DEF S
<1> QED
  BY <1>13, <1>14

-----------------------------------------------------------------------------
(* A chain's next search, and a chain that starts                          *)

LEMMA PutKeeps ==
  ASSUME NEW l \in Pools, NEW ex \in SUBSET Boards, Chains(l, ex),
         NEW task \in Task, task.pos \in ex, l.slots[task.pos] = task.tag
  PROVE  /\ [l EXCEPT !.queue = Append(@, task)] \in Pools
         /\ Extends(l, [l EXCEPT !.queue = Append(@, task)])
         /\ Chains([l EXCEPT !.queue = Append(@, task)], ex \ {task.pos})
<1> DEFINE m == [l EXCEPT !.queue = Append(@, task)]
           q == l.queue
           n == Len(q)
           r == Append(q, task)
<1>1. q \in Seq(Task) /\ n \in Nat /\ DOMAIN q = 1..n
  BY PoolsAre, LenProperties
<1>2. /\ r \in Seq(Task) /\ Len(r) = n + 1 /\ DOMAIN r = 1..n + 1
      /\ \A k \in 1..n : r[k] = q[k]
      /\ r[n + 1] = task
  BY <1>1, AppendProperties, LenProperties
<1>3. /\ m \in Pools
      /\ m.queue = r /\ m.running = l.running /\ m.slots = l.slots /\ m.boardKey = l.boardKey
      /\ m.generation = l.generation /\ m.lineGeneration = l.lineGeneration
  BY <1>2 DEF Pools
<1> HIDE DEF m, r, n, q
<1>4. /\ \A k \in DOMAIN r : (k \in DOMAIN q /\ r[k] = q[k]) \/ (k = n + 1 /\ r[k] = task)
      /\ \A k \in DOMAIN q : k \in DOMAIN r /\ r[k] = q[k]
      /\ n + 1 \in DOMAIN r
  <2>1. \A k \in 1..n + 1 : k \in 1..n \/ k = n + 1
    BY <1>1
  <2>2. n + 1 \in 1..n + 1 /\ \A k \in 1..n : k \in 1..n + 1
    BY <1>1
  <2>3. ASSUME NEW k \in DOMAIN r
        PROVE  (k \in DOMAIN q /\ r[k] = q[k]) \/ (k = n + 1 /\ r[k] = task)
    <3>1. CASE k \in 1..n
      BY <1>1, <1>2, <3>1
    <3>2. CASE k = n + 1
      BY <1>2, <3>2
    <3> QED
      BY <1>2, <2>1, <3>1, <3>2
  <2>4. \A k \in DOMAIN q : k \in DOMAIN r /\ r[k] = q[k]
    BY <1>1, <1>2, <2>2
  <2> QED
    BY <1>2, <2>2, <2>3, <2>4
<1>5. \A tag : IsCurrent(m, tag) <=> IsCurrent(l, tag)
  BY <1>3, SameTags
<1>6. BoardTag(m) = BoardTag(l) /\ LineTag(m) = LineTag(l)
  BY <1>3, SameTags
<1>7. task.tag \in Tag /\ task.pos \in Boards /\ task.tag # NoTag
  BY NotATask DEF Task
<1>8. IsCurrent(l, task.tag)
  BY <1>7 DEF Chains, SlotsCurrent, IsCurrent
<1>9. \A w \in Workers : Live(m, w) <=> Live(l, w)
  BY <1>3, <1>5 DEF Live
<1>10. \A k \in DOMAIN q : /\ IsCurrent(l, q[k].tag) /\ l.slots[q[k].pos] = q[k].tag
                           /\ q[k].pos \notin ex
  BY DEF Chains, QueueHeld, q
<1>11. \A w \in Workers : Live(l, w) =>
          l.slots[l.running[w].pos] = l.running[w].tag /\ l.running[w].pos \notin ex
  BY DEF Chains, RunHeld
<1>12. SlotsCurrent(m)
  BY <1>3, <1>6 DEF SlotsCurrent, Chains
<1>13. QueueHeld(m, ex \ {task.pos})
  BY <1>3, <1>4, <1>5, <1>8, <1>10 DEF QueueHeld
<1>14. RunHeld(m, ex \ {task.pos})
  BY <1>3, <1>9, <1>11 DEF RunHeld
<1>15. QueuedOnce(m)
  <2>1. \A k \in DOMAIN q : \A x \in DOMAIN q : q[k].pos = q[x].pos => k = x
    BY DEF Chains, QueuedOnce, q
  <2>2. \A k \in DOMAIN r : \A x \in DOMAIN r : r[k].pos = r[x].pos => k = x
    BY <1>4, <1>10, <2>1
  <2> QED
    BY <1>3, <2>2 DEF QueuedOnce
<1>16. RunOnce(m)
  BY <1>3, <1>9 DEF RunOnce, Chains
<1>17. QueuedOrRun(m)
  <2>1. \A k \in DOMAIN q : \A w \in Workers : Live(l, w) => q[k].pos # l.running[w].pos
    BY DEF Chains, QueuedOrRun, q
  <2>2. \A k \in DOMAIN r : \A w \in Workers : Live(l, w) => r[k].pos # l.running[w].pos
    BY <1>4, <1>11, <2>1
  <2> QED
    BY <1>3, <1>9, <2>2 DEF QueuedOrRun
<1>18. AtWork(m, ex \ {task.pos})
  <2> SUFFICES ASSUME NEW p \in Boards, l.slots[p] # NoTag, p \notin ex \/ p = task.pos
               PROVE  \/ \E k \in DOMAIN r : r[k].pos = p
                      \/ \E w \in Workers : Live(l, w) /\ l.running[w].pos = p
    BY <1>3, <1>9 DEF AtWork
  <2>1. CASE p = task.pos
    <3>1. n + 1 \in DOMAIN r /\ r[n + 1].pos = p
      BY <1>2, <1>4, <2>1
    <3> QED
      BY <3>1
  <2>2. CASE p \notin ex
    <3>1. \/ \E k \in DOMAIN q : q[k].pos = p
          \/ \E w \in Workers : Live(l, w) /\ l.running[w].pos = p
      BY <2>2 DEF AtWork, Chains, q
    <3> QED
      BY <1>4, <3>1
  <2> QED
    BY <2>1, <2>2
<1>19. Issued(m)
  BY <1>3 DEF Issued, Chains
<1>20. Chains(m, ex \ {task.pos})
  BY <1>12, <1>13, <1>14, <1>15, <1>16, <1>17, <1>18, <1>19 DEF Chains
<1>21. Extends(l, m)
  BY <1>3 DEF Extends
<1> QED
  BY <1>3, <1>20, <1>21 DEF m

LEMMA EvaluateKeeps ==
  ASSUME NEW l \in Pools, NEW ex \in SUBSET Boards, Chains(l, ex),
         NEW task \in Task, task.pos \in ex, l.slots[task.pos] = task.tag
  PROVE  /\ evaluate(l, task) \in Pools
         /\ Extends(l, evaluate(l, task))
         /\ Chains(evaluate(l, task), ex \ {task.pos})
         /\ NoIdle(evaluate(l, task))
<1> DEFINE m == [l EXCEPT !.queue = Append(@, task)]
<1>1. m \in Pools /\ Extends(l, m) /\ Chains(m, ex \ {task.pos})
  BY PutKeeps
<1>2. evaluate(l, task) = dispatch(m)
  BY DEF evaluate
<1> HIDE DEF m
<1>3. /\ dispatch(m) \in Pools /\ Extends(m, dispatch(m))
      /\ Chains(dispatch(m), ex \ {task.pos}) /\ NoIdle(dispatch(m))
  BY <1>1, DispatchKeeps
<1> QED
  BY <1>1, <1>2, <1>3, ExtendsMore

LEMMA ReserveKeeps ==
  ASSUME NEW l \in Pools, Chains(l, {}), NEW p \in Boards, l.slots[p] = NoTag,
         NEW tag \in {BoardTag(l), LineTag(l)}
  PROVE  /\ [l EXCEPT !.slots[p] = tag] \in Pools
         /\ Extends(l, [l EXCEPT !.slots[p] = tag])
         /\ Chains([l EXCEPT !.slots[p] = tag], {p})
         /\ [l EXCEPT !.slots[p] = tag].slots[p] = tag
<1> DEFINE m == [l EXCEPT !.slots[p] = tag]
<1>1. tag \in Tag /\ tag # NoTag /\ l.slots \in [Boards -> Tag \cup {NoTag}]
  BY PoolsAre, NotATask
<1>2. m = [l EXCEPT !.slots = [@ EXCEPT ![p] = tag]]
  OBVIOUS
<1>3. [l.slots EXCEPT ![p] = tag] \in [Boards -> Tag \cup {NoTag}]
  BY <1>1
<1>4. /\ m \in Pools
      /\ m.queue = l.queue /\ m.running = l.running /\ m.boardKey = l.boardKey
      /\ m.generation = l.generation /\ m.lineGeneration = l.lineGeneration
      /\ m.slots = [l.slots EXCEPT ![p] = tag]
  BY <1>2, <1>3 DEF Pools
<1> HIDE DEF m
<1>5. m.slots[p] = tag /\ \A x \in Boards : x # p => m.slots[x] = l.slots[x]
  BY <1>1, <1>4
<1>6. BoardTag(m) = BoardTag(l) /\ LineTag(m) = LineTag(l)
      /\ \A t : IsCurrent(m, t) <=> IsCurrent(l, t)
  BY <1>4, SameTags
<1>7. \A w \in Workers : Live(m, w) <=> Live(l, w)
  BY <1>4, <1>6 DEF Live
<1>8. \A j \in DOMAIN l.queue : /\ IsCurrent(l, l.queue[j].tag)
                                /\ l.slots[l.queue[j].pos] = l.queue[j].tag
                                /\ l.queue[j].pos \in Boards /\ l.queue[j].pos # p
  <2>1. \A j \in DOMAIN l.queue : /\ IsCurrent(l, l.queue[j].tag)
                                  /\ l.slots[l.queue[j].pos] = l.queue[j].tag
    BY DEF Chains, QueueHeld
  <2>2. \A j \in DOMAIN l.queue : l.queue[j].pos \in Boards /\ l.queue[j].tag \in Tag
    BY PoolsAre
  <2> QED
    BY <2>1, <2>2, NotATask
<1>9. \A w \in Workers : Live(l, w) =>
         /\ l.slots[l.running[w].pos] = l.running[w].tag
         /\ l.running[w].pos \in Boards /\ l.running[w].pos # p
  <2>1. \A w \in Workers : Live(l, w) => l.slots[l.running[w].pos] = l.running[w].tag
    BY DEF Chains, RunHeld
  <2>2. \A w \in Workers : Live(l, w) => l.running[w].pos \in Boards /\ l.running[w].tag \in Tag
    BY PoolsAre DEF Live
  <2> QED
    BY <2>1, <2>2, NotATask
<1>10. SlotsCurrent(m)
  BY <1>5, <1>6 DEF SlotsCurrent, Chains
<1>11. QueueHeld(m, {p})
  BY <1>4, <1>5, <1>6, <1>8 DEF QueueHeld
<1>12. RunHeld(m, {p})
  BY <1>4, <1>5, <1>7, <1>9 DEF RunHeld
<1>13. QueuedOnce(m) /\ RunOnce(m) /\ QueuedOrRun(m)
  BY <1>4, <1>7 DEF QueuedOnce, RunOnce, QueuedOrRun, Chains
<1>14. AtWork(m, {p})
  BY <1>4, <1>5, <1>7 DEF AtWork, Chains
<1>15. Issued(m)
  BY <1>4 DEF Issued, Chains
<1>16. Chains(m, {p})
  BY <1>10, <1>11, <1>12, <1>13, <1>14, <1>15 DEF Chains
<1>17. Extends(l, m)
  BY <1>1, <1>4, <1>5 DEF Extends
<1> QED
  BY <1>4, <1>5, <1>16, <1>17 DEF m

(* A position that is done, or searched *)
Covered(l, p) == evals[p] >= Deepest(p) \/ l.slots[p] # NoTag

(* What stands between two events *)
Sound(l) == l \in Pools /\ Chains(l, {}) /\ NoIdle(l)

LEMMA QueueOneKeeps ==
  ASSUME NEW l, Sound(l), evals \in [Boards -> Levels],
         NEW p \in Boards, NEW prefetch \in BOOLEAN, NEW tag \in {BoardTag(l), LineTag(l)}
  PROVE  /\ Sound(QueueOne(l, p, prefetch, tag))
         /\ Extends(l, QueueOne(l, p, prefetch, tag))
         /\ Covered(QueueOne(l, p, prefetch, tag), p)
<1>1. l \in Pools /\ Chains(l, {}) /\ NoIdle(l)
  BY DEF Sound
<1>2. evals[p] \in Levels
  OBVIOUS
<1>3. CASE l.slots[p] # NoTag \/ evals[p] = Server \/ evals[p] >= Deepest(p)
  <2>1. QueueOne(l, p, prefetch, tag) = l
    BY <1>3 DEF QueueOne
  <2>2. Covered(l, p)
    <3>1. Server >= Deepest(p)
      <4>1. Deepest(p) <= Server
        BY <1>2, DeeperIs
      <4>2. Deepest(p) \in LOCAL_EVAL_LEVELS
        BY LadderIs
      <4> QED
        BY <4>1, <4>2 DEF Server, LOCAL_EVAL_LEVELS
    <3> QED
      BY <1>3, <3>1 DEF Covered
  <2> QED
    BY <2>1, <2>2, ExtendsSelf
<1>4. CASE ~(l.slots[p] # NoTag \/ evals[p] = Server \/ evals[p] >= Deepest(p))
  <2> DEFINE m == [l EXCEPT !.slots[p] = tag]
             task == [pos |-> p, level |-> Min(Deeper(p, evals[p])), prefetch |-> prefetch, tag |-> tag]
  <2>1. m \in Pools /\ Extends(l, m) /\ Chains(m, {p}) /\ m.slots[p] = tag
    BY <1>1, <1>4, ReserveKeeps
  <2>2. QueueOne(l, p, prefetch, tag) = evaluate(m, task)
    BY <1>4 DEF QueueOne
  <2>3. task \in Task /\ task.pos = p /\ task.tag = tag
    <3>1. Min(Deeper(p, evals[p])) \in LOCAL_EVAL_LEVELS
      BY <1>2, <1>4, DeeperIs
    <3>2. tag \in Tag
      BY <1>1, PoolsAre
    <3> QED
      BY <3>1, <3>2 DEF Task
  <2> HIDE DEF m, task
  <2>4. {p} \in SUBSET Boards /\ {p} \ {p} = {}
    OBVIOUS
  <2>5. evaluate(m, task) \in Pools /\ Extends(m, evaluate(m, task))
        /\ Chains(evaluate(m, task), {p} \ {task.pos}) /\ NoIdle(evaluate(m, task))
    BY <2>1, <2>3, <2>4, EvaluateKeeps
  <2>6. Extends(l, evaluate(m, task))
    BY <2>1, <2>5, ExtendsMore
  <2>7. m.slots[p] # NoTag
    BY <1>1, <2>1, PoolsAre, NotATask
  <2>8. Covered(evaluate(m, task), p)
    BY <2>5, <2>7 DEF Covered, Extends
  <2>9. Sound(evaluate(m, task))
    BY <2>3, <2>4, <2>5 DEF Sound
  <2> QED
    BY <2>2, <2>6, <2>8, <2>9
<1> QED
  BY <1>3, <1>4

LEMMA QueueLocalKeeps ==
  ASSUME NEW l, Sound(l), evals \in [Boards -> Levels],
         NEW ps \in Seq(Boards), NEW prefetch \in BOOLEAN, NEW tag \in {BoardTag(l), LineTag(l)}
  PROVE  /\ Sound(queueLocal(l, ps, prefetch, tag))
         /\ Extends(l, queueLocal(l, ps, prefetch, tag))
         /\ \A k \in DOMAIN ps : Covered(queueLocal(l, ps, prefetch, tag), ps[k])
<1> DEFINE N == Len(ps)
           S == {x \in Pools : Sound(x) /\ Extends(l, x)}
           One(x, n) == QueueOne(x, ps[n], prefetch, tag)
<1>1. N \in Nat /\ DOMAIN ps = 1..N /\ \A n \in 1..N : ps[n] \in Boards
  BY LenProperties
<1>2. ASSUME NEW x \in S, NEW n \in 1..N
      PROVE  One(x, n) \in S /\ Extends(x, One(x, n)) /\ Covered(One(x, n), ps[n])
  <2>1. Sound(x) /\ Extends(l, x)
    OBVIOUS
  <2>2. tag \in {BoardTag(x), LineTag(x)}
    BY <2>1, SameTags DEF Extends
  <2>3. Sound(One(x, n)) /\ Extends(x, One(x, n)) /\ Covered(One(x, n), ps[n])
    BY <1>1, <2>1, <2>2, QueueOneKeeps
  <2>4. Extends(l, One(x, n)) /\ One(x, n) \in Pools
    BY <2>1, <2>3, ExtendsMore DEF Sound
  <2> QED
    BY <2>3, <2>4
<1>3. l \in S
  BY ExtendsSelf DEF Sound
<1>4. \A x \in S : Sound(x) /\ Extends(l, x)
  OBVIOUS
<1> HIDE DEF S, N
<1> DEFINE F(y) == y = [i \in 0..N |-> IF i = 0 THEN l ELSE One(y[i - 1], i)]
           G == [n \in 1..N |-> [x \in S |-> One(x, n)]]
<1>5. PICK h \in [0..N -> S] : h[0] = l /\ \A n \in 1..N : h[n] = One(h[n - 1], n)
  <2> HIDE DEF One
  <2>1. G \in [1..N -> [S -> S]]
    BY <1>2
  <2> HIDE DEF G
  <2>2. PICK h : Passes(h, S, l, G, N)
    BY <1>1, <1>3, <2>1, PassingThrough
  <2>3. h \in [0..N -> S] /\ h[0] = l /\ \A n \in 1..N : h[n] = G[n][h[n - 1]]
    BY <2>2 DEF Passes
  <2>4. \A n \in 1..N : n - 1 \in 0..N
    BY <1>1
  <2>5. \A n \in 1..N : h[n] = One(h[n - 1], n)
    BY <2>3, <2>4 DEF G
  <2> QED
    BY <2>3, <2>5
<1>6. F(h)
  <2> HIDE DEF One
  <2>1. \A n \in 0..N : h[n] = IF n = 0 THEN l ELSE One(h[n - 1], n)
    BY <1>1, <1>5
  <2> QED
    BY <1>5, <2>1
<1>7. F(CHOOSE y : F(y))
  <2> HIDE DEF F
  <2> QED
    BY <1>6
<1> DEFINE y == CHOOSE y : F(y)
<1>8. queueLocal(l, ps, prefetch, tag) = y[N]
  BY DEF queueLocal, N
<1>9. y = [i \in 0..N |-> IF i = 0 THEN l ELSE One(y[i - 1], i)]
  BY <1>7
<1> HIDE DEF y, One
<1>10. y[0] = l /\ \A n \in 1..N : y[n] = One(y[n - 1], n)
  BY <1>1, <1>9
<1> DEFINE Upto(n) == y[n] \in S /\ \A k \in 1..n : Covered(y[n], ps[k])
           T == {n \in Nat : n <= N => Upto(n)}
<1>11. 0 \in T
  BY <1>3, <1>10
<1>12. ASSUME NEW n \in T PROVE n + 1 \in T
  <2> SUFFICES ASSUME n + 1 <= N PROVE Upto(n + 1)
    OBVIOUS
  <2>1. n \in Nat /\ n + 1 \in 1..N /\ (n + 1) - 1 = n /\ Upto(n)
    BY <1>1
  <2>2. y[n] \in S /\ \A k \in 1..n : k \in 1..N /\ Covered(y[n], ps[k])
    BY <1>1, <2>1
  <2>3. y[n + 1] = One(y[n], n + 1)
    BY <1>10, <2>1
  <2>4. y[n + 1] \in S /\ Extends(y[n], y[n + 1]) /\ Covered(y[n + 1], ps[n + 1])
    BY <1>2, <2>1, <2>2, <2>3
  <2>5. \A k \in 1..n : Covered(y[n + 1], ps[k])
    BY <1>1, <2>2, <2>4 DEF Covered, Extends
  <2>6. \A k \in 1..n + 1 : k \in 1..n \/ k = n + 1
    BY <2>1
  <2>7. \A k \in 1..n + 1 : Covered(y[n + 1], ps[k])
    BY <2>4, <2>5, <2>6
  <2> QED
    BY <2>4, <2>7
<1>13. T \in SUBSET Nat
  OBVIOUS
<1>14. \A n \in Nat : n \in T
  <2> HIDE DEF T
  <2> QED
    BY <1>11, <1>12, <1>13, SetInduction
<1>15. Upto(N)
  <2> HIDE DEF Upto
  <2> QED
    BY <1>1, <1>14
<1> QED
  BY <1>1, <1>4, <1>8, <1>15

-----------------------------------------------------------------------------
(* What a list keeps                                                       *)

LEMMA WithinIs ==
  ASSUME NEW T, NEW s \in Seq(T), NEW S
  PROVE  /\ Restricted(s, S) \in Seq(T)
         /\ \E f : /\ Embeds(f, Restricted(s, S), s)
                   /\ \A k \in DOMAIN s : s[k] \in S <=> \E m \in DOMAIN Restricted(s, S) : f[m] = k
<1> DEFINE N == Len(s)
           One(x, n) == IF s[n] \in S THEN Append(x, s[n]) ELSE x
           F(y) == y = [i \in 0..N |-> IF i = 0 THEN <<>> ELSE
                                       IF s[i] \in S THEN Append(y[i - 1], s[i]) ELSE y[i - 1]]
           G == [n \in 1..N |-> [x \in Seq(T) |-> One(x, n)]]
<1>1. N \in Nat /\ DOMAIN s = 1..N /\ \A n \in 1..N : s[n] \in T
  BY LenProperties
<1> HIDE DEF N
<1>2. \A n \in 1..N : \A x \in Seq(T) : One(x, n) \in Seq(T)
  BY <1>1, AppendProperties
<1>3. PICK h \in [0..N -> Seq(T)] : h[0] = <<>> /\ \A n \in 1..N : h[n] = One(h[n - 1], n)
  <2> HIDE DEF One
  <2>1. G \in [1..N -> [Seq(T) -> Seq(T)]]
    BY <1>2
  <2> HIDE DEF G
  <2>2. <<>> \in Seq(T)
    OBVIOUS
  <2>3. PICK h : Passes(h, Seq(T), <<>>, G, N)
    BY <1>1, <2>1, <2>2, PassingThrough
  <2>4. h \in [0..N -> Seq(T)] /\ h[0] = <<>> /\ \A n \in 1..N : h[n] = G[n][h[n - 1]]
    BY <2>3 DEF Passes
  <2>5. \A n \in 1..N : n - 1 \in 0..N
    BY <1>1
  <2>6. \A n \in 1..N : h[n] = One(h[n - 1], n)
    BY <2>4, <2>5 DEF G
  <2> QED
    BY <2>4, <2>6
<1>4. F(h)
  <2>1. \A n \in 0..N : h[n] = IF n = 0 THEN <<>> ELSE
                               IF s[n] \in S THEN Append(h[n - 1], s[n]) ELSE h[n - 1]
    <3>1. \A n \in 0..N : n = 0 \/ n \in 1..N
      BY <1>1
    <3>2. \A n \in 1..N : n # 0
      BY <1>1
    <3> QED
      BY <1>3, <3>1, <3>2
  <2> QED
    BY <1>3, <2>1
<1>5. F(CHOOSE y : F(y))
  <2> HIDE DEF F
  <2> QED
    BY <1>4
<1> DEFINE y == CHOOSE y : F(y)
<1>6. Restricted(s, S) = y[N]
  BY DEF Restricted, N
<1>7. y = [i \in 0..N |-> IF i = 0 THEN <<>> ELSE
                          IF s[i] \in S THEN Append(y[i - 1], s[i]) ELSE y[i - 1]]
  BY <1>5
<1> HIDE DEF y
<1>8. y[0] = <<>> /\ \A n \in 1..N : y[n] = One(y[n - 1], n)
  <2>1. 0 \in 0..N /\ \A n \in 1..N : n \in 0..N /\ n # 0
    BY <1>1
  <2>2. y[0] = <<>>
    BY <1>7, <2>1
  <2>3. \A n \in 1..N : y[n] = One(y[n - 1], n)
    BY <1>7, <2>1
  <2> QED
    BY <2>2, <2>3
<1> DEFINE Is(f, n) ==
             /\ f \in [1..Len(y[n]) -> 1..n]
             /\ \A k \in 1..Len(y[n]) : y[n][k] = s[f[k]]
             /\ \A k \in 1..Len(y[n]) : \A m \in 1..Len(y[n]) : f[k] = f[m] => k = m
             /\ \A k \in 1..n : s[k] \in S <=> \E m \in 1..Len(y[n]) : f[m] = k
           Upto(n) == y[n] \in Seq(T) /\ \E f : Is(f, n)
           P == {n \in Nat : n <= N => Upto(n)}
<1>9. 0 \in P
  <2>1. Len(y[0]) = 0 /\ y[0] \in Seq(T)
    BY <1>8
  <2>2. Is([k \in 1..0 |-> 0], 0)
    BY <2>1
  <2> HIDE DEF Is
  <2>3. Upto(0)
    BY <2>1, <2>2
  <2> HIDE DEF Upto
  <2> QED
    BY <2>3
<1>10. ASSUME NEW n \in P PROVE n + 1 \in P
  <2> SUFFICES ASSUME n + 1 <= N PROVE Upto(n + 1)
    OBVIOUS
  <2>1. n \in Nat /\ n + 1 \in 1..N /\ (n + 1) - 1 = n /\ s[n + 1] \in T
    BY <1>1
  <2>2. Upto(n)
    <3>1. n <= N
      BY <1>1, <2>1
    <3> HIDE DEF Upto
    <3> QED
      BY <3>1
  <2> DEFINE x == y[n]
             L == Len(x)
             z == y[n + 1]
  <2>3. x \in Seq(T) /\ L \in Nat /\ \A k \in 1..n : k \in 1..n + 1
    BY <2>1, <2>2, LenProperties
  <2>4. PICK f : Is(f, n)
    BY <2>2
  <2>5. /\ f \in [1..L -> 1..n] /\ \A k \in 1..L : x[k] = s[f[k]]
        /\ \A k \in 1..L : \A m \in 1..L : f[k] = f[m] => k = m
        /\ \A k \in 1..n : s[k] \in S <=> \E m \in 1..L : f[m] = k
    BY <2>4
  <2>6. z = IF s[n + 1] \in S THEN Append(x, s[n + 1]) ELSE x
    BY <1>8, <2>1
  <2>7. \A k \in 1..n + 1 : k \in 1..n \/ k = n + 1
    BY <2>1
  <2> HIDE DEF x, z, L
  <2>8. CASE s[n + 1] \notin S
    <3>1. z = x
      BY <2>6, <2>8
    <3>2. f \in [1..L -> 1..n + 1]
      BY <2>3, <2>5
    <3>3. \A m \in 1..L : f[m] # n + 1
      BY <2>1, <2>5
    <3>4. \A k \in 1..n + 1 : s[k] \in S <=> \E m \in 1..L : f[m] = k
      BY <2>5, <2>7, <2>8, <3>3
    <3>5. Is(f, n + 1)
      BY <2>5, <3>1, <3>2, <3>4 DEF x, z, L
    <3> HIDE DEF Is
    <3> QED
      BY <2>3, <3>1, <3>5 DEF z
  <2>9. CASE s[n + 1] \in S
    <3>1. z \in Seq(T) /\ Len(z) = L + 1 /\ z[L + 1] = s[n + 1] /\ \A k \in 1..L : z[k] = x[k]
      BY <2>1, <2>3, <2>6, <2>9, AppendProperties DEF L
    <3> DEFINE g == [k \in 1..L + 1 |-> IF k <= L THEN f[k] ELSE n + 1]
    <3>2. g[L + 1] = n + 1 /\ \A k \in 1..L : g[k] = f[k] /\ f[k] \in 1..n /\ f[k] # n + 1
      BY <2>1, <2>3, <2>5
    <3>3. \A k \in 1..L + 1 : k \in 1..L \/ k = L + 1
      BY <2>3
    <3>4. g \in [1..L + 1 -> 1..n + 1]
      <4>1. n + 1 \in 1..n + 1
        BY <2>1
      <4>2. ASSUME NEW k \in 1..L + 1 PROVE g[k] \in 1..n + 1
        <5>1. CASE k = L + 1
          BY <3>2, <4>1, <5>1
        <5>2. CASE k \in 1..L
          BY <2>3, <3>2, <5>2
        <5> HIDE DEF g
        <5> QED
          BY <3>3, <5>1, <5>2
      <4> QED
        BY <4>2
    <3> HIDE DEF g
    <3>5. \A k \in 1..L + 1 : z[k] = s[g[k]]
      BY <2>5, <3>1, <3>2, <3>3
    <3>6. \A k \in 1..L + 1 : \A m \in 1..L + 1 : g[k] = g[m] => k = m
      BY <2>5, <3>2, <3>3
    <3>7. \A m \in 1..L : m \in 1..L + 1
      BY <2>3
    <3>8. L + 1 \in 1..L + 1
      BY <2>3
    <3>9. ASSUME NEW k \in 1..n + 1 PROVE s[k] \in S <=> \E m \in 1..L + 1 : g[m] = k
      <4>1. CASE k = n + 1
        BY <2>9, <3>2, <3>8, <4>1
      <4>2. CASE k \in 1..n
        <5>1. k # n + 1
          BY <2>1, <4>2
        <5>2. s[k] \in S <=> \E m \in 1..L : f[m] = k
          BY <2>5, <4>2
        <5> QED
          BY <3>2, <3>3, <3>7, <5>1, <5>2
      <4> QED
        BY <2>7, <4>1, <4>2
    <3>10. Is(g, n + 1)
      BY <3>1, <3>4, <3>5, <3>6, <3>9 DEF z
    <3> HIDE DEF Is
    <3> QED
      BY <3>1, <3>10 DEF z
  <2> QED
    BY <2>8, <2>9
<1>11. P \in SUBSET Nat
  OBVIOUS
<1>12. \A n \in Nat : n \in P
  <2> HIDE DEF P
  <2> QED
    BY <1>9, <1>10, <1>11, SetInduction
<1>13. Upto(N)
  <2> HIDE DEF Upto
  <2> QED
    BY <1>1, <1>12
<1> DEFINE r == y[N]
<1>14. r \in Seq(T) /\ DOMAIN r = 1..Len(r)
  BY <1>13, LenProperties
<1>15. PICK f : Is(f, N)
  BY <1>13
<1>16. /\ f \in [1..Len(r) -> 1..N] /\ \A k \in 1..Len(r) : r[k] = s[f[k]]
       /\ \A k \in 1..Len(r) : \A m \in 1..Len(r) : f[k] = f[m] => k = m
       /\ \A k \in 1..N : s[k] \in S <=> \E m \in 1..Len(r) : f[m] = k
  BY <1>15
<1> HIDE DEF r
<1>17. Embeds(f, r, s)
  BY <1>1, <1>14, <1>16 DEF Embeds
<1>18. \A k \in DOMAIN s : s[k] \in S <=> \E m \in DOMAIN r : f[m] = k
  BY <1>1, <1>14, <1>16
<1> QED
  BY <1>6, <1>14, <1>17, <1>18 DEF r

LEMMA DistinctIs ==
  ASSUME NEW T, NEW s \in Seq(T)
  PROVE  Distinct(s) \in Seq(T)
<1> DEFINE N == Len(s)
           One(x, n) == IF s[n] \in ToSet(x) THEN x ELSE Append(x, s[n])
           F(y) == y = [i \in 0..N |-> IF i = 0 THEN <<>> ELSE
                          IF s[i] \in ToSet(y[i - 1]) THEN y[i - 1] ELSE Append(y[i - 1], s[i])]
           G == [n \in 1..N |-> [x \in Seq(T) |-> One(x, n)]]
<1>1. N \in Nat /\ DOMAIN s = 1..N /\ \A n \in 1..N : s[n] \in T
  BY LenProperties
<1> HIDE DEF N
<1>2. \A n \in 1..N : \A x \in Seq(T) : One(x, n) \in Seq(T)
  BY <1>1, AppendProperties
<1>3. PICK h \in [0..N -> Seq(T)] : h[0] = <<>> /\ \A n \in 1..N : h[n] = One(h[n - 1], n)
  <2> HIDE DEF One
  <2>1. G \in [1..N -> [Seq(T) -> Seq(T)]]
    BY <1>2
  <2> HIDE DEF G
  <2>2. <<>> \in Seq(T)
    OBVIOUS
  <2>3. PICK h : Passes(h, Seq(T), <<>>, G, N)
    BY <1>1, <2>1, <2>2, PassingThrough
  <2>4. h \in [0..N -> Seq(T)] /\ h[0] = <<>> /\ \A n \in 1..N : h[n] = G[n][h[n - 1]]
    BY <2>3 DEF Passes
  <2>5. \A n \in 1..N : n - 1 \in 0..N
    BY <1>1
  <2>6. \A n \in 1..N : h[n] = One(h[n - 1], n)
    BY <2>4, <2>5 DEF G
  <2> QED
    BY <2>4, <2>6
<1>4. F(h)
  <2>1. \A n \in 0..N : h[n] = IF n = 0 THEN <<>> ELSE
                               IF s[n] \in ToSet(h[n - 1]) THEN h[n - 1] ELSE Append(h[n - 1], s[n])
    <3>1. \A n \in 0..N : n = 0 \/ n \in 1..N
      BY <1>1
    <3>2. \A n \in 1..N : n # 0
      BY <1>1
    <3> QED
      BY <1>3, <3>1, <3>2
  <2> QED
    BY <1>3, <2>1
<1>5. F(CHOOSE y : F(y))
  <2> HIDE DEF F
  <2> QED
    BY <1>4
<1> DEFINE y == CHOOSE y : F(y)
<1>6. Distinct(s) = y[N]
  BY DEF Distinct, N
<1>7. y = [i \in 0..N |-> IF i = 0 THEN <<>> ELSE
             IF s[i] \in ToSet(y[i - 1]) THEN y[i - 1] ELSE Append(y[i - 1], s[i])]
  BY <1>5
<1> HIDE DEF y
<1>8. y[0] = <<>> /\ \A n \in 1..N : y[n] = One(y[n - 1], n)
  <2>1. 0 \in 0..N /\ \A n \in 1..N : n \in 0..N /\ n # 0
    BY <1>1
  <2>2. y[0] = <<>>
    BY <1>7, <2>1
  <2>3. \A n \in 1..N : y[n] = One(y[n - 1], n)
    BY <1>7, <2>1
  <2> QED
    BY <2>2, <2>3
<1> HIDE DEF One
<1> DEFINE P == {n \in Nat : n <= N => y[n] \in Seq(T)}
<1>9. 0 \in P
  <2>1. y[0] = <<>> /\ <<>> \in Seq(T)
    BY <1>8
  <2>2. y[0] \in Seq(T)
    BY <2>1
  <2> QED
    BY <2>2
<1>10. ASSUME NEW n \in P PROVE n + 1 \in P
  <2> SUFFICES ASSUME n + 1 <= N PROVE y[n + 1] \in Seq(T)
    OBVIOUS
  <2>1. n + 1 \in 1..N /\ (n + 1) - 1 = n /\ y[n] \in Seq(T)
    BY <1>1
  <2> QED
    BY <1>2, <1>8, <2>1
<1>11. P \in SUBSET Nat
  OBVIOUS
<1>12. \A n \in Nat : n \in P
  <2> HIDE DEF P
  <2> QED
    BY <1>9, <1>10, <1>11, SetInduction
<1> QED
  BY <1>1, <1>6, <1>12

LEMMA ChildrenAre ==
  ASSUME NEW boards \in Seq(Boards)
  PROVE  ChildrenOf(boards) \in Seq(Boards)
<1> DEFINE N == Len(boards)
           One(x, n) == x \o Children[boards[n]]
           F(y) == y = [i \in 0..N |-> IF i = 0 THEN <<>> ELSE y[i - 1] \o Children[boards[i]]]
           G == [n \in 1..N |-> [x \in Seq(Boards) |-> One(x, n)]]
<1>1. N \in Nat /\ DOMAIN boards = 1..N /\ \A n \in 1..N : Children[boards[n]] \in Seq(Boards)
  BY LenProperties, LocalEvalAssumption
<1> HIDE DEF N
<1>2. \A n \in 1..N : \A x \in Seq(Boards) : One(x, n) \in Seq(Boards)
  BY <1>1, ConcatProperties
<1>3. PICK h \in [0..N -> Seq(Boards)] : h[0] = <<>> /\ \A n \in 1..N : h[n] = One(h[n - 1], n)
  <2> HIDE DEF One
  <2>1. G \in [1..N -> [Seq(Boards) -> Seq(Boards)]]
    BY <1>2
  <2> HIDE DEF G
  <2>2. <<>> \in Seq(Boards)
    OBVIOUS
  <2>3. PICK h : Passes(h, Seq(Boards), <<>>, G, N)
    BY <1>1, <2>1, <2>2, PassingThrough
  <2>4. h \in [0..N -> Seq(Boards)] /\ h[0] = <<>> /\ \A n \in 1..N : h[n] = G[n][h[n - 1]]
    BY <2>3 DEF Passes
  <2>5. \A n \in 1..N : n - 1 \in 0..N
    BY <1>1
  <2>6. \A n \in 1..N : h[n] = One(h[n - 1], n)
    BY <2>4, <2>5 DEF G
  <2> QED
    BY <2>4, <2>6
<1>4. F(h)
  <2>1. \A n \in 0..N : h[n] = IF n = 0 THEN <<>> ELSE h[n - 1] \o Children[boards[n]]
    <3>1. \A n \in 0..N : n = 0 \/ n \in 1..N
      BY <1>1
    <3>2. \A n \in 1..N : n # 0
      BY <1>1
    <3> QED
      BY <1>3, <3>1, <3>2
  <2> QED
    BY <1>3, <2>1
<1>5. F(CHOOSE y : F(y))
  <2> HIDE DEF F
  <2> QED
    BY <1>4
<1> DEFINE y == CHOOSE y : F(y)
<1>6. ChildrenOf(boards) = Distinct(y[N])
  BY DEF ChildrenOf, N
<1>7. y = [i \in 0..N |-> IF i = 0 THEN <<>> ELSE y[i - 1] \o Children[boards[i]]]
  BY <1>5
<1> HIDE DEF y
<1>8. y[0] = <<>> /\ \A n \in 1..N : y[n] = One(y[n - 1], n)
  <2>1. 0 \in 0..N /\ \A n \in 1..N : n \in 0..N /\ n # 0
    BY <1>1
  <2>2. y[0] = <<>>
    BY <1>7, <2>1
  <2>3. \A n \in 1..N : y[n] = One(y[n - 1], n)
    BY <1>7, <2>1
  <2> QED
    BY <2>2, <2>3
<1> HIDE DEF One
<1> DEFINE P == {n \in Nat : n <= N => y[n] \in Seq(Boards)}
<1>9. 0 \in P
  <2>1. y[0] = <<>> /\ <<>> \in Seq(Boards)
    BY <1>8
  <2>2. y[0] \in Seq(Boards)
    BY <2>1
  <2> QED
    BY <2>2
<1>10. ASSUME NEW n \in P PROVE n + 1 \in P
  <2> SUFFICES ASSUME n + 1 <= N PROVE y[n + 1] \in Seq(Boards)
    OBVIOUS
  <2>1. n + 1 \in 1..N /\ (n + 1) - 1 = n /\ y[n] \in Seq(Boards)
    BY <1>1
  <2> QED
    BY <1>2, <1>8, <2>1
<1>11. P \in SUBSET Nat
  OBVIOUS
<1>12. \A n \in Nat : n \in P
  <2> HIDE DEF P
  <2> QED
    BY <1>9, <1>10, <1>11, SetInduction
<1>13. y[N] \in Seq(Boards)
  BY <1>1, <1>12
<1> QED
  BY <1>6, <1>13, DistinctIs

-----------------------------------------------------------------------------
(* What another board or another line drops                                *)

LEMMA DropStaleKeeps ==
  ASSUME NEW l \in Pools, Chains(l, {}), NEW m \in Pools,
         m.queue = l.queue, m.running = l.running, m.slots = l.slots,
         m.generation >= l.generation, m.lineGeneration >= l.lineGeneration
  PROVE  /\ dropStale(m) \in Pools /\ Chains(dropStale(m), {})
         /\ NoIdle(l) => NoIdle(dropStale(m))
         /\ dropStale(m).running = l.running /\ dropStale(m).boardKey = m.boardKey
         /\ \A p \in Boards : dropStale(m).slots[p] = IF IsCurrent(m, l.slots[p]) THEN l.slots[p] ELSE NoTag
<1> DEFINE d == dropStale(m)
           q == m.queue
           C == {t \in ToSet(q) : IsCurrent(m, t.tag)}
           r == Restricted(q, C)
           slots == [p \in Boards |-> IF IsCurrent(m, m.slots[p]) THEN m.slots[p] ELSE NoTag]
<1>1. /\ q \in Seq(Task) /\ m.slots \in [Boards -> Tag \cup {NoTag}]
      /\ m.generation \in Nat /\ m.lineGeneration \in Nat
      /\ l.generation \in Nat /\ l.lineGeneration \in Nat
  BY PoolsAre
<1>2. d = [m EXCEPT !.slots = slots, !.queue = r]
  BY DEF dropStale
<1>3. slots \in [Boards -> Tag \cup {NoTag}]
  BY <1>1
<1>4. \A k \in DOMAIN q : q[k] \in C <=> IsCurrent(m, q[k].tag)
  BY <1>1 DEF ToSet
<1>5. /\ r \in Seq(Task)
      /\ \E f : /\ Embeds(f, r, q)
                /\ \A k \in DOMAIN q : q[k] \in C <=> \E x \in DOMAIN r : f[x] = k
  <2> HIDE DEF q, C
  <2> QED
    BY <1>1, WithinIs
<1> HIDE DEF C, r, q, slots
<1>6. /\ d \in Pools /\ d.slots = slots /\ d.queue = r
      /\ d.running = l.running /\ d.boardKey = m.boardKey
      /\ d.generation = m.generation /\ d.lineGeneration = m.lineGeneration
  BY <1>2, <1>3, <1>5 DEF Pools
<1> HIDE DEF d
<1>7. PICK f : /\ Embeds(f, r, q)
               /\ \A k \in DOMAIN q : q[k] \in C <=> \E x \in DOMAIN r : f[x] = k
  BY <1>5
<1>8. /\ \A k \in DOMAIN r : f[k] \in DOMAIN q /\ r[k] = q[f[k]] /\ IsCurrent(m, q[f[k]].tag)
      /\ \A k \in DOMAIN r : \A x \in DOMAIN r : f[k] = f[x] => k = x
      /\ \A k \in DOMAIN q : IsCurrent(m, q[k].tag) => \E x \in DOMAIN r : f[x] = k
  BY <1>4, <1>7 DEF Embeds
<1>9. BoardTag(d) = BoardTag(m) /\ LineTag(d) = LineTag(m)
      /\ \A t : IsCurrent(d, t) <=> IsCurrent(m, t)
  BY <1>6, SameTags
<1>10. ~IsCurrent(m, NoTag)
  <2>1. BoardTag(m) \in Tag /\ LineTag(m) \in Tag
    BY PoolsAre
  <2> QED
    BY <2>1, NotATask DEF IsCurrent
<1>11. \A p \in Boards : slots[p] = IF IsCurrent(m, l.slots[p]) THEN l.slots[p] ELSE NoTag
  BY DEF slots
<1>12. ASSUME NEW i \in Workers, l.running[i] # NoTask, IsCurrent(m, l.running[i].tag)
       PROVE  IsCurrent(l, l.running[i].tag)
  <2> DEFINE tag == l.running[i].tag
  <2>1. tag.n <= IF tag.of = "board" THEN l.generation ELSE l.lineGeneration
    BY <1>12 DEF Chains, Issued
  <2>2. CASE tag = BoardTag(m)
    <3>1. tag.of = "board" /\ tag.n = m.generation
      BY <2>2 DEF BoardTag
    <3>2. m.generation = l.generation
      BY <1>1, <2>1, <3>1
    <3> QED
      BY <2>2, <3>2 DEF BoardTag, IsCurrent
  <2>3. CASE tag = LineTag(m)
    <3>1. tag.of # "board" /\ tag.n = m.lineGeneration
      BY <2>3 DEF LineTag
    <3>2. m.lineGeneration = l.lineGeneration
      BY <1>1, <2>1, <3>1
    <3> QED
      BY <2>3, <3>2 DEF LineTag, IsCurrent
  <2> QED
    BY <1>12, <2>2, <2>3 DEF IsCurrent
<1>13. \A i \in Workers : Live(d, i) <=> l.running[i] # NoTask /\ IsCurrent(m, l.running[i].tag)
  BY <1>6, <1>9 DEF Live
<1>14. \A i \in Workers : Live(d, i) => Live(l, i)
  BY <1>12, <1>13 DEF Live
<1>15. \A k \in DOMAIN q : l.slots[q[k].pos] = q[k].tag /\ q[k].pos \in Boards
  <2>1. \A k \in DOMAIN q : l.slots[q[k].pos] = q[k].tag
    BY DEF Chains, QueueHeld, q
  <2>2. \A k \in DOMAIN q : q[k].pos \in Boards
    BY PoolsAre DEF q
  <2> QED
    BY <2>1, <2>2
<1>16. \A i \in Workers : Live(l, i) =>
         l.slots[l.running[i].pos] = l.running[i].tag /\ l.running[i].pos \in Boards
  <2>1. \A i \in Workers : Live(l, i) => l.slots[l.running[i].pos] = l.running[i].tag
    BY DEF Chains, RunHeld
  <2>2. \A i \in Workers : Live(l, i) => l.running[i].pos \in Boards
    BY PoolsAre DEF Live
  <2> QED
    BY <2>1, <2>2
<1>17. SlotsCurrent(d)
  BY <1>6, <1>9, <1>11 DEF SlotsCurrent, IsCurrent
<1>18. QueueHeld(d, {})
  BY <1>6, <1>8, <1>9, <1>11, <1>15 DEF QueueHeld
<1>19. RunHeld(d, {})
  <2> SUFFICES ASSUME NEW i \in Workers, Live(d, i)
               PROVE  d.slots[d.running[i].pos] = d.running[i].tag
    BY DEF RunHeld
  <2> QED
    BY <1>6, <1>11, <1>13, <1>14, <1>16
<1>20. QueuedOnce(d)
  <2>1. \A j \in DOMAIN q : \A k \in DOMAIN q : q[j].pos = q[k].pos => j = k
    BY DEF Chains, QueuedOnce, q
  <2>2. \A j \in DOMAIN r : \A k \in DOMAIN r : r[j].pos = r[k].pos => j = k
    BY <1>8, <2>1
  <2> QED
    BY <1>6, <2>2 DEF QueuedOnce
<1>21. RunOnce(d)
  BY <1>6, <1>14 DEF RunOnce, Chains
<1>22. QueuedOrRun(d)
  <2>1. \A j \in DOMAIN q : \A i \in Workers : Live(l, i) => q[j].pos # l.running[i].pos
    BY DEF Chains, QueuedOrRun, q
  <2>2. \A j \in DOMAIN r : \A i \in Workers : Live(d, i) => r[j].pos # l.running[i].pos
    BY <1>8, <1>14, <2>1
  <2> QED
    BY <1>6, <2>2 DEF QueuedOrRun
<1>23. AtWork(d, {})
  <2> SUFFICES ASSUME NEW p \in Boards, slots[p] # NoTag
               PROVE  \/ \E k \in DOMAIN r : r[k].pos = p
                      \/ \E i \in Workers : Live(d, i) /\ l.running[i].pos = p
    BY <1>6 DEF AtWork
  <2>1. IsCurrent(m, l.slots[p]) /\ l.slots[p] # NoTag
    BY <1>10, <1>11
  <2>2. \/ \E k \in DOMAIN q : q[k].pos = p
        \/ \E i \in Workers : Live(l, i) /\ l.running[i].pos = p
    BY <2>1 DEF AtWork, Chains, q
  <2>3. CASE \E k \in DOMAIN q : q[k].pos = p
    BY <1>8, <1>15, <2>1, <2>3
  <2>4. CASE \E i \in Workers : Live(l, i) /\ l.running[i].pos = p
    BY <1>13, <1>16, <2>1, <2>4 DEF Live
  <2> QED
    BY <2>2, <2>3, <2>4
<1>24. Issued(d)
  <2> SUFFICES ASSUME NEW i \in Workers, l.running[i] # NoTask
               PROVE  l.running[i].tag.n <= IF l.running[i].tag.of = "board"
                                            THEN m.generation ELSE m.lineGeneration
    BY <1>6 DEF Issued
  <2>1. l.running[i].tag.n <= IF l.running[i].tag.of = "board" THEN l.generation ELSE l.lineGeneration
    BY DEF Issued, Chains
  <2>2. l.running[i].tag.n \in Nat
    <3>1. l.running[i].tag \in Tag
      BY PoolsAre
    <3> QED
      BY <3>1 DEF Tag
  <2> QED
    BY <1>1, <2>1, <2>2
<1>25. Chains(d, {})
  BY <1>17, <1>18, <1>19, <1>20, <1>21, <1>22, <1>23, <1>24 DEF Chains
<1>26. NoIdle(l) => NoIdle(d)
  <2> SUFFICES ASSUME NoIdle(l), NEW i \in Workers, l.running[i] = NoTask, NEW k \in DOMAIN r
               PROVE  ~MayRun(i, r[k])
    BY <1>6 DEF NoIdle
  <2>1. \A j \in DOMAIN q : ~MayRun(i, q[j])
    BY DEF NoIdle, q
  <2> QED
    BY <1>8, <2>1
<1> QED
  BY <1>6, <1>11, <1>25, <1>26 DEF d

(* Workers that search go on. *)
RunKept(l, m) == \A w \in Workers : l.running[w] # NoTask => m.running[w] = l.running[w]

LEMMA RunKeptMore ==
  ASSUME NEW l, NEW m, NEW n, RunKept(l, m), RunKept(m, n)
  PROVE  RunKept(l, n)
BY DEF RunKept

LEMMA ExtendsKeeps ==
  ASSUME NEW l, NEW m, Extends(l, m)
  PROVE  /\ RunKept(l, m) /\ m.boardKey = l.boardKey
         /\ \A p \in Boards : Covered(l, p) => Covered(m, p)
BY DEF Extends, RunKept, Covered

LEMMA SyncKeeps ==
  ASSUME NEW l, Sound(l), NEW board \in Boards
  PROVE  /\ Sound(syncGeneration(l, board)) /\ RunKept(l, syncGeneration(l, board))
         /\ syncGeneration(l, board).boardKey = board
         /\ l.boardKey = board => syncGeneration(l, board) = l
<1>1. CASE l.boardKey = board
  BY <1>1 DEF syncGeneration, RunKept
<1>2. CASE l.boardKey # board
  <2> DEFINE m == [l EXCEPT !.boardKey = board, !.generation = @ + 1]
  <2>1. l \in Pools /\ Chains(l, {}) /\ NoIdle(l) /\ l.generation \in Nat /\ l.lineGeneration \in Nat
    BY PoolsAre DEF Sound
  <2>2. /\ m \in Pools /\ m.queue = l.queue /\ m.running = l.running /\ m.slots = l.slots
        /\ m.generation = l.generation + 1 /\ m.lineGeneration = l.lineGeneration
        /\ m.boardKey = board
    <3>1. l.generation + 1 \in Nat
      BY <2>1
    <3>2. m = [l EXCEPT !.boardKey = board, !.generation = l.generation + 1]
      OBVIOUS
    <3> HIDE DEF m
    <3> QED
      BY <2>1, <3>1, <3>2 DEF Pools
  <2>3. syncGeneration(l, board) = dropStale(m)
    BY <1>2 DEF syncGeneration
  <2> HIDE DEF m
  <2>4. m.generation >= l.generation /\ m.lineGeneration >= l.lineGeneration
    BY <2>1, <2>2
  <2>5. /\ dropStale(m) \in Pools /\ Chains(dropStale(m), {}) /\ NoIdle(dropStale(m))
        /\ dropStale(m).running = l.running /\ dropStale(m).boardKey = board
    BY <2>1, <2>2, <2>4, DropStaleKeeps
  <2> QED
    BY <1>2, <2>3, <2>5 DEF Sound, RunKept
<1> QED
  BY <1>1, <1>2

LEMMA AbandonKeeps ==
  ASSUME NEW l, Sound(l)
  PROVE  /\ Sound(abandonLine(l)) /\ RunKept(l, abandonLine(l))
         /\ abandonLine(l).boardKey = l.boardKey
<1> DEFINE m == [l EXCEPT !.lineGeneration = @ + 1]
<1>1. l \in Pools /\ Chains(l, {}) /\ NoIdle(l) /\ l.generation \in Nat /\ l.lineGeneration \in Nat
  BY PoolsAre DEF Sound
<1>2. /\ m \in Pools /\ m.queue = l.queue /\ m.running = l.running /\ m.slots = l.slots
      /\ m.lineGeneration = l.lineGeneration + 1 /\ m.generation = l.generation
      /\ m.boardKey = l.boardKey
  BY <1>1 DEF Pools
<1>3. abandonLine(l) = dropStale(m)
  BY DEF abandonLine
<1> HIDE DEF m
<1>4. m.generation >= l.generation /\ m.lineGeneration >= l.lineGeneration
  BY <1>1, <1>2
<1>5. /\ dropStale(m) \in Pools /\ Chains(dropStale(m), {}) /\ NoIdle(dropStale(m))
      /\ dropStale(m).running = l.running /\ dropStale(m).boardKey = l.boardKey
  BY <1>1, <1>2, <1>4, DropStaleKeeps
<1> QED
  BY <1>3, <1>5 DEF Sound, RunKept

LEMMA LineKeeps ==
  ASSUME NEW l, Sound(l), evals \in [Boards -> Levels], NEW boards \in Seq(Boards)
  PROVE  /\ Sound(queueLine(l, boards)) /\ Extends(l, queueLine(l, boards))
         /\ \A p \in ToSet(ChildrenOf(boards)) : Covered(queueLine(l, boards), p)
<1>1. ChildrenOf(boards) \in Seq(Boards)
  BY ChildrenAre
<1>2. /\ Sound(queueLine(l, boards)) /\ Extends(l, queueLine(l, boards))
      /\ \A k \in DOMAIN ChildrenOf(boards) : Covered(queueLine(l, boards), ChildrenOf(boards)[k])
  BY <1>1, QueueLocalKeeps DEF queueLine
<1> QED
  BY <1>2 DEF ToSet

LEMMA MissingKeeps ==
  ASSUME NEW l, Sound(l), evals \in [Boards -> Levels], NEW board \in Boards, NEW shows \in BOOLEAN
  PROVE  /\ Sound(requestMissing(l, board, shows)) /\ RunKept(l, requestMissing(l, board, shows))
         /\ shows => /\ requestMissing(l, board, shows).boardKey = board
                     /\ \A p \in ToSet(Children[board]) : Covered(requestMissing(l, board, shows), p)
         /\ ~shows \/ l.boardKey = board => Extends(l, requestMissing(l, board, shows))
<1>1. CASE ~shows
  <2>1. requestMissing(l, board, shows) = l
    BY <1>1 DEF requestMissing
  <2>2. Extends(l, l) /\ RunKept(l, l)
    BY ExtendsSelf DEF RunKept
  <2> QED
    BY <1>1, <2>1, <2>2
<1>2. CASE shows
  <2> DEFINE m == syncGeneration(l, board)
             n == queueLocal(m, Children[board], FALSE, BoardTag(m))
  <2>1. requestMissing(l, board, shows) = n
    BY <1>2 DEF requestMissing
  <2>2. Sound(m) /\ RunKept(l, m) /\ m.boardKey = board /\ (l.boardKey = board => m = l)
    BY SyncKeeps
  <2>3. Children[board] \in Seq(Boards) /\ FALSE \in BOOLEAN
    BY LocalEvalAssumption
  <2> HIDE DEF m
  <2>4. /\ Sound(n) /\ Extends(m, n)
        /\ \A k \in DOMAIN Children[board] : Covered(n, Children[board][k])
    BY <2>2, <2>3, QueueLocalKeeps
  <2>5. \A p \in ToSet(Children[board]) : Covered(n, p)
    BY <2>4 DEF ToSet
  <2>6. RunKept(m, n) /\ n.boardKey = m.boardKey
    BY <2>4, ExtendsKeeps
  <2>7. RunKept(l, n)
    BY <2>2, <2>6, RunKeptMore
  <2> HIDE DEF n
  <2> QED
    BY <1>2, <2>1, <2>2, <2>4, <2>5, <2>6, <2>7
<1> QED
  BY <1>1, <1>2

LEMMA GrandchildrenKeep ==
  ASSUME NEW l, Sound(l), evals \in [Boards -> Levels], NEW board \in Boards, NEW shows \in BOOLEAN
  PROVE  /\ Sound(requestGrandchildren(l, board, shows))
         /\ Extends(l, requestGrandchildren(l, board, shows))
<1> DEFINE ps == Restricted(ChildrenOf(Children[board]), Boards \ OnBook)
<1>1. ps \in Seq(Boards)
  <2>1. Children[board] \in Seq(Boards)
    BY LocalEvalAssumption
  <2>2. ChildrenOf(Children[board]) \in Seq(Boards)
    BY <2>1, ChildrenAre
  <2> QED
    BY <2>2, WithinIs
<1>2. requestGrandchildren(l, board, shows) = IF shows THEN queueLocal(l, ps, TRUE, BoardTag(l)) ELSE l
  BY DEF requestGrandchildren
<1> HIDE DEF ps
<1>3. Sound(queueLocal(l, ps, TRUE, BoardTag(l))) /\ Extends(l, queueLocal(l, ps, TRUE, BoardTag(l)))
  BY <1>1, QueueLocalKeeps
<1> QED
  BY <1>2, <1>3, ExtendsSelf

LEMMA BothKeep ==
  ASSUME NEW l, Sound(l), evals \in [Boards -> Levels], NEW board \in Boards, NEW shows \in BOOLEAN
  PROVE  /\ Sound(requestBoth(l, board, shows)) /\ RunKept(l, requestBoth(l, board, shows))
         /\ shows => /\ requestBoth(l, board, shows).boardKey = board
                     /\ \A p \in ToSet(Children[board]) : Covered(requestBoth(l, board, shows), p)
         /\ ~shows \/ l.boardKey = board => Extends(l, requestBoth(l, board, shows))
<1> DEFINE m == requestMissing(l, board, shows)
           n == requestGrandchildren(m, board, shows)
<1>1. requestBoth(l, board, shows) = n
  BY DEF requestBoth
<1>2. /\ Sound(m) /\ RunKept(l, m)
      /\ shows => m.boardKey = board /\ \A p \in ToSet(Children[board]) : Covered(m, p)
      /\ ~shows \/ l.boardKey = board => Extends(l, m)
  BY MissingKeeps
<1> HIDE DEF m
<1>3. Sound(n) /\ Extends(m, n)
  BY <1>2, GrandchildrenKeep
<1> HIDE DEF n
<1>4. RunKept(m, n) /\ n.boardKey = m.boardKey /\ \A p \in Boards : Covered(m, p) => Covered(n, p)
  BY <1>3, ExtendsKeeps
<1>5. RunKept(l, n)
  BY <1>2, <1>4, RunKeptMore
<1>6. ToSet(Children[board]) \subseteq Boards
  BY LocalEvalAssumption, LenProperties DEF ToSet
<1>7. ~shows \/ l.boardKey = board => Extends(l, n)
  BY <1>2, <1>3, ExtendsMore
<1>8. shows => n.boardKey = board /\ \A p \in ToSet(Children[board]) : Covered(n, p)
  BY <1>2, <1>4, <1>6
<1> QED
  BY <1>1, <1>3, <1>5, <1>7, <1>8

LEMMA PlyKeeps ==
  ASSUME NEW l, Sound(l), evals \in [Boards -> Levels], evalMode \in BOOLEAN,
         NEW boards \in Seq(Boards), NEW board \in Boards, NEW diverged \in BOOLEAN
  PROVE  /\ Sound(renderPly(l, boards, board, diverged))
         /\ RunKept(l, renderPly(l, boards, board, diverged))
         /\ renderPly(l, boards, board, diverged).boardKey = board
         /\ \A p \in ToSet(ChildrenOf(boards)) : Covered(renderPly(l, boards, board, diverged), p)
         /\ evalMode => \A p \in ToSet(Children[board]) : Covered(renderPly(l, boards, board, diverged), p)
<1> DEFINE k == syncGeneration(l, board)
           m == queueLine(k, boards)
           n == IF diverged THEN requestBoth(m, board, evalMode) ELSE requestMissing(m, board, evalMode)
<1>1. renderPly(l, boards, board, diverged) = n
  BY DEF renderPly
<1>2. Sound(k) /\ RunKept(l, k) /\ k.boardKey = board
  BY SyncKeeps
<1> HIDE DEF k
<1>3. Sound(m) /\ Extends(k, m) /\ \A p \in ToSet(ChildrenOf(boards)) : Covered(m, p)
  BY <1>2, LineKeeps
<1> HIDE DEF m
<1>4. RunKept(k, m) /\ m.boardKey = board
  BY <1>2, <1>3, ExtendsKeeps
<1>5. /\ Sound(n) /\ Extends(m, n)
      /\ evalMode => \A p \in ToSet(Children[board]) : Covered(n, p)
  BY <1>3, <1>4, BothKeep, MissingKeeps
<1> HIDE DEF n
<1>6. RunKept(m, n) /\ n.boardKey = board /\ \A p \in Boards : Covered(m, p) => Covered(n, p)
  BY <1>4, <1>5, ExtendsKeeps
<1>7. ToSet(ChildrenOf(boards)) \subseteq Boards
  BY ChildrenAre, LenProperties DEF ToSet
<1>8. RunKept(l, n)
  BY <1>2, <1>4, <1>6, RunKeptMore
<1>9. \A p \in ToSet(ChildrenOf(boards)) : Covered(n, p)
  BY <1>3, <1>6, <1>7
<1> QED
  BY <1>1, <1>5, <1>6, <1>8, <1>9

-----------------------------------------------------------------------------
(* The invariant.  What is on screen is what the pool's generation is of,  *)
(* as long as scores are shown, and on a graph always: otherwise toggling  *)
(* the scores could drop chains of the graph and not queue them again.     *)

PageOK ==
  /\ evals \in [Boards -> Levels]
  /\ worker \in [Workers -> {"loading", "ready", "failed"}]
  /\ game \in Seq(Boards) /\ game # <<>>
  /\ pgnState \in {"null", "input", "graph"}
  /\ line \in Seq(Boards) /\ ply \in Nat
  /\ explored \in Seq(Boards)
  /\ evalMode \in BOOLEAN
  /\ Inline => ply \in DOMAIN line

Synced == evalMode \/ Inline => local.boardKey = Displayed

PoolInv == PageOK /\ Sound(local) /\ Synced /\ NothingForgotten

LEMMA EndsAre ==
  ASSUME NEW s \in Seq(Boards)
  PROVE  /\ s # <<>> => /\ Last(s) \in Boards /\ Front(s) \in Seq(Boards)
                        /\ Len(s) > 1 => Front(s) # <<>>
         /\ \A b \in Boards : /\ Append(s, b) \in Seq(Boards) /\ Append(s, b) # <<>>
                              /\ Last(Append(s, b)) = b
<1>1. Len(s) \in Nat /\ DOMAIN s = 1..Len(s) /\ \A i \in 1..Len(s) : s[i] \in Boards
  BY LenProperties
<1>2. ASSUME s # <<>>
      PROVE  /\ Last(s) \in Boards /\ Front(s) \in Seq(Boards)
             /\ Len(s) > 1 => Front(s) # <<>>
  <2>1. Len(s) # 0
    BY <1>2, EmptySeq
  <2>2. Len(s) \in 1..Len(s)
    BY <1>1, <2>1
  <2>3. Last(s) \in Boards
    BY <1>1, <2>2 DEF Last
  <2>4. Front(s) \in Seq(Boards) /\ Len(Front(s)) = Len(s) - 1
    <3>1. \A i \in 1..Len(s) - 1 : s[i] \in Boards
      BY <1>1
    <3>2. SubSeq(s, 1, Len(s) - 1) \in Seq(Boards)
          /\ Len(SubSeq(s, 1, Len(s) - 1)) = IF 1 <= Len(s) - 1 THEN Len(s) - 1 - 1 + 1 ELSE 0
      BY <1>1, <3>1, SubSeqProperties
    <3> QED
      BY <1>1, <2>1, <3>2 DEF Front
  <2>5. Len(s) > 1 => Front(s) # <<>>
    <3>1. Len(<<>>) = 0
      BY EmptySeq
    <3> QED
      BY <1>1, <2>4, <3>1
  <2> QED
    BY <2>3, <2>4, <2>5
<1>3. ASSUME NEW b \in Boards
      PROVE  Append(s, b) \in Seq(Boards) /\ Append(s, b) # <<>> /\ Last(Append(s, b)) = b
  <2>1. Append(s, b) \in Seq(Boards) /\ Len(Append(s, b)) = Len(s) + 1 /\ Append(s, b)[Len(s) + 1] = b
    BY AppendProperties
  <2>2. Len(<<>>) = 0
    BY EmptySeq
  <2> QED
    BY <1>1, <2>1, <2>2 DEF Last
<1> QED
  BY <1>2, <1>3

LEMMA MovesAre ==
  ASSUME NEW board \in Boards
  PROVE  Children[board] \in Seq(Boards) /\ ToSet(Children[board]) \subseteq Boards
BY LocalEvalAssumption, LenProperties DEF ToSet

LEMMA DisplayedIs ==
  ASSUME PageOK
  PROVE  /\ Displayed \in Boards /\ Last(game) \in Boards
         /\ \A i \in DOMAIN line : line[i] \in Boards
         /\ Inline => pgnDisplayBoard \in Boards
<1>1. Last(game) \in Boards
  BY EndsAre DEF PageOK
<1>2. \A i \in DOMAIN line : line[i] \in Boards
  BY LenProperties DEF PageOK
<1>3. ASSUME Inline PROVE pgnDisplayBoard \in Boards
  <2>1. CASE Diverged
    BY <2>1, EndsAre DEF PageOK, Diverged, pgnDisplayBoard
  <2>2. CASE ~Diverged
    BY <1>2, <1>3, <2>2 DEF PageOK, pgnDisplayBoard
  <2> QED
    BY <2>1, <2>2
<1> QED
  BY <1>1, <1>2, <1>3 DEF Displayed

(* What an event of the page must have seen to *)
LEMMA Shows ==
  ASSUME NEW b \in Boards, evals' = evals, Displayed' = b,
         evalMode' \/ Inline' => local'.boardKey = b,
         Inline' => \A p \in ToSet(ChildrenOf(line')) : Covered(local', p),
         evalMode' => \A p \in ToSet(Children[b]) : Covered(local', p)
  PROVE  Synced' /\ NothingForgotten'
<1>1. Synced'
  BY DEF Synced
<1>2. \A p \in Boards : Wanted(p)' => Covered(local', p)
  BY DEF Wanted
<1>3. \A p \in Boards : Covered(local', p) => Done(p)' \/ local'.slots[p] # NoTag
  BY DEF Covered, Done
<1>4. NothingForgotten'
  BY <1>2, <1>3 DEF NothingForgotten
<1> QED
  BY <1>1, <1>4

-----------------------------------------------------------------------------
(* The user                                                                *)

LEMMA CellClick ==
  ASSUME PoolInv, NEW b \in Boards, onCellClick(b)
  PROVE  PoolInv' /\ RunKept(local, local')
<1> USE DEF UserActs
<1>1. PageOK /\ Sound(local) /\ evals \in [Boards -> Levels] /\ evalMode \in BOOLEAN
  BY DEF PoolInv, PageOK
<1>2. /\ game' = Append(game, b) /\ local' = requestBoth(local, b, evalMode)
      /\ pgnState' = pgnState /\ line' = line /\ ply' = ply /\ explored' = explored
      /\ evalMode' = evalMode /\ evals' = evals /\ worker' = worker /\ ~Inline
  BY DEF onCellClick, renderBoard
<1>3. Append(game, b) \in Seq(Boards) /\ Append(game, b) # <<>> /\ Last(Append(game, b)) = b
  BY EndsAre DEF PoolInv, PageOK
<1>4. ~Inline' /\ Displayed' = b
  BY <1>2, <1>3 DEF Inline, Displayed
<1>5. PageOK'
  BY <1>1, <1>2, <1>3, <1>4 DEF PageOK
<1>6. /\ Sound(local') /\ RunKept(local, local')
      /\ evalMode => local'.boardKey = b /\ \A p \in ToSet(Children[b]) : Covered(local', p)
  BY <1>1, <1>2, BothKeep
<1>7. Synced' /\ NothingForgotten'
  BY <1>2, <1>4, <1>6, Shows
<1> QED
  BY <1>5, <1>6, <1>7 DEF PoolInv

LEMMA UndoMove ==
  ASSUME PoolInv, undoMove
  PROVE  PoolInv' /\ RunKept(local, local')
<1> DEFINE b == Last(Front(game))
<1>1. PageOK /\ Sound(local) /\ evals \in [Boards -> Levels] /\ evalMode \in BOOLEAN
  BY DEF PoolInv, PageOK
<1>2. /\ game' = Front(game) /\ Len(game) > 1 /\ local' = requestBoth(local, Last(game'), evalMode)
      /\ pgnState' = pgnState /\ line' = line /\ ply' = ply /\ explored' = explored
      /\ evalMode' = evalMode /\ evals' = evals /\ worker' = worker /\ ~Inline
  BY DEF undoMove, renderBoard, UserActs
<1>3. Front(game) \in Seq(Boards) /\ Front(game) # <<>> /\ b \in Boards
  BY <1>2, EndsAre DEF PoolInv, PageOK
<1>4. ~Inline' /\ Displayed' = b /\ local' = requestBoth(local, b, evalMode)
  BY <1>2 DEF Inline, Displayed
<1>5. PageOK'
  BY <1>1, <1>2, <1>3, <1>4 DEF PageOK
<1> HIDE DEF b
<1>6. /\ Sound(local') /\ RunKept(local, local')
      /\ evalMode => local'.boardKey = b /\ \A p \in ToSet(Children[b]) : Covered(local', p)
  BY <1>1, <1>3, <1>4, BothKeep
<1>7. Synced' /\ NothingForgotten'
  BY <1>2, <1>3, <1>4, <1>6, Shows
<1> QED
  BY <1>5, <1>6, <1>7 DEF PoolInv

LEMMA LeaveKeeps ==
  ASSUME PoolInv
  PROVE  /\ Sound(LeavePGN) /\ RunKept(local, LeavePGN)
         /\ evalMode => /\ LeavePGN.boardKey = Last(game)
                        /\ \A p \in ToSet(Children[Last(game)]) : Covered(LeavePGN, p)
<1> DEFINE m == abandonLine(local)
           b == Last(game)
<1>1. Sound(local) /\ evals \in [Boards -> Levels] /\ evalMode \in BOOLEAN /\ b \in Boards
  BY DisplayedIs DEF PoolInv, PageOK
<1>2. Sound(m) /\ RunKept(local, m)
  BY <1>1, AbandonKeeps
<1>3. LeavePGN = requestBoth(m, b, evalMode)
  BY DEF LeavePGN, renderBoard
<1> HIDE DEF m, b
<1>4. /\ Sound(requestBoth(m, b, evalMode)) /\ RunKept(m, requestBoth(m, b, evalMode))
      /\ evalMode => /\ requestBoth(m, b, evalMode).boardKey = b
                     /\ \A p \in ToSet(Children[b]) : Covered(requestBoth(m, b, evalMode), p)
  BY <1>1, <1>2, BothKeep
<1>5. RunKept(local, requestBoth(m, b, evalMode))
  BY <1>2, <1>4, RunKeptMore
<1> QED
  BY <1>3, <1>4, <1>5 DEF b

LEMMA NewGame ==
  ASSUME PoolInv, newGame
  PROVE  PoolInv' /\ RunKept(local, local')
<1>1. PageOK /\ evals \in [Boards -> Levels] /\ evalMode \in BOOLEAN /\ Start \in Boards
  BY LocalEvalAssumption DEF PoolInv, PageOK
<1>2. /\ game' = <<Start>> /\ local' = requestBoth(LeavePGN, Start, evalMode)
      /\ pgnState' = "null" /\ line' = <<>> /\ ply' = 1 /\ explored' = explored
      /\ evalMode' = evalMode /\ evals' = evals /\ worker' = worker
  BY DEF newGame, renderBoard, UserActs
<1>3. ~Inline' /\ Displayed' = Start /\ <<Start>> # <<>>
  <2>1. Last(<<Start>>) = Start
    BY DEF Last
  <2> QED
    BY <1>2, <2>1 DEF Inline, Displayed
<1>4. PageOK'
  BY <1>1, <1>2, <1>3 DEF PageOK
<1>5. Sound(LeavePGN) /\ RunKept(local, LeavePGN)
  BY LeaveKeeps
<1>6. /\ Sound(local') /\ RunKept(LeavePGN, local')
      /\ evalMode => local'.boardKey = Start /\ \A p \in ToSet(Children[Start]) : Covered(local', p)
  BY <1>1, <1>2, <1>5, BothKeep
<1>7. RunKept(local, local')
  BY <1>5, <1>6, RunKeptMore
<1>8. Synced' /\ NothingForgotten'
  BY <1>1, <1>2, <1>3, <1>6, Shows
<1> QED
  BY <1>4, <1>6, <1>7, <1>8 DEF PoolInv

LEMMA TogglePGNSection ==
  ASSUME PoolInv, togglePGNSection
  PROVE  PoolInv' /\ RunKept(local, local')
<1> DEFINE b == Last(game)
<1>1. PageOK /\ Sound(local) /\ evals \in [Boards -> Levels] /\ evalMode \in BOOLEAN /\ b \in Boards
  BY DisplayedIs DEF PoolInv, PageOK
<1>2. /\ game' = game /\ explored' = explored /\ evalMode' = evalMode
      /\ evals' = evals /\ worker' = worker
  BY DEF togglePGNSection, UserActs, UserTypes
<1>3. CASE pgnState = "null" /\ pgnState' = "input" /\ line' = line /\ ply' = ply /\ local' = local
  <2>1. ~Inline /\ ~Inline' /\ Displayed' = Displayed
    BY <1>2, <1>3 DEF Inline, Displayed
  <2>2. PageOK'
    BY <1>1, <1>2, <1>3, <2>1 DEF PageOK
  <2>3. Synced' /\ NothingForgotten'
    <3>1. Synced'
      BY <1>2, <1>3, <2>1 DEF PoolInv, Synced
    <3>2. \A p \in Boards : (Wanted(p)' => Wanted(p)) /\ (Done(p) => Done(p)')
      BY <1>2, <1>3, <2>1 DEF Wanted, Done
    <3>3. NothingForgotten'
      BY <1>2, <1>3, <3>2 DEF PoolInv, NothingForgotten
    <3> QED
      BY <3>1, <3>3
  <2>4. Sound(local') /\ RunKept(local, local')
    BY <1>1, <1>3 DEF RunKept
  <2> QED
    BY <2>2, <2>3, <2>4 DEF PoolInv
<1>4. CASE pgnState' = "null" /\ line' = <<>> /\ ply' = 1 /\ local' = LeavePGN
  <2>1. ~Inline' /\ Displayed' = b
    BY <1>2, <1>4 DEF Inline, Displayed
  <2>2. PageOK'
    BY <1>1, <1>2, <1>4, <2>1 DEF PageOK
  <2>3. /\ Sound(local') /\ RunKept(local, local')
        /\ evalMode => local'.boardKey = b /\ \A p \in ToSet(Children[b]) : Covered(local', p)
    BY <1>4, LeaveKeeps
  <2> HIDE DEF b
  <2>4. Synced' /\ NothingForgotten'
    BY <1>1, <1>2, <2>1, <2>3, Shows
  <2> QED
    BY <2>2, <2>3, <2>4 DEF PoolInv
<1>5. CASE /\ pgnState' = "input" /\ line' = line /\ ply' = ply
           /\ local' = renderBoard(local, Last(game))
  <2>1. ~Inline' /\ Displayed' = b
    BY <1>2, <1>5 DEF Inline, Displayed
  <2>2. PageOK'
    BY <1>1, <1>2, <1>5, <2>1 DEF PageOK
  <2>3. local' = requestBoth(local, b, evalMode)
    BY <1>5 DEF renderBoard
  <2> HIDE DEF b
  <2>4. /\ Sound(local') /\ RunKept(local, local')
        /\ evalMode => local'.boardKey = b /\ \A p \in ToSet(Children[b]) : Covered(local', p)
    BY <1>1, <2>3, BothKeep
  <2>5. Synced' /\ NothingForgotten'
    BY <1>1, <1>2, <2>1, <2>4, Shows
  <2> QED
    BY <2>2, <2>4, <2>5 DEF PoolInv
<1> QED
  BY <1>3, <1>4, <1>5 DEF togglePGNSection

LEMMA ToggleEvalMode ==
  ASSUME PoolInv, toggleEvalMode
  PROVE  PoolInv' /\ RunKept(local, local')
<1> DEFINE b == Displayed
<1>1. /\ PageOK /\ Sound(local) /\ evals \in [Boards -> Levels] /\ evalMode \in BOOLEAN
      /\ b \in Boards /\ Synced
  BY DisplayedIs DEF PoolInv, PageOK
<1>2. /\ game' = game /\ pgnState' = pgnState /\ line' = line /\ ply' = ply
      /\ explored' = explored /\ evalMode' = ~evalMode /\ evals' = evals /\ worker' = worker
      /\ local' = requestBoth(local, b, evalMode')
  BY DEF toggleEvalMode, UserActs
<1>3. evalMode' \in BOOLEAN /\ (Inline' <=> Inline) /\ Displayed' = b
  BY <1>1, <1>2 DEF Inline, Displayed, pgnDisplayBoard, Diverged
<1>4. PageOK'
  BY <1>1, <1>2, <1>3 DEF PageOK
<1> HIDE DEF b
<1>5. /\ Sound(local') /\ RunKept(local, local')
      /\ evalMode' => local'.boardKey = b /\ \A p \in ToSet(Children[b]) : Covered(local', p)
      /\ ~evalMode' \/ local.boardKey = b => Extends(local, local')
  BY <1>1, <1>2, <1>3, BothKeep
<1>6. Inline => local.boardKey = b
  BY <1>1 DEF Synced, b
<1>7. Synced'
  BY <1>3, <1>5, <1>6 DEF Synced, Extends
<1>8. NothingForgotten'
  <2> SUFFICES ASSUME AllReady(worker), NEW p \in Boards \ Fragile, Wanted(p)'
               PROVE  Done(p)' \/ local'.slots[p] # NoTag
    BY <1>2 DEF NothingForgotten
  <2>1. Covered(local', p) => Done(p)' \/ local'.slots[p] # NoTag
    BY <1>2 DEF Covered, Done
  <2>2. CASE evalMode' /\ p \in ToSet(Children[Displayed'])
    BY <1>3, <1>5, <2>1, <2>2
  <2>3. CASE Inline' /\ p \in ToSet(ChildrenOf(line'))
    <3>1. Wanted(p)
      BY <1>2, <1>3, <2>3 DEF Wanted
    <3>2. Covered(local, p)
      BY <3>1 DEF PoolInv, NothingForgotten, Covered, Done
    <3>3. Extends(local, local')
      BY <1>3, <1>5, <1>6, <2>3
    <3> QED
      BY <2>1, <3>2, <3>3, ExtendsKeeps
  <2> QED
    BY <2>2, <2>3 DEF Wanted
<1> QED
  BY <1>4, <1>5, <1>7, <1>8 DEF PoolInv

(* The pool and what is on screen stay as they are. *)
LEMMA Types ==
  ASSUME PoolInv, onPGNInput \/ RejectPGN
  PROVE  PoolInv' /\ RunKept(local, local')
<1>1. /\ local' = local /\ game' = game /\ pgnState' = pgnState /\ line' = line /\ ply' = ply
      /\ explored' = explored /\ evalMode' = evalMode /\ evals' = evals /\ worker' = worker
  BY DEF onPGNInput, UserTypes, RejectPGN
<1>2. PageOK'
  BY <1>1 DEF PoolInv, PageOK, Inline
<1>3. Synced' /\ NothingForgotten'
  BY <1>1 DEF PoolInv, Synced, NothingForgotten, Wanted, Done, Displayed, Inline, pgnDisplayBoard, Diverged
<1> QED
  BY <1>1, <1>2, <1>3 DEF PoolInv, RunKept

LEMMA PlyShown ==
  ASSUME PageOK, NEW l, Sound(l), RunKept(local, l), NEW b \in Boards, NEW diverged \in BOOLEAN,
         NEW boards \in Seq(Boards), line' = boards, local' = renderPly(l, boards, b, diverged),
         evals' = evals, evalMode' = evalMode, Displayed' = b
  PROVE  Sound(local') /\ RunKept(local, local') /\ Synced' /\ NothingForgotten'
<1> DEFINE m == renderPly(l, boards, b, diverged)
<1>1. evals \in [Boards -> Levels] /\ evalMode \in BOOLEAN
  BY DEF PageOK
<1>2. /\ Sound(m) /\ RunKept(l, m) /\ m.boardKey = b
      /\ \A p \in ToSet(ChildrenOf(boards)) : Covered(m, p)
      /\ evalMode => \A p \in ToSet(Children[b]) : Covered(m, p)
  BY <1>1, PlyKeeps
<1>3. local' = m
  OBVIOUS
<1> HIDE DEF m
<1>4. RunKept(local, m)
  BY <1>2, RunKeptMore
<1>5. \A p \in ToSet(ChildrenOf(line')) : Covered(local', p)
  BY <1>2, <1>3
<1>6. Synced' /\ NothingForgotten'
  BY <1>2, <1>3, <1>5, Shows
<1> QED
  BY <1>2, <1>3, <1>4, <1>6

LEMMA AnalyzePGN ==
  ASSUME PoolInv, NEW boards \in Lines, analyzePGN(boards)
  PROVE  PoolInv' /\ RunKept(local, local')
<1> DEFINE b == boards[1]
<1>1. PageOK /\ Sound(local)
  BY DEF PoolInv
<1>2. /\ pgnState' = "graph" /\ line' = boards /\ ply' = 1 /\ explored' = <<>>
      /\ local' = renderPly(abandonLine(local), boards, b, FALSE)
      /\ game' = game /\ evalMode' = evalMode /\ evals' = evals /\ worker' = worker
  BY DEF analyzePGN
<1>3. boards \in Seq(Boards) /\ 1 \in DOMAIN boards /\ b \in Boards
  <2>1. boards \in Seq(Boards) /\ boards # <<>>
    BY LocalEvalAssumption
  <2>2. Len(boards) \in Nat /\ Len(boards) # 0 /\ DOMAIN boards = 1..Len(boards)
    BY <2>1, LenProperties, EmptySeq
  <2>3. 1 \in DOMAIN boards
    BY <2>2
  <2> QED
    BY <2>1, <2>3, LenProperties
<1>4. Displayed' = b
  BY <1>2 DEF Displayed, Inline, pgnDisplayBoard, Diverged
<1>5. PageOK'
  BY <1>1, <1>2, <1>3 DEF PageOK
<1>6. Sound(abandonLine(local)) /\ RunKept(local, abandonLine(local))
  BY <1>1, AbandonKeeps
<1> HIDE DEF b
<1>7. Sound(local') /\ RunKept(local, local') /\ Synced' /\ NothingForgotten'
  BY <1>1, <1>2, <1>3, <1>4, <1>6, PlyShown
<1> QED
  BY <1>5, <1>7 DEF PoolInv

LEMMA Plies ==
  ASSUME PoolInv, UserActs, Inline, ~Diverged, NEW i, ShowPly(i)
  PROVE  PoolInv' /\ RunKept(local, local')
<1> DEFINE b == line[i]
<1>1. PageOK /\ Sound(local) /\ line \in Seq(Boards)
  BY DEF PoolInv, PageOK
<1>2. /\ i \in DOMAIN line /\ ply' = i /\ local' = renderPly(local, line, b, FALSE)
      /\ game' = game /\ pgnState' = pgnState /\ line' = line /\ explored' = explored
      /\ evalMode' = evalMode /\ evals' = evals /\ worker' = worker
  BY DEF ShowPly, UserActs
<1>3. b \in Boards /\ i \in Nat
  BY <1>1, <1>2, LenProperties
<1>4. Displayed' = b
  BY <1>2 DEF Displayed, Inline, pgnDisplayBoard, Diverged
<1>5. PageOK'
  BY <1>1, <1>2, <1>3 DEF PageOK, Inline
<1>6. RunKept(local, local)
  BY DEF RunKept
<1> HIDE DEF b
<1>7. Sound(local') /\ RunKept(local, local') /\ Synced' /\ NothingForgotten'
  BY <1>1, <1>2, <1>3, <1>4, <1>6, PlyShown
<1> QED
  BY <1>5, <1>7 DEF PoolInv

LEMMA GoBack ==
  ASSUME PoolInv, pgnGoBack
  PROVE  PoolInv' /\ RunKept(local, local')
<1>1. CASE ~Diverged
  BY <1>1, Plies DEF pgnGoBack
<1>2. CASE Diverged
  <2> DEFINE back == explored' # <<>>
             b == IF back THEN Last(explored') ELSE line[ply]
  <2>1. PageOK /\ Sound(local) /\ line \in Seq(Boards) /\ Inline
    BY DEF PoolInv, PageOK, pgnGoBack
  <2>2. /\ explored' = Front(explored) /\ local' = renderPly(local, line, b, back)
        /\ game' = game /\ pgnState' = pgnState /\ line' = line /\ ply' = ply
        /\ evalMode' = evalMode /\ evals' = evals /\ worker' = worker
    BY <1>2 DEF pgnGoBack, UserActs
  <2>3. explored' \in Seq(Boards)
    BY <1>2, <2>1, <2>2, EndsAre DEF PageOK, Diverged
  <2>4. b \in Boards /\ back \in BOOLEAN
    BY <2>1, <2>3, EndsAre, DisplayedIs DEF PageOK
  <2>5. Displayed' = b
    BY <2>1, <2>2 DEF Displayed, Inline, pgnDisplayBoard, Diverged
  <2>6. PageOK'
    BY <2>1, <2>2, <2>3 DEF PageOK, Inline
  <2>7. RunKept(local, local)
    BY DEF RunKept
  <2> HIDE DEF b, back
  <2>8. Sound(local') /\ RunKept(local, local') /\ Synced' /\ NothingForgotten'
    BY <2>1, <2>2, <2>4, <2>5, <2>7, PlyShown
  <2> QED
    BY <2>6, <2>8 DEF PoolInv
<1> QED
  BY <1>1, <1>2

LEMMA SquareClick ==
  ASSUME PoolInv, NEW b \in Boards, pgnOnSquareClick(b)
  PROVE  PoolInv' /\ RunKept(local, local')
<1>1. CASE ~Diverged /\ ply < Len(line) /\ b = line[ply + 1]
  BY <1>1, Plies DEF pgnOnSquareClick
<1>2. CASE ~(~Diverged /\ ply < Len(line) /\ b = line[ply + 1])
  <2>1. PageOK /\ Sound(local) /\ line \in Seq(Boards) /\ Inline
    BY DEF PoolInv, PageOK, pgnOnSquareClick
  <2>2. /\ explored' = Append(explored, b) /\ local' = renderPly(local, line, b, TRUE)
        /\ game' = game /\ pgnState' = pgnState /\ line' = line /\ ply' = ply
        /\ evalMode' = evalMode /\ evals' = evals /\ worker' = worker
    BY <1>2 DEF pgnOnSquareClick, UserActs
  <2>3. explored' \in Seq(Boards) /\ explored' # <<>> /\ Last(explored') = b
    BY <2>1, <2>2, EndsAre DEF PageOK
  <2>4. Displayed' = b
    BY <2>1, <2>2, <2>3 DEF Displayed, Inline, pgnDisplayBoard, Diverged
  <2>5. PageOK'
    BY <2>1, <2>2, <2>3 DEF PageOK, Inline
  <2>6. RunKept(local, local)
    BY DEF RunKept
  <2>7. Sound(local') /\ RunKept(local, local') /\ Synced' /\ NothingForgotten'
    BY <2>1, <2>2, <2>4, <2>6, PlyShown
  <2> QED
    BY <2>5, <2>7 DEF PoolInv
<1> QED
  BY <1>1, <1>2

LEMMA Polls ==
  ASSUME PoolInv, Poll
  PROVE  PoolInv' /\ RunKept(local, local')
<1> DEFINE b == Last(game)
<1>1. PageOK /\ Sound(local) /\ evals \in [Boards -> Levels] /\ b \in Boards /\ evalMode \in BOOLEAN
  BY DisplayedIs DEF PoolInv, PageOK
<1>2. /\ local' = requestBoth(local, b, evalMode) /\ ~Inline
      /\ game' = game /\ pgnState' = pgnState /\ line' = line /\ ply' = ply
      /\ explored' = explored /\ evalMode' = evalMode /\ evals' = evals /\ worker' = worker
  BY DEF Poll, page
<1>3. ~Inline' /\ Displayed' = b
  BY <1>2 DEF Inline, Displayed
<1>4. PageOK'
  BY <1>1, <1>2, <1>3 DEF PageOK
<1> HIDE DEF b
<1>5. /\ Sound(local') /\ RunKept(local, local')
      /\ evalMode => local'.boardKey = b /\ \A p \in ToSet(Children[b]) : Covered(local', p)
  BY <1>1, <1>2, BothKeep
<1>6. Synced' /\ NothingForgotten'
  BY <1>1, <1>2, <1>3, <1>5, Shows
<1> QED
  BY <1>4, <1>5, <1>6 DEF PoolInv

-----------------------------------------------------------------------------
(* Workers load.                                                           *)

LEMMA WorkerLoads ==
  ASSUME PoolInv, NEW i \in Workers, LoadReady(i)
  PROVE  PoolInv' /\ RunKept(local, local')
<1> DEFINE b == Displayed
           m == IF Inline THEN queueLine(local, line) ELSE local
<1>1. /\ PageOK /\ Sound(local) /\ evals \in [Boards -> Levels] /\ b \in Boards
      /\ evalMode \in BOOLEAN /\ line \in Seq(Boards) /\ Synced
  BY DisplayedIs DEF PoolInv, PageOK
<1>2. /\ worker' = [worker EXCEPT ![i] = "ready"]
      /\ local' = IF AllReady(worker') THEN requestMissing(m, b, evalMode) ELSE local
      /\ game' = game /\ pgnState' = pgnState /\ line' = line /\ ply' = ply
      /\ explored' = explored /\ evalMode' = evalMode /\ evals' = evals
  BY DEF LoadReady, page
<1>3. (Inline' <=> Inline) /\ Displayed' = b
  BY <1>2 DEF Inline, Displayed, pgnDisplayBoard, Diverged
<1>4. PageOK'
  BY <1>1, <1>2, <1>3 DEF PageOK
<1>5. evalMode \/ Inline => local.boardKey = b
  BY <1>1 DEF Synced
<1> HIDE DEF b
<1>6. CASE ~AllReady(worker')
  <2>1. local' = local
    BY <1>2, <1>6
  <2>2. Synced'
    BY <1>2, <1>3, <1>5, <2>1 DEF Synced
  <2>3. NothingForgotten'
    BY <1>6 DEF NothingForgotten
  <2> QED
    BY <1>1, <1>4, <2>1, <2>2, <2>3 DEF PoolInv, RunKept
<1>7. CASE AllReady(worker')
  <2>1. /\ Sound(m) /\ Extends(local, m)
        /\ Inline => \A p \in ToSet(ChildrenOf(line)) : Covered(m, p)
    <3>1. CASE Inline
      BY <1>1, <3>1, LineKeeps
    <3>2. CASE ~Inline
      BY <1>1, <3>2, ExtendsSelf
    <3> QED
      BY <3>1, <3>2
  <2> HIDE DEF m
  <2>2. m.boardKey = local.boardKey /\ RunKept(local, m)
    BY <2>1, ExtendsKeeps
  <2>3. local' = requestMissing(m, b, evalMode)
    BY <1>2, <1>7
  <2>4. /\ Sound(local') /\ RunKept(m, local')
        /\ evalMode => local'.boardKey = b /\ \A p \in ToSet(Children[b]) : Covered(local', p)
        /\ ~evalMode \/ m.boardKey = b => Extends(m, local')
    BY <1>1, <2>1, <2>3, MissingKeeps
  <2>5. Extends(m, local')
    BY <1>1, <1>5, <2>2, <2>4
  <2>6. evalMode \/ Inline => local'.boardKey = b
    BY <1>5, <2>2, <2>5 DEF Extends
  <2>7. Inline => \A p \in ToSet(ChildrenOf(line)) : Covered(local', p)
    <3>1. ToSet(ChildrenOf(line)) \subseteq Boards
      BY <1>1, ChildrenAre, LenProperties DEF ToSet
    <3> QED
      BY <2>1, <2>5, <3>1, ExtendsKeeps
  <2>8. Inline' => \A p \in ToSet(ChildrenOf(line')) : Covered(local', p)
    BY <1>2, <1>3, <2>7
  <2>9. Synced' /\ NothingForgotten'
    BY <1>1, <1>2, <1>3, <2>4, <2>6, <2>8, Shows
  <2>10. RunKept(local, local')
    BY <2>2, <2>4, RunKeptMore
  <2> QED
    BY <1>4, <2>4, <2>9, <2>10 DEF PoolInv
<1> QED
  BY <1>6, <1>7

LEMMA WorkerFails ==
  ASSUME PoolInv, NEW i \in Workers, LoadFails(i)
  PROVE  PoolInv' /\ RunKept(local, local')
<1>1. PageOK /\ worker \in [Workers -> {"loading", "ready", "failed"}]
  BY DEF PoolInv, PageOK
<1>2. /\ worker' = [worker EXCEPT ![i] = "failed"] /\ local' = local
      /\ game' = game /\ pgnState' = pgnState /\ line' = line /\ ply' = ply
      /\ explored' = explored /\ evalMode' = evalMode /\ evals' = evals
  BY DEF LoadFails, page
<1>3. PageOK'
  BY <1>1, <1>2 DEF PageOK, Inline
<1>4. Synced'
  BY <1>2 DEF PoolInv, Synced, Displayed, Inline, pgnDisplayBoard, Diverged
<1>5. ~AllReady(worker')
  <2>1. worker'[i] = "failed"
    BY <1>1, <1>2
  <2> QED
    BY <2>1 DEF AllReady
<1>6. NothingForgotten'
  BY <1>5 DEF NothingForgotten
<1> QED
  BY <1>2, <1>3, <1>4, <1>6 DEF PoolInv, RunKept

-----------------------------------------------------------------------------
(* A search ends.                                                          *)

Free(l, i) == [l EXCEPT !.running[i] = NoTask]

(* The position whose slot the ended search leaves without a next one *)
Between(l, task) == IF IsCurrent(l, task.tag) THEN {task.pos} ELSE {}

LEMMA FreeIs ==
  ASSUME NEW l \in Pools, NEW i \in Workers
  PROVE  /\ Free(l, i) \in Pools
         /\ Free(l, i).queue = l.queue /\ Free(l, i).slots = l.slots
         /\ Free(l, i).boardKey = l.boardKey
         /\ Free(l, i).generation = l.generation /\ Free(l, i).lineGeneration = l.lineGeneration
         /\ Free(l, i).running[i] = NoTask
         /\ \A w \in Workers : w # i => Free(l, i).running[w] = l.running[w]
<1> DEFINE m == Free(l, i)
<1>1. l.running \in [Workers -> Task \cup {NoTask}]
  BY PoolsAre
<1>2. m = [l EXCEPT !.running = [@ EXCEPT ![i] = NoTask]]
  BY DEF Free
<1>3. [l.running EXCEPT ![i] = NoTask] \in [Workers -> Task \cup {NoTask}]
  BY <1>1
<1> HIDE DEF m
<1>4. /\ m \in Pools /\ m.queue = l.queue /\ m.slots = l.slots /\ m.boardKey = l.boardKey
      /\ m.generation = l.generation /\ m.lineGeneration = l.lineGeneration
      /\ m.running = [l.running EXCEPT ![i] = NoTask]
  BY <1>2, <1>3 DEF Pools
<1>5. m.running[i] = NoTask /\ \A w \in Workers : w # i => m.running[w] = l.running[w]
  BY <1>1, <1>4
<1> QED
  BY <1>4, <1>5 DEF m

LEMMA FreeKeeps ==
  ASSUME NEW l \in Pools, Chains(l, {}), NEW i \in Workers, l.running[i] # NoTask
  PROVE  Chains(Free(l, i), Between(l, l.running[i])) /\ Between(l, l.running[i]) \in SUBSET Boards
<1> DEFINE m == Free(l, i)
           task == l.running[i]
           ex == Between(l, task)
<1>1. /\ m.queue = l.queue /\ m.slots = l.slots
      /\ m.generation = l.generation /\ m.lineGeneration = l.lineGeneration
      /\ m.running[i] = NoTask
      /\ \A w \in Workers : w # i => m.running[w] = l.running[w]
  BY FreeIs
<1> HIDE DEF m
<1>2. BoardTag(m) = BoardTag(l) /\ LineTag(m) = LineTag(l)
      /\ \A tag : IsCurrent(m, tag) <=> IsCurrent(l, tag)
  BY <1>1, SameTags
<1>3. ~Live(m, i) /\ \A w \in Workers : w # i => (Live(m, w) <=> Live(l, w))
  BY <1>1, <1>2 DEF Live
<1>4. task \in Task /\ task.pos \in Boards
  BY PoolsAre
<1>5. \A p \in ex : Live(l, i) /\ p = task.pos
  BY DEF Between, Live
<1>6. Live(l, i) => ex = {task.pos}
  BY DEF Live, Between
<1> HIDE DEF ex
<1>7. SlotsCurrent(m)
  BY <1>1, <1>2 DEF SlotsCurrent, Chains
<1>8. QueueHeld(m, ex)
  <2>1. \A j \in DOMAIN l.queue :
          IsCurrent(l, l.queue[j].tag) /\ l.slots[l.queue[j].pos] = l.queue[j].tag
    BY DEF QueueHeld, Chains
  <2>2. \A j \in DOMAIN l.queue : l.queue[j].pos \notin ex
    BY <1>5 DEF QueuedOrRun, Chains
  <2> QED
    BY <1>1, <1>2, <2>1, <2>2 DEF QueueHeld
<1>9. RunHeld(m, ex)
  <2>1. \A w \in Workers : Live(l, w) => l.slots[l.running[w].pos] = l.running[w].tag
    BY DEF RunHeld, Chains
  <2>2. \A w \in Workers : w # i /\ Live(l, w) => l.running[w].pos \notin ex
    BY <1>5 DEF RunOnce, Chains
  <2> QED
    BY <1>1, <1>3, <2>1, <2>2 DEF RunHeld
<1>10. QueuedOnce(m)
  BY <1>1 DEF QueuedOnce, Chains
<1>11. RunOnce(m)
  BY <1>1, <1>3 DEF RunOnce, Chains
<1>12. QueuedOrRun(m)
  BY <1>1, <1>3 DEF QueuedOrRun, Chains
<1>13. AtWork(m, ex)
  <2> SUFFICES ASSUME NEW p \in Boards, l.slots[p] # NoTag, p \notin ex
               PROVE  \/ \E j \in DOMAIN l.queue : l.queue[j].pos = p
                      \/ \E w \in Workers : Live(m, w) /\ m.running[w].pos = p
    BY <1>1 DEF AtWork
  <2>1. \/ \E j \in DOMAIN l.queue : l.queue[j].pos = p
        \/ \E w \in Workers : Live(l, w) /\ l.running[w].pos = p
    BY DEF AtWork, Chains
  <2>2. ASSUME NEW w \in Workers, Live(l, w), l.running[w].pos = p
        PROVE  Live(m, w) /\ m.running[w].pos = p
    <3>1. w # i
      BY <1>6, <2>2
    <3> QED
      BY <1>1, <1>3, <2>2, <3>1
  <2> QED
    BY <2>1, <2>2
<1>14. Issued(m)
  BY <1>1 DEF Issued, Chains
<1>15. Chains(m, ex)
  BY <1>7, <1>8, <1>9, <1>10, <1>11, <1>12, <1>13, <1>14 DEF Chains
<1> QED
  BY <1>4, <1>5, <1>15 DEF m, ex

(* A worker that is free again while visible searches wait that it may run *)
(* is given one of them.                                                   *)
LEMMA VisibleTaken ==
  ASSUME NEW l, Sound(l), NEW i \in Workers,
         NEW j0 \in DOMAIN l.queue, MayRun(i, l.queue[j0]), ~l.queue[j0].prefetch
  PROVE  /\ dispatch(Free(l, i)).running[i] # NoTask
         /\ ~dispatch(Free(l, i)).running[i].prefetch
<1> DEFINE m == Free(l, i)
<1>1. l \in Pools /\ NoIdle(l)
  BY DEF Sound
<1>2. /\ m \in Pools /\ m.queue = l.queue /\ m.running[i] = NoTask
      /\ \A w \in Workers : w # i => m.running[w] = l.running[w]
  BY <1>1, FreeIs
<1> HIDE DEF m
<1>3. PICK y \in [0..NumWorkers -> Pools] :
        /\ y[0] = m /\ dispatch(m) = y[NumWorkers]
        /\ \A n \in 1..NumWorkers : y[n] = Give(y[n - 1], n - 1)
  <2>1. \A x \in Pools : \A w \in Workers : Give(x, w) \in Pools
    BY GiveKeeps
  <2>2. Pools \in SUBSET Pools /\ m \in Pools
    BY <1>2
  <2> HIDE DEF Pools
  <2> QED
    BY <2>1, <2>2, DispatchSteps
<1>4. NumWorkers \in Nat /\ i \in Nat /\ i < NumWorkers
  BY LocalEvalAssumption, WorkersAre
<1> DEFINE Given(x) == x.running[i] # NoTask /\ ~x.running[i].prefetch
<1>5. ASSUME NEW w \in Workers, w # i PROVE Give(m, w) = m
  <2>1. \A k \in DOMAIN m.queue : m.running[w] = NoTask => ~MayRun(w, m.queue[k])
    BY <1>1, <1>2, <1>5 DEF NoIdle
  <2>2. \A k \in DOMAIN m.queue : ~Gives(m, w, k, Give(m, w))
    BY <2>1 DEF Gives
  <2> QED
    BY <1>2, <2>2, GiveIs
<1>6. Given(Give(m, i))
  <2>1. PICK k \in DOMAIN m.queue : Gives(m, i, k, Give(m, i))
    BY <1>2, GiveIs
  <2>2. ~m.queue[k].prefetch
    BY <1>2, <2>1 DEF Gives
  <2>3. Give(m, i).running[i] = m.queue[k] /\ Give(m, i).running[i] \in Task
    BY <1>2, <2>1, GivesIs
  <2> QED
    BY <2>2, <2>3, NotATask
<1> DEFINE T == {n \in Nat : n <= NumWorkers => (n <= i /\ y[n] = m) \/ (n > i /\ Given(y[n]))}
<1>7. 0 \in T
  BY <1>3, <1>4
<1>8. ASSUME NEW n \in T PROVE n + 1 \in T
  <2> SUFFICES ASSUME n + 1 <= NumWorkers
               PROVE  (n + 1 <= i /\ y[n + 1] = m) \/ (n + 1 > i /\ Given(y[n + 1]))
    OBVIOUS
  <2>1. n \in Nat /\ n \in Workers /\ n \in 0..NumWorkers /\ n + 1 \in 1..NumWorkers
        /\ (n + 1) - 1 = n
    BY <1>4, WorkersAre
  <2>2. y[n + 1] = Give(y[n], n) /\ y[n] \in Pools
    BY <1>3, <2>1
  <2> HIDE DEF Given
  <2>3. (n <= i /\ y[n] = m) \/ (n > i /\ Given(y[n]))
    BY <1>4, <2>1
  <2>4. CASE n < i
    <3>1. y[n] = m /\ n + 1 <= i /\ n # i
      BY <1>4, <2>1, <2>3, <2>4
    <3> QED
      BY <1>5, <2>1, <2>2, <3>1
  <2>5. CASE n = i
    <3>1. y[n] = m /\ n + 1 > i
      BY <1>4, <2>1, <2>3, <2>5
    <3> QED
      BY <1>6, <2>2, <2>5, <3>1
  <2>6. CASE n > i
    <3>1. Given(y[n]) /\ n + 1 > i
      BY <1>4, <2>1, <2>3, <2>6
    <3>2. Extends(y[n], Give(y[n], n))
      BY <2>1, <2>2, GiveKeeps
    <3>3. Given(y[n + 1])
      BY <2>2, <3>1, <3>2 DEF Given, Extends
    <3> QED
      BY <3>1, <3>3
  <2> QED
    BY <1>4, <2>1, <2>4, <2>5, <2>6
<1>9. T \in SUBSET Nat
  OBVIOUS
<1>10. \A n \in Nat : n \in T
  <2> HIDE DEF T
  <2> QED
    BY <1>7, <1>8, <1>9, SetInduction
<1>11. Given(y[NumWorkers])
  <2> HIDE DEF Given
  <2> QED
    BY <1>4, <1>10
<1> QED
  BY <1>3, <1>11 DEF m

LEMMA ClearKeeps ==
  ASSUME NEW l \in Pools, NoIdle(l), NEW task \in Task,
         l.slots[task.pos] = task.tag => Chains(l, {task.pos}),
         l.slots[task.pos] # task.tag => Chains(l, {})
  PROVE  /\ Sound(clearPending(l, task))
         /\ RunKept(l, clearPending(l, task))
         /\ clearPending(l, task).boardKey = l.boardKey
         /\ \A p \in Boards : l.slots[p] # NoTag /\ (p = task.pos => l.slots[p] # task.tag)
              => clearPending(l, task).slots[p] # NoTag
<1> DEFINE p0 == task.pos
           m == [l EXCEPT !.slots[task.pos] = NoTag]
<1>1. p0 \in Boards /\ l.slots \in [Boards -> Tag \cup {NoTag}]
  BY PoolsAre DEF Task
<1>2. CASE l.slots[p0] # task.tag
  <2>1. clearPending(l, task) = l
    BY <1>2 DEF clearPending
  <2>2. Sound(l) /\ RunKept(l, l)
    BY <1>2 DEF Sound, RunKept
  <2> QED
    BY <1>2, <2>1, <2>2
<1>3. CASE l.slots[p0] = task.tag
  <2>1. clearPending(l, task) = m
    BY <1>3 DEF clearPending
  <2>2. Chains(l, {p0})
    BY <1>3
  <2>3. m = [l EXCEPT !.slots = [@ EXCEPT ![p0] = NoTag]]
    OBVIOUS
  <2>4. [l.slots EXCEPT ![p0] = NoTag] \in [Boards -> Tag \cup {NoTag}]
    BY <1>1
  <2> HIDE DEF m
  <2>5. /\ m \in Pools /\ m.queue = l.queue /\ m.running = l.running /\ m.boardKey = l.boardKey
        /\ m.generation = l.generation /\ m.lineGeneration = l.lineGeneration
        /\ m.slots = [l.slots EXCEPT ![p0] = NoTag]
    BY <2>3, <2>4 DEF Pools
  <2> HIDE DEF p0
  <2>6. m.slots[p0] = NoTag /\ \A p \in Boards : p # p0 => m.slots[p] = l.slots[p]
    BY <1>1, <2>5
  <2>7. BoardTag(m) = BoardTag(l) /\ LineTag(m) = LineTag(l)
        /\ \A t : IsCurrent(m, t) <=> IsCurrent(l, t)
    BY <2>5, SameTags
  <2>8. \A w \in Workers : Live(m, w) <=> Live(l, w)
    BY <2>5, <2>7 DEF Live
  <2>9. \A w \in Workers : Live(l, w) => l.running[w].pos \in Boards
    BY PoolsAre DEF Live
  <2>10. \A j \in DOMAIN l.queue : l.queue[j].pos \in Boards
    BY PoolsAre
  <2>11. SlotsCurrent(m)
    BY <2>2, <2>6, <2>7 DEF SlotsCurrent, Chains
  <2>12. QueueHeld(m, {})
    BY <2>2, <2>5, <2>6, <2>7, <2>10 DEF QueueHeld, Chains
  <2>13. RunHeld(m, {})
    BY <2>2, <2>5, <2>6, <2>8, <2>9 DEF RunHeld, Chains
  <2>14. QueuedOnce(m) /\ RunOnce(m) /\ QueuedOrRun(m)
    BY <2>2, <2>5, <2>8 DEF QueuedOnce, RunOnce, QueuedOrRun, Chains
  <2>15. AtWork(m, {})
    <3> SUFFICES ASSUME NEW p \in Boards, m.slots[p] # NoTag
                 PROVE  \/ \E j \in DOMAIN l.queue : l.queue[j].pos = p
                        \/ \E w \in Workers : Live(l, w) /\ l.running[w].pos = p
      BY <2>5, <2>8 DEF AtWork
    <3>1. p # p0 /\ l.slots[p] # NoTag
      BY <2>6
    <3> QED
      BY <2>2, <3>1 DEF AtWork, Chains
  <2>16. Issued(m)
    BY <2>2, <2>5 DEF Issued, Chains
  <2>17. Chains(m, {})
    BY <2>11, <2>12, <2>13, <2>14, <2>15, <2>16 DEF Chains
  <2>18. NoIdle(m)
    BY <2>5 DEF NoIdle
  <2>19. \A p \in Boards : l.slots[p] # NoTag /\ (p = p0 => l.slots[p] # task.tag) => m.slots[p] # NoTag
    BY <1>3, <2>6 DEF p0
  <2> QED
    BY <2>1, <2>5, <2>17, <2>18, <2>19 DEF Sound, RunKept, p0
<1> QED
  BY <1>2, <1>3

(* Worker i has ended a search, and what it does next *)
Resumed(l, i, m) ==
  /\ \A w \in Workers : w # i /\ l.running[w] # NoTask => m.running[w] = l.running[w]
  /\ (\E j \in DOMAIN l.queue : MayRun(i, l.queue[j]) /\ ~l.queue[j].prefetch)
       => m.running[i] # NoTask /\ ~m.running[i].prefetch

LEMMA FreedIs ==
  ASSUME Sound(local), NEW i \in Workers, local.running[i] # NoTask
  PROVE  /\ Freed(i) \in Pools /\ NoIdle(Freed(i))
         /\ Freed(i).slots = local.slots /\ Freed(i).boardKey = local.boardKey
         /\ Chains(Freed(i), Between(local, local.running[i]))
         /\ Resumed(local, i, Freed(i))
<1> DEFINE m == Free(local, i)
           ex == Between(local, local.running[i])
<1>1. local \in Pools /\ Chains(local, {})
  BY DEF Sound
<1>2. /\ m \in Pools /\ m.slots = local.slots /\ m.boardKey = local.boardKey
      /\ \A w \in Workers : w # i => m.running[w] = local.running[w]
  BY <1>1, FreeIs
<1>3. Chains(m, ex) /\ ex \in SUBSET Boards
  BY <1>1, FreeKeeps
<1>4. Freed(i) = dispatch(m)
  BY DEF Freed, Free
<1>5. \A j \in DOMAIN local.queue : MayRun(i, local.queue[j]) /\ ~local.queue[j].prefetch
        => dispatch(m).running[i] # NoTask /\ ~dispatch(m).running[i].prefetch
  BY VisibleTaken
<1> HIDE DEF m, ex
<1>6. /\ dispatch(m) \in Pools /\ Extends(m, dispatch(m)) /\ dispatch(m).slots = m.slots
      /\ Chains(dispatch(m), ex) /\ NoIdle(dispatch(m))
  BY <1>2, <1>3, DispatchKeeps
<1>7. Resumed(local, i, dispatch(m))
  BY <1>2, <1>5, <1>6 DEF Resumed, Extends
<1> QED
  BY <1>2, <1>4, <1>6, <1>7 DEF Extends, ex

LEMMA ResumedMore ==
  ASSUME NEW l, NEW i \in Workers, NEW m, NEW n, Resumed(l, i, m), RunKept(m, n),
         \A w \in Workers : l.running[w] # NoTask /\ w # i => m.running[w] # NoTask
  PROVE  Resumed(l, i, n)
BY DEF Resumed, RunKept

LEMMA StoredIs ==
  ASSUME NEW e \in Levels, NEW n \in LOCAL_EVAL_LEVELS
  PROVE  Stored(e, n) \in Levels /\ Stored(e, n) >= e /\ Stored(e, n) >= n
<1>1. {e, n} \in SUBSET 0..17 /\ {e, n} # {} /\ 17 \in Nat
  BY DEF Levels, LOCAL_EVAL_LEVELS, Server
<1>2. Max({e, n}) \in {e, n} /\ \A x \in {e, n} : Max({e, n}) >= x
  BY <1>1, MaxIs
<1> QED
  BY <1>2 DEF Stored, Levels

LEMMA SearchEnds ==
  ASSUME PoolInv, NEW i \in Workers, Result(i)
  PROVE  PoolInv' /\ Resumed(local, i, local')
<1> DEFINE task == local.running[i]
           p == task.pos
           next == Deeper(p, task.level)
           d == Freed(i)
           ex == Between(local, task)
<1>1. /\ PageOK /\ Sound(local) /\ local \in Pools /\ Chains(local, {})
      /\ evals \in [Boards -> Levels] /\ local.running[i] # NoTask
  BY DEF PoolInv, Sound, PageOK, Result, Answers
<1>2. task \in Task /\ p \in Boards /\ task.level \in LOCAL_EVAL_LEVELS /\ task.tag \in Tag
  BY <1>1, PoolsAre DEF Task
<1>3. /\ evals' = [evals EXCEPT ![p] = Stored(@, task.level)]
      /\ local' = IF evals[p] # Server /\ next # {} /\ IsCurrent(local, task.tag)
                  THEN evaluate(d, [task EXCEPT !.level = Min(next)])
                  ELSE clearPending(d, task)
      /\ game' = game /\ pgnState' = pgnState /\ line' = line /\ ply' = ply
      /\ explored' = explored /\ evalMode' = evalMode /\ worker' = worker
  BY DEF Result, page
<1>4. /\ d \in Pools /\ NoIdle(d) /\ d.slots = local.slots /\ d.boardKey = local.boardKey
      /\ Chains(d, ex) /\ Resumed(local, i, d)
  BY <1>1, FreedIs
<1>5. IsCurrent(local, task.tag) <=> local.slots[p] = task.tag
  <2>1. ASSUME IsCurrent(local, task.tag) PROVE local.slots[p] = task.tag
    BY <1>1, <2>1 DEF Chains, RunHeld, Live
  <2>2. ASSUME local.slots[p] = task.tag PROVE IsCurrent(local, task.tag)
    BY <1>1, <1>2, <2>2, NotATask DEF Chains, SlotsCurrent, IsCurrent
  <2> QED
    BY <2>1, <2>2
<1>6. /\ IsCurrent(local, task.tag) => ex = {p}
      /\ ~IsCurrent(local, task.tag) => ex = {}
  BY DEF Between
<1>7. /\ evals' \in [Boards -> Levels] /\ evals'[p] >= task.level
      /\ \A q \in Boards : evals'[q] >= evals[q]
  <2>1. /\ Stored(evals[p], task.level) \in Levels /\ Stored(evals[p], task.level) >= task.level
        /\ Stored(evals[p], task.level) >= evals[p]
    BY <1>1, <1>2, StoredIs
  <2>2. evals' = [evals EXCEPT ![p] = Stored(evals[p], task.level)]
    BY <1>3
  <2>3. \A q \in Boards : evals[q] >= evals[q]
    BY <1>1 DEF Levels, LOCAL_EVAL_LEVELS, Server
  <2> HIDE DEF p, task
  <2> QED
    BY <1>1, <1>2, <2>1, <2>2, <2>3
<1> DEFINE more == evals[p] # Server /\ next # {} /\ IsCurrent(local, task.tag)
<1> DEFINE task2 == [task EXCEPT !.level = Min(next)]
<1>8. ASSUME more
      PROVE  /\ Sound(local') /\ RunKept(d, local') /\ local'.boardKey = local.boardKey
             /\ \A q \in Boards : local.slots[q] # NoTag => local'.slots[q] # NoTag
  <2>1. task2 \in Task /\ task2.pos = p /\ task2.tag = task.tag
    <3>1. task.level \in Levels
      BY <1>2 DEF Levels
    <3>2. Min(next) \in LOCAL_EVAL_LEVELS
      BY <1>2, <1>8, <3>1, DeeperIs
    <3> HIDE DEF next
    <3> QED
      BY <1>2, <3>2 DEF Task
  <2>2. ex = {p} /\ local.slots[p] = task.tag /\ local' = evaluate(d, task2)
    BY <1>3, <1>5, <1>6, <1>8
  <2> HIDE DEF task2, task, d, ex, p
  <2>3. {p} \in SUBSET Boards /\ {p} \ {p} = {}
    BY <1>2
  <2>4. /\ evaluate(d, task2) \in Pools /\ Extends(d, evaluate(d, task2))
        /\ Chains(evaluate(d, task2), {p} \ {task2.pos}) /\ NoIdle(evaluate(d, task2))
    BY <1>4, <2>1, <2>2, <2>3, EvaluateKeeps
  <2>5. Sound(local')
    BY <2>1, <2>2, <2>3, <2>4 DEF Sound
  <2> QED
    BY <1>4, <2>2, <2>4, <2>5 DEF Extends, RunKept
<1>9. ASSUME ~more
      PROVE  /\ Sound(local') /\ RunKept(d, local') /\ local'.boardKey = local.boardKey
             /\ \A q \in Boards : local.slots[q] # NoTag /\ (q = p => local.slots[q] # task.tag)
                  => local'.slots[q] # NoTag
  <2>1. local' = clearPending(d, task)
    BY <1>3, <1>9
  <2>2. /\ d.slots[task.pos] = task.tag => Chains(d, {task.pos})
        /\ d.slots[task.pos] # task.tag => Chains(d, {})
    BY <1>4, <1>5, <1>6
  <2> HIDE DEF task, d
  <2> QED
    BY <1>2, <1>4, <2>1, <2>2, ClearKeeps
<1>10. Sound(local') /\ RunKept(d, local') /\ local'.boardKey = local.boardKey
  BY <1>8, <1>9
<1>11. PageOK'
  BY <1>1, <1>3, <1>7 DEF PageOK, Inline
<1>12. Synced'
  <2>1. Displayed' = Displayed /\ (Inline' <=> Inline)
    BY <1>3 DEF Displayed, Inline, pgnDisplayBoard, Diverged
  <2> QED
    BY <1>3, <1>10, <2>1 DEF PoolInv, Synced
<1>13. NothingForgotten'
  <2> SUFFICES ASSUME AllReady(worker), NEW q \in Boards \ Fragile, Wanted(q)'
               PROVE  Done(q)' \/ local'.slots[q] # NoTag
    BY <1>3 DEF NothingForgotten
  <2>1. Wanted(q)
    BY <1>3 DEF Wanted, Displayed, Inline, pgnDisplayBoard, Diverged
  <2>2. Done(q) \/ local.slots[q] # NoTag
    BY <2>1 DEF PoolInv, NothingForgotten
  <2>3. /\ Deepest(q) \in Nat /\ Deepest(q) <= Server
        /\ evals[q] \in Nat /\ evals'[q] \in Nat /\ evals'[q] >= evals[q]
        /\ task.level \in Nat
    <3>1. Deepest(q) \in LOCAL_EVAL_LEVELS /\ evals[q] \in Levels
      BY <1>1, LadderIs
    <3>2. \A n \in Levels : n \in Nat
      BY DEF Levels, LOCAL_EVAL_LEVELS, Server
    <3>3. Deepest(q) <= Server
      BY <3>1, DeeperIs
    <3>4. LOCAL_EVAL_LEVELS \subseteq Levels
      BY DEF Levels
    <3> QED
      BY <1>2, <1>7, <3>1, <3>2, <3>3, <3>4
  <2>4. CASE Done(q)
    BY <2>3, <2>4 DEF Done
  <2>5. CASE local.slots[q] # NoTag /\ (more \/ (q = p => local.slots[q] # task.tag))
    BY <1>8, <1>9, <2>5
  <2>6. CASE ~more /\ q = p /\ local.slots[q] = task.tag
    <3>1. IsCurrent(local, task.tag)
      BY <1>5, <2>6
    <3>2. evals[p] = Server \/ next = {}
      BY <2>6, <3>1
    <3>3. CASE evals[p] = Server
      BY <2>3, <2>6, <3>3 DEF Done, Server
    <3>4. CASE next = {}
      <4>1. task.level >= Deepest(p)
        <5>1. task.level \in Levels
          BY <1>2 DEF Levels
        <5> QED
          BY <1>2, <3>4, <5>1, DeeperIs
      <4> QED
        BY <1>7, <2>3, <2>6, <4>1 DEF Done
    <3> QED
      BY <3>2, <3>3, <3>4
  <2> QED
    BY <2>2, <2>4, <2>5, <2>6
<1>14. Resumed(local, i, local')
  <2>1. \A w \in Workers : local.running[w] # NoTask /\ w # i => d.running[w] # NoTask
    BY <1>4 DEF Resumed
  <2> HIDE DEF d
  <2> QED
    BY <1>4, <1>10, <2>1, ResumedMore
<1> QED
  BY <1>10, <1>11, <1>12, <1>13, <1>14 DEF PoolInv

LEMMA SearchFails ==
  ASSUME PoolInv, NEW i \in Workers, Error(i)
  PROVE  PoolInv' /\ Resumed(local, i, local')
<1> DEFINE task == local.running[i]
           p == task.pos
           d == Freed(i)
           ex == Between(local, task)
<1>1. /\ PageOK /\ Sound(local) /\ local \in Pools /\ Chains(local, {})
      /\ local.running[i] # NoTask
  BY DEF PoolInv, Sound, Error, Answers
<1>2. task \in Task /\ p \in Boards /\ task.tag \in Tag
  BY <1>1, PoolsAre
<1>3. /\ local' = clearPending(d, task) /\ p \in Fragile
      /\ game' = game /\ pgnState' = pgnState /\ line' = line /\ ply' = ply
      /\ explored' = explored /\ evalMode' = evalMode /\ worker' = worker /\ evals' = evals
  BY DEF Error, page
<1>4. /\ d \in Pools /\ NoIdle(d) /\ d.slots = local.slots /\ d.boardKey = local.boardKey
      /\ Chains(d, ex) /\ Resumed(local, i, d)
  BY <1>1, FreedIs
<1>5. /\ d.slots[task.pos] = task.tag => Chains(d, {task.pos})
      /\ d.slots[task.pos] # task.tag => Chains(d, {})
  <2>1. IsCurrent(local, task.tag) => local.slots[p] = task.tag
    BY <1>1 DEF Chains, RunHeld, Live
  <2>2. local.slots[p] = task.tag => IsCurrent(local, task.tag)
    BY <1>1, <1>2, NotATask DEF Chains, SlotsCurrent, IsCurrent
  <2> QED
    BY <1>4, <2>1, <2>2 DEF Between
<1> HIDE DEF task, d
<1>6. /\ Sound(local') /\ RunKept(d, local') /\ local'.boardKey = local.boardKey
      /\ \A q \in Boards : local.slots[q] # NoTag /\ (q = p => local.slots[q] # task.tag)
           => local'.slots[q] # NoTag
  BY <1>2, <1>3, <1>4, <1>5, ClearKeeps
<1>7. PageOK'
  BY <1>1, <1>3 DEF PageOK, Inline
<1>8. Displayed' = Displayed /\ (Inline' <=> Inline) /\ \A q : Wanted(q)' <=> Wanted(q)
  BY <1>3 DEF Displayed, Inline, pgnDisplayBoard, Diverged, Wanted
<1>9. Synced'
  BY <1>3, <1>6, <1>8 DEF PoolInv, Synced
<1>10. NothingForgotten'
  <2> SUFFICES ASSUME AllReady(worker), NEW q \in Boards \ Fragile, Wanted(q)'
               PROVE  Done(q)' \/ local'.slots[q] # NoTag
    BY <1>3 DEF NothingForgotten
  <2>1. Done(q) \/ local.slots[q] # NoTag
    BY <1>8 DEF PoolInv, NothingForgotten
  <2>2. Done(q) => Done(q)'
    BY <1>3 DEF Done
  <2>3. q # p
    BY <1>3
  <2> QED
    BY <1>6, <2>1, <2>2, <2>3
<1>11. Resumed(local, i, local')
  <2>1. \A w \in Workers : local.running[w] # NoTask /\ w # i => d.running[w] # NoTask
    BY <1>4 DEF Resumed
  <2> QED
    BY <1>4, <1>6, <2>1, ResumedMore
<1> QED
  BY <1>6, <1>7, <1>9, <1>10, <1>11 DEF PoolInv

LEMMA ServerAnswers ==
  ASSUME PoolInv, NEW p \in Boards, handleEvaluations(p)
  PROVE  PoolInv' /\ RunKept(local, local')
<1>1. PageOK /\ Sound(local) /\ evals \in [Boards -> Levels]
  BY DEF PoolInv, PageOK
<1>2. /\ evals' = [evals EXCEPT ![p] = Server] /\ local' = local
      /\ game' = game /\ pgnState' = pgnState /\ line' = line /\ ply' = ply
      /\ explored' = explored /\ evalMode' = evalMode /\ worker' = worker
  BY DEF handleEvaluations, page
<1>3. evals' \in [Boards -> Levels]
  BY <1>1, <1>2 DEF Levels
<1>4. PageOK'
  BY <1>1, <1>2, <1>3 DEF PageOK, Inline
<1>5. Displayed' = Displayed /\ (Inline' <=> Inline) /\ \A q : Wanted(q)' <=> Wanted(q)
  BY <1>2 DEF Displayed, Inline, pgnDisplayBoard, Diverged, Wanted
<1>6. Synced'
  BY <1>2, <1>5 DEF PoolInv, Synced
<1>7. \A q \in Boards : Done(q) => Done(q)'
  <2> SUFFICES ASSUME NEW q \in Boards, Done(q) PROVE evals'[q] >= Deepest(q)
    BY DEF Done
  <2>1. Deepest(q) \in LOCAL_EVAL_LEVELS
    BY LadderIs
  <2>2. Server >= Deepest(q)
    BY <2>1 DEF LOCAL_EVAL_LEVELS, Server
  <2> QED
    BY <1>1, <1>2, <2>2 DEF Done
<1>8. NothingForgotten'
  BY <1>2, <1>5, <1>7 DEF PoolInv, NothingForgotten
<1> QED
  BY <1>1, <1>2, <1>4, <1>6, <1>8 DEF PoolInv, RunKept

-----------------------------------------------------------------------------
(* The theorems                                                            *)

LEMMA InitIs == PoolInit => PoolInv
<1> SUFFICES ASSUME PoolInit PROVE PoolInv
  OBVIOUS
<1> USE DEF PoolInit
<1>1. Start \in Boards
  BY LocalEvalAssumption
<1>2. <<>> \in Seq(Task) /\ <<>> \in Seq(Boards) /\ <<Start>> \in Seq(Boards) /\ <<Start>> # <<>>
  BY <1>1
<1>3. /\ local.queue = <<>> /\ local.running = [i \in Workers |-> NoTask]
      /\ local.slots = [p \in Boards |-> NoTag] /\ local.boardKey = Start
      /\ local.generation = 1 /\ local.lineGeneration = 0
  OBVIOUS
<1>4. local \in Pools
  BY <1>1, <1>2 DEF Pools
<1>5. DOMAIN local.queue = {} /\ \A i \in Workers : local.running[i] = NoTask
  BY <1>3
<1>6. Chains(local, {})
  BY <1>3, <1>5 DEF Chains, SlotsCurrent, QueueHeld, RunHeld, QueuedOnce, RunOnce, QueuedOrRun,
                    AtWork, Issued, Live
<1>7. NoIdle(local)
  BY <1>5 DEF NoIdle
<1>8. ~Inline /\ Displayed = Start
  BY DEF Inline, Displayed, Last
<1>9. PageOK
  BY <1>2, <1>8 DEF PageOK, Levels
<1>10. Synced
  BY <1>3, <1>8 DEF Synced
<1>11. NothingForgotten
  <2>1. 0 \in Workers /\ worker[0] = "loading"
    BY WorkersAre
  <2>2. ~AllReady(worker)
    BY <2>1 DEF AllReady
  <2> QED
    BY <2>2 DEF NothingForgotten
<1> QED
  BY <1>4, <1>6, <1>7, <1>9, <1>10, <1>11 DEF PoolInv, Sound

LEMMA NextKeeps ==
  ASSUME PoolInv, [PoolNext]_poolVars
  PROVE  /\ PoolInv'
         /\ RunKept(local, local') \/ \E i \in Workers : Resumed(local, i, local')
<1>1. CASE UNCHANGED poolVars
  <2>1. /\ local' = local /\ game' = game /\ pgnState' = pgnState /\ line' = line /\ ply' = ply
        /\ explored' = explored /\ evalMode' = evalMode /\ worker' = worker /\ evals' = evals
    BY <1>1 DEF poolVars, page
  <2>2. PageOK'
    BY <2>1 DEF PoolInv, PageOK, Inline
  <2>3. Synced' /\ NothingForgotten'
    BY <2>1 DEF PoolInv, Synced, NothingForgotten, Wanted, Done, Displayed, Inline, pgnDisplayBoard, Diverged
  <2> QED
    BY <2>1, <2>2, <2>3 DEF PoolInv, RunKept
<1>2. ASSUME NEW b \in Boards, onCellClick(b) PROVE PoolInv' /\ RunKept(local, local')
  BY <1>2, CellClick
<1>3. ASSUME NEW b \in Boards, pgnOnSquareClick(b) PROVE PoolInv' /\ RunKept(local, local')
  BY <1>3, SquareClick
<1>4. CASE undoMove
  BY <1>4, UndoMove
<1>5. CASE newGame
  BY <1>5, NewGame
<1>6. CASE togglePGNSection
  BY <1>6, TogglePGNSection
<1>7. CASE onPGNInput \/ RejectPGN
  BY <1>7, Types
<1>8. CASE pgnGoForward
  BY <1>8, Plies DEF pgnGoForward
<1>9. CASE pgnGoBack
  BY <1>9, GoBack
<1>10. CASE toggleEvalMode
  BY <1>10, ToggleEvalMode
<1>11. ASSUME NEW boards \in Lines, analyzePGN(boards) PROVE PoolInv' /\ RunKept(local, local')
  BY <1>11, AnalyzePGN
<1>12. CASE Poll
  BY <1>12, Polls
<1>13. ASSUME NEW i \in Workers, LoadReady(i) \/ LoadFails(i) PROVE PoolInv' /\ RunKept(local, local')
  BY <1>13, WorkerLoads, WorkerFails
<1>14. ASSUME NEW i \in Workers, Result(i) \/ Error(i) PROVE PoolInv' /\ Resumed(local, i, local')
  BY <1>14, SearchEnds, SearchFails
<1>15. ASSUME NEW p \in Boards, handleEvaluations(p) PROVE PoolInv' /\ RunKept(local, local')
  BY <1>15, ServerAnswers
<1> QED
  BY <1>1, <1>2, <1>3, <1>4, <1>5, <1>6, <1>7, <1>8, <1>9, <1>10, <1>11, <1>12, <1>13, <1>14, <1>15
     DEF PoolNext, User

(* One place for each slot: what the slots and the places say of each other *)
LEMMA SlotsCount ==
  ASSUME Sound(local)
  PROVE  SlotsAreLiveChains
<1>1. local \in Pools /\ Chains(local, {})
  BY DEF Sound
<1>2. \A p \in Boards : local.slots[p] \in {NoTag, BoardTag(local), LineTag(local)}
  BY <1>1 DEF Chains, SlotsCurrent
<1>3. \A j \in DOMAIN local.queue : /\ IsCurrent(local, local.queue[j].tag)
                                    /\ local.slots[local.queue[j].pos] = local.queue[j].tag
  BY <1>1 DEF Chains, QueueHeld
<1>4. ASSUME NEW p \in Boards, NEW tag \in {BoardTag(local), LineTag(local)}
      PROVE  SearchesOf(p, tag) = IF local.slots[p] = tag THEN 1 ELSE 0
  <2> DEFINE Q == {j \in DOMAIN local.queue : local.queue[j].pos = p /\ local.queue[j].tag = tag}
             R == {i \in Workers : local.running[i] # NoTask
                                   /\ local.running[i].pos = p /\ local.running[i].tag = tag}
  <2>1. SearchesOf(p, tag) = Cardinality(Q) + Cardinality(R)
    BY DEF SearchesOf
  <2>2. IsCurrent(local, tag) /\ tag # NoTag
    BY <1>1, PoolsAre, NotATask DEF IsCurrent
  <2>3. \A i \in R : i \in Workers /\ Live(local, i) /\ local.running[i].pos = p
    BY <2>2 DEF Live
  <2>4. /\ \A j \in Q : \A k \in Q : j = k
        /\ \A i \in R : \A k \in R : i = k
        /\ Q = {} \/ R = {}
    BY <1>1, <2>3 DEF Chains, QueuedOnce, RunOnce, QueuedOrRun
  <2>5. Q # {} \/ R # {} => local.slots[p] = tag
    BY <1>1, <1>3, <2>3 DEF Chains, RunHeld
  <2>6. local.slots[p] = tag => Q # {} \/ R # {}
    <3> SUFFICES ASSUME local.slots[p] = tag PROVE Q # {} \/ R # {}
      OBVIOUS
    <3>1. \/ \E j \in DOMAIN local.queue : local.queue[j].pos = p
          \/ \E i \in Workers : Live(local, i) /\ local.running[i].pos = p
      BY <1>1, <2>2 DEF Chains, AtWork
    <3>2. \A i \in Workers : Live(local, i) => local.slots[local.running[i].pos] = local.running[i].tag
      BY <1>1 DEF Chains, RunHeld
    <3> QED
      BY <1>3, <3>1, <3>2 DEF Live
  <2> HIDE DEF Q, R
  <2>7. \A j : Cardinality({j}) = 1
    BY FS_Singleton
  <2>8. Cardinality({}) = 0
    BY FS_EmptySet
  <2>9. Q # {} => Cardinality(Q) = 1
    <3> SUFFICES ASSUME NEW j \in Q PROVE Cardinality(Q) = 1
      OBVIOUS
    <3>1. Q = {j}
      BY <2>4
    <3> QED
      BY <2>7, <3>1
  <2>10. R # {} => Cardinality(R) = 1
    <3> SUFFICES ASSUME NEW i \in R PROVE Cardinality(R) = 1
      OBVIOUS
    <3>1. R = {i}
      BY <2>4
    <3> QED
      BY <2>7, <3>1
  <2> QED
    BY <2>1, <2>4, <2>5, <2>6, <2>8, <2>9, <2>10
<1> QED
  BY <1>2, <1>3, <1>4 DEF SlotsAreLiveChains

LEMMA Inductive == PoolSpec => []PoolInv
<1>1. PoolInv /\ [PoolNext]_poolVars => PoolInv'
  BY NextKeeps
<1> QED
  BY InitIs, <1>1, PTL DEF PoolSpec

(* A slot stands for one chain that goes on, and a chain that goes on has  *)
(* a slot: whatever was clicked, dropped, answered late or failed          *)
(* (_pendingLocalEvals, clearPending, _dropStaleLocalEvals).               *)
THEOREM SlotsAreChains == PoolSpec => []SlotsAreLiveChains
<1>1. PoolInv => SlotsAreLiveChains
  BY SlotsCount DEF PoolInv
<1> QED
  BY Inductive, <1>1, PTL

(* Once the workers have loaded, what is on screen or on the graph has its *)
(* deepest score, or the server's, or a chain at work for it, unless a     *)
(* search for it failed (requestMissingEvaluations, pgnRenderCurrentPly).  *)
THEOREM NothingLost == PoolSpec => []NothingForgotten
<1>1. PoolInv => NothingForgotten
  BY DEF PoolInv
<1> QED
  BY Inductive, <1>1, PTL

(* No worker idles while a search it may run waits (_dispatch).            *)
THEOREM WorkersBusy == PoolSpec => []NoIdleWorker
<1>1. PoolInv => NoIdleWorker
  BY DEF PoolInv, Sound, NoIdle, NoIdleWorker
<1> QED
  BY Inductive, <1>1, PTL

(* A worker is given a prefetch only if no visible task that it may run    *)
(* waits (_takeTaskFor).                                                   *)
THEOREM VisibleGoesFirst == PoolSpec => VisibleFirst
<1> DEFINE A == \A i \in Workers :
                  LET task == local'.running[i] IN
                  task # local.running[i] /\ task # NoTask /\ task.prefetch =>
                    \A j \in DOMAIN local.queue :
                      MayRun(i, local.queue[j]) /\ ~local.queue[j].prefetch =>
                        \A k \in DOMAIN local'.queue : local'.queue[k] # local.queue[j]
<1>1. ASSUME PoolInv, [PoolNext]_poolVars PROVE A
  <2> SUFFICES ASSUME NEW w \in Workers,
                      local'.running[w] # local.running[w], local'.running[w] # NoTask,
                      local'.running[w].prefetch,
                      NEW j \in DOMAIN local.queue,
                      MayRun(w, local.queue[j]), ~local.queue[j].prefetch
               PROVE  FALSE
    OBVIOUS
  <2>1. local.running[w] # NoTask
    BY <1>1 DEF PoolInv, Sound, NoIdle
  <2>2. ~RunKept(local, local')
    BY <2>1 DEF RunKept
  <2>3. PICK i \in Workers : Resumed(local, i, local')
    BY <1>1, <2>2, NextKeeps
  <2>4. w = i
    BY <2>1, <2>3 DEF Resumed
  <2> QED
    BY <2>3, <2>4 DEF Resumed
<1>2. PoolInv /\ [PoolNext]_poolVars => [A]_local
  <2> HIDE DEF A
  <2> QED
    BY <1>1
<1>3. PoolSpec => [][A]_local
  <2> HIDE DEF A
  <2> QED
    BY Inductive, <1>2, PTL DEF PoolSpec
<1> QED
  BY <1>3 DEF VisibleFirst
=============================================================================

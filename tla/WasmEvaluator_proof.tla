------------------------ MODULE WasmEvaluator_proof -------------------------
(* The wasm evaluator, for every set of requests, files and bounds.         *)
EXTENDS WasmEvaluator, OthelloGame_proof

-----------------------------------------------------------------------------
(* Sums over sets *)

(* g sums w over every part of x. *)
SumsTo(g, w, x) ==
  /\ g = [s \in SUBSET x |-> g[s]] /\ g[{}] = 0
  /\ \A s \in SUBSET x : \A a \in s : g[s] = w[a] + g[s \ {a}]

LEMMA SumIs ==
  ASSUME NEW x, IsFiniteSet(x), NEW w, NEW g, SumsTo(g, w, x)
  PROVE  SumFunctionOnSet(w, x) = g[x]
<1> DEFINE First(s) == CHOOSE a \in s : TRUE
           F(y) == y = [s \in SUBSET x |-> IF s = {} THEN 0 ELSE w[First(s)] + y[s \ {First(s)}]]
<1>1. \A s \in SUBSET x : s # {} => First(s) \in s
  OBVIOUS
<1>2. F(g)
  <2>1. \A s \in SUBSET x : g[s] = IF s = {} THEN 0 ELSE w[First(s)] + g[s \ {First(s)}]
    BY <1>1 DEF SumsTo
  <2>2. g = [s \in SUBSET x |-> g[s]]
    BY DEF SumsTo
  <2> HIDE DEF First
  <2> QED
    BY <2>1, <2>2
<1> DEFINE y == CHOOSE y : F(y)
<1>3. F(y)
  <2> HIDE DEF F
  <2> QED
    BY <1>2
<1>4. SumFunctionOnSet(w, x) = y[x]
  BY DEF SumFunctionOnSet, FoldFunctionOnSet, MapThenFoldSet
<1> HIDE DEF y
<1>5. \A s \in SUBSET x : y[s] = IF s = {} THEN 0 ELSE w[First(s)] + y[s \ {First(s)}]
  BY <1>3
<1> HIDE DEF First, F
<1> DEFINE S == {n \in Nat : \A s \in SUBSET x : Cardinality(s) = n => y[s] = g[s]}
<1>6. \A s \in SUBSET x : IsFiniteSet(s) /\ Cardinality(s) \in Nat
  BY FS_Subset, FS_CardinalityType
<1>7. 0 \in S
  <2>1. \A s \in SUBSET x : Cardinality(s) = 0 => s = {}
    BY <1>6, FS_EmptySet
  <2> QED
    BY <1>5, <2>1 DEF SumsTo
<1>8. ASSUME NEW n \in S
      PROVE  n + 1 \in S
  <2>0. n \in Nat /\ \A s \in SUBSET x : Cardinality(s) = n => y[s] = g[s]
    BY <1>8
  <2> HIDE DEF S
  <2> SUFFICES ASSUME NEW s \in SUBSET x, Cardinality(s) = n + 1
               PROVE  y[s] = g[s]
    <3>1. n + 1 \in Nat
      BY <2>0
    <3> QED
      BY <3>1 DEF S
  <2>1. s # {}
    BY <2>0, FS_EmptySet
  <2> DEFINE a == First(s)
             r == s \ {a}
  <2>2. a \in s /\ r \in SUBSET x
    BY <1>1, <2>1
  <2>3. Cardinality(r) = n
    <3>1. IsFiniteSet(s)
      BY <1>6
    <3>2. Cardinality(r) = Cardinality(s) - 1
      BY <2>2, <3>1, FS_RemoveElement
    <3> QED
      BY <2>0, <3>2
  <2>4. y[r] = g[r]
    BY <2>0, <2>2, <2>3
  <2>5. y[s] = w[a] + y[r]
    BY <1>5, <2>1
  <2>6. g[s] = w[a] + g[r]
    BY <2>2 DEF SumsTo
  <2> QED
    BY <2>4, <2>5, <2>6
<1> HIDE DEF S
<1>9. \A n \in Nat : n \in S
  BY <1>7, <1>8, SetInduction DEF S
<1>10. y[x] = g[x]
  BY <1>6, <1>9 DEF S
<1> QED
  BY <1>4, <1>10

(* The digits that are 1 at the places of the squares of x *)
Indicator(q, x) == [j \in DOMAIN q |-> IF q[j] \in x THEN 1 ELSE 0]

LEMMA IndicatorNumber ==
  ASSUME NEW q \in Seq(Squares), NEW x
  PROVE  Indicator(q, x) \in [1..Len(q) -> Int] /\ Len(q) \in Nat /\ DOMAIN q = 1..Len(q)
         /\ Horner(Indicator(q, x)) \in Int
<1>1. Len(q) \in Nat /\ DOMAIN q = 1..Len(q)
  BY LenProperties
<1>2. Indicator(q, x) \in [1..Len(q) -> Int]
  BY <1>1 DEF Indicator
<1> DEFINE d == Indicator(q, x)
<1> HIDE DEF d
<1>3. d \in [1..Len(q) -> Int] /\ 0 \in Int
  BY <1>2 DEF d
<1>4. Horner(d) \in Int
  BY <1>1, <1>3, HornerLinear
<1> QED
  BY <1>1, <1>2, <1>4 DEF d

(* Squares weigh in a pattern, one by one, what they weigh together. *)
LEMMA WeightOf ==
  ASSUME NEW q \in Seq(Squares), NEW x \in SUBSET Squares,
         NEW w, \A s \in Squares : w[s] = Horner([j \in DOMAIN q |-> IF q[j] = s THEN 1 ELSE 0])
  PROVE  SumFunctionOnSet(w, x) = Horner(Indicator(q, x))
<1> DEFINE g == [s \in SUBSET x |-> Horner(Indicator(q, s))]
           n == Len(q)
<1>1. n \in Nat /\ DOMAIN q = 1..n
  BY IndicatorNumber
<1>2. \A s \in Squares : w[s] = Horner(Indicator(q, {s}))
  <2> TAKE s \in Squares
  <2>1. Indicator(q, {s}) = [j \in DOMAIN q |-> IF q[j] = s THEN 1 ELSE 0]
    BY DEF Indicator
  <2> QED
    BY <2>1
<1>3. g[{}] = 0
  <2>1. Indicator(q, {}) = [j \in 1..n |-> 0]
    BY <1>1 DEF Indicator
  <2>2. Horner([j \in 1..n |-> 0]) = 0
    <3> DEFINE d == [j \in 1..n |-> 0]
    <3>1. d \in [1..n -> Int]
      OBVIOUS
    <3>2. d \in Seq(Int) /\ Len(d) = n
      BY <1>1, <3>1, Digits
    <3>3. IsSum([m \in 0..n |-> 0], d)
      <4> DEFINE z == [m \in 0..n |-> 0]
      <4>1. z \in [0..n -> Int] /\ z[0] = 0 /\ \A m \in 1..n : z[m] = 3 * z[m - 1] + d[m]
        BY <1>1
      <4> HIDE DEF z, d
      <4>2. IsSum(z, d)
        BY <3>2, <4>1 DEF IsSum
      <4> QED
        BY <4>2 DEF z
    <3> HIDE DEF d
    <3>4. Horner(d) = 0
      BY <1>1, <3>2, <3>3, HornerOf
    <3> QED
      BY <3>4 DEF d
  <2> QED
    BY <2>1, <2>2
<1>4. ASSUME NEW s \in SUBSET x, NEW a \in s
      PROVE  g[s] = w[a] + g[s \ {a}]
  <2> DEFINE d == Indicator(q, s \ {a})
             e == Indicator(q, {a})
  <2>1. d \in [1..n -> Int] /\ e \in [1..n -> Int]
    BY IndicatorNumber
  <2>2. Indicator(q, s) = [j \in 1..n |-> d[j] + 1 * e[j]]
    BY <1>1 DEF Indicator
  <2> HIDE DEF d, e
  <2>3. Horner([j \in 1..n |-> d[j] + 1 * e[j]]) = Horner(d) + 1 * Horner(e) /\ Horner(d) \in Int /\ Horner(e) \in Int
    <3>1. 1 \in Int /\ d \in [1..n -> Int] /\ e \in [1..n -> Int]
      BY <2>1
    <3> HIDE DEF n
    <3> QED
      BY <1>1, <3>1, HornerLinear
  <2>4. Horner(Indicator(q, s)) = Horner(e) + Horner(d)
    BY <2>2, <2>3
  <2>5. w[a] = Horner(e)
    BY <1>2 DEF e
  <2> QED
    BY <2>4, <2>5 DEF d
<1>5. IsFiniteSet(x)
  <2>1. IsFiniteSet(0..63)
    <3>1. 0 \in Int /\ 63 \in Int
      OBVIOUS
    <3> QED
      BY <3>1, FS_Interval
  <2> QED
    BY <2>1, FS_Subset DEF Squares
<1> HIDE DEF g
<1>6. SumFunctionOnSet(w, x) = g[x]
  <2>1. g = [s \in SUBSET x |-> g[s]]
    BY DEF g
  <2>2. SumsTo(g, w, x)
    BY <1>3, <1>4, <2>1 DEF SumsTo
  <2> QED
    BY <1>5, <2>2, SumIs
<1> QED
  BY <1>6 DEF g
-----------------------------------------------------------------------------
(* Pattern values *)

Values == [Features -> Int]

(* The number of pattern i on a board *)
PatternNumber(i, b) ==
  Horner([j \in DOMAIN FEATURES[i].squares |-> Colour(b, FEATURES[i].squares[j])])

LEMMA ValuesAre ==
  ASSUME NEW b
  PROVE  /\ compute_features(b) \in Values
         /\ \A i \in Features : /\ PatternNumber(i, b) \in Int
                                /\ compute_features(b)[i]
                                     = Regions[FEATURES[i].region].offset + PatternNumber(i, b)
<1>1. ASSUME NEW i \in Features
      PROVE  /\ PatternNumber(i, b) \in Int /\ Regions[FEATURES[i].region].offset \in Int
             /\ compute_features(b)[i] = Regions[FEATURES[i].region].offset + PatternNumber(i, b)
  <2> DEFINE q == FEATURES[i].squares
             d == [j \in DOMAIN q |-> Colour(b, q[j])]
  <2>1. q \in Seq(Squares) /\ FEATURES[i].region \in 1..12
    BY FeatureTypes DEF Pattern
  <2>2. Len(q) \in Nat /\ DOMAIN q = 1..Len(q)
    BY <2>1, LenProperties
  <2>3. d \in [1..Len(q) -> Int]
    BY <2>2 DEF Colour
  <2>4. Horner(d) \in Int
    <3> HIDE DEF d
    <3>1. 0 \in Int
      OBVIOUS
    <3> QED
      BY <2>2, <2>3, <3>1, HornerLinear
  <2>5. PatternNumber(i, b) \in Int
    BY <2>4 DEF PatternNumber
  <2>6. Regions[FEATURES[i].region].offset \in Int
    <3>1. Regions[FEATURES[i].region].offset \in Nat
      BY <2>1, RegionTypes
    <3> QED
      BY <3>1
  <2>7. compute_features(b)[i] = Regions[FEATURES[i].region].offset + PatternNumber(i, b)
    BY DEF compute_features, PatternNumber
  <2> QED
    BY <2>5, <2>6, <2>7
<1>2. \A i \in Features : compute_features(b)[i] \in Int
  BY <1>1
<1>3. compute_features(b) = [i \in Features |-> compute_features(b)[i]]
  BY DEF compute_features
<1>4. compute_features(b) \in Values
  BY <1>2, <1>3 DEF Values
<1> QED
  BY <1>1, <1>4

LEMMA SquareWeights ==
  ASSUME NEW i \in Features
  PROVE  /\ FEATURES[i].squares \in Seq(Squares)
         /\ \A x \in SUBSET Squares :
              /\ SumFunctionOnSet(SquareWeight[i], x) = Horner(Indicator(FEATURES[i].squares, x))
              /\ SumFunctionOnSet(SquareWeight[i], x) \in Int
         /\ \A s \in Squares :
              /\ SquareWeight[i][s] = Horner(Indicator(FEATURES[i].squares, {s}))
              /\ SquareWeight[i][s] \in Int
<1> DEFINE q == FEATURES[i].squares
           w == SquareWeight[i]
<1>1. q \in Seq(Squares)
  BY FeatureTypes DEF Pattern
<1>2. \A s \in Squares : w[s] = Horner([j \in DOMAIN q |-> IF q[j] = s THEN 1 ELSE 0])
  BY DEF SquareWeight
<1> HIDE DEF w
<1>3. \A x \in SUBSET Squares : SumFunctionOnSet(w, x) = Horner(Indicator(q, x)) /\ Horner(Indicator(q, x)) \in Int
  BY <1>1, <1>2, WeightOf, IndicatorNumber
<1>4. \A s \in Squares : w[s] = Horner(Indicator(q, {s})) /\ w[s] \in Int
  <2> TAKE s \in Squares
  <2>1. Indicator(q, {s}) = [j \in DOMAIN q |-> IF q[j] = s THEN 1 ELSE 0]
    BY DEF Indicator
  <2>2. w[s] = Horner(Indicator(q, {s}))
    BY <1>2, <2>1
  <2> QED
    BY <1>1, <2>2, IndicatorNumber
<1> QED
  BY <1>1, <1>3, <1>4 DEF w

(* The colours of a board change by as much on one square, and by as much  *)
(* on each of a set of others: so do the numbers of its patterns.          *)
Recoloured(b, c, s, x, k, m) ==
  \A t \in Squares :
    Colour(c, t) = Colour(b, t) + k * (IF t = s THEN 1 ELSE 0) + m * (IF t \in x THEN 1 ELSE 0)

LEMMA NumberChanges ==
  ASSUME NEW b, NEW c, NEW i \in Features, NEW s \in Squares, NEW x \in SUBSET Squares,
         NEW k \in Int, NEW m \in Int, Recoloured(b, c, s, x, k, m)
  PROVE  PatternNumber(i, c) = PatternNumber(i, b) + k * SquareWeight[i][s]
                                 + m * SumFunctionOnSet(SquareWeight[i], x)
<1> DEFINE q == FEATURES[i].squares
           n == Len(q)
           d == [j \in 1..n |-> Colour(b, q[j])]
           e == Indicator(q, {s})
           f == Indicator(q, x)
           g == [j \in 1..n |-> d[j] + k * e[j]]
           h == [j \in 1..n |-> g[j] + m * f[j]]
<1>1. q \in Seq(Squares)
  BY SquareWeights
<1>2. n \in Nat /\ DOMAIN q = 1..n /\ \A j \in 1..n : q[j] \in Squares
  BY <1>1, LenProperties, ElementOfSeq
<1>3. e \in [1..n -> Int] /\ f \in [1..n -> Int]
  BY <1>1, IndicatorNumber
<1>4. d \in [1..n -> Int]
  BY DEF Colour
<1>5. g \in [1..n -> Int]
  <2>1. \A j \in 1..n : d[j] \in Int /\ e[j] \in Int
    BY <1>3, <1>4
  <2> HIDE DEF d, e
  <2>2. \A j \in 1..n : d[j] + k * e[j] \in Int
    BY <2>1
  <2> QED
    BY <2>2
<1>6. [j \in DOMAIN q |-> Colour(c, q[j])] = h
  <2>1. ASSUME NEW j \in 1..n
        PROVE  Colour(c, q[j]) = h[j]
    <3>1. e[j] = (IF q[j] = s THEN 1 ELSE 0) /\ f[j] = (IF q[j] \in x THEN 1 ELSE 0)
      BY <1>2 DEF Indicator
    <3>2. h[j] = (Colour(b, q[j]) + k * e[j]) + m * f[j]
      OBVIOUS
    <3> HIDE DEF h, g, d, e, f
    <3>3. q[j] \in Squares
      BY <1>2
    <3> HIDE DEF q
    <3>4. Colour(c, q[j]) = Colour(b, q[j]) + k * (IF q[j] = s THEN 1 ELSE 0) + m * (IF q[j] \in x THEN 1 ELSE 0)
      BY <3>3 DEF Recoloured
    <3> QED
      BY <3>1, <3>2, <3>4
  <2> QED
    BY <1>2, <2>1
<1>7. Horner(g) = Horner(d) + k * Horner(e)
  <2> HIDE DEF d, e, n
  <2> QED
    BY <1>2, <1>3, <1>4, HornerLinear DEF g
<1>8. Horner(h) = Horner(g) + m * Horner(f)
  <2> HIDE DEF g, f, n
  <2> QED
    BY <1>2, <1>3, <1>5, HornerLinear DEF h
<1>9. PatternNumber(i, c) = Horner(h) /\ PatternNumber(i, b) = Horner(d)
  BY <1>2, <1>6 DEF PatternNumber
<1>10. SquareWeight[i][s] = Horner(e) /\ SumFunctionOnSet(SquareWeight[i], x) = Horner(f)
  BY SquareWeights
<1> HIDE DEF d, e, f, g, h, q, n
<1> QED
  BY <1>7, <1>8, <1>9, <1>10
LEMMA ValuesChange ==
  ASSUME NEW b, NEW c, NEW s \in Squares, NEW x \in SUBSET Squares,
         NEW k \in Int, NEW m \in Int, Recoloured(b, c, s, x, k, m)
  PROVE  compute_features(c) = Changed(compute_features(b), s, x, k, m)
<1>1. ASSUME NEW i \in Features
      PROVE  compute_features(c)[i] = compute_features(b)[i] + k * SquareWeight[i][s]
                                        + m * SumFunctionOnSet(SquareWeight[i], x)
  <2> DEFINE o == Regions[FEATURES[i].region].offset
             u == k * SquareWeight[i][s]
             v == m * SumFunctionOnSet(SquareWeight[i], x)
  <2>1. SquareWeight[i][s] \in Int /\ SumFunctionOnSet(SquareWeight[i], x) \in Int
    BY SquareWeights
  <2>2. u \in Int /\ v \in Int
    <3> DEFINE a == SquareWeight[i][s]
               d == SumFunctionOnSet(SquareWeight[i], x)
    <3> HIDE DEF a, d
    <3>1. k * a \in Int /\ m * d \in Int
      BY <2>1 DEF a, d
    <3> QED
      BY <3>1 DEF a, d
  <2>3. o \in Nat
    <3>1. FEATURES[i].region \in 1..12
      BY FeatureTypes DEF Pattern
    <3> QED
      BY <3>1, RegionTypes
  <2>4. PatternNumber(i, c) = PatternNumber(i, b) + u + v
    BY NumberChanges
  <2>5. PatternNumber(i, b) \in Int
    BY ValuesAre
  <2>6. compute_features(c)[i] = o + PatternNumber(i, c) /\ compute_features(b)[i] = o + PatternNumber(i, b)
    BY ValuesAre
  <2> HIDE DEF o, u, v
  <2>7. compute_features(c)[i] = compute_features(b)[i] + u + v
    BY <2>2, <2>3, <2>4, <2>5, <2>6
  <2> QED
    BY <2>7 DEF u, v
<1>2. compute_features(c) = [i \in Features |-> compute_features(c)[i]]
  BY DEF compute_features
<1> QED
  BY <1>1, <1>2 DEF Changed

-----------------------------------------------------------------------------
(* A move on the board and on the pattern values *)

Turned(b, x) == Xor(play(b, x).player, b.opponent)

LEMMA MoveIs ==
  ASSUME NEW b, Disjoint(b), NEW x \in get_moves(b)
  PROVE  /\ x \in Squares /\ x \notin b.player /\ x \notin b.opponent
         /\ Turned(b, x) \in SUBSET b.opponent
         /\ play(b, x) = [player |-> b.opponent \ Turned(b, x), opponent |-> b.player \cup Turned(b, x) \cup {x}]
         /\ Disjoint(play(b, x))
<1> DEFINE f == flippedDiscs(b, x)
<1>1. x \in legalMoves(b)
  BY GetMovesIs
<1>2. x \in Squares /\ x \notin Discs(b)
  <2>1. x \in legalMoves(b) /\ b \in Position
    BY GetMovesIs DEF Disjoint
  <2> QED
    BY <2>1, LegalMovesIs
<1>3. f \subseteq b.opponent
  BY <1>2, FlippedIs
<1>4. play(b, x) = [player |-> b.opponent \ f, opponent |-> b.player \cup f \cup {x}]
  BY <1>1, SameBoards
<1> HIDE DEF f
<1>5. Turned(b, x) = f
  BY <1>3, <1>4 DEF Turned, Xor
<1>6. Disjoint(play(b, x))
  BY <1>2, <1>3, <1>4 DEF Disjoint, Position, Discs
<1> QED
  BY <1>2, <1>3, <1>4, <1>5, <1>6 DEF Discs

LEMMA EmptiesAfter ==
  ASSUME NEW b, Disjoint(b)
  PROVE  /\ n_empties(b) \in 0..64
         /\ Disjoint(Passed(b)) /\ n_empties(Passed(b)) = n_empties(b)
         /\ \A x \in get_moves(b) : n_empties(play(b, x)) = n_empties(b) - 1 /\ n_empties(b) > 0
<1>1. IsFiniteSet(0..63) /\ Cardinality(0..63) = 64
  <2>1. 0 \in Int /\ 63 \in Int /\ 63 >= 0
    OBVIOUS
  <2>2. \A a, d \in Int : IsFiniteSet(a..d) /\ (a <= d => Cardinality(a..d) = d - a + 1)
    BY FS_Interval
  <2>3. IsFiniteSet(0..63) /\ Cardinality(0..63) = 63 - 0 + 1
    BY <2>1, <2>2
  <2> QED
    BY <2>3
<1>2. \A c : Disjoint(c) => n_empties(c) \in 0..64 /\ IsFiniteSet(Discs(c)) /\ Cardinality(Discs(c)) \in Nat
  <2> SUFFICES ASSUME NEW c, Disjoint(c)
               PROVE  n_empties(c) \in 0..64 /\ IsFiniteSet(Discs(c)) /\ Cardinality(Discs(c)) \in Nat
    OBVIOUS
  <2>1. Discs(c) \subseteq 0..63
    BY DEF Disjoint, Position, Discs, Squares
  <2>2. Cardinality(Discs(c)) \in Nat /\ Cardinality(Discs(c)) <= 64 /\ IsFiniteSet(Discs(c))
    BY <1>1, <2>1, FS_Subset, FS_CardinalityType
  <2> QED
    BY <2>2 DEF n_empties
<1>3. Disjoint(Passed(b)) /\ Discs(Passed(b)) = Discs(b)
  BY DEF Disjoint, Position, Passed, Discs
<1>4. ASSUME NEW x \in get_moves(b)
      PROVE  n_empties(play(b, x)) = n_empties(b) - 1
  <2>1. Discs(play(b, x)) = Discs(b) \cup {x} /\ x \notin Discs(b)
    BY MoveIs DEF Discs
  <2>2. Cardinality(Discs(b) \cup {x}) = Cardinality(Discs(b)) + 1
    BY <1>2, <2>1, FS_AddElement
  <2> QED
    BY <1>2, <2>1, <2>2 DEF n_empties
<1>5. \A x \in get_moves(b) : n_empties(play(b, x)) = n_empties(b) - 1 /\ n_empties(b) > 0
  <2> TAKE x \in get_moves(b)
  <2>1. Disjoint(play(b, x))
    BY MoveIs
  <2> QED
    BY <1>2, <1>4, <2>1
<1> QED
  BY <1>2, <1>3, <1>5 DEF n_empties

(* The board of init_features: the mover's discs have colour 0 when the    *)
(* number of empty squares is even. *)
Viewed(b) == IF n_empties(b) % 2 = 1 THEN Passed(b) ELSE b
ValuesOf(b) == init_features(b, n_empties(b))

LEMMA ValuesFollowMove ==
  ASSUME NEW b, Disjoint(b), NEW x \in get_moves(b)
  PROVE  ValuesOf(play(b, x)) = update_features(ValuesOf(b), x, Turned(b, x), n_empties(b) % 2 = 0)
<1> DEFINE child == play(b, x)
           f == Turned(b, x)
           old == Viewed(b)
           new == Viewed(child)
<1>1. /\ x \in Squares /\ x \notin b.player /\ x \notin b.opponent /\ f \in SUBSET b.opponent
      /\ child = [player |-> b.opponent \ f, opponent |-> b.player \cup f \cup {x}]
  BY MoveIs
<1>2. n_empties(b) \in 0..64 /\ n_empties(child) = n_empties(b) - 1 /\ n_empties(b) > 0
  BY EmptiesAfter
<1>3. b.player \subseteq Squares /\ b.opponent \subseteq Squares /\ b.player \cap b.opponent = {}
      /\ f \in SUBSET Squares
  BY <1>1 DEF Disjoint, Position
<1>4. ValuesOf(b) = compute_features(old) /\ ValuesOf(child) = compute_features(new)
  BY DEF ValuesOf, init_features, Viewed
<1>5. CASE n_empties(b) % 2 = 0
  <2>1. n_empties(child) % 2 = 1
    BY <1>2, <1>5
  <2>2. old = b /\ new = Passed(child)
    BY <1>5, <2>1 DEF Viewed
  <2> HIDE DEF child, f, old, new
  <2>3. Recoloured(old, new, x, f, -2, -1)
    <3> SUFFICES ASSUME NEW t \in Squares
                 PROVE  Colour(new, t) = Colour(old, t) + (-2) * (IF t = x THEN 1 ELSE 0)
                                                        + (-1) * (IF t \in f THEN 1 ELSE 0)
      BY DEF Recoloured
    <3>1. CASE t = x
      BY <1>1, <1>3, <2>2, <3>1 DEF Colour, Passed
    <3>2. CASE t \in f
      BY <1>1, <1>3, <2>2, <3>2 DEF Colour, Passed
    <3>3. CASE t # x /\ t \notin f
      BY <1>1, <1>3, <2>2, <3>3 DEF Colour, Passed
    <3> QED
      BY <3>1, <3>2, <3>3
  <2>4. compute_features(new) = Changed(compute_features(old), x, f, -2, -1)
    BY <1>1, <1>3, <2>3, ValuesChange
  <2> QED
    BY <1>4, <1>5, <2>4 DEF update_features, f, child
<1>6. CASE n_empties(b) % 2 = 1
  <2>1. n_empties(child) % 2 = 0
    BY <1>2, <1>6
  <2>2. old = Passed(b) /\ new = child
    BY <1>6, <2>1 DEF Viewed
  <2> HIDE DEF child, f, old, new
  <2>3. Recoloured(old, new, x, f, -1, 1)
    <3> SUFFICES ASSUME NEW t \in Squares
                 PROVE  Colour(new, t) = Colour(old, t) + (-1) * (IF t = x THEN 1 ELSE 0)
                                                        + (1) * (IF t \in f THEN 1 ELSE 0)
      BY DEF Recoloured
    <3>1. CASE t = x
      BY <1>1, <1>3, <2>2, <3>1 DEF Colour, Passed
    <3>2. CASE t \in f
      BY <1>1, <1>3, <2>2, <3>2 DEF Colour, Passed
    <3>3. CASE t # x /\ t \notin f
      BY <1>1, <1>3, <2>2, <3>3 DEF Colour, Passed
    <3> QED
      BY <3>1, <3>2, <3>3
  <2>4. compute_features(new) = Changed(compute_features(old), x, f, -1, 1)
    BY <1>1, <1>3, <2>3, ValuesChange
  <2> QED
    BY <1>4, <1>6, <2>4 DEF update_features, f, child
<1> QED
  BY <1>2, <1>5, <1>6
LEMMA ChangedValues ==
  ASSUME NEW f \in Values, NEW s \in Squares, NEW x \in SUBSET Squares,
         NEW k \in Int, NEW m \in Int, NEW l \in Int, NEW n \in Int, k + l = 0, m + n = 0
  PROVE  Changed(f, s, x, k, m) \in Values /\ Changed(Changed(f, s, x, k, m), s, x, l, n) = f
<1> DEFINE g == Changed(f, s, x, k, m)
           h == Changed(g, s, x, l, n)
<1>1. ASSUME NEW i \in Features
      PROVE  g[i] \in Int /\ h[i] = f[i]
  <2> DEFINE a == SquareWeight[i][s]
             d == SumFunctionOnSet(SquareWeight[i], x)
  <2>1. a \in Int /\ d \in Int
    BY SquareWeights
  <2>2. g[i] = f[i] + k * a + m * d
    BY DEF Changed
  <2>3. h[i] = g[i] + l * a + n * d
    BY DEF Changed
  <2>4. f[i] \in Int
    BY DEF Values
  <2> HIDE DEF a, d, g, h
  <2>5. k * a \in Int /\ m * d \in Int /\ l * a \in Int /\ n * d \in Int
    BY <2>1
  <2>6. k * a + l * a = 0 /\ m * d + n * d = 0
    <3>1. \A u, v, w \in Int : u * w + v * w = (u + v) * w
      OBVIOUS
    <3>2. (k + l) * a = 0 /\ (m + n) * d = 0
      BY <2>1
    <3> QED
      BY <2>1, <3>1, <3>2
  <2> QED
    BY <2>2, <2>3, <2>4, <2>5, <2>6
<1>2. g = [i \in Features |-> g[i]] /\ h = [i \in Features |-> h[i]]
  BY DEF Changed
<1>3. f = [i \in Features |-> f[i]]
  BY DEF Values
<1> HIDE DEF g, h
<1>4. g \in Values
  BY <1>1, <1>2 DEF Values
<1>5. h = f
  BY <1>1, <1>2, <1>3
<1> QED
  BY <1>4, <1>5 DEF g, h

(* Taking a move back undoes what it did to the values. *)
LEMMA UndoIs ==
  ASSUME NEW f \in Values, NEW s \in Squares, NEW x \in SUBSET Squares, NEW e \in BOOLEAN
  PROVE  /\ update_features(f, s, x, e) \in Values
         /\ undo_features(update_features(f, s, x, e), s, x, e) = f
<1>1. CASE e
  <2>1. -2 \in Int /\ -1 \in Int /\ 2 \in Int /\ 1 \in Int /\ (-2) + 2 = 0 /\ (-1) + 1 = 0
    OBVIOUS
  <2>2. Changed(f, s, x, -2, -1) \in Values /\ Changed(Changed(f, s, x, -2, -1), s, x, 2, 1) = f
    BY <2>1, ChangedValues
  <2> QED
    BY <1>1, <2>2 DEF update_features, undo_features
<1>2. CASE ~e
  <2>1. -1 \in Int /\ 1 \in Int /\ (-1) + 1 = 0 /\ 1 + (-1) = 0
    OBVIOUS
  <2>2. Changed(f, s, x, -1, 1) \in Values /\ Changed(Changed(f, s, x, -1, 1), s, x, 1, -1) = f
    BY <2>1, ChangedValues
  <2> QED
    BY <1>2, <2>2 DEF update_features, undo_features
<1> QED
  BY <1>1, <1>2

-----------------------------------------------------------------------------
(* The stack of calls and the arrays they read.  owner[k] is the array of  *)
(* call k: its own, or that of the call that made it.                      *)

Places == {"entered", "passed", "upper", "lower", "child", "moves"}

Frame == [board : Position, depth : Int, probcut_level : Int, in_midgame : BOOLEAN,
          mover_is_eval_player : BOOLEAN, fresh : BOOLEAN, at : Places, todo : SUBSET Squares,
          move : Squares, flipped : SUBSET Squares, again : BOOLEAN]

FlagsHold(c) ==
  /\ Disjoint(c.board)
  /\ c.in_midgame = (c.depth < n_empties(c.board))
  /\ c.mover_is_eval_player = (n_empties(c.board) % 2 = 0)
  /\ c.todo \subseteq get_moves(c.board)
  /\ c.at = "child" => c.move \in get_moves(c.board) /\ c.flipped = Turned(c.board, c.move)

ShownBy(c) == IF c.at = "child" THEN play(c.board, c.move) ELSE c.board
ShownIn(c, f) == c.in_midgame => f = ValuesOf(ShownBy(c))

(* A call that reads its caller's array *)
Shares(c, d) ==
  \/ c.at = "child" /\ d.board = play(c.board, c.move) /\ d.in_midgame = c.in_midgame
  \/ c.at # "child" /\ ~c.in_midgame /\ ~d.in_midgame

Keeps(cs, fs, owner) ==
  /\ owner \in [1..Len(cs) -> 1..Len(fs)] /\ owner[1] = 1 /\ owner[Len(cs)] = Len(fs)
  /\ \A j, k \in 1..Len(cs) : j <= k => owner[j] <= owner[k]
  /\ \A k \in 1..Len(cs) - 1 : owner[k + 1] = IF cs[k + 1].fresh THEN owner[k] + 1 ELSE owner[k]
  /\ \A k \in 1..Len(cs) : k = Len(cs) \/ cs[k + 1].fresh => ShownIn(cs[k], fs[owner[k]])

Stack(cs, fs) ==
  /\ cs \in Seq(Frame) /\ fs \in Seq(Values)
  /\ \A k \in 1..Len(cs) : FlagsHold(cs[k])
  /\ \A k \in 1..Len(cs) - 1 : ~cs[k + 1].fresh => Shares(cs[k], cs[k + 1])
  /\ cs = <<>> => fs = <<>>
  /\ cs # <<>> => cs[1].fresh /\ \E owner : Keeps(cs, fs, owner)

IInv == Stack(calls, features)
(* The parts of a sequence that the calls are kept in *)
LEMMA LastOf ==
  ASSUME NEW S, NEW s \in Seq(S), s # <<>>
  PROVE  /\ Len(s) \in Nat \ {0} /\ Last(s) = s[Len(s)] /\ Last(s) \in S
         /\ Front(s) \in Seq(S) /\ Len(Front(s)) = Len(s) - 1
         /\ \A i \in 1..Len(s) - 1 : Front(s)[i] = s[i]
<1>1. Len(s) \in Nat \ {0}
  BY EmptySeq, LenProperties
<1>2. Last(s) = s[Len(s)] /\ Last(s) \in S
  BY <1>1, ElementOfSeq DEF Last
<1>3. 1 \in 1..Len(s) + 1 /\ Len(s) - 1 \in (1 - 1)..Len(s) /\ Len(s) - 1 - 1 + 1 = Len(s) - 1
  BY <1>1
<1>4. Front(s) = SubSeq(s, 1, Len(s) - 1)
  BY DEF Front
<1>5. Front(s) \in Seq(S) /\ Len(Front(s)) = Len(s) - 1 /\ \A i \in 1..Len(s) - 1 : Front(s)[i] = s[i]
  BY <1>1, <1>3, <1>4, SubSeqProperties
<1> QED
  BY <1>1, <1>2, <1>5

(* The last entry is replaced. *)
LEMMA Replaced ==
  ASSUME NEW S, NEW s \in Seq(S), s # <<>>, NEW e \in S
  PROVE  /\ Append(Front(s), e) \in Seq(S) /\ Len(Append(Front(s), e)) = Len(s)
         /\ Append(Front(s), e)[Len(s)] = e
         /\ \A i \in 1..Len(s) - 1 : Append(Front(s), e)[i] = s[i]
<1> DEFINE f == Front(s)
<1>1. Len(s) \in Nat \ {0} /\ f \in Seq(S) /\ Len(f) = Len(s) - 1 /\ \A i \in 1..Len(s) - 1 : f[i] = s[i]
  BY LastOf
<1> HIDE DEF f
<1>2. /\ Append(f, e) \in Seq(S) /\ Len(Append(f, e)) = Len(f) + 1 /\ Append(f, e)[Len(f) + 1] = e
      /\ \A i \in 1..Len(f) : Append(f, e)[i] = f[i]
  BY <1>1, AppendProperties
<1> QED
  BY <1>1, <1>2 DEF f

LEMMA Added ==
  ASSUME NEW S, NEW s \in Seq(S), NEW e \in S
  PROVE  /\ Append(s, e) \in Seq(S) /\ Len(Append(s, e)) = Len(s) + 1 /\ Len(s) \in Nat
         /\ Append(s, e)[Len(s) + 1] = e
         /\ \A i \in 1..Len(s) : Append(s, e)[i] = s[i]
  BY AppendProperties, LenProperties

(* The innermost call moves on; it may change the array in use. *)
LEMMA StackMoved ==
  ASSUME NEW cs, NEW fs, Stack(cs, fs), cs # <<>>, NEW call \in Frame, FlagsHold(call),
         call.fresh = Last(cs).fresh,
         ~call.fresh => /\ call.board = Last(cs).board /\ call.in_midgame = Last(cs).in_midgame,
         NEW gs \in Seq(Values), Len(gs) = Len(fs),
         \A i \in 1..Len(fs) - 1 : gs[i] = fs[i],
         ShownIn(call, gs[Len(gs)])
  PROVE  Stack(Append(Front(cs), call), gs)
<1> DEFINE n == Len(cs)
           ds == Append(Front(cs), call)
<1>1. n \in Nat \ {0} /\ Last(cs) = cs[n]
  BY LastOf DEF Stack
<1>2. ds \in Seq(Frame) /\ Len(ds) = n /\ ds[n] = call /\ \A i \in 1..n - 1 : ds[i] = cs[i]
  BY Replaced DEF Stack
<1>3. \A i \in 1..n : ds[i].fresh = cs[i].fresh
  BY <1>1, <1>2
<1> HIDE DEF ds
<1>4. \A k \in 1..n : FlagsHold(ds[k])
  <2>1. \A k \in 1..n : FlagsHold(cs[k])
    BY DEF Stack
  <2>2. \A k \in 1..n : k = n \/ k \in 1..n - 1
    BY <1>1
  <2> HIDE DEF n
  <2> QED
    BY <1>2, <2>1, <2>2
<1>5. ASSUME NEW k \in 1..n - 1, ~ds[k + 1].fresh
      PROVE  Shares(ds[k], ds[k + 1])
  <2>1. Shares(cs[k], cs[k + 1]) /\ ds[k] = cs[k]
    BY <1>1, <1>2, <1>3, <1>5 DEF Stack
  <2>2. CASE k + 1 = n
    BY <1>1, <1>2, <1>5, <2>1, <2>2 DEF Shares
  <2>3. CASE k + 1 < n
    <3>1. ds[k + 1] = cs[k + 1]
      BY <1>1, <1>2, <2>3
    <3> QED
      BY <2>1, <3>1
  <2> QED
    BY <1>1, <2>2, <2>3
<1>6. PICK owner : Keeps(cs, fs, owner)
  BY DEF Stack
<1>7. Keeps(ds, gs, owner)
  <2>1. /\ owner \in [1..n -> 1..Len(gs)] /\ owner[1] = 1 /\ owner[n] = Len(gs)
        /\ \A j, k \in 1..n : j <= k => owner[j] <= owner[k]
        /\ \A k \in 1..n - 1 : owner[k + 1] = IF ds[k + 1].fresh THEN owner[k] + 1 ELSE owner[k]
    <3>1. /\ owner \in [1..n -> 1..Len(fs)] /\ owner[1] = 1 /\ owner[n] = Len(fs)
          /\ \A j, k \in 1..n : j <= k => owner[j] <= owner[k]
      BY <1>6 DEF Keeps
    <3>2. \A k \in 1..n - 1 : owner[k + 1] = IF cs[k + 1].fresh THEN owner[k] + 1 ELSE owner[k]
      BY <1>6 DEF Keeps
    <3>3. \A k \in 1..n - 1 : k + 1 \in 1..n
      BY <1>1
    <3>4. \A k \in 1..n - 1 : owner[k + 1] = IF ds[k + 1].fresh THEN owner[k] + 1 ELSE owner[k]
      BY <1>3, <3>2, <3>3
    <3> QED
      BY <3>1, <3>4
  <2>2. ASSUME NEW k \in 1..n, k = n \/ ds[k + 1].fresh
        PROVE  ShownIn(ds[k], gs[owner[k]])
    <3>1. CASE k = n
      BY <1>2, <2>1, <3>1
    <3>2. CASE k < n
      <4>1. k \in 1..n - 1 /\ k + 1 \in 1..n
        BY <1>1, <3>2
      <4>2. owner[k + 1] = owner[k] + 1 /\ owner[k] \in 1..Len(gs) /\ owner[k + 1] \in 1..Len(gs)
        BY <2>1, <2>2, <3>2, <4>1
      <4>3. gs[owner[k]] = fs[owner[k]]
        BY <4>2
      <4>4. ShownIn(cs[k], fs[owner[k]])
        BY <1>3, <1>6, <2>2, <3>2, <4>1 DEF Keeps
      <4> QED
        BY <1>2, <4>1, <4>3, <4>4
    <3> QED
      BY <1>1, <3>1, <3>2
  <2> QED
    BY <1>2, <2>1, <2>2 DEF Keeps
<1>8. ds # <<>> /\ ds[1].fresh
  <2>1. ds # <<>>
    BY <1>1, <1>2
  <2>2. 1 \in 1..n /\ cs[1].fresh
    BY <1>1 DEF Stack
  <2> QED
    BY <1>3, <2>1, <2>2
<1> HIDE DEF n
<1>9. Stack(ds, gs)
  BY <1>2, <1>4, <1>5, <1>7, <1>8 DEF Stack
<1> QED
  BY <1>9 DEF ds
(* A call on an array of its own, or on its caller's *)
LEMMA StackCalled ==
  ASSUME NEW cs, NEW fs, Stack(cs, fs), cs # <<>>, NEW next \in Frame, FlagsHold(next),
         NEW v \in Values,
         IF next.fresh THEN ShownIn(next, v)
         ELSE Shares(Last(cs), next) /\ next.at # "child"
  PROVE  Stack(Append(cs, next), IF next.fresh THEN Append(fs, v) ELSE fs)
<1> DEFINE n == Len(cs)
           m == Len(fs)
           ds == Append(cs, next)
           gs == IF next.fresh THEN Append(fs, v) ELSE fs
<1>1. n \in Nat \ {0} /\ Last(cs) = cs[n]
  BY LastOf DEF Stack
<1>2. ds \in Seq(Frame) /\ Len(ds) = n + 1 /\ ds[n + 1] = next /\ \A i \in 1..n : ds[i] = cs[i]
  BY Added DEF Stack
<1>3. /\ gs \in Seq(Values) /\ m \in Nat /\ Len(gs) = IF next.fresh THEN m + 1 ELSE m
      /\ \A i \in 1..m : gs[i] = fs[i]
      /\ next.fresh => gs[m + 1] = v
  BY Added DEF Stack
<1> HIDE DEF ds, gs
<1>4. ASSUME NEW k \in 1..n + 1
      PROVE  FlagsHold(ds[k])
  <2>1. CASE k = n + 1
    BY <1>2, <2>1
  <2>2. CASE k \in 1..n
    BY <1>2, <2>2 DEF Stack
  <2> QED
    BY <1>1, <2>1, <2>2
<1>5. ASSUME NEW k \in 1..n, ~ds[k + 1].fresh
      PROVE  Shares(ds[k], ds[k + 1])
  <2>1. CASE k = n
    BY <1>1, <1>2, <1>5, <2>1
  <2>2. CASE k < n
    <3>1. k \in 1..n - 1 /\ k + 1 \in 1..n
      BY <1>1, <2>2
    <3>2. ds[k] = cs[k] /\ ds[k + 1] = cs[k + 1]
      BY <1>2, <3>1
    <3> QED
      BY <1>5, <3>1, <3>2 DEF Stack
  <2> QED
    BY <1>1, <2>1, <2>2
<1>6. PICK owner : Keeps(cs, fs, owner)
  BY DEF Stack
<1> DEFINE o == [k \in 1..n + 1 |-> IF k <= n THEN owner[k] ELSE Len(gs)]
<1>7. /\ owner \in [1..n -> 1..m] /\ owner[1] = 1 /\ owner[n] = m
      /\ \A j, k \in 1..n : j <= k => owner[j] <= owner[k]
      /\ \A k \in 1..n - 1 : owner[k + 1] = IF cs[k + 1].fresh THEN owner[k] + 1 ELSE owner[k]
  BY <1>6 DEF Keeps
<1>8. m >= 1 /\ Len(gs) >= m /\ \A k \in 1..n : owner[k] \in 1..Len(gs)
  <2>1. owner[n] \in 1..m
    BY <1>1, <1>7
  <2>2. m >= 1 /\ Len(gs) >= m /\ 1..m \subseteq 1..Len(gs)
    BY <1>3, <2>1
  <2>3. \A k \in 1..n : owner[k] \in 1..m
    BY <1>7
  <2> QED
    BY <2>2, <2>3
<1>9. o[n + 1] = Len(gs) /\ \A k \in 1..n : o[k] = owner[k]
  BY <1>1
<1>10. o \in [1..n + 1 -> 1..Len(gs)]
  BY <1>1, <1>3, <1>8
<1> HIDE DEF o
<1>11. \A j, k \in 1..n + 1 : j <= k => o[j] <= o[k]
  <2> SUFFICES ASSUME NEW j \in 1..n + 1, NEW k \in 1..n + 1, j <= k
               PROVE  o[j] <= o[k]
    OBVIOUS
  <2>1. CASE k = n + 1
    <3>1. o[j] \in 1..Len(gs)
      BY <1>10
    <3> QED
      BY <1>3, <1>9, <2>1, <3>1
  <2>2. CASE k \in 1..n
    <3>1. j \in 1..n
      BY <1>1, <2>2
    <3> QED
      BY <1>7, <1>9, <2>2, <3>1
  <2> QED
    BY <1>1, <2>1, <2>2
<1>12. ASSUME NEW k \in 1..n
       PROVE  o[k + 1] = IF ds[k + 1].fresh THEN o[k] + 1 ELSE o[k]
  <2>1. CASE k = n
    BY <1>1, <1>2, <1>3, <1>7, <1>9, <2>1
  <2>2. CASE k < n
    <3>1. k \in 1..n - 1 /\ k + 1 \in 1..n
      BY <1>1, <2>2
    <3>2. ds[k + 1] = cs[k + 1] /\ o[k + 1] = owner[k + 1] /\ o[k] = owner[k]
      BY <1>2, <1>9, <3>1
    <3> QED
      BY <1>7, <3>1, <3>2
  <2> QED
    BY <1>1, <2>1, <2>2
<1>13. ASSUME NEW k \in 1..n, k = n \/ cs[k + 1].fresh
       PROVE  ShownIn(cs[k], fs[owner[k]]) /\ gs[owner[k]] = fs[owner[k]]
  <2>1. owner[k] \in 1..m
    BY <1>7
  <2> QED
    BY <1>3, <1>6, <1>13, <2>1 DEF Keeps
<1>14. ASSUME NEW k \in 1..n + 1, k = n + 1 \/ ds[k + 1].fresh
       PROVE  ShownIn(ds[k], gs[o[k]])
  <2>1. CASE k \in 1..n
    <3>1. k = n \/ cs[k + 1].fresh
      <4>1. CASE k = n
        BY <4>1
      <4>2. CASE k < n
        <5>1. k + 1 \in 1..n /\ k # n + 1
          BY <1>1, <2>1, <4>2
        <5> QED
          BY <1>2, <1>14, <5>1
      <4> QED
        BY <1>1, <2>1, <4>1, <4>2
    <3> QED
      BY <1>2, <1>9, <1>13, <2>1, <3>1
  <2>2. CASE k = n + 1
    <3>1. ds[k] = next /\ o[k] = Len(gs)
      BY <1>2, <1>9, <2>2
    <3>2. CASE next.fresh
      BY <1>3, <3>1, <3>2
    <3>3. CASE ~next.fresh
      <4>1. Shares(cs[n], next) /\ next.at # "child" /\ Len(gs) = m
        BY <1>1, <1>3, <3>3
      <4>2. n \in 1..n /\ ShownIn(cs[n], gs[m])
        BY <1>1, <1>7, <1>13
      <4> QED
        BY <3>1, <4>1, <4>2 DEF Shares, ShownIn, ShownBy
    <3> QED
      BY <3>2, <3>3
  <2> QED
    BY <1>1, <2>1, <2>2
<1>15. o[1] = 1 /\ o[n + 1] = Len(gs)
  BY <1>1, <1>7, <1>9
<1>16. Keeps(ds, gs, o)
  <2>1. n + 1 - 1 = n
    BY <1>1
  <2> QED
    BY <1>2, <1>10, <1>11, <1>12, <1>14, <1>15, <2>1 DEF Keeps
<1>17. ds # <<>> /\ ds[1].fresh
  <2>1. ds # <<>>
    BY <1>1, <1>2
  <2>2. 1 \in 1..n /\ cs[1].fresh
    BY <1>1 DEF Stack
  <2> QED
    BY <1>2, <2>1, <2>2
<1>18. Stack(ds, gs)
  <2>1. n + 1 - 1 = n
    BY <1>1
  <2>2. /\ \A k \in 1..Len(ds) : FlagsHold(ds[k])
        /\ \A k \in 1..Len(ds) - 1 : ~ds[k + 1].fresh => Shares(ds[k], ds[k + 1])
    BY <1>2, <1>4, <1>5, <2>1
  <2> QED
    BY <1>2, <1>3, <1>16, <1>17, <2>2 DEF Stack
<1> QED
  BY <1>18 DEF ds, gs

(* The innermost call returns. *)
LEMMA StackReturned ==
  ASSUME NEW cs, NEW fs, Stack(cs, fs), cs # <<>>, Last(cs).at # "child"
  PROVE  Stack(Front(cs), IF Last(cs).fresh THEN Front(fs) ELSE fs)
<1> DEFINE n == Len(cs)
           m == Len(fs)
           ds == Front(cs)
           gs == IF Last(cs).fresh THEN Front(fs) ELSE fs
<1>1. /\ n \in Nat \ {0} /\ Last(cs) = cs[n] /\ ds \in Seq(Frame) /\ Len(ds) = n - 1
      /\ \A i \in 1..n - 1 : ds[i] = cs[i]
  BY LastOf DEF Stack
<1>2. PICK owner : Keeps(cs, fs, owner)
  BY DEF Stack
<1>3. /\ owner \in [1..n -> 1..m] /\ owner[1] = 1 /\ owner[n] = m
      /\ \A j, k \in 1..n : j <= k => owner[j] <= owner[k]
      /\ \A k \in 1..n - 1 : owner[k + 1] = IF cs[k + 1].fresh THEN owner[k] + 1 ELSE owner[k]
  BY <1>2 DEF Keeps
<1>4. m \in Nat \ {0} /\ fs # <<>>
  <2>1. m \in Nat
    BY LenProperties DEF Stack
  <2>2. owner[n] \in 1..m
    BY <1>1, <1>3
  <2>3. m # 0
    BY <1>3, <2>1, <2>2
  <2>4. fs # <<>>
    BY <2>3, EmptySeq
  <2> QED
    BY <2>1, <2>3, <2>4
<1>5. /\ gs \in Seq(Values) /\ Len(gs) = IF cs[n].fresh THEN m - 1 ELSE m
      /\ \A i \in 1..Len(gs) : gs[i] = fs[i]
  <2>1. fs \in Seq(Values)
    BY DEF Stack
  <2>2. Front(fs) \in Seq(Values) /\ Len(Front(fs)) = m - 1 /\ \A i \in 1..m - 1 : Front(fs)[i] = fs[i]
    BY <1>4, <2>1, LastOf
  <2> QED
    BY <1>1, <2>1, <2>2
<1> HIDE DEF ds, gs
<1>6. CASE n = 1
  <2>1. cs[n].fresh /\ m = 1
    BY <1>3, <1>6 DEF Stack
  <2>2. Len(ds) = 0 /\ Len(gs) = 0
    BY <1>1, <1>5, <1>6, <2>1
  <2>3. ds = <<>> /\ gs = <<>>
    BY <1>1, <1>5, <2>2, EmptySeq
  <2>4. Stack(ds, gs)
    BY <1>1, <1>5, <2>2, <2>3 DEF Stack
  <2> QED
    BY <2>4 DEF ds, gs
<1>7. CASE n > 1
  <2> DEFINE p == n - 1
  <2>1. p \in Nat \ {0} /\ p \in 1..n - 1 /\ p + 1 = n /\ p \in 1..n
    BY <1>1, <1>7
  <2>2. owner[p] = Len(gs)
    <3>1. owner[n] = IF cs[n].fresh THEN owner[p] + 1 ELSE owner[p]
      BY <1>3, <2>1
    <3>2. owner[p] \in 1..m
      BY <1>3, <2>1
    <3> QED
      BY <1>3, <1>4, <1>5, <3>1, <3>2
  <2> DEFINE o == [k \in 1..p |-> owner[k]]
  <2>3. \A k \in 1..p : k \in 1..n /\ o[k] = owner[k] /\ ds[k] = cs[k]
    BY <1>1, <2>1
  <2>4. \A k \in 1..p : o[k] \in 1..Len(gs)
    <3> TAKE k \in 1..p
    <3>1. k <= p /\ k \in 1..n
      BY <2>1, <2>3
    <3>2. owner[k] <= owner[p] /\ owner[k] \in 1..m
      BY <1>3, <2>1, <3>1
    <3> QED
      BY <1>4, <1>5, <2>2, <2>3, <3>2
  <2>5. o \in [1..p -> 1..Len(gs)] /\ o[1] = 1 /\ o[p] = Len(gs)
    <3>1. 1 \in 1..p /\ p \in 1..p
      BY <2>1
    <3> QED
      BY <1>3, <2>2, <2>3, <2>4, <3>1
  <2> HIDE DEF o
  <2>6. \A j, k \in 1..p : j <= k => o[j] <= o[k]
    BY <1>3, <2>3
  <2>7. ASSUME NEW k \in 1..p - 1
        PROVE  /\ o[k + 1] = IF ds[k + 1].fresh THEN o[k] + 1 ELSE o[k]
               /\ ~ds[k + 1].fresh => Shares(ds[k], ds[k + 1])
    <3>1. k \in 1..p /\ k + 1 \in 1..p /\ k \in 1..n - 1
      BY <2>1
    <3>2. ds[k] = cs[k] /\ ds[k + 1] = cs[k + 1] /\ o[k] = owner[k] /\ o[k + 1] = owner[k + 1]
      BY <2>3, <3>1
    <3> QED
      BY <1>3, <3>1, <3>2 DEF Stack
  <2>8. ASSUME NEW k \in 1..p, k = p \/ ds[k + 1].fresh
        PROVE  ShownIn(ds[k], gs[o[k]])
    <3>1. gs[o[k]] = fs[owner[k]] /\ ds[k] = cs[k]
      BY <1>5, <2>3, <2>4
    <3>2. CASE k = n \/ cs[k + 1].fresh
      BY <1>2, <2>3, <3>1, <3>2 DEF Keeps
    <3>3. CASE k # n /\ ~cs[k + 1].fresh
      <4>1. k = p
        <5>1. CASE k < p
          <6>1. k + 1 \in 1..p
            BY <2>1, <5>1
          <6> QED
            BY <2>1, <2>3, <2>8, <3>3, <5>1, <6>1
        <5>2. k \in Nat /\ p \in Nat /\ k <= p
          BY <2>1
        <5> QED
          BY <5>1, <5>2
      <4>2. Shares(cs[p], cs[n]) /\ ~cs[n].fresh
        BY <2>1, <3>3, <4>1 DEF Stack
      <4>3. ShownIn(cs[n], fs[owner[n]]) /\ owner[n] = owner[p]
        <5>1. n \in 1..n
          BY <1>1
        <5> QED
          BY <1>2, <1>3, <2>1, <4>2, <5>1 DEF Keeps
      <4>4. cs[n].at # "child"
        BY <1>1
      <4>5. ShownIn(cs[p], fs[owner[p]])
        BY <4>2, <4>3, <4>4 DEF Shares, ShownIn, ShownBy
      <4> QED
        BY <3>1, <4>1, <4>5
    <3> QED
      BY <3>2, <3>3
  <2>9. Keeps(ds, gs, o)
    BY <1>1, <2>5, <2>6, <2>7, <2>8 DEF Keeps
  <2>10. /\ \A k \in 1..Len(ds) : FlagsHold(ds[k])
         /\ \A k \in 1..Len(ds) - 1 : ~ds[k + 1].fresh => Shares(ds[k], ds[k + 1])
    BY <1>1, <2>3, <2>7 DEF Stack
  <2>11. ds # <<>> /\ ds[1].fresh
    <3>1. 1 \in 1..p /\ ds # <<>>
      BY <1>1, <2>1
    <3> QED
      BY <2>3, <3>1 DEF Stack
  <2> HIDE DEF p
  <2>12. Stack(ds, gs)
    BY <1>1, <1>5, <2>9, <2>10, <2>11 DEF Stack
  <2> QED
    BY <2>12 DEF ds, gs
<1> QED
  BY <1>1, <1>6, <1>7
-----------------------------------------------------------------------------
(* Steps *)

(* A call as negamax is entered *)
LEMMA CallIs ==
  ASSUME NEW b, Disjoint(b), NEW depth \in Int, NEW level \in Int, NEW fresh \in BOOLEAN,
         NEW midgame \in BOOLEAN, NEW eval \in BOOLEAN,
         midgame = (depth < n_empties(b)), eval = (n_empties(b) % 2 = 0)
  PROVE  /\ Call(b, depth, level, midgame, eval, fresh) \in Frame
         /\ FlagsHold(Call(b, depth, level, midgame, eval, fresh))
         /\ ShownIn(Call(b, depth, level, midgame, eval, fresh), ValuesOf(b))
<1>1. get_moves(b) \subseteq Squares
  <2>1. legalMoves(b) \subseteq Squares
    BY LegalMovesIs DEF Disjoint
  <2> QED
    BY <2>1, GetMovesIs
<1>2. 0 \in Squares
  BY DEF Squares
<1>3. Call(b, depth, level, midgame, eval, fresh) \in Frame
  <2>1. {} \in SUBSET Squares /\ get_moves(b) \in SUBSET Squares /\ "entered" \in Places /\ FALSE \in BOOLEAN
        /\ b \in Position
    BY <1>1 DEF Places, Disjoint
  <2> HIDE DEF Places
  <2> QED
    BY <1>2, <2>1, SMT DEF Call, Frame
<1>4. FlagsHold(Call(b, depth, level, midgame, eval, fresh))
  BY DEF Call, FlagsHold
<1>5. ShownIn(Call(b, depth, level, midgame, eval, fresh), ValuesOf(b))
  BY DEF Call, ShownIn, ShownBy
<1> QED
  BY <1>3, <1>4, <1>5

LEMMA ValuesOfType ==
  \A b : ValuesOf(b) \in Values /\ init_features(b, n_empties(b)) = ValuesOf(b)
  BY ValuesAre DEF ValuesOf, init_features

(* What holds of the innermost call *)
LEMMA TopIs ==
  ASSUME IInv, Searching
  PROVE  /\ calls \in Seq(Frame) /\ features \in Seq(Values) /\ calls # <<>> /\ features # <<>>
         /\ top \in Frame /\ FlagsHold(top) /\ pattern \in Values
         /\ Len(features) \in Nat \ {0} /\ pattern = features[Len(features)]
         /\ ShownIn(top, pattern)
         /\ Len(calls) \in Nat \ {0} /\ top = calls[Len(calls)]
<1>1. calls \in Seq(Frame) /\ features \in Seq(Values) /\ calls # <<>>
  BY DEF IInv, Stack, Searching
<1>2. Len(calls) \in Nat \ {0} /\ top = calls[Len(calls)] /\ top \in Frame
  BY <1>1, LastOf DEF top
<1>3. PICK owner : Keeps(calls, features, owner)
  BY <1>1 DEF IInv, Stack
<1>4. Len(calls) \in 1..Len(calls)
  BY <1>2
<1>5. owner[Len(calls)] \in 1..Len(features) /\ owner[Len(calls)] = Len(features)
  BY <1>3, <1>4 DEF Keeps
<1>6. features # <<>>
  <2>1. Len(features) \in Nat
    BY <1>1, LenProperties
  <2>2. Len(features) # 0
    BY <1>5, <2>1
  <2> QED
    BY <2>2, EmptySeq
<1>7. pattern = features[Len(features)] /\ pattern \in Values /\ Len(features) \in Nat \ {0}
  BY <1>1, <1>6, LastOf DEF pattern
<1>8. ShownIn(top, pattern)
  BY <1>2, <1>3, <1>4, <1>5, <1>7 DEF Keeps
<1>9. FlagsHold(top)
  BY <1>2, <1>4 DEF IInv, Stack
<1> QED
  BY <1>1, <1>2, <1>6, <1>7, <1>8, <1>9

LEMMA ReturnKeeps ==
  ASSUME IInv, Searching, top.at # "child", Return
  PROVE  IInv'
<1>1. Stack(Front(calls), IF top.fresh THEN Front(features) ELSE features)
  BY StackReturned DEF IInv, Searching, top
<1>2. calls' = Front(calls) /\ features' = (IF top.fresh THEN Front(features) ELSE features)
  BY DEF Return
<1> QED
  BY <1>1, <1>2 DEF IInv

(* The innermost call moves on, and calls on its own or its caller's       *)
(* array.                                                                  *)
LEMMA CallingKeeps ==
  ASSUME IInv, Searching, NEW call \in Frame, FlagsHold(call), call.fresh = top.fresh,
         call.board = top.board, call.in_midgame = top.in_midgame,
         NEW gs \in Seq(Values), Len(gs) = Len(features),
         \A i \in 1..Len(features) - 1 : gs[i] = features[i],
         ShownIn(call, gs[Len(gs)]),
         NEW next \in Frame, FlagsHold(next), NEW v \in Values,
         IF next.fresh THEN ShownIn(next, v) ELSE Shares(call, next) /\ next.at # "child"
  PROVE  Stack(Append(Append(Front(calls), call), next), IF next.fresh THEN Append(gs, v) ELSE gs)
<1> DEFINE ds == Append(Front(calls), call)
<1>1. Stack(ds, gs)
  BY StackMoved DEF IInv, Searching, top
<1>2. ds # <<>> /\ Last(ds) = call
  <2>1. ds \in Seq(Frame) /\ Len(ds) = Len(calls) /\ ds[Len(calls)] = call /\ Len(calls) \in Nat \ {0}
    BY TopIs, Replaced
  <2> HIDE DEF ds
  <2>2. ds # <<>>
    BY <2>1
  <2> QED
    BY <2>1, <2>2, LastOf
<1> HIDE DEF ds
<1>3. Stack(Append(ds, next), IF next.fresh THEN Append(gs, v) ELSE gs)
  BY <1>1, <1>2, StackCalled
<1> QED
  BY <1>3 DEF ds
LEMMA StackFirst ==
  ASSUME NEW next \in Frame, FlagsHold(next), next.fresh, NEW v \in Values, ShownIn(next, v)
  PROVE  Stack(<<next>>, <<v>>)
<1> DEFINE cs == <<next>>
           fs == <<v>>
           o == [k \in 1..1 |-> 1]
<1>1. /\ cs \in Seq(Frame) /\ Len(cs) = 1 /\ cs[1] = next /\ cs # <<>>
      /\ fs \in Seq(Values) /\ Len(fs) = 1 /\ fs[1] = v
  OBVIOUS
<1>2. o \in [1..1 -> 1..1] /\ o[1] = 1
  OBVIOUS
<1> HIDE DEF cs, fs, o
<1>3. Keeps(cs, fs, o)
  <2>1. /\ \A j, k \in 1..1 : o[j] <= o[k]
        /\ \A k \in 1..1 - 1 : o[k + 1] = IF cs[k + 1].fresh THEN o[k] + 1 ELSE o[k]
        /\ \A k \in 1..1 : ShownIn(cs[k], fs[o[k]])
    BY <1>1, <1>2
  <2> QED
    BY <1>1, <1>2, <2>1 DEF Keeps
<1>4. Stack(cs, fs)
  <2>1. /\ \A k \in 1..1 : FlagsHold(cs[k])
        /\ \A k \in 1..1 - 1 : ~cs[k + 1].fresh => Shares(cs[k], cs[k + 1])
    BY <1>1
  <2> QED
    BY <1>1, <1>3, <2>1 DEF Stack
<1> QED
  BY <1>4 DEF cs, fs

LEMMA DepthIs ==
  ASSUME NEW level \in Nat, NEW empties \in 0..64
  PROVE  depth_and_selectivity(level, empties).depth \in Int
<1>1. FixedDepth(level, empties).depth \in Int
  BY DEF FixedDepth
<1>2. SelectiveSearch(level, empties).depth \in Int
  BY DEF SelectiveSearch
<1> QED
  BY <1>1, <1>2 DEF depth_and_selectivity

LEMMA EvaluateKeeps ==
  ASSUME IInv, NEW r \in Requests, evaluate(r[1], r[2])
  PROVE  IInv'
<1> DEFINE b == r[1]
           level == r[2]
           empties == n_empties(b)
           s == depth_and_selectivity(level, empties)
           next == Call(b, s.depth, 0, s.depth < empties, empties % 2 = 0, TRUE)
<1>1. Disjoint(b) /\ level \in Nat
  BY EvaluatorAssumption DEF Disjoint
<1>2. empties \in 0..64
  BY <1>1, EmptiesAfter
<1>3. s.depth \in Int
  BY <1>1, <1>2, DepthIs
<1>4. CASE calls' = calls /\ features' = features
  BY <1>4 DEF IInv
<1>5. CASE calls' = <<next>> /\ features' = <<init_features(b, empties)>>
  <2>1. (s.depth < empties) \in BOOLEAN /\ (empties % 2 = 0) \in BOOLEAN /\ TRUE \in BOOLEAN /\ 0 \in Int
    OBVIOUS
  <2> HIDE DEF s
  <2>2. next \in Frame /\ FlagsHold(next) /\ ShownIn(next, ValuesOf(b))
    BY <1>1, <1>3, <2>1, CallIs
  <2>3. next.fresh
    BY DEF Call
  <2> HIDE DEF next
  <2>4. init_features(b, empties) = ValuesOf(b) /\ ValuesOf(b) \in Values
    BY ValuesOfType
  <2>5. Stack(<<next>>, <<ValuesOf(b)>>)
    BY <2>2, <2>3, <2>4, StackFirst
  <2> QED
    BY <1>5, <2>4, <2>5 DEF IInv
<1> QED
  BY <1>4, <1>5 DEF evaluate

(* A call that waits elsewhere than on a move shows its own board. *)
LEMMA MovedTo ==
  ASSUME NEW c \in Frame, FlagsHold(c), NEW at \in Places, at # "child", NEW f
  PROVE  /\ [c EXCEPT !.at = at] \in Frame /\ FlagsHold([c EXCEPT !.at = at])
         /\ [c EXCEPT !.at = at].fresh = c.fresh /\ [c EXCEPT !.at = at].board = c.board
         /\ [c EXCEPT !.at = at].in_midgame = c.in_midgame /\ [c EXCEPT !.at = at].at = at
         /\ ShownIn([c EXCEPT !.at = at], f) <=> (c.in_midgame => f = ValuesOf(c.board))
<1> DEFINE d == [c EXCEPT !.at = at]
<1>1. /\ d \in Frame /\ d.fresh = c.fresh /\ d.board = c.board /\ d.in_midgame = c.in_midgame /\ d.at = at
      /\ d.depth = c.depth /\ d.mover_is_eval_player = c.mover_is_eval_player /\ d.todo = c.todo
  <2> HIDE DEF Places
  <2> QED
    BY DEF Frame
<1> HIDE DEF d
<1>2. FlagsHold(d)
  BY <1>1 DEF FlagsHold
<1>3. ShownIn(d, f) <=> (c.in_midgame => f = ValuesOf(c.board))
  BY <1>1 DEF ShownIn, ShownBy
<1> QED
  BY <1>1, <1>2, <1>3 DEF d

LEMMA PassKeeps ==
  ASSUME IInv, Pass
  PROVE  IInv'
<1> DEFINE passed == Passed(top.board)
           call == [top EXCEPT !.at = "passed"]
           next == Call(passed, top.depth, top.probcut_level, top.in_midgame,
                        top.mover_is_eval_player, top.in_midgame)
           v == ValuesOf(passed)
<1>1. Searching /\ top.at = "entered"
  BY DEF Pass, GoesOn
<1>2. /\ top \in Frame /\ FlagsHold(top) /\ ShownIn(top, pattern) /\ features \in Seq(Values)
      /\ pattern = features[Len(features)]
  BY <1>1, TopIs
<1>3. Disjoint(top.board) /\ Disjoint(passed) /\ n_empties(passed) = n_empties(top.board)
  BY <1>2, EmptiesAfter DEF FlagsHold
<1>4. top.in_midgame => pattern = ValuesOf(top.board)
  BY <1>1, <1>2 DEF ShownIn, ShownBy
<1>5. /\ call \in Frame /\ FlagsHold(call) /\ call.fresh = top.fresh /\ call.board = top.board
      /\ call.in_midgame = top.in_midgame /\ call.at = "passed" /\ ShownIn(call, features[Len(features)])
  <2>1. "passed" \in Places /\ "passed" # "child"
    BY DEF Places
  <2> QED
    BY <1>2, <1>4, <2>1, MovedTo
<1>6. next \in Frame /\ FlagsHold(next) /\ ShownIn(next, v) /\ next.fresh = top.in_midgame
      /\ next.at = "entered" /\ next.in_midgame = top.in_midgame
  <2>1. /\ top.depth \in Int /\ top.probcut_level \in Int /\ top.in_midgame \in BOOLEAN
        /\ top.mover_is_eval_player \in BOOLEAN
    BY <1>2 DEF Frame
  <2>2. /\ top.in_midgame = (top.depth < n_empties(passed))
        /\ top.mover_is_eval_player = (n_empties(passed) % 2 = 0)
    BY <1>2, <1>3 DEF FlagsHold
  <2> HIDE DEF passed
  <2>3. next \in Frame /\ FlagsHold(next) /\ ShownIn(next, v)
    BY <1>3, <2>1, <2>2, CallIs
  <2>4. next.fresh = top.in_midgame /\ next.at = "entered" /\ next.in_midgame = top.in_midgame
    BY DEF Call
  <2> QED
    BY <2>3, <2>4
<1>7. v \in Values /\ init_features(passed, n_empties(passed)) = v
  BY ValuesOfType
<1>8. calls' = Append(Append(Front(calls), call), next)
      /\ features' = IF top.in_midgame THEN Append(features, v) ELSE features
  BY <1>7 DEF Pass, Calling
<1> HIDE DEF call, next, v
<1>9. IF next.fresh THEN ShownIn(next, v) ELSE Shares(call, next) /\ next.at # "child"
  BY <1>5, <1>6 DEF Shares
<1>10. Stack(Append(Append(Front(calls), call), next), IF next.fresh THEN Append(features, v) ELSE features)
  BY <1>1, <1>2, <1>5, <1>6, <1>7, <1>9, CallingKeeps
<1> QED
  BY <1>6, <1>8, <1>10 DEF IInv

LEMMA ProbeKeeps ==
  ASSUME IInv, NEW from \in SUBSET {"entered", "upper"}, NEW at \in {"upper", "lower"}, Probe(from, at)
  PROVE  IInv'
<1> DEFINE depth == probcut_depth(top.depth)
           empties == n_empties(top.board)
           call == [top EXCEPT !.at = at]
           next == Call(top.board, depth, top.probcut_level + 1, depth < empties,
                        top.mover_is_eval_player, TRUE)
           v == ValuesOf(top.board)
<1>1. Searching /\ top.at \in {"entered", "upper"}
  BY DEF Probe, GoesOn
<1>2. /\ top \in Frame /\ FlagsHold(top) /\ ShownIn(top, pattern) /\ features \in Seq(Values)
      /\ pattern = features[Len(features)]
  BY <1>1, TopIs
<1>3. Disjoint(top.board) /\ top.mover_is_eval_player = (empties % 2 = 0)
  BY <1>2 DEF FlagsHold
<1>4. top.in_midgame => pattern = ValuesOf(top.board)
  BY <1>1, <1>2 DEF ShownIn, ShownBy
<1>5. /\ call \in Frame /\ FlagsHold(call) /\ call.fresh = top.fresh /\ call.board = top.board
      /\ call.in_midgame = top.in_midgame /\ ShownIn(call, features[Len(features)])
  <2>1. at \in Places /\ at # "child"
    BY DEF Places
  <2> QED
    BY <1>2, <1>4, <2>1, MovedTo
<1>6. next \in Frame /\ FlagsHold(next) /\ ShownIn(next, v) /\ next.fresh
  <2>1. /\ top.depth \in Int /\ top.probcut_level + 1 \in Int /\ top.mover_is_eval_player \in BOOLEAN
        /\ TRUE \in BOOLEAN /\ (depth < empties) \in BOOLEAN
    BY <1>2 DEF Frame
  <2>2. depth \in Int
    BY <2>1 DEF probcut_depth
  <2> HIDE DEF depth
  <2>3. next \in Frame /\ FlagsHold(next) /\ ShownIn(next, v)
    BY <1>3, <2>1, <2>2, CallIs
  <2>4. next.fresh
    BY DEF Call
  <2> QED
    BY <2>3, <2>4
<1>7. v \in Values /\ init_features(top.board, empties) = v
  BY ValuesOfType
<1>8. calls' = Append(Append(Front(calls), call), next) /\ features' = Append(features, v)
  BY <1>7 DEF Probe, Calling
<1> HIDE DEF call, next, v
<1>9. IF next.fresh THEN ShownIn(next, v) ELSE Shares(call, next) /\ next.at # "child"
  BY <1>6
<1>10. Stack(Append(Append(Front(calls), call), next), IF next.fresh THEN Append(features, v) ELSE features)
  BY <1>1, <1>2, <1>5, <1>6, <1>7, <1>9, CallingKeeps
<1> QED
  BY <1>6, <1>8, <1>10 DEF IInv
(* The call of a move reads its caller's array. *)
LEMMA ChildCallIs ==
  ASSUME NEW c \in Frame, FlagsHold(c), NEW x \in get_moves(c.board), top = c
  PROVE  /\ ChildCall(play(c.board, x)) \in Frame /\ FlagsHold(ChildCall(play(c.board, x)))
         /\ ChildCall(play(c.board, x)).board = play(c.board, x)
         /\ ChildCall(play(c.board, x)).in_midgame = c.in_midgame
         /\ ~ChildCall(play(c.board, x)).fresh /\ ChildCall(play(c.board, x)).at = "entered"
<1> DEFINE child == play(c.board, x)
<1>1. Disjoint(c.board)
  BY DEF FlagsHold
<1>2. Disjoint(child)
  BY <1>1, MoveIs
<1>3. n_empties(child) = n_empties(c.board) - 1 /\ n_empties(c.board) \in 0..64
  BY <1>1, EmptiesAfter
<1>4. /\ c.depth - 1 \in Int /\ c.depth \in Int /\ c.probcut_level \in Int /\ c.in_midgame \in BOOLEAN
      /\ (~c.mover_is_eval_player) \in BOOLEAN /\ FALSE \in BOOLEAN
  BY DEF Frame
<1>5. c.in_midgame = (c.depth - 1 < n_empties(child))
  BY <1>3, <1>4 DEF FlagsHold
<1>6. (~c.mover_is_eval_player) = (n_empties(child) % 2 = 0)
  <2>1. c.mover_is_eval_player = (n_empties(c.board) % 2 = 0)
    BY DEF FlagsHold
  <2>2. (n_empties(child) % 2 = 0) <=> ~(n_empties(c.board) % 2 = 0)
    BY <1>3
  <2> QED
    BY <2>1, <2>2
<1>7. ChildCall(child) = Call(child, c.depth - 1, c.probcut_level, c.in_midgame, ~c.mover_is_eval_player, FALSE)
  BY DEF ChildCall
<1> HIDE DEF child
<1>8. ChildCall(child) \in Frame /\ FlagsHold(ChildCall(child))
  <2> DEFINE depth == c.depth - 1
             eval == ~c.mover_is_eval_player
  <2>1. /\ depth \in Int /\ c.probcut_level \in Int /\ c.in_midgame \in BOOLEAN /\ eval \in BOOLEAN
        /\ FALSE \in BOOLEAN /\ c.in_midgame = (depth < n_empties(child))
        /\ eval = (n_empties(child) % 2 = 0)
    BY <1>4, <1>5, <1>6
  <2> HIDE DEF depth, eval
  <2>2. /\ Call(child, depth, c.probcut_level, c.in_midgame, eval, FALSE) \in Frame
        /\ FlagsHold(Call(child, depth, c.probcut_level, c.in_midgame, eval, FALSE))
    BY <1>2, <2>1, CallIs
  <2> QED
    BY <1>7, <2>2 DEF depth, eval
<1>9. /\ ChildCall(child).board = child /\ ChildCall(child).in_midgame = c.in_midgame
      /\ ~ChildCall(child).fresh /\ ChildCall(child).at = "entered"
  BY <1>7 DEF Call
<1> QED
  BY <1>8, <1>9 DEF child

LEMMA SearchMoveKeeps ==
  ASSUME IInv, NEW x, SearchMove(x)
  PROVE  IInv'
<1> DEFINE child == play(top.board, x)
           flipped == Turned(top.board, x)
           call == [top EXCEPT !.at = "child", !.todo = @ \ {x}, !.move = x, !.flipped = flipped,
                               !.again = FALSE]
           next == ChildCall(child)
           new == update_features(pattern, x, flipped, top.mover_is_eval_player)
           gs == IF top.in_midgame THEN Append(Front(features), new) ELSE features
<1>1. Searching /\ top.at # "child" /\ x \in top.todo
  BY DEF SearchMove, GoesOn, NextMoves
<1>2. /\ top \in Frame /\ FlagsHold(top) /\ ShownIn(top, pattern) /\ features \in Seq(Values)
      /\ features # <<>> /\ Len(features) \in Nat \ {0} /\ pattern \in Values
      /\ pattern = features[Len(features)]
  BY <1>1, TopIs
<1>3. Disjoint(top.board) /\ x \in get_moves(top.board) /\ top.todo \subseteq get_moves(top.board)
  BY <1>1, <1>2 DEF FlagsHold
<1>4. x \in Squares /\ flipped \in SUBSET Squares
  <2>1. x \in Squares /\ flipped \in SUBSET top.board.opponent
    BY <1>3, MoveIs
  <2> QED
    BY <1>3, <2>1 DEF Disjoint, Position
<1>5. top.mover_is_eval_player \in BOOLEAN /\ top.in_midgame \in BOOLEAN
      /\ top.mover_is_eval_player = (n_empties(top.board) % 2 = 0)
  BY <1>2 DEF Frame, FlagsHold
<1>6. /\ call \in Frame /\ call.board = top.board /\ call.in_midgame = top.in_midgame
      /\ call.fresh = top.fresh /\ call.at = "child" /\ call.move = x /\ call.flipped = flipped
      /\ call.depth = top.depth /\ call.mover_is_eval_player = top.mover_is_eval_player
      /\ call.todo = top.todo \ {x}
  <2>1. "child" \in Places /\ FALSE \in BOOLEAN
    BY DEF Places
  <2> HIDE DEF Places, flipped
  <2> QED
    BY <1>2, <1>4, <2>1 DEF Frame
<1>7. new \in Values /\ (top.in_midgame => new = ValuesOf(child))
  <2>1. new \in Values
    BY <1>2, <1>4, <1>5, UndoIs
  <2>2. top.in_midgame => pattern = ValuesOf(top.board)
    BY <1>1, <1>2 DEF ShownIn, ShownBy
  <2>3. ValuesOf(child) = update_features(ValuesOf(top.board), x, flipped, n_empties(top.board) % 2 = 0)
    BY <1>3, ValuesFollowMove
  <2> QED
    BY <1>5, <2>1, <2>2, <2>3
<1>8. next \in Frame /\ FlagsHold(next) /\ next.board = child /\ next.in_midgame = top.in_midgame
      /\ ~next.fresh /\ next.at = "entered"
  BY <1>2, <1>3, ChildCallIs
<1>9. calls' = Append(Append(Front(calls), call), next) /\ features' = gs
  BY DEF SearchMove, Calling, Turned
<1> HIDE DEF call, next, new, flipped, child
<1>10. /\ gs \in Seq(Values) /\ Len(gs) = Len(features) /\ \A i \in 1..Len(features) - 1 : gs[i] = features[i]
       /\ top.in_midgame => gs[Len(features)] = new
  BY <1>2, <1>7, Replaced
<1> HIDE DEF gs
<1>11. FlagsHold(call)
  BY <1>2, <1>3, <1>6 DEF FlagsHold, flipped
<1>12. ShownIn(call, gs[Len(gs)])
  BY <1>6, <1>7, <1>10 DEF ShownIn, ShownBy, child
<1>13. IF next.fresh THEN ShownIn(next, new) ELSE Shares(call, next) /\ next.at # "child"
  BY <1>6, <1>8 DEF Shares, child
<1>14. Stack(Append(Append(Front(calls), call), next), IF next.fresh THEN Append(gs, new) ELSE gs)
  BY <1>1, <1>6, <1>7, <1>8, <1>10, <1>11, <1>12, <1>13, CallingKeeps
<1> QED
  BY <1>8, <1>9, <1>14 DEF IInv

LEMMA SearchAgainKeeps ==
  ASSUME IInv, SearchAgain
  PROVE  IInv'
<1> DEFINE child == play(top.board, top.move)
           call == [top EXCEPT !.again = TRUE]
           next == ChildCall(child)
<1>1. Searching /\ top.at = "child"
  BY DEF SearchAgain, GoesOn
<1>2. /\ top \in Frame /\ FlagsHold(top) /\ ShownIn(top, pattern) /\ features \in Seq(Values)
      /\ pattern \in Values /\ pattern = features[Len(features)]
  BY <1>1, TopIs
<1>3. top.move \in get_moves(top.board)
  BY <1>1, <1>2 DEF FlagsHold
<1>4. /\ call \in Frame /\ call.board = top.board /\ call.in_midgame = top.in_midgame
      /\ call.fresh = top.fresh /\ call.at = "child" /\ call.move = top.move /\ call.flipped = top.flipped
      /\ call.depth = top.depth /\ call.mover_is_eval_player = top.mover_is_eval_player
      /\ call.todo = top.todo
  <2>1. TRUE \in BOOLEAN
    OBVIOUS
  <2> HIDE DEF Places
  <2> QED
    BY <1>1, <1>2, <2>1 DEF Frame
<1>5. next \in Frame /\ FlagsHold(next) /\ next.board = child /\ next.in_midgame = top.in_midgame
      /\ ~next.fresh /\ next.at = "entered"
  BY <1>2, <1>3, ChildCallIs
<1>6. calls' = Append(Append(Front(calls), call), next) /\ features' = features
  BY DEF SearchAgain, Calling
<1> HIDE DEF call, next, child
<1>7. FlagsHold(call)
  BY <1>1, <1>2, <1>4 DEF FlagsHold
<1>8. ShownIn(call, features[Len(features)])
  BY <1>1, <1>2, <1>4 DEF ShownIn, ShownBy
<1>9. IF next.fresh THEN ShownIn(next, pattern) ELSE Shares(call, next) /\ next.at # "child"
  BY <1>4, <1>5 DEF Shares, child
<1>10. Stack(Append(Append(Front(calls), call), next), IF next.fresh THEN Append(features, pattern) ELSE features)
  BY <1>1, <1>2, <1>4, <1>5, <1>7, <1>8, <1>9, CallingKeeps
<1> QED
  BY <1>5, <1>6, <1>10 DEF IInv

LEMMA MoveSearchedKeeps ==
  ASSUME IInv, MoveSearched
  PROVE  IInv'
<1> DEFINE call == [top EXCEPT !.at = "moves"]
           new == undo_features(pattern, top.move, top.flipped, top.mover_is_eval_player)
           gs == IF top.in_midgame THEN Append(Front(features), new) ELSE features
<1>1. Searching /\ top.at = "child"
  BY DEF MoveSearched
<1>2. /\ top \in Frame /\ FlagsHold(top) /\ ShownIn(top, pattern) /\ features \in Seq(Values)
      /\ features # <<>> /\ Len(features) \in Nat \ {0} /\ pattern = features[Len(features)]
  BY <1>1, TopIs
<1>3. /\ Disjoint(top.board) /\ top.move \in get_moves(top.board)
      /\ top.flipped = Turned(top.board, top.move)
  BY <1>1, <1>2 DEF FlagsHold
<1>4. /\ call \in Frame /\ FlagsHold(call) /\ call.fresh = top.fresh /\ call.board = top.board
      /\ call.in_midgame = top.in_midgame
      /\ \A f : ShownIn(call, f) <=> (top.in_midgame => f = ValuesOf(top.board))
  <2>1. "moves" \in Places /\ "moves" # "child"
    BY DEF Places
  <2> QED
    BY <1>2, <2>1, MovedTo
<1>5. top.in_midgame => new = ValuesOf(top.board)
  <2> SUFFICES ASSUME top.in_midgame
               PROVE  new = ValuesOf(top.board)
    OBVIOUS
  <2>1. top.mover_is_eval_player \in BOOLEAN
        /\ top.mover_is_eval_player = (n_empties(top.board) % 2 = 0)
    BY <1>2 DEF Frame, FlagsHold
  <2>2. pattern = ValuesOf(play(top.board, top.move))
    BY <1>1, <1>2 DEF ShownIn, ShownBy
  <2>3. pattern = update_features(ValuesOf(top.board), top.move, top.flipped, top.mover_is_eval_player)
    BY <1>3, <2>1, <2>2, ValuesFollowMove
  <2>4. top.move \in Squares /\ top.flipped \in SUBSET Squares
    BY <1>2 DEF Frame
  <2> QED
    BY <2>1, <2>3, <2>4, ValuesOfType, UndoIs
<1>6. /\ gs \in Seq(Values) /\ Len(gs) = Len(features) /\ \A i \in 1..Len(features) - 1 : gs[i] = features[i]
      /\ top.in_midgame => gs[Len(features)] = ValuesOf(top.board)
  <2> HIDE DEF new
  <2>1. CASE top.in_midgame
    <3>1. new \in Values
      BY <1>5, <2>1, ValuesOfType
    <3> QED
      BY <1>2, <1>5, <2>1, <3>1, Replaced
  <2>2. CASE ~top.in_midgame
    BY <1>2, <2>2
  <2> QED
    BY <2>1, <2>2
<1>7. calls' = Append(Front(calls), call) /\ features' = gs
  BY DEF MoveSearched
<1> HIDE DEF call, gs, new
<1>8. ShownIn(call, gs[Len(gs)])
  BY <1>4, <1>6
<1>9. Stack(Append(Front(calls), call), gs)
  BY <1>1, <1>4, <1>6, <1>8, StackMoved DEF IInv, Searching, top
<1> QED
  BY <1>7, <1>9 DEF IInv

LEMMA InitKeeps ==
  ASSUME Init
  PROVE  IInv
<1>1. calls = <<>> /\ features = <<>> /\ Len(<<>>) = 0
  BY DEF Init
<1> QED
  BY <1>1 DEF IInv, Stack

LEMMA StepKeeps ==
  ASSUME IInv, [Next]_vars
  PROVE  IInv'
<1>1. CASE calls' = calls /\ features' = features
  BY <1>1 DEF IInv
<1>2. ASSUME NEW f \in Files, ExtractWeights(f)
      PROVE  IInv'
  BY <1>1, <1>2 DEF ExtractWeights
<1>3. ASSUME NEW bytes, init_weights(bytes)
      PROVE  IInv'
  BY <1>1, <1>3 DEF init_weights
<1>4. ASSUME NEW r \in Requests, evaluate(r[1], r[2])
      PROVE  IInv'
  BY <1>4, EvaluateKeeps
<1>5. CASE ReturnAtOnce
  BY <1>5, ReturnKeeps DEF ReturnAtOnce
<1>6. CASE Pass
  BY <1>6, PassKeeps
<1>7. CASE ReturnPassed
  BY <1>7, ReturnKeeps DEF ReturnPassed
<1>8. CASE ProbeUpper
  BY <1>8, ProbeKeeps DEF ProbeUpper
<1>9. CASE ProbeLower
  BY <1>9, ProbeKeeps DEF ProbeLower
<1>10. CASE ReturnProbed
  BY <1>10, ReturnKeeps DEF ReturnProbed
<1>11. ASSUME NEW x, SearchMove(x)
       PROVE  IInv'
  BY <1>11, SearchMoveKeeps
<1>12. CASE SearchAgain
  BY <1>12, SearchAgainKeeps
<1>13. CASE MoveSearched
  BY <1>13, MoveSearchedKeeps
<1>14. CASE ReturnBest
  BY <1>14, ReturnKeeps DEF ReturnBest
<1>15. CASE vars' = vars
  BY <1>1, <1>15 DEF vars
<1> QED
  BY <1>2, <1>3, <1>4, <1>5, <1>6, <1>7, <1>8, <1>9, <1>10, <1>11, <1>12, <1>13, <1>14, <1>15 DEF Next

(* For every set of requests and files, and calls of any depth: wherever   *)
(* a midgame search may read the pattern values, they are those of the     *)
(* position it stands at, computed afresh, and the flags handed down from  *)
(* call to call are what the position says (search.rs::negamax).           *)
THEOREM FeaturesFollow == Spec => []FeaturesFollowBoard
<1>1. ASSUME IInv
      PROVE  FeaturesFollowBoard
  <2> SUFFICES ASSUME Searching
               PROVE  LET empties == n_empties(top.board)
                      IN  /\ top.in_midgame = (top.depth < empties)
                          /\ top.mover_is_eval_player = (empties % 2 = 0)
                          /\ top.in_midgame => pattern = init_features(Shown, n_empties(Shown))
    BY DEF FeaturesFollowBoard
  <2>1. FlagsHold(top) /\ ShownIn(top, pattern)
    BY <1>1, TopIs
  <2>2. ASSUME top.in_midgame
        PROVE  pattern = init_features(Shown, n_empties(Shown))
    <3>1. Shown = ShownBy(top)
      BY <2>2 DEF Shown, ShownBy
    <3> QED
      BY <2>1, <2>2, <3>1 DEF ShownIn, ValuesOf
  <2> QED
    BY <2>1, <2>2 DEF FlagsHold
<1> QED
  BY <1>1, InitKeeps, StepKeeps, PTL DEF Spec

-----------------------------------------------------------------------------
(* The ways to compute what a move turns: the Kogge-Stone fill *)

(* The first n squares from x on in steps of d are in m. *)
RunOf(m, x, d, n) == \A i \in 1..n : x + i * d \in m

LEMMA RunCases ==
  ASSUME NEW m, NEW x, NEW d
  PROVE  /\ RunOf(m, x, d, 1) <=> x + 1 * d \in m
         /\ RunOf(m, x, d, 2) <=> RunOf(m, x, d, 1) /\ x + 2 * d \in m
         /\ RunOf(m, x, d, 3) <=> RunOf(m, x, d, 2) /\ x + 3 * d \in m
         /\ RunOf(m, x, d, 4) <=> RunOf(m, x, d, 3) /\ x + 4 * d \in m
         /\ RunOf(m, x, d, 5) <=> RunOf(m, x, d, 4) /\ x + 5 * d \in m
         /\ RunOf(m, x, d, 6) <=> RunOf(m, x, d, 5) /\ x + 6 * d \in m
         /\ RunOf(m, x, d, 7) <=> RunOf(m, x, d, 6) /\ x + 7 * d \in m
<1>1. /\ 1..1 = {1} /\ 1..2 = 1..1 \cup {2} /\ 1..3 = 1..2 \cup {3} /\ 1..4 = 1..3 \cup {4}
      /\ 1..5 = 1..4 \cup {5} /\ 1..6 = 1..5 \cup {6} /\ 1..7 = 1..6 \cup {7}
  OBVIOUS
<1> QED
  BY <1>1 DEF RunOf

(* No run of the programs' masks is longer than six squares. *)
LEMMA NoSeven ==
  ASSUME NEW o \in SUBSET Squares, NEW x \in Squares, NEW d \in Slants \cup Uprights,
         RunOf(StepMask(o, d), x, d, 7)
  PROVE  x + 8 * d \notin Squares
<1> DEFINE m == StepMask(o, d)
<1>1. /\ x + 1 * d \in m /\ x + 2 * d \in m /\ x + 3 * d \in m /\ x + 4 * d \in m /\ x + 5 * d \in m
      /\ x + 6 * d \in m /\ x + 7 * d \in m
  BY DEF RunOf
<1>2. CASE d \in Uprights
  BY <1>2 DEF Uprights, Squares
<1>3. CASE d \in Slants
  <2>1. m \subseteq middleColumns
    BY <1>3, Steps
  <2>2. \A s \in middleColumns : s % 8 \in 1..6
    BY DEF middleColumns, Col, Squares
  <2> HIDE DEF m
  <2>3. /\ (x + 1 * d) % 8 \in 1..6 /\ (x + 2 * d) % 8 \in 1..6 /\ (x + 3 * d) % 8 \in 1..6
        /\ (x + 4 * d) % 8 \in 1..6 /\ (x + 5 * d) % 8 \in 1..6 /\ (x + 6 * d) % 8 \in 1..6
        /\ (x + 7 * d) % 8 \in 1..6
    BY <1>1, <2>1, <2>2
  <2>4. x \in 0..63
    BY DEF Squares
  <2>5. CASE d = 1
    BY <2>3, <2>4, <2>5
  <2>6. CASE d = -1
    BY <2>3, <2>4, <2>6
  <2>7. CASE d = 7
    BY <2>3, <2>4, <2>7
  <2>8. CASE d = -7
    BY <2>3, <2>4, <2>8
  <2>9. CASE d = 9
    BY <2>3, <2>4, <2>9
  <2>10. CASE d = -9
    BY <2>3, <2>4, <2>10
  <2> QED
    BY <1>3, <2>5, <2>6, <2>7, <2>8, <2>9, <2>10 DEF Slants
<1> QED
  BY <1>2, <1>3

(* The first n squares from x on in steps of d that a run of m reaches *)
Filled(g, m, x, d, n) ==
  g \in SUBSET Squares /\ \A t : t \in g <=> \E i \in 0..n - 1 : t = x + i * d /\ RunOf(m, x, d, i)

LEMMA Doubling ==
  ASSUME NEW m \in SUBSET Squares, NEW x \in Squares, NEW d \in Int, NEW n \in Nat \ {0},
         NEW g, Filled(g, m, x, d, n), NEW c \in SUBSET Squares, NEW nd \in Int, nd = n * d,
         \A t \in Int : t \in c <=> \A h \in 0..n - 1 : t - h * d \in m
  PROVE  Filled(g \cup (c \cap Shift(g, nd)), m, x, d, 2 * n)
<1> DEFINE P(i) == x + i * d
           R(i) == RunOf(m, x, d, i)
<1>1. /\ x \in Int /\ Squares \subseteq Int
      /\ \A i \in Int : P(i) \in Int /\ P(i) + nd = P(i + n) /\ P(i + n) - nd = P(i)
      /\ \A i, h \in Int : P(i) - h * d = P(i - h)
  BY DEF Squares
<1>2. \A t \in Int : t \in Shift(g, nd) <=> t \in Squares /\ t - nd \in g
  BY ShiftIs DEF Filled
<1>3. \A t : t \in g <=> \E i \in 0..n - 1 : t = P(i) /\ R(i)
  BY DEF Filled
<1>4. \A i, j \in Nat : i <= j /\ R(j) => R(i)
  <2>1. \A i, j \in Nat : i <= j => 1..i \subseteq 1..j
    OBVIOUS
  <2> QED
    BY <2>1 DEF RunOf
<1>5. \A i \in Nat : R(i + n) <=> R(i) /\ \A h \in 0..n - 1 : P((i + n) - h) \in m
  <2>1. TAKE i \in Nat
  <2>2. ASSUME R(i + n), NEW h \in 0..n - 1 PROVE P((i + n) - h) \in m
    <3>1. (i + n) - h \in 1..i + n
      OBVIOUS
    <3> QED
      BY <2>2, <3>1 DEF RunOf
  <2>3. ASSUME R(i), \A h \in 0..n - 1 : P((i + n) - h) \in m, NEW k \in 1..i + n PROVE P(k) \in m
    <3>1. CASE k \in 1..i
      BY <2>3, <3>1 DEF RunOf
    <3>2. CASE k > i
      <4>1. (i + n) - k \in 0..n - 1 /\ (i + n) - ((i + n) - k) = k
        BY <3>2
      <4> HIDE DEF P
      <4> QED
        BY <2>3, <4>1
    <3> QED
      BY <3>1, <3>2
  <2>4. i <= i + n /\ i + n \in Nat
    OBVIOUS
  <2>5. (\A k \in 1..i + n : P(k) \in m) => R(i + n)
    BY DEF RunOf
  <2> HIDE DEF R, P
  <2> QED
    BY <1>4, <2>2, <2>3, <2>4, <2>5
<1> HIDE DEF P, R
<1>6. \A i \in Int : P(i + n) \in c <=> \A h \in 0..n - 1 : P((i + n) - h) \in m
  <2>1. TAKE i \in Int
  <2>2. i + n \in Int /\ P(i + n) \in Int
    BY <1>1
  <2>3. \A h \in 0..n - 1 : h \in Int /\ P(i + n) - h * d = P((i + n) - h)
    <3> DEFINE k == i + n
    <3>1. k \in Int
      BY <2>2
    <3> HIDE DEF k
    <3>2. \A h \in Int : P(k) - h * d = P(k - h)
      BY <1>1, <3>1
    <3>3. \A h \in 0..n - 1 : h \in Int
      OBVIOUS
    <3>4. \A h \in 0..n - 1 : h \in Int /\ P(k) - h * d = P(k - h)
      BY <3>2, <3>3
    <3> QED
      BY <3>4 DEF k
  <2> QED
    BY <2>2, <2>3
<1>7. ASSUME NEW t \in g \cup (c \cap Shift(g, nd)) PROVE \E i \in 0..2 * n - 1 : t = P(i) /\ R(i)
  <2>1. CASE t \in g
    <3>1. 0..n - 1 \subseteq 0..2 * n - 1
      OBVIOUS
    <3> QED
      BY <1>3, <2>1, <3>1
  <2>2. CASE t \in c \cap Shift(g, nd)
    <3>1. t \in Int /\ t - nd \in g
      BY <1>1, <1>2, <2>2
    <3>2. PICK i \in 0..n - 1 : t - nd = P(i) /\ R(i)
      BY <1>3, <3>1
    <3>3. i \in Int /\ i \in Nat /\ i + n \in 0..2 * n - 1
      OBVIOUS
    <3>4. t = P(i + n)
      <4>1. t = (t - nd) + nd
        BY <3>1
      <4> QED
        BY <1>1, <3>2, <3>3, <4>1
    <3> QED
      BY <1>5, <1>6, <2>2, <3>2, <3>3, <3>4
  <2> QED
    BY <2>1, <2>2
<1>8. ASSUME NEW i \in 0..2 * n - 1, R(i) PROVE P(i) \in g \cup (c \cap Shift(g, nd))
  <2>1. CASE i \in 0..n - 1
    BY <1>3, <1>8, <2>1
  <2>2. CASE i >= n
    <3>1. i - n \in 0..n - 1 /\ (i - n) + n = i /\ i - n \in Nat /\ i - n \in Int
      BY <2>2
    <3>2. R(i - n) /\ P(i) \in c
      BY <1>5, <1>6, <1>8, <3>1
    <3>3. P(i - n) \in g
      BY <1>3, <3>1, <3>2
    <3>4. P(i) \in Int /\ P(i) - nd = P(i - n)
      BY <1>1, <3>1
    <3> QED
      BY <1>2, <3>2, <3>3, <3>4
  <2> QED
    BY <2>1, <2>2
<1>9. g \cup (c \cap Shift(g, nd)) \in SUBSET Squares
  BY DEF Filled
<1> QED
  BY <1>7, <1>8, <1>9 DEF Filled, P, R

LEMMA OccludedIs ==
  ASSUME NEW p \in SUBSET Squares, NEW m \in SUBSET Squares, p \cap m = {}, NEW x \in Squares, x \notin m,
         NEW d \in Int, d # 0, RunOf(m, x, d, 7) => x + 8 * d \notin p
  PROVE  \A t : t \in OccludedFill(p, m, x, d) <=> Trapped(p, m, x, d, t)
<1> DEFINE one == {x} \cup (Shift({x}, d) \cap m)
           m2 == m \cap Shift(m, d)
           two == one \cup (m2 \cap Shift(one, 2 * d))
           m4 == m2 \cap Shift(m2, 2 * d)
           four == two \cup (m4 \cap Shift(two, 4 * d))
           P(i) == x + i * d
           R(i) == RunOf(m, x, d, i)
<1>1. OccludedFill(p, m, x, d) = IF one # {x} /\ Shift(four, d) \cap p # {} THEN four \ {x} ELSE {}
  BY DEF OccludedFill
<1>2. /\ x \in Int /\ 2 * d \in Int /\ 4 * d \in Int /\ Squares \subseteq Int
      /\ P(0) = x /\ \A i \in Int : P(i) \in Int /\ P(i) + d = P(i + 1) /\ P(i + 1) - d = P(i)
  BY DEF Squares
<1>0. \A t : t \in one <=> t = x \/ (t = P(1) /\ P(1) \in m)
  <2>1. \A t \in Int : t \in Shift({x}, d) <=> t \in Squares /\ t - d = x
    BY ShiftIs
  <2>2. \A t \in Int : t - d = x <=> t = P(1)
    BY <1>2
  <2>3. \A t : t \in one <=> t = x \/ (t \in Shift({x}, d) /\ t \in m)
    OBVIOUS
  <2>4. \A t : t \in m => t \in Int /\ t \in Squares
    BY <1>2
  <2> HIDE DEF P, one
  <2>5. \A t : t \in m => (t \in Shift({x}, d) <=> t = P(1))
    BY <2>1, <2>2, <2>4, Zenon
  <2> QED
    BY <2>3, <2>5, Zenon
<1>3. Filled(one, m, x, d, 2)
  <2>3. R(0) /\ (R(1) <=> P(1) \in m)
    <3>1. 1..0 = {} /\ 1..1 = {1}
      OBVIOUS
    <3> QED
      BY <3>1 DEF RunOf
  <2>4. 0..2 - 1 = {0, 1}
    OBVIOUS
  <2>5. one \in SUBSET Squares
    OBVIOUS
  <2> HIDE DEF one
  <2>6. \A t : t \in one <=> \E i \in 0..2 - 1 : t = P(i) /\ R(i)
    <3> HIDE DEF P, R
    <3> QED
      BY <1>0, <1>2, <2>3, <2>4
  <2> QED
    BY <2>5, <2>6 DEF Filled
<1>4. \A t \in Int : t \in m2 <=> \A h \in 0..2 - 1 : t - h * d \in m
  <2>1. \A t \in Int : t \in m2 <=> t \in m /\ t - d \in m
    BY ShiftIs
  <2>2. 0..2 - 1 = {0, 1} /\ \A t \in Int : t - 0 * d = t /\ t - 1 * d = t - d
    OBVIOUS
  <2> HIDE DEF m2
  <2> QED
    BY <2>1, <2>2
<1>5. \A t \in Int : t \in m4 <=> \A h \in 0..4 - 1 : t - h * d \in m
  <2>1. \A t \in Int : t \in m2 <=> t \in m /\ t - d \in m
    BY ShiftIs
  <2>2. m2 \in SUBSET Squares
    OBVIOUS
  <2>3. \A t \in Int : t \in m4 <=> t \in m2 /\ t - 2 * d \in m2
    BY <1>2, <2>2, ShiftIs
  <2>4. /\ 0..4 - 1 = {0, 1, 2, 3}
        /\ \A t \in Int : /\ t - 0 * d = t /\ t - 1 * d = t - d /\ t - 2 * d \in Int
                          /\ t - 3 * d = (t - 2 * d) - d
    OBVIOUS
  <2> HIDE DEF m2, m4
  <2> QED
    BY <2>1, <2>3, <2>4
<1>6. m2 \in SUBSET Squares /\ m4 \in SUBSET Squares
  OBVIOUS
<1> HIDE DEF m2, m4
<1>7. Filled(four, m, x, d, 8)
  <2>1. 2 \in Nat \ {0} /\ 4 \in Nat \ {0} /\ 2 * 2 = 4 /\ 2 * 4 = 8
    OBVIOUS
  <2>2. Filled(two, m, x, d, 4)
    <3> HIDE DEF one
    <3>1. Filled(two, m, x, d, 2 * 2)
      BY <1>2, <1>3, <1>4, <1>6, <2>1, Doubling
    <3> QED
      BY <2>1, <3>1
  <2> HIDE DEF two
  <2>3. Filled(four, m, x, d, 2 * 4)
    BY <1>2, <1>5, <1>6, <2>1, <2>2, Doubling
  <2> QED
    BY <2>1, <2>3
<1>8. one # {x} <=> R(1)
  <2>3. R(1) <=> P(1) \in m
    <3>1. 1..1 = {1}
      OBVIOUS
    <3> QED
      BY <3>1 DEF RunOf
  <2> HIDE DEF one, R, P
  <2> QED
    BY <1>0, <2>3
<1>9. \A t : t \in four <=> \E i \in 0..7 : t = P(i) /\ R(i)
  <2>1. 8 - 1 = 7
    OBVIOUS
  <2> HIDE DEF four
  <2> QED
    BY <1>7, <2>1 DEF Filled
<1>10. four \in SUBSET Squares
  BY <1>7 DEF Filled
<1> HIDE DEF one, two, four
<1>11. \A i, j \in Nat : i <= j /\ R(j) => R(i)
  <2>1. \A i, j \in Nat : i <= j => 1..i \subseteq 1..j
    OBVIOUS
  <2> QED
    BY <2>1 DEF RunOf
<1>12. \A i \in Nat \ {0} : R(i) => P(i) \in m
  <2>1. \A i \in Nat \ {0} : i \in 1..i
    OBVIOUS
  <2> QED
    BY <2>1 DEF RunOf
<1>13. R(7) => P(8) \notin p
  OBVIOUS
<1>14. \A j \in 1..6 : Reach(p, m, x + d, d, j) <=> R(j) /\ P(j + 1) \in p
  <2>1. TAKE j \in 1..6
  <2>2. \A i \in Int : (x + d) + i * d = P(i + 1)
    BY <1>2
  <2>3. (\A i \in 0..j - 1 : (x + d) + i * d \in m) <=> R(j)
    <3>1. (\A i \in 0..j - 1 : P(i + 1) \in m) <=> \A i \in 1..j : P(i) \in m
      <4>1. \A i \in 1..j : i - 1 \in 0..j - 1 /\ (i - 1) + 1 = i
        OBVIOUS
      <4>2. \A i \in 0..j - 1 : i + 1 \in 1..j
        OBVIOUS
      <4> HIDE DEF P
      <4> QED
        BY <4>1, <4>2
    <3>2. \A i \in 0..j - 1 : i \in Int
      OBVIOUS
    <3>3. R(j) <=> \A i \in 1..j : P(i) \in m
      BY DEF RunOf
    <3> HIDE DEF P, R
    <3> QED
      BY <2>2, <3>1, <3>2, <3>3
  <2>4. j \in Int
    OBVIOUS
  <2> HIDE DEF P, R
  <2> QED
    BY <2>2, <2>3, <2>4 DEF Reach
<1>15. \A j \in 1..6 : \A t : (\E i \in 0..j - 1 : t = (x + d) + i * d) <=> \E i \in 1..j : t = P(i)
  <2>1. TAKE j \in 1..6
  <2>0. TAKE t
  <2>2. \A i \in Int : (x + d) + i * d = P(i + 1)
    BY <1>2
  <2>3. \A i \in 1..j : i - 1 \in 0..j - 1 /\ (i - 1) + 1 = i /\ i - 1 \in Int
    OBVIOUS
  <2>4. \A i \in 0..j - 1 : i + 1 \in 1..j /\ i \in Int
    OBVIOUS
  <2> HIDE DEF P
  <2> QED
    BY <2>2, <2>3, <2>4
<1> HIDE DEF P, R
<1>16. (R(1) /\ Shift(four, d) \cap p # {}) <=> \E j \in 1..6 : R(j) /\ P(j + 1) \in p
  <2>1. \A t \in Int : t \in Shift(four, d) <=> t \in Squares /\ t - d \in four
    BY <1>10, ShiftIs
  <2>2. ASSUME R(1), NEW t \in Shift(four, d) \cap p PROVE \E j \in 1..6 : R(j) /\ P(j + 1) \in p
    <3>1. t \in Int /\ t \in p /\ t - d \in four
      BY <1>2, <2>1
    <3>2. PICK i \in 0..7 : t - d = P(i) /\ R(i)
      BY <1>9, <3>1
    <3>3. t = P(i + 1)
      <4>1. t = (t - d) + d /\ i \in Int
        BY <3>1
      <4> QED
        BY <1>2, <3>2, <4>1
    <3>4. i # 0
      <4>1. P(1) \in m /\ 0 + 1 = 1
        BY <1>12, <2>2
      <4> QED
        BY <3>1, <3>3, <4>1
    <3>5. i # 7
      <4>1. 7 + 1 = 8
        OBVIOUS
      <4> QED
        BY <1>13, <3>1, <3>2, <3>3, <4>1
    <3>6. i \in 1..6
      BY <3>4, <3>5
    <3> QED
      BY <3>1, <3>2, <3>3, <3>6
  <2>3. ASSUME NEW j \in 1..6, R(j), P(j + 1) \in p PROVE R(1) /\ P(j + 1) \in Shift(four, d) \cap p
    <3>1. j \in Nat /\ 1 \in Nat /\ 1 <= j /\ j \in 0..7 /\ j \in Int
      OBVIOUS
    <3>2. R(1) /\ P(j) \in four
      BY <1>9, <1>11, <2>3, <3>1
    <3> QED
      BY <1>2, <2>1, <2>3, <3>1, <3>2
  <2> QED
    BY <2>2, <2>3
<1>17. ASSUME NEW j \in 1..6, R(j), P(j + 1) \in p, NEW t
       PROVE  t \in four \ {x} <=> \E i \in 1..j : t = P(i)
  <2>1. ASSUME t \in four \ {x} PROVE \E i \in 1..j : t = P(i)
    <3>1. PICK i \in 0..7 : t = P(i) /\ R(i)
      BY <1>9, <2>1
    <3>2. i # 0
      BY <1>2, <2>1, <3>1
    <3>3. ~(j + 1 <= i)
      <4>1. j + 1 \in Nat \ {0} /\ i \in Nat /\ j + 1 \in Nat
        OBVIOUS
      <4> QED
        BY <1>11, <1>12, <1>17, <3>1, <4>1
    <3>4. i \in 1..j
      BY <3>2, <3>3
    <3> QED
      BY <3>1, <3>4
  <2>2. ASSUME NEW i \in 1..j PROVE P(i) \in four \ {x}
    <3>1. i \in 0..7 /\ i \in Nat \ {0} /\ j \in Nat /\ i \in Nat /\ i <= j
      OBVIOUS
    <3>2. R(i)
      BY <1>11, <1>17, <3>1
    <3> QED
      BY <1>9, <1>12, <3>1, <3>2
  <2> QED
    BY <2>1, <2>2
<1>18. ASSUME NEW t PROVE t \in OccludedFill(p, m, x, d) <=> \E j \in 1..6 : R(j) /\ P(j + 1) \in p /\ \E i \in 1..j : t = P(i)
  BY <1>1, <1>8, <1>16, <1>17
<1> QED
  BY <1>14, <1>15, <1>18 DEF Trapped

LEMMA KoggeStoneIs ==
  ASSUME NEW b, Disjoint(b), NEW x \in Squares, x \notin Discs(b)
  PROVE  get_flip_kogge_stone(b, x) = flippedDiscs(b, x)
<1> DEFINE p == b.player
           o == b.opponent
           mid == o \cap middleColumns
           all == (UNION {OccludedFill(p, mid, x, d) : d \in Slants})
                  \cup (UNION {OccludedFill(p, o, x, d) : d \in Uprights})
<1>1. p \in SUBSET Squares /\ o \in SUBSET Squares /\ p \cap o = {} /\ x \notin o
  BY DEF Disjoint, Position, Discs
<1>2. get_flip_kogge_stone(b, x) = all
  BY DEF get_flip_kogge_stone, Slants, Uprights
<1>3. \A t : t \in all <=> (\E d \in Slants : t \in OccludedFill(p, mid, x, d)) \/ \E d \in Uprights : t \in OccludedFill(p, o, x, d)
  <2> DEFINE F(m, d) == OccludedFill(p, m, x, d)
  <2> DEFINE U == UNION {F(mid, d) : d \in Slants}
             V == UNION {F(o, d) : d \in Uprights}
  <2>1. all = U \cup V
    OBVIOUS
  <2>2. \A t : t \in all <=> (\E d \in Slants : t \in F(mid, d)) \/ \E d \in Uprights : t \in F(o, d)
    <3> HIDE DEF F, mid, all
    <3>1. \A t : t \in U <=> \E d \in Slants : t \in F(mid, d)
      OBVIOUS
    <3>2. \A t : t \in V <=> \E d \in Uprights : t \in F(o, d)
      OBVIOUS
    <3> HIDE DEF U, V
    <3> QED
      BY <2>1, <3>1, <3>2
  <2> QED
    BY <2>2
<1>4. \A t : t \in flippedDiscs(b, x) <=> \E e \in Slants \cup Uprights : Trapped(p, StepMask(o, e), x, e, t)
  BY FlippedIs
<1> HIDE DEF p, o, all
<1>5. ASSUME NEW d \in Slants \cup Uprights
      PROVE  \A t : t \in OccludedFill(p, StepMask(o, d), x, d) <=> Trapped(p, StepMask(o, d), x, d, t)
  <2>1. StepMask(o, d) \in SUBSET o
    BY DEF StepMask
  <2>2. /\ StepMask(o, d) \in SUBSET Squares /\ p \cap StepMask(o, d) = {} /\ x \notin StepMask(o, d)
        /\ d \in Int /\ d # 0
    BY <1>1, <2>1 DEF Slants, Uprights
  <2>3. RunOf(StepMask(o, d), x, d, 7) => x + 8 * d \notin p
    BY <1>1, NoSeven
  <2> QED
    BY <1>1, <2>2, <2>3, OccludedIs
<1>6. (\A e \in Slants : StepMask(o, e) = mid) /\ \A e \in Uprights : StepMask(o, e) = o
  BY Steps
<1> HIDE DEF mid
<1>7. \A t : t \in all <=> t \in flippedDiscs(b, x)
  BY <1>3, <1>4, <1>5, <1>6
<1> QED
  BY <1>2, <1>7

-----------------------------------------------------------------------------
(* The carry over rays *)

LEMMA LeastIs == ASSUME NEW S \in SUBSET Int, NEW m \in S, \A x \in S : m <= x PROVE Min(S) = m
<1>1. \A y \in S : (\A x \in S : y <= x) => y = m
  OBVIOUS
<1> QED
  BY <1>1 DEF Min

LEMMA GreatestIs == ASSUME NEW S \in SUBSET Int, NEW m \in S, \A x \in S : m >= x PROVE Max(S) = m
<1>1. \A y \in S : (\A x \in S : y >= x) => y = m
  OBVIOUS
<1> QED
  BY <1>1 DEF Max

(* The squares on the board in a direction are the first n. *)
OnBoardTo(x, dir, n) == \A k \in 1..7 : OnBoard(x, dir, k) <=> k <= n

LEMMA RayLength ==
  ASSUME NEW x \in Squares, NEW dir \in Directions
  PROVE  \E n \in 0..7 : OnBoardTo(x, dir, n)
<1> DEFINE c == Col(x)
           r == Row(x)
           u == dir[1]
           v == dir[2]
           On(k) == c + k * u \in 0..7 /\ r + k * v \in 0..7
<1>1. c \in 0..7 /\ r \in 0..7
  BY Coordinates
<1>2. (u = 0 \/ u = 1 \/ u = -1) /\ (v = 0 \/ v = 1 \/ v = -1)
  BY DirectionCases
<1>3. \A k : OnBoard(x, dir, k) <=> On(k)
  BY DEF OnBoard
<1> HIDE DEF c, r, u, v
<1>4. \A k \in 1..6 : On(k + 1) => On(k)
  <2>1. ASSUME NEW k \in 1..6, c + (k + 1) * u \in 0..7 PROVE c + k * u \in 0..7
    <3>1. CASE u = 0
      BY <1>1, <3>1
    <3>2. CASE u = 1
      BY <1>1, <2>1, <3>2
    <3>3. CASE u = -1
      BY <1>1, <2>1, <3>3
    <3> QED
      BY <1>2, <3>1, <3>2, <3>3
  <2>2. ASSUME NEW k \in 1..6, r + (k + 1) * v \in 0..7 PROVE r + k * v \in 0..7
    <3>1. CASE v = 0
      BY <1>1, <3>1
    <3>2. CASE v = 1
      BY <1>1, <2>2, <3>2
    <3>3. CASE v = -1
      BY <1>1, <2>2, <3>3
    <3> QED
      BY <1>2, <3>1, <3>2, <3>3
  <2> QED
    BY <2>1, <2>2
<1> HIDE DEF On
<1>5. /\ On(2) => On(1)
      /\ On(3) => On(2)
      /\ On(4) => On(3)
      /\ On(5) => On(4)
      /\ On(6) => On(5)
      /\ On(7) => On(6)
  <2>1. On(1 + 1) => On(1)
    BY <1>4
  <2>2. On(2 + 1) => On(2)
    BY <1>4
  <2>3. On(3 + 1) => On(3)
    BY <1>4
  <2>4. On(4 + 1) => On(4)
    BY <1>4
  <2>5. On(5 + 1) => On(5)
    BY <1>4
  <2>6. On(6 + 1) => On(6)
    BY <1>4
  <2> QED
    BY <2>1, <2>2, <2>3, <2>4, <2>5, <2>6
<1>6. \E n \in 0..7 : \A k \in 1..7 : On(k) <=> k <= n
  <2>1. \A k \in 1..7 : k = 1 \/ k = 2 \/ k = 3 \/ k = 4 \/ k = 5 \/ k = 6 \/ k = 7
    OBVIOUS
  <2> DEFINE Good(n) == \A k \in 1..7 : On(k) <=> k <= n
  <2>2. /\ ~On(1) => Good(0)
        /\ On(1) /\ ~On(2) => Good(1)
        /\ On(2) /\ ~On(3) => Good(2)
        /\ On(3) /\ ~On(4) => Good(3)
        /\ On(4) /\ ~On(5) => Good(4)
        /\ On(5) /\ ~On(6) => Good(5)
        /\ On(6) /\ ~On(7) => Good(6)
        /\ On(7) => Good(7)
    BY <1>5, <2>1
  <2>3. 0 \in 0..7 /\ 1 \in 0..7 /\ 2 \in 0..7 /\ 3 \in 0..7 /\ 4 \in 0..7 /\ 5 \in 0..7 /\ 6 \in 0..7 /\ 7 \in 0..7
    OBVIOUS
  <2> HIDE DEF Good
  <2>4. \E n \in 0..7 : Good(n)
    BY <2>2, <2>3
  <2> QED
    BY <2>4 DEF Good
<1> QED
  BY <1>3, <1>6 DEF OnBoardTo

LEMMA RayIs ==
  ASSUME NEW x \in Squares, NEW dir \in Directions, NEW n \in 0..7, OnBoardTo(x, dir, n)
  PROVE  /\ \A k \in Int : Along(x, dir, k) = x + k * Offset(dir)
         /\ \A k \in 1..n : Along(x, dir, k) \in Squares /\ Along(x, dir, k) \in Int
         /\ \A t : t \in Ray(x, dir) <=> \E k \in 1..n : t = Along(x, dir, k)
         /\ Ray(x, dir) \in SUBSET Squares
<1> DEFINE A(k) == Along(x, dir, k)
<1>1. \A k : k \in 1..n <=> k \in {j \in 1..7 : OnBoard(x, dir, j)}
  BY DEF OnBoardTo
<1>2. \A k \in 1..n : A(k) \in Squares
  BY OnBoardAlong DEF OnBoardTo
<1>3. x \in Int
  BY DEF Squares
<1>4. Ray(x, dir) = {A(k) : k \in {k \in 1..7 : OnBoard(x, dir, k)}}
  BY DEF Ray
<1>5. \A k \in Int : A(k) = x + k * Offset(dir)
  BY <1>3, AlongIs
<1>6. \A t : t \in Ray(x, dir) <=> \E k \in 1..n : t = A(k)
  <2> HIDE DEF A
  <2> QED
    BY <1>1, <1>4
<1>7. \A k \in 1..n : A(k) \in Int
  BY <1>2 DEF Squares
<1> HIDE DEF A
<1>8. Ray(x, dir) \in SUBSET Squares
  BY <1>2, <1>6
<1> QED
  BY <1>2, <1>5, <1>6, <1>7, <1>8 DEF A

(* What is turned along a ray: its discs of the opponent up to its first   *)
(* other square, k, if the player has that one                             *)
LEMMA BracketedAt ==
  ASSUME NEW b, Disjoint(b), NEW x \in Squares, NEW dir \in Directions, NEW n \in 0..7, OnBoardTo(x, dir, n),
         NEW k \in 1..n, Along(x, dir, k) \notin b.opponent, \A i \in 1..k - 1 : Along(x, dir, i) \in b.opponent
  PROVE  \A t : t \in Bracketed(b, x, dir) <=> Along(x, dir, k) \in b.player /\ \E i \in 1..k - 1 : t = Along(x, dir, i)
<1> DEFINE A(i) == Along(x, dir, i)
           Closes(h) == /\ OnBoard(x, dir, h) /\ A(h) \in b.player
                     /\ \A i \in 1..h - 1 : A(i) \in b.opponent
           S == {h \in 2..7 : Closes(h)}
<1>1. b.player \cap b.opponent = {}
  BY DEF Disjoint
<1>2. Bracketed(b, x, dir) = UNION {{A(i) : i \in 1..h - 1} : h \in S}
  BY DEF Bracketed
<1>3. \A h : h \in S <=> h \in 2..7 /\ Closes(h)
  OBVIOUS
<1> HIDE DEF S
<1>4. \A t : t \in Bracketed(b, x, dir) <=> \E h \in 2..7 : Closes(h) /\ \E i \in 1..h - 1 : t = A(i)
  <2> HIDE DEF Closes, A
  <2> QED
    BY <1>2, <1>3
<1>5. ASSUME NEW h \in 2..7, Closes(h) PROVE h = k /\ A(k) \in b.player
  <2>1. ~(h < k)
    <3>1. h < k => h \in 1..k - 1
      OBVIOUS
    <3> QED
      BY <1>1, <1>5, <3>1
  <2>2. ~(k < h)
    <3>1. k < h => k \in 1..h - 1
      OBVIOUS
    <3> QED
      BY <1>5, <3>1
  <2> QED
    BY <1>5, <2>1, <2>2
<1>6. ASSUME A(k) \in b.player, NEW i \in 1..k - 1 PROVE k \in 2..7 /\ Closes(k)
  <2>1. k \in 2..7 /\ k \in 1..7 /\ k <= n
    OBVIOUS
  <2> QED
    BY <1>6, <2>1 DEF OnBoardTo
<1> HIDE DEF Closes, A
<1>7. ASSUME NEW t PROVE t \in Bracketed(b, x, dir) <=> A(k) \in b.player /\ \E i \in 1..k - 1 : t = A(i)
  BY <1>4, <1>5, <1>6
<1> QED
  BY <1>7 DEF A

LEMMA BracketedNone ==
  ASSUME NEW b, Disjoint(b), NEW x \in Squares, NEW dir \in Directions, NEW n \in 0..7, OnBoardTo(x, dir, n),
         \A k \in 1..n : Along(x, dir, k) \in b.opponent
  PROVE  Bracketed(b, x, dir) = {}
<1>1. ASSUME NEW k \in 2..7, OnBoard(x, dir, k), Along(x, dir, k) \in b.player PROVE FALSE
  <2>1. k \in 1..n
    BY <1>1 DEF OnBoardTo
  <2> QED
    BY <1>1, <2>1 DEF Disjoint
<1> QED
  BY <1>1 DEF Bracketed

LEMMA CarryForward ==
  ASSUME NEW b, Disjoint(b), NEW x \in Squares, NEW dir \in Directions, Offset(dir) > 0
  PROVE  FlipForward(b, Ray(x, dir)) = Bracketed(b, x, dir)
<1>1. PICK n \in 0..7 : OnBoardTo(x, dir, n)
  BY RayLength
<1> DEFINE p == b.player
           o == b.opponent
           ray == Ray(x, dir)
           A(k) == Along(x, dir, k)
           e == Offset(dir)
           y == o \cup (Squares \ ray)
           first == PlusOne(y) \cap p \cap ray
           zeros == Squares \ y
<1>2. /\ \A k \in Int : A(k) = x + k * e
      /\ \A k \in 1..n : A(k) \in Squares /\ A(k) \in Int
      /\ \A t : t \in ray <=> \E k \in 1..n : t = A(k)
      /\ ray \in SUBSET Squares
  BY <1>1, RayIs
<1>3. p \in SUBSET Squares /\ o \in SUBSET Squares /\ p \cap o = {} /\ Squares \subseteq Int
  BY DEF Disjoint, Position, Squares
<1>4. FlipForward(b, ray) = IF first = {} THEN {} ELSE MinusOne(first) \cap ray
  BY DEF FlipForward
<1>5. zeros = ray \ o
  BY <1>2
<1>6. \A i, j \in 1..n : i < j <=> A(i) < A(j)
  <2>1. e = 1 \/ e = 7 \/ e = 8 \/ e = 9
    BY DirectionCases
  <2>2. x \in Int /\ \A k \in 1..n : k \in Int
    BY <1>3
  <2> HIDE DEF e, A
  <2>3. \A i, j \in 1..n : A(i) = x + i * e /\ A(j) = x + j * e
    BY <1>2, <2>2
  <2> QED
    BY <2>1, <2>2, <2>3
<1>7. PlusOne(y) = IF zeros = {} THEN {} ELSE {Min(zeros)} \cup {s \in y : s > Min(zeros)}
  BY DEF PlusOne
<1> HIDE DEF p, o, ray, A, e, y, zeros
<1>8. CASE \A k \in 1..n : A(k) \in o
  <2>1. zeros = {}
    BY <1>2, <1>5, <1>8
  <2>2. first = {}
    BY <1>7, <2>1
  <2>3. Bracketed(b, x, dir) = {}
    BY <1>1, <1>8, BracketedNone DEF A, o
  <2> QED
    BY <1>4, <2>2, <2>3 DEF ray
<1>9. CASE \E k \in 1..n : A(k) \notin o
  <2> DEFINE K == {k \in 1..n : A(k) \notin o}
  <2>1. K \in SUBSET Nat /\ K # {}
    BY <1>9
  <2>2. PICK k \in K : \A j \in K : k <= j
    BY <2>1, LeastElement
  <2>3. k \in 1..n /\ A(k) \notin o /\ \A i \in 1..k - 1 : A(i) \in o /\ i \in 1..n
    <3>1. \A i \in 1..k - 1 : i \in 1..n /\ ~(k <= i)
      OBVIOUS
    <3> QED
      BY <2>2, <3>1
  <2>4. Min(zeros) = A(k)
    <3>1. zeros \in SUBSET Int /\ A(k) \in zeros
      BY <1>2, <1>3, <1>5, <2>3
    <3>2. ASSUME NEW t \in zeros PROVE A(k) <= t
      <4>1. PICK j \in 1..n : t = A(j) /\ A(j) \notin o
        BY <1>2, <1>5, <3>2
      <4>2. k <= j
        BY <2>2, <4>1
      <4>3. ~(A(j) < A(k))
        BY <1>6, <2>3, <4>2
      <4> QED
        BY <1>2, <2>3, <4>1, <4>3
    <3> QED
      BY <3>1, <3>2, LeastIs
  <2>5. A(k) \in zeros /\ zeros # {}
    BY <1>2, <1>5, <2>3
  <2>6. first = {A(k)} \cap p
    <3>1. \A s \in y : s \in ray => s \notin p
      BY <1>3 DEF y
    <3>2. A(k) \in ray
      BY <1>2, <2>3
    <3> QED
      BY <1>7, <2>4, <2>5, <3>1, <3>2
  <2>7. \A t : t \in Bracketed(b, x, dir) <=> A(k) \in p /\ \E i \in 1..k - 1 : t = A(i)
    BY <1>1, <2>3, BracketedAt DEF A, o, p
  <2>8. CASE A(k) \notin p
    BY <1>4, <2>6, <2>7, <2>8 DEF ray
  <2>9. CASE A(k) \in p
    <3>1. first = {A(k)}
      BY <2>6, <2>9
    <3>2. MinusOne(first) = 0..A(k) - 1
      <4>1. Min({A(k)}) = A(k)
        <5>1. {A(k)} \in SUBSET Int /\ A(k) \in {A(k)} /\ \A z \in {A(k)} : A(k) <= z
          BY <1>2, <2>3
        <5> QED
          BY <5>1, LeastIs
      <4> HIDE DEF first
      <4> QED
        BY <3>1, <4>1 DEF MinusOne
    <3>3. \A t : t \in MinusOne(first) \cap ray <=> \E i \in 1..k - 1 : t = A(i)
      <4>1. ASSUME NEW t \in ray, t \in 0..A(k) - 1 PROVE \E i \in 1..k - 1 : t = A(i)
        <5>1. PICK j \in 1..n : t = A(j)
          BY <1>2, <4>1
        <5>2. A(j) < A(k)
          BY <1>2, <2>3, <4>1, <5>1
        <5>3. j < k
          BY <1>6, <2>3, <5>2
        <5>4. j \in 1..k - 1
          BY <2>3, <5>3
        <5> QED
          BY <5>1, <5>4
      <4>2. ASSUME NEW i \in 1..k - 1 PROVE A(i) \in ray /\ A(i) \in 0..A(k) - 1
        <5>1. i \in 1..n /\ i < k
          BY <2>3
        <5>2. A(i) < A(k) /\ A(i) \in Squares /\ A(k) \in Int
          BY <1>2, <1>6, <2>3, <5>1
        <5> QED
          BY <1>2, <5>1, <5>2 DEF Squares
      <4> HIDE DEF first
      <4> QED
        BY <3>2, <4>1, <4>2
    <3>4. FlipForward(b, ray) = MinusOne(first) \cap ray
      BY <1>4, <3>1
    <3> HIDE DEF first
    <3> QED
      BY <2>7, <2>9, <3>3, <3>4 DEF ray
  <2> QED
    BY <2>8, <2>9
<1> QED
  BY <1>8, <1>9

LEMMA CarryBackward ==
  ASSUME NEW b, Disjoint(b), NEW x \in Squares, NEW dir \in Directions, Offset(dir) < 0
  PROVE  FlipBackward(b, Ray(x, dir)) = Bracketed(b, x, dir)
<1>1. PICK n \in 0..7 : OnBoardTo(x, dir, n)
  BY RayLength
<1> DEFINE p == b.player
           o == b.opponent
           ray == Ray(x, dir)
           A(k) == Along(x, dir, k)
           e == Offset(dir)
           non == ray \ o
           last == {Max(non)} \cap p
<1>2. /\ \A k \in Int : A(k) = x + k * e
      /\ \A k \in 1..n : A(k) \in Squares /\ A(k) \in Int
      /\ \A t : t \in ray <=> \E k \in 1..n : t = A(k)
      /\ ray \in SUBSET Squares
  BY <1>1, RayIs
<1>3. p \in SUBSET Squares /\ o \in SUBSET Squares /\ p \cap o = {} /\ Squares \subseteq Int
  BY DEF Disjoint, Position, Squares
<1>4. FlipBackward(b, ray) = IF non = {} \/ last = {} THEN {} ELSE ray \ (last \cup MinusOne(last))
  BY DEF FlipBackward
<1>6. \A i, j \in 1..n : i < j <=> A(i) > A(j)
  <2>1. e = -1 \/ e = -7 \/ e = -8 \/ e = -9
    BY DirectionCases
  <2>2. x \in Int /\ \A k \in 1..n : k \in Int
    BY <1>3
  <2> HIDE DEF e, A
  <2>3. \A i, j \in 1..n : A(i) = x + i * e /\ A(j) = x + j * e
    BY <1>2, <2>2
  <2> QED
    BY <2>1, <2>2, <2>3
<1> HIDE DEF p, o, ray, A, e
<1>8. CASE \A k \in 1..n : A(k) \in o
  <2>1. non = {}
    BY <1>2, <1>8
  <2>3. Bracketed(b, x, dir) = {}
    BY <1>1, <1>8, BracketedNone DEF A, o
  <2> QED
    BY <1>4, <2>1, <2>3 DEF ray
<1>9. CASE \E k \in 1..n : A(k) \notin o
  <2> DEFINE K == {k \in 1..n : A(k) \notin o}
  <2>1. K \in SUBSET Nat /\ K # {}
    BY <1>9
  <2>2. PICK k \in K : \A j \in K : k <= j
    BY <2>1, LeastElement
  <2>3. k \in 1..n /\ A(k) \notin o /\ \A i \in 1..k - 1 : A(i) \in o /\ i \in 1..n
    <3>1. \A i \in 1..k - 1 : i \in 1..n /\ ~(k <= i)
      OBVIOUS
    <3> QED
      BY <2>2, <3>1
  <2>4. Max(non) = A(k)
    <3>1. non \in SUBSET Int /\ A(k) \in non
      BY <1>2, <1>3, <2>3
    <3>2. ASSUME NEW t \in non PROVE A(k) >= t
      <4>1. PICK j \in 1..n : t = A(j) /\ A(j) \notin o
        BY <1>2, <3>2
      <4>2. k <= j
        BY <2>2, <4>1
      <4>3. ~(A(j) > A(k))
        BY <1>6, <2>3, <4>2
      <4> QED
        BY <1>2, <2>3, <4>1, <4>3
    <3> HIDE DEF non
    <3> QED
      BY <3>1, <3>2, GreatestIs
  <2>5. non # {}
    BY <1>2, <2>3
  <2>6. last = {A(k)} \cap p
    BY <2>4
  <2>7. \A t : t \in Bracketed(b, x, dir) <=> A(k) \in p /\ \E i \in 1..k - 1 : t = A(i)
    BY <1>1, <2>3, BracketedAt DEF A, o, p
  <2> HIDE DEF non, last
  <2>8. CASE A(k) \notin p
    BY <1>4, <2>6, <2>7, <2>8 DEF ray
  <2>9. CASE A(k) \in p
    <3>1. last = {A(k)}
      BY <2>6, <2>9
    <3>2. MinusOne(last) = 0..A(k) - 1
      <4>1. Min({A(k)}) = A(k)
        <5>1. {A(k)} \in SUBSET Int /\ A(k) \in {A(k)} /\ \A z \in {A(k)} : A(k) <= z
          BY <1>2, <2>3
        <5> QED
          BY <5>1, LeastIs
      <4> QED
        BY <3>1, <4>1 DEF MinusOne
    <3>3. \A t : t \in ray \ (last \cup MinusOne(last)) <=> \E i \in 1..k - 1 : t = A(i)
      <4>1. ASSUME NEW t \in ray, t # A(k), t \notin 0..A(k) - 1 PROVE \E i \in 1..k - 1 : t = A(i)
        <5>1. PICK j \in 1..n : t = A(j)
          BY <1>2, <4>1
        <5>2. A(j) > A(k)
          BY <1>2, <2>3, <4>1, <5>1 DEF Squares
        <5>3. j < k
          BY <1>6, <2>3, <5>2
        <5>4. j \in 1..k - 1
          BY <2>3, <5>3
        <5> QED
          BY <5>1, <5>4
      <4>2. ASSUME NEW i \in 1..k - 1 PROVE A(i) \in ray /\ A(i) # A(k) /\ A(i) \notin 0..A(k) - 1
        <5>1. i \in 1..n /\ i < k
          BY <2>3
        <5>2. A(i) > A(k) /\ A(i) \in Int /\ A(k) \in Int
          BY <1>2, <1>6, <2>3, <5>1
        <5> QED
          BY <1>2, <5>1, <5>2
      <4> QED
        BY <3>1, <3>2, <4>1, <4>2
    <3>4. FlipBackward(b, ray) = ray \ (last \cup MinusOne(last))
      BY <1>4, <2>5, <3>1
    <3> QED
      BY <2>7, <2>9, <3>3, <3>4 DEF ray
  <2> QED
    BY <2>8, <2>9
<1> QED
  BY <1>8, <1>9

LEMMA CarryIs ==
  ASSUME NEW b, Disjoint(b), NEW x \in Squares
  PROVE  get_flip_carry(b, x) = flippedDiscs(b, x)
<1> DEFINE Onward == {<<1, 0>>, <<0, 1>>, <<1, 1>>, <<-1, 1>>}
           Backward == {<<-1, 0>>, <<0, -1>>, <<-1, -1>>, <<1, -1>>}
           F(dir) == FlipForward(b, Ray(x, dir))
           G(dir) == FlipBackward(b, Ray(x, dir))
           B(dir) == Bracketed(b, x, dir)
<1>1. get_flip_carry(b, x) = (UNION {F(dir) : dir \in Onward}) \cup (UNION {G(dir) : dir \in Backward})
  BY DEF get_flip_carry
<1>2. flippedDiscs(b, x) = UNION {B(dir) : dir \in Directions}
  BY DEF flippedDiscs
<1>3. \A dir \in Onward : dir \in Directions /\ Offset(dir) > 0
  BY DirectionOf
<1>4. \A dir \in Backward : dir \in Directions /\ Offset(dir) < 0
  BY DirectionOf
<1>5. \A dir \in Directions : dir \in Onward \/ dir \in Backward
  BY DEF Directions
<1> HIDE DEF Onward, Backward
<1>6. \A dir \in Onward : F(dir) = B(dir)
  BY <1>3, CarryForward
<1>7. \A dir \in Backward : G(dir) = B(dir)
  BY <1>4, CarryBackward
<1> HIDE DEF F, G, B
<1>8. \A t : t \in get_flip_carry(b, x) <=> \E dir \in Directions : t \in B(dir)
  <2> DEFINE U == UNION {F(dir) : dir \in Onward}
             V == UNION {G(dir) : dir \in Backward}
  <2>1. \A t : t \in U <=> \E dir \in Onward : t \in F(dir)
    OBVIOUS
  <2>2. \A t : t \in V <=> \E dir \in Backward : t \in G(dir)
    OBVIOUS
  <2>3. get_flip_carry(b, x) = U \cup V
    BY <1>1
  <2> HIDE DEF U, V
  <2> QED
    BY <1>3, <1>4, <1>5, <1>6, <1>7, <2>1, <2>2, <2>3
<1> QED
  BY <1>2, <1>8

-----------------------------------------------------------------------------
(* The kindergarten lines: a line through x, seen from its lowest square,  *)
(* has x at pos, n squares beyond it and m before.                         *)

Back(dir) == <<-dir[1], -dir[2]>>

Axis(x, line, mid, pos, step, dir, n, m) ==
  /\ pos \in 0..7 /\ n \in 0..7 /\ m \in 0..7 /\ pos - m >= 0 /\ pos + n <= 7
  /\ OnBoardTo(x, dir, n) /\ OnBoardTo(x, Back(dir), m)
  /\ \A k \in 0..7 : /\ Min(line) + step * k = Along(x, dir, k - pos)
                     /\ Min(line) + step * k = Along(x, Back(dir), pos - k)
  /\ \A k \in 0..7 : Min(line) + step * k \in line <=> k >= pos - m /\ k <= pos + n
  /\ \A k \in 0..7 : k > pos - m /\ k < pos + n => Min(line) + step * k \in mid

LEMMA BackIs == ASSUME NEW dir \in Directions
                PROVE  Back(dir) \in Directions /\ Back(dir)[1] = -dir[1] /\ Back(dir)[2] = -dir[2]
<1>1. dir[1] \in -1..1 /\ dir[2] \in -1..1 /\ (dir[1] # 0 \/ dir[2] # 0)
  BY DirectionCases
<1>2. -dir[1] \in -1..1 /\ -dir[2] \in -1..1 /\ (-dir[1] # 0 \/ -dir[2] # 0)
  BY <1>1
<1> QED
  BY <1>2 DEF Back, Directions

LEMMA BackOf ==
  /\ Back(<<1, 0>>) = <<-1, 0>> /\ Back(<<0, 1>>) = <<0, -1>>
  /\ Back(<<1, 1>>) = <<-1, -1>> /\ Back(<<-1, 1>>) = <<1, -1>>
<1>1. -0 = 0 /\ -(-1) = 1
  <2>1. \A e \in Int : (e = 0 => -e = 0) /\ -(-e) = e
    OBVIOUS
  <2>2. 0 \in Int /\ 1 \in Int
    OBVIOUS
  <2> QED
    BY <2>1, <2>2
<1>2. Back(<<1, 0>>) = <<-1, -0>> /\ Back(<<0, 1>>) = <<-0, -1>> /\ Back(<<1, 1>>) = <<-1, -1>>
  BY DEF Back
<1>3. Back(<<-1, 1>>) = <<-(-1), -1>>
  BY DEF Back
<1> QED
  BY <1>1, <1>2, <1>3

(* What is turned along a direction, by the cells of the line *)
LEMMA BracketedCells ==
  ASSUME NEW b, NEW x \in Squares, NEW dir \in Directions, NEW n \in 0..7, OnBoardTo(x, dir, n)
  PROVE  \A t : t \in Bracketed(b, x, dir) <=>
           \E k \in 2..n : /\ Along(x, dir, k) \in b.player
                           /\ \A i \in 1..k - 1 : Along(x, dir, i) \in b.opponent
                           /\ \E i \in 1..k - 1 : t = Along(x, dir, i)
<1> DEFINE A(i) == Along(x, dir, i)
           Closes(h) == A(h) \in b.player /\ \A i \in 1..h - 1 : A(i) \in b.opponent
           S == {h \in 2..7 : OnBoard(x, dir, h) /\ Closes(h)}
<1>1. Bracketed(b, x, dir) = UNION {{A(i) : i \in 1..h - 1} : h \in S}
  BY DEF Bracketed
<1>2. \A h : h \in S <=> h \in 2..n /\ Closes(h)
  <2>1. \A h : h \in 2..7 => h \in 1..7
    OBVIOUS
  <2>2. \A h \in 1..7 : OnBoard(x, dir, h) <=> h <= n
    BY DEF OnBoardTo
  <2>3. \A h : h \in 2..n <=> h \in 2..7 /\ h <= n
    OBVIOUS
  <2> HIDE DEF Closes
  <2> QED
    BY <2>1, <2>2, <2>3
<1> HIDE DEF S
<1>3. \A t : t \in Bracketed(b, x, dir) <=> \E h \in 2..n : Closes(h) /\ \E i \in 1..h - 1 : t = A(i)
  <2> HIDE DEF Closes, A
  <2> QED
    BY <1>1, <1>2
<1> QED
  BY <1>3

LEMMA LineIs ==
  ASSUME NEW b, Disjoint(b), NEW x \in Squares, x \notin b.opponent, NEW dir \in Directions,
         NEW line \in SUBSET Squares, NEW mid, NEW pos, NEW step, NEW n, NEW m,
         Axis(x, line, mid, pos, step, dir, n, m)
  PROVE  FlipLine(b, line, mid, pos, step) = Bracketed(b, x, dir) \cup Bracketed(b, x, Back(dir))
<1> DEFINE p == b.player
           o == b.opponent
           M(k) == Min(line) + step * k
           opp == {k \in 1..6 : M(k) \in o \cap line \cap mid}
           ends == Outflank(pos, opp) \cap {k \in 0..7 : M(k) \in p \cap line}
           Btw(e) == SquaresBetween(pos, e)
<1>1. /\ pos \in 0..7 /\ n \in 0..7 /\ m \in 0..7 /\ pos - m >= 0 /\ pos + n <= 7
      /\ \A k \in 0..7 : M(k) \in line <=> k >= pos - m /\ k <= pos + n
      /\ \A k \in 0..7 : k > pos - m /\ k < pos + n => M(k) \in mid
  BY DEF Axis
<1>2. p \cap o = {} /\ x \notin o
  BY DEF Disjoint
<1>3. FlipLine(b, line, mid, pos, step) = {M(k) : k \in UNION {Btw(e) : e \in ends}}
  BY DEF FlipLine, Gather, Scatter, Flipped
<1>4. ends = {e \in 0..7 : /\ pos \notin opp /\ Btw(e) # {} /\ Btw(e) \subseteq opp /\ e \notin opp
                           /\ M(e) \in p \cap line}
  BY DEF Outflank
<1>5. pos \notin opp
  <2>1. M(pos) = x
    <3>1. M(pos) = Along(x, dir, pos - pos) /\ pos - pos = 0
      BY <1>1 DEF Axis
    <3>2. x \in Int
      BY DEF Squares
    <3> QED
      BY <3>1, <3>2, DirectionCases DEF Along
  <2> QED
    BY <1>2, <2>1
<1>6. \A k : k \in opp <=> k \in 1..6 /\ M(k) \in o /\ M(k) \in line /\ M(k) \in mid
  OBVIOUS
<1>7. \A e \in 0..7 : \A k : k \in Btw(e) <=> k \in Int /\ ((pos < k /\ k < e) \/ (e < k /\ k < pos))
  <2>1. \A e \in 0..7 : pos \in Int /\ e \in Int
    BY <1>1
  <2>2. \A a, c \in Int : \A k : k \in (a + 1..c - 1) \cup (c + 1..a - 1)
                                <=> k \in Int /\ ((a < k /\ k < c) \/ (c < k /\ k < a))
    OBVIOUS
  <2>3. \A e : Btw(e) = (pos + 1..e - 1) \cup (e + 1..pos - 1)
    BY DEF SquaresBetween
  <2> HIDE DEF Btw
  <2> QED
    BY <2>1, <2>2, <2>3
<1> HIDE DEF opp, ends, Btw, M, p, o
<1>8. \A t : t \in FlipLine(b, line, mid, pos, step) <=> \E e \in ends : \E k \in Btw(e) : t = M(k)
  BY <1>3
<1>9. \A e : e \in ends <=> /\ e \in 0..7 /\ Btw(e) # {} /\ Btw(e) \subseteq opp /\ M(e) \in p /\ M(e) \in line
  BY <1>2, <1>4, <1>5, <1>6
<1> DEFINE Onward(e) == e \in pos + 2..pos + n /\ M(e) \in p /\ \A k \in pos + 1..e - 1 : M(k) \in o
           Backward(e) == e \in pos - m..pos - 2 /\ M(e) \in p /\ \A k \in e + 1..pos - 1 : M(k) \in o
<1>10. \A e : e \in ends /\ e > pos <=> Onward(e)
  <2>1. ASSUME NEW e \in ends, e > pos PROVE Onward(e)
    <3>1. e \in 0..7 /\ M(e) \in p /\ M(e) \in line
      BY <1>9
    <3>2. PICK k \in Btw(e) : TRUE
      BY <1>9
    <3>3. e \in pos + 2..pos + n
      BY <1>1, <1>7, <2>1, <3>1, <3>2
    <3>4. ASSUME NEW i \in pos + 1..e - 1 PROVE M(i) \in o
      <4>1. i \in Btw(e)
        BY <1>1, <1>7, <3>1, <3>4
      <4> QED
        BY <1>6, <1>9, <4>1
    <3> QED
      BY <3>1, <3>3, <3>4
  <2>2. ASSUME NEW e, Onward(e) PROVE e \in ends /\ e > pos
    <3>1. e \in 0..7 /\ e > pos /\ e >= pos - m /\ e <= pos + n /\ e >= pos + 2
      BY <1>1, <2>2
    <3>2. M(e) \in p /\ M(e) \in line
      BY <1>1, <2>2, <3>1
    <3>3. Btw(e) # {}
      <4>1. pos + 1 \in Btw(e)
        BY <1>1, <1>7, <3>1
      <4> QED
        BY <4>1
    <3>4. ASSUME NEW k \in Btw(e) PROVE k \in opp
      <4>1. k \in pos + 1..e - 1 /\ k \in 1..6 /\ k \in 0..7 /\ k >= pos - m /\ k <= pos + n /\ k > pos - m /\ k < pos + n
        BY <1>1, <1>7, <3>1, <3>4
      <4>2. M(k) \in o
        BY <2>2, <4>1
      <4>3. M(k) \in line /\ M(k) \in mid
        BY <1>1, <4>1
      <4> QED
        BY <1>6, <4>1, <4>2, <4>3
    <3> HIDE DEF Onward
    <3> QED
      BY <1>9, <3>1, <3>2, <3>3, <3>4
  <2> QED
    BY <2>1, <2>2
<1>11. \A e : e \in ends /\ e < pos <=> Backward(e)
  <2>1. ASSUME NEW e \in ends, e < pos PROVE Backward(e)
    <3>1. e \in 0..7 /\ M(e) \in p /\ M(e) \in line
      BY <1>9
    <3>2. PICK k \in Btw(e) : TRUE
      BY <1>9
    <3>3. e \in pos - m..pos - 2
      BY <1>1, <1>7, <2>1, <3>1, <3>2
    <3>4. ASSUME NEW i \in e + 1..pos - 1 PROVE M(i) \in o
      <4>1. i \in Btw(e)
        BY <1>1, <1>7, <3>1, <3>4
      <4> QED
        BY <1>6, <1>9, <4>1
    <3> QED
      BY <3>1, <3>3, <3>4
  <2>2. ASSUME NEW e, Backward(e) PROVE e \in ends /\ e < pos
    <3>1. e \in 0..7 /\ e < pos /\ e >= pos - m /\ e <= pos + n /\ e <= pos - 2
      BY <1>1, <2>2
    <3>2. M(e) \in p /\ M(e) \in line
      BY <1>1, <2>2, <3>1
    <3>3. Btw(e) # {}
      <4>1. pos - 1 \in Btw(e)
        BY <1>1, <1>7, <3>1
      <4> QED
        BY <4>1
    <3>4. ASSUME NEW k \in Btw(e) PROVE k \in opp
      <4>1. k \in e + 1..pos - 1 /\ k \in 1..6 /\ k \in 0..7 /\ k >= pos - m /\ k <= pos + n /\ k > pos - m /\ k < pos + n
        BY <1>1, <1>7, <3>1, <3>4
      <4>2. M(k) \in o
        BY <2>2, <4>1
      <4>3. M(k) \in line /\ M(k) \in mid
        BY <1>1, <4>1
      <4> QED
        BY <1>6, <4>1, <4>2, <4>3
    <3> HIDE DEF Backward
    <3> QED
      BY <1>9, <3>1, <3>2, <3>3, <3>4
  <2> QED
    BY <2>1, <2>2
<1>12. \A e \in ends : e < pos \/ e > pos
  <2>1. \A e \in ends : e \in 0..7 /\ Btw(e) # {}
    BY <1>9
  <2>2. \A k : k \notin Btw(pos)
    BY <1>1, <1>7
  <2> QED
    BY <1>1, <2>1, <2>2
<1>13. \A t : t \in Bracketed(b, x, dir) <=> \E e : Onward(e) /\ \E k \in pos + 1..e - 1 : t = M(k)
  <2> DEFINE A(i) == Along(x, dir, i)
  <2>1. \A t : t \in Bracketed(b, x, dir) <=>
          \E k \in 2..n : A(k) \in p /\ (\A i \in 1..k - 1 : A(i) \in o) /\ \E i \in 1..k - 1 : t = A(i)
    <3>1. OnBoardTo(x, dir, n)
      BY DEF Axis
    <3> QED
      BY <1>1, <3>1, BracketedCells DEF p, o
  <2>2. \A i \in 1..n : pos + i \in 0..7 /\ M(pos + i) = A(i)
    <3>1. \A i \in 1..n : pos + i \in 0..7 /\ (pos + i) - pos = i
      BY <1>1
    <3>2. \A k \in 0..7 : M(k) = A(k - pos)
      BY DEF Axis, M
    <3> HIDE DEF A
    <3> QED
      BY <3>1, <3>2
  <2> HIDE DEF A
  <2>3. ASSUME NEW k \in 2..n
        PROVE  /\ Onward(pos + k) <=> A(k) \in p /\ \A i \in 1..k - 1 : A(i) \in o
               /\ \A t : (\E j \in pos + 1..(pos + k) - 1 : t = M(j)) <=> \E i \in 1..k - 1 : t = A(i)
    <3>1. \A i \in 1..k - 1 : i \in 1..n /\ pos + i \in pos + 1..(pos + k) - 1
      BY <1>1
    <3>2. \A j \in pos + 1..(pos + k) - 1 : j - pos \in 1..k - 1 /\ j - pos \in 1..n /\ pos + (j - pos) = j
      BY <1>1
    <3>3. pos + k \in pos + 2..pos + n /\ k \in 1..n
      BY <1>1
    <3>4. \A j \in pos + 1..(pos + k) - 1 : M(j) = A(j - pos)
      BY <2>2, <3>2
    <3> QED
      BY <2>2, <3>1, <3>2, <3>3, <3>4
  <2>4. \A e : Onward(e) => e - pos \in 2..n /\ pos + (e - pos) = e
    BY <1>1
  <2> HIDE DEF Onward
  <2>5. ASSUME NEW t, NEW e, Onward(e), NEW j \in pos + 1..e - 1, t = M(j) PROVE t \in Bracketed(b, x, dir)
    <3> DEFINE k == e - pos
    <3>1. k \in 2..n /\ pos + k = e
      BY <2>4, <2>5
    <3> HIDE DEF k
    <3>2. A(k) \in p /\ (\A i \in 1..k - 1 : A(i) \in o) /\ \E i \in 1..k - 1 : t = A(i)
      BY <2>3, <2>5, <3>1
    <3> QED
      BY <2>1, <3>1, <3>2
  <2>6. ASSUME NEW t \in Bracketed(b, x, dir) PROVE \E e : Onward(e) /\ \E k \in pos + 1..e - 1 : t = M(k)
    <3>1. PICK k \in 2..n : A(k) \in p /\ (\A i \in 1..k - 1 : A(i) \in o) /\ \E i \in 1..k - 1 : t = A(i)
      BY <2>1
    <3> QED
      BY <2>3, <3>1
  <2> QED
    BY <2>5, <2>6
<1>14. \A t : t \in Bracketed(b, x, Back(dir)) <=> \E e : Backward(e) /\ \E k \in e + 1..pos - 1 : t = M(k)
  <2> DEFINE A(i) == Along(x, Back(dir), i)
  <2>1. \A t : t \in Bracketed(b, x, Back(dir)) <=>
          \E k \in 2..m : A(k) \in p /\ (\A i \in 1..k - 1 : A(i) \in o) /\ \E i \in 1..k - 1 : t = A(i)
    <3>1. OnBoardTo(x, Back(dir), m) /\ Back(dir) \in Directions
      BY BackIs DEF Axis
    <3> QED
      BY <1>1, <3>1, BracketedCells DEF p, o
  <2>2. \A i \in 1..m : pos - i \in 0..7 /\ M(pos - i) = A(i)
    <3>1. \A i \in 1..m : pos - i \in 0..7 /\ pos - (pos - i) = i
      BY <1>1
    <3>2. \A k \in 0..7 : M(k) = A(pos - k)
      BY DEF Axis, M
    <3> HIDE DEF A
    <3> QED
      BY <3>1, <3>2
  <2> HIDE DEF A
  <2>3. ASSUME NEW k \in 2..m
        PROVE  /\ Backward(pos - k) <=> A(k) \in p /\ \A i \in 1..k - 1 : A(i) \in o
               /\ \A t : (\E j \in (pos - k) + 1..pos - 1 : t = M(j)) <=> \E i \in 1..k - 1 : t = A(i)
    <3>1. \A i \in 1..k - 1 : i \in 1..m /\ pos - i \in (pos - k) + 1..pos - 1
      BY <1>1
    <3>2. \A j \in (pos - k) + 1..pos - 1 : pos - j \in 1..k - 1 /\ pos - j \in 1..m /\ pos - (pos - j) = j
      BY <1>1
    <3>3. pos - k \in pos - m..pos - 2 /\ k \in 1..m
      BY <1>1
    <3>4. \A j \in (pos - k) + 1..pos - 1 : M(j) = A(pos - j)
      BY <2>2, <3>2
    <3> QED
      BY <2>2, <3>1, <3>2, <3>3, <3>4
  <2>4. \A e : Backward(e) => pos - e \in 2..m /\ pos - (pos - e) = e
    BY <1>1
  <2> HIDE DEF Backward
  <2>5. ASSUME NEW t, NEW e, Backward(e), NEW j \in e + 1..pos - 1, t = M(j) PROVE t \in Bracketed(b, x, Back(dir))
    <3> DEFINE k == pos - e
    <3>1. k \in 2..m /\ pos - k = e
      BY <2>4, <2>5
    <3> HIDE DEF k
    <3>2. A(k) \in p /\ (\A i \in 1..k - 1 : A(i) \in o) /\ \E i \in 1..k - 1 : t = A(i)
      BY <2>3, <2>5, <3>1
    <3> QED
      BY <2>1, <3>1, <3>2
  <2>6. ASSUME NEW t \in Bracketed(b, x, Back(dir)) PROVE \E e : Backward(e) /\ \E k \in e + 1..pos - 1 : t = M(k)
    <3>1. PICK k \in 2..m : A(k) \in p /\ (\A i \in 1..k - 1 : A(i) \in o) /\ \E i \in 1..k - 1 : t = A(i)
      BY <2>1
    <3> QED
      BY <2>3, <3>1
  <2> QED
    BY <2>5, <2>6
<1>15. \A e \in ends : \A k : /\ e > pos => (k \in Btw(e) <=> k \in pos + 1..e - 1)
                              /\ e < pos => (k \in Btw(e) <=> k \in e + 1..pos - 1)
  <2>1. \A e \in ends : e \in 0..7
    BY <1>9
  <2> QED
    BY <1>1, <1>7, <2>1
<1> HIDE DEF Onward, Backward
<1>16. ASSUME NEW t
       PROVE  t \in FlipLine(b, line, mid, pos, step) <=> t \in Bracketed(b, x, dir) \/ t \in Bracketed(b, x, Back(dir))
  BY <1>8, <1>10, <1>11, <1>12, <1>13, <1>14, <1>15
<1> QED
  BY <1>16

LEMMA RowAxis ==
  ASSUME NEW x \in Squares
  PROVE  Axis(x, {s \in Squares : Row(s) = Row(x)}, middleColumns, Col(x), 1, <<1, 0>>, 7 - Col(x), Col(x))
<1> DEFINE c == Col(x)
           r == Row(x)
           line == {s \in Squares : Row(s) = r}
<1>1. x = 8 * r + c /\ r \in 0..7 /\ c \in 0..7 /\ x \in Int
  BY Coordinates
<1>2. /\ \A h, i \in 0..7 : 8 * i + h \in Squares /\ Row(8 * i + h) = i /\ Col(8 * i + h) = h
      /\ \A s \in Squares : s = 8 * Row(s) + Col(s) /\ Row(s) \in 0..7 /\ Col(s) \in 0..7 /\ s \in Int
  BY Coordinates
<1> HIDE DEF c, r
<1>3. Min(line) = 8 * r
  <2>1. 8 * r + 0 \in line /\ 8 * r + 0 = 8 * r
    BY <1>1, <1>2
  <2>2. \A s \in line : 8 * r <= s
    BY <1>1, <1>2
  <2>3. line \in SUBSET Int
    BY <1>2
  <2> HIDE DEF line
  <2> QED
    BY <2>1, <2>2, <2>3, LeastIs
<1>4. \A k \in 0..7 : 8 * r + 1 * k \in line /\ (k > 0 /\ k < 7 => 8 * r + 1 * k \in middleColumns)
  <2>1. TAKE k \in 0..7
  <2>2. 8 * r + 1 * k = 8 * r + k /\ 8 * r + k \in Squares /\ Row(8 * r + k) = r /\ Col(8 * r + k) = k
    BY <1>1, <1>2
  <2> QED
    BY <2>2 DEF middleColumns
<1>5. \A k \in 0..7 : /\ 8 * r + 1 * k = Along(x, <<1, 0>>, k - c)
                      /\ 8 * r + 1 * k = Along(x, <<-1, 0>>, c - k)
  BY <1>1 DEF Along
<1>6. OnBoardTo(x, <<1, 0>>, 7 - c) /\ OnBoardTo(x, <<-1, 0>>, c)
  <2>1. \A k \in 1..7 : OnBoard(x, <<1, 0>>, k) <=> k <= 7 - c
    BY <1>1 DEF OnBoard, c, r
  <2>2. \A k \in 1..7 : OnBoard(x, <<-1, 0>>, k) <=> k <= c
    BY <1>1 DEF OnBoard, c, r
  <2> QED
    BY <2>1, <2>2 DEF OnBoardTo
<1>7. c \in 0..7 /\ 7 - c \in 0..7 /\ c - c >= 0 /\ c + (7 - c) <= 7 /\ c - c = 0 /\ c + (7 - c) = 7
  BY <1>1
<1>8. Back(<<1, 0>>) = <<-1, 0>>
  BY BackOf
<1>9. \A k \in 0..7 : k >= 0 /\ k <= 7
  OBVIOUS
<1>10. Axis(x, line, middleColumns, c, 1, <<1, 0>>, 7 - c, c)
  <2> HIDE DEF line
  <2> QED
    BY <1>3, <1>4, <1>5, <1>6, <1>7, <1>8, <1>9 DEF Axis
<1> QED
  BY <1>10 DEF c, r, line

LEMMA ColumnAxis ==
  ASSUME NEW x \in Squares
  PROVE  Axis(x, {s \in Squares : Col(s) = Col(x)}, rowMiddle, Row(x), 8, <<0, 1>>, 7 - Row(x), Row(x))
<1> DEFINE c == Col(x)
           r == Row(x)
           line == {s \in Squares : Col(s) = c}
<1>1. x = 8 * r + c /\ r \in 0..7 /\ c \in 0..7 /\ x \in Int
  BY Coordinates
<1>2. /\ \A h, i \in 0..7 : 8 * i + h \in Squares /\ Row(8 * i + h) = i /\ Col(8 * i + h) = h
      /\ \A s \in Squares : s = 8 * Row(s) + Col(s) /\ Row(s) \in 0..7 /\ Col(s) \in 0..7 /\ s \in Int
  BY Coordinates
<1> HIDE DEF c, r
<1>3. Min(line) = c
  <2>1. 8 * 0 + c \in line /\ 8 * 0 + c = c
    BY <1>1, <1>2
  <2>2. \A s \in line : c <= s
    BY <1>1, <1>2
  <2>3. line \in SUBSET Int
    BY <1>2
  <2> HIDE DEF line
  <2> QED
    BY <2>1, <2>2, <2>3, LeastIs
<1>4. \A k \in 0..7 : c + 8 * k \in line /\ (k > 0 /\ k < 7 => c + 8 * k \in rowMiddle)
  <2>1. TAKE k \in 0..7
  <2>2. c + 8 * k = 8 * k + c /\ 8 * k + c \in Squares /\ Row(8 * k + c) = k /\ Col(8 * k + c) = c
    BY <1>1, <1>2
  <2> QED
    BY <2>2 DEF rowMiddle
<1>5. \A k \in 0..7 : /\ c + 8 * k = Along(x, <<0, 1>>, k - r)
                      /\ c + 8 * k = Along(x, <<0, -1>>, r - k)
  BY <1>1 DEF Along
<1>6. OnBoardTo(x, <<0, 1>>, 7 - r) /\ OnBoardTo(x, <<0, -1>>, r)
  <2>1. \A k \in 1..7 : OnBoard(x, <<0, 1>>, k) <=> k <= 7 - r
    BY <1>1 DEF OnBoard, c, r
  <2>2. \A k \in 1..7 : OnBoard(x, <<0, -1>>, k) <=> k <= r
    BY <1>1 DEF OnBoard, c, r
  <2> QED
    BY <2>1, <2>2 DEF OnBoardTo
<1>7. r \in 0..7 /\ 7 - r \in 0..7 /\ r - r >= 0 /\ r + (7 - r) <= 7 /\ r - r = 0 /\ r + (7 - r) = 7
  BY <1>1
<1>8. Back(<<0, 1>>) = <<0, -1>>
  BY BackOf
<1>9. \A k \in 0..7 : k >= 0 /\ k <= 7
  OBVIOUS
<1>10. Axis(x, line, rowMiddle, r, 8, <<0, 1>>, 7 - r, r)
  <2> HIDE DEF line
  <2> QED
    BY <1>3, <1>4, <1>5, <1>6, <1>7, <1>8, <1>9 DEF Axis
<1> QED
  BY <1>10 DEF c, r, line

(* On a diagonal, pos squares lie before x; after the last square on the   *)
(* board come squares of other diagonals, or none.                         *)
LEMMA Diagonal9Axis ==
  ASSUME NEW x \in Squares
  PROVE  \E n \in 0..7 : Axis(x, Diagonal9(x), midMask, Min({Row(x), Col(x)}), 9, <<1, 1>>, n, Min({Row(x), Col(x)}))
<1> DEFINE c == Col(x)
           r == Row(x)
           pos == Min({r, c})
           line == Diagonal9(x)
<1>1. x = 8 * r + c /\ r \in 0..7 /\ c \in 0..7 /\ x \in Int
  BY Coordinates
<1>2. /\ \A h, i \in 0..7 : 8 * i + h \in Squares /\ Row(8 * i + h) = i /\ Col(8 * i + h) = h
      /\ \A s \in Squares : s = 8 * Row(s) + Col(s) /\ Row(s) \in 0..7 /\ Col(s) \in 0..7 /\ s \in Int
  BY Coordinates
<1> DEFINE n == IF r <= c THEN 7 - c ELSE 7 - r
<1>3. pos = IF r <= c THEN r ELSE c
  <2> HIDE DEF r, c
  <2>1. {r, c} \in SUBSET Int /\ r \in {r, c} /\ c \in {r, c}
    BY <1>1
  <2>2. CASE r <= c
    <3>1. \A y \in {r, c} : r <= y
      BY <1>1, <2>2
    <3> QED
      BY <2>1, <2>2, <3>1, LeastIs
  <2>3. CASE ~(r <= c)
    <3>1. \A y \in {r, c} : c <= y
      BY <1>1, <2>3
    <3> QED
      BY <2>1, <2>3, <3>1, LeastIs
  <2> QED
    BY <2>2, <2>3
<1>4. \A s : s \in line <=> s \in Squares /\ Row(s) - Col(s) = r - c
  BY DEF Diagonal9
<1> HIDE DEF pos, line, c, r
<1>5. pos \in 0..7 /\ n \in 0..7 /\ pos - pos = 0 /\ pos + n <= 7 /\ r - pos \in 0..7 /\ c - pos \in 0..7
  BY <1>1, <1>3
<1>6. Min(line) = x - 9 * pos
  <2>1. x - 9 * pos \in line
    <3>1. x - 9 * pos = 8 * (r - pos) + (c - pos)
      BY <1>1, <1>5
    <3>2. /\ 8 * (r - pos) + (c - pos) \in Squares
          /\ Row(8 * (r - pos) + (c - pos)) = r - pos /\ Col(8 * (r - pos) + (c - pos)) = c - pos
      BY <1>2, <1>5
    <3>3. (r - pos) - (c - pos) = r - c
      BY <1>1, <1>5
    <3> QED
      BY <1>4, <3>1, <3>2, <3>3
  <2>2. \A s \in line : x - 9 * pos <= s
    <3>1. TAKE s \in line
    <3> DEFINE i == Row(s)
               h == Col(s)
    <3>2. s = 8 * i + h /\ i \in 0..7 /\ h \in 0..7 /\ i - h = r - c
      BY <1>2, <1>4
    <3> HIDE DEF i, h
    <3> QED
      BY <1>1, <1>3, <3>2
  <2>3. line \in SUBSET Int
    BY <1>2, <1>4
  <2> QED
    BY <2>1, <2>2, <2>3, LeastIs
<1>7. \A k \in 0..7 : /\ (x - 9 * pos) + 9 * k \in line <=> k <= pos + n
                      /\ k > 0 /\ k < pos + n => (x - 9 * pos) + 9 * k \in midMask
  <2>1. TAKE k \in 0..7
  <2> DEFINE i == r - pos + k
             h == c - pos + k
             s == (x - 9 * pos) + 9 * k
  <2>2. s = 8 * i + h /\ i \in Nat /\ h \in Nat /\ i - h = r - c /\ (i = k \/ h = k)
    BY <1>1, <1>3, <1>5
  <2>3. k <= pos + n <=> i <= 7 /\ h <= 7
    BY <1>1, <1>3, <1>5
  <2>4. k > 0 /\ k < pos + n => i \in 1..6 /\ h \in 1..6
    BY <1>1, <1>3, <1>5
  <2>5. i <= 14 /\ h <= 14
    BY <1>1, <1>3, <1>5
  <2> HIDE DEF i, h, s
  <2>6. ASSUME i <= 7, h <= 7 PROVE s \in line /\ s \in Squares /\ Row(s) = i /\ Col(s) = h
    <3>1. i \in 0..7 /\ h \in 0..7
      BY <2>2, <2>6
    <3>2. s \in Squares /\ Row(s) = i /\ Col(s) = h
      BY <1>2, <2>2, <3>1
    <3> QED
      BY <1>4, <2>2, <3>2
  <2>7. ASSUME s \in line PROVE i <= 7 /\ h <= 7
    <3> DEFINE a == Row(s)
               g == Col(s)
    <3>1. s = 8 * a + g /\ a \in 0..7 /\ g \in 0..7 /\ a - g = r - c
      BY <1>2, <1>4, <2>7
    <3> HIDE DEF a, g
    <3>2. 9 * (a - i) = 0
      BY <1>1, <2>2, <3>1
    <3> QED
      BY <2>2, <3>1, <3>2
  <2>8. k <= pos + n <=> s \in line
    BY <2>3, <2>6, <2>7
  <2>9. k > 0 /\ k < pos + n => s \in midMask
    <3>1. ASSUME i \in 1..6, h \in 1..6 PROVE s \in midMask
      <4>1. s \in Squares /\ Row(s) \notin {0, 7} /\ Col(s) \notin {0, 7}
        BY <2>6, <3>1
      <4> QED
        BY <4>1 DEF midMask, rowMiddle, middleColumns
    <3> QED
      BY <2>4, <3>1
  <2> QED
    BY <2>8, <2>9 DEF s
<1>8. \A k \in 0..7 : /\ (x - 9 * pos) + 9 * k = Along(x, <<1, 1>>, k - pos)
                      /\ (x - 9 * pos) + 9 * k = Along(x, <<-1, -1>>, pos - k)
  BY <1>1, <1>5 DEF Along
<1>9. OnBoardTo(x, <<1, 1>>, n) /\ OnBoardTo(x, <<-1, -1>>, pos)
  <2>1. \A k \in 1..7 : OnBoard(x, <<1, 1>>, k) <=> k <= n
    <3>1. TAKE k \in 1..7
    <3>2. OnBoard(x, <<1, 1>>, k) <=> c + k * 1 \in 0..7 /\ r + k * 1 \in 0..7
      BY DEF OnBoard, c, r
    <3> QED
      BY <1>1, <3>2
  <2>2. \A k \in 1..7 : OnBoard(x, <<-1, -1>>, k) <=> k <= pos
    BY <1>1, <1>3 DEF OnBoard, c, r
  <2> QED
    BY <2>1, <2>2 DEF OnBoardTo
<1>10. Back(<<1, 1>>) = <<-1, -1>>
  BY BackOf
<1>11. \A k \in 0..7 : k >= 0
  OBVIOUS
<1> HIDE DEF n
<1>12. Axis(x, line, midMask, pos, 9, <<1, 1>>, n, pos)
  <2>1. pos - pos >= 0
    BY <1>5
  <2>2. \A k \in 0..7 : (k > pos - pos <=> k > 0) /\ (k >= pos - pos <=> k >= 0)
    BY <1>5
  <2> QED
    BY <1>5, <1>6, <1>7, <1>8, <1>9, <1>10, <1>11, <2>1, <2>2 DEF Axis
<1> QED
  BY <1>5, <1>12 DEF c, r, line, pos

LEMMA Diagonal7Axis ==
  ASSUME NEW x \in Squares
  PROVE  \E n \in 0..7 : Axis(x, Diagonal7(x), midMask, Min({Row(x), 7 - Col(x)}), 7, <<-1, 1>>, n, Min({Row(x), 7 - Col(x)}))
<1> DEFINE c == Col(x)
           r == Row(x)
           pos == Min({r, 7 - c})
           line == Diagonal7(x)
<1>1. x = 8 * r + c /\ r \in 0..7 /\ c \in 0..7 /\ x \in Int
  BY Coordinates
<1>2. /\ \A h, i \in 0..7 : 8 * i + h \in Squares /\ Row(8 * i + h) = i /\ Col(8 * i + h) = h
      /\ \A s \in Squares : s = 8 * Row(s) + Col(s) /\ Row(s) \in 0..7 /\ Col(s) \in 0..7 /\ s \in Int
  BY Coordinates
<1> DEFINE n == IF r <= 7 - c THEN c ELSE 7 - r
<1>3. pos = IF r <= 7 - c THEN r ELSE 7 - c
  <2> HIDE DEF r, c
  <2>1. {r, 7 - c} \in SUBSET Int /\ r \in {r, 7 - c} /\ 7 - c \in {r, 7 - c}
    BY <1>1
  <2>2. CASE r <= 7 - c
    <3>1. \A y \in {r, 7 - c} : r <= y
      BY <1>1, <2>2
    <3> QED
      BY <2>1, <2>2, <3>1, LeastIs
  <2>3. CASE ~(r <= 7 - c)
    <3>1. \A y \in {r, 7 - c} : 7 - c <= y
      BY <1>1, <2>3
    <3> QED
      BY <2>1, <2>3, <3>1, LeastIs
  <2> QED
    BY <2>2, <2>3
<1>4. \A s : s \in line <=> s \in Squares /\ Row(s) + Col(s) = r + c
  BY DEF Diagonal7
<1> HIDE DEF pos, line, c, r
<1>5. pos \in 0..7 /\ n \in 0..7 /\ pos - pos = 0 /\ pos + n <= 7 /\ r - pos \in 0..7 /\ c + pos \in 0..7
  BY <1>1, <1>3
<1>6. Min(line) = x - 7 * pos
  <2>1. x - 7 * pos \in line
    <3>1. x - 7 * pos = 8 * (r - pos) + (c + pos)
      BY <1>1, <1>5
    <3>2. /\ 8 * (r - pos) + (c + pos) \in Squares
          /\ Row(8 * (r - pos) + (c + pos)) = r - pos /\ Col(8 * (r - pos) + (c + pos)) = c + pos
      BY <1>2, <1>5
    <3>3. (r - pos) + (c + pos) = r + c
      BY <1>1, <1>5
    <3> QED
      BY <1>4, <3>1, <3>2, <3>3
  <2>2. \A s \in line : x - 7 * pos <= s
    <3>1. TAKE s \in line
    <3> DEFINE i == Row(s)
               h == Col(s)
    <3>2. s = 8 * i + h /\ i \in 0..7 /\ h \in 0..7 /\ i + h = r + c
      BY <1>2, <1>4
    <3> HIDE DEF i, h
    <3> QED
      BY <1>1, <1>3, <3>2
  <2>3. line \in SUBSET Int
    BY <1>2, <1>4
  <2> QED
    BY <2>1, <2>2, <2>3, LeastIs
<1>7. \A k \in 0..7 : /\ (x - 7 * pos) + 7 * k \in line <=> k <= pos + n
                      /\ k > 0 /\ k < pos + n => (x - 7 * pos) + 7 * k \in midMask
  <2>1. TAKE k \in 0..7
  <2> DEFINE i == r - pos + k
             h == c + pos - k
             s == (x - 7 * pos) + 7 * k
  <2>2. s = 8 * i + h /\ i \in Nat /\ h \in Int /\ i + h = r + c /\ (i = k \/ h = 7 - k)
    BY <1>1, <1>3, <1>5
  <2>3. k <= pos + n <=> i <= 7 /\ h >= 0
    BY <1>1, <1>3, <1>5
  <2>4. k > 0 /\ k < pos + n => i \in 1..6 /\ h \in 1..6
    BY <1>1, <1>3, <1>5
  <2>5. i <= 14 /\ h <= 7
    BY <1>1, <1>3, <1>5
  <2> HIDE DEF i, h, s
  <2>6. ASSUME i <= 7, h >= 0 PROVE s \in line /\ s \in Squares /\ Row(s) = i /\ Col(s) = h
    <3>1. i \in 0..7 /\ h \in 0..7
      BY <2>2, <2>5, <2>6
    <3>2. s \in Squares /\ Row(s) = i /\ Col(s) = h
      BY <1>2, <2>2, <3>1
    <3> QED
      BY <1>4, <2>2, <3>2
  <2>7. ASSUME s \in line PROVE i <= 7 /\ h >= 0
    <3> DEFINE a == Row(s)
               g == Col(s)
    <3>1. s = 8 * a + g /\ a \in 0..7 /\ g \in 0..7 /\ a + g = r + c
      BY <1>2, <1>4, <2>7
    <3> HIDE DEF a, g
    <3>2. 7 * (a - i) = 0
      BY <1>1, <2>2, <3>1
    <3> QED
      BY <2>2, <3>1, <3>2
  <2>8. k <= pos + n <=> s \in line
    BY <2>3, <2>6, <2>7
  <2>9. k > 0 /\ k < pos + n => s \in midMask
    <3>1. ASSUME i \in 1..6, h \in 1..6 PROVE s \in midMask
      <4>1. s \in Squares /\ Row(s) \notin {0, 7} /\ Col(s) \notin {0, 7}
        BY <2>6, <3>1
      <4> QED
        BY <4>1 DEF midMask, rowMiddle, middleColumns
    <3> QED
      BY <2>4, <3>1
  <2> QED
    BY <2>8, <2>9 DEF s
<1>8. \A k \in 0..7 : /\ (x - 7 * pos) + 7 * k = Along(x, <<-1, 1>>, k - pos)
                      /\ (x - 7 * pos) + 7 * k = Along(x, <<1, -1>>, pos - k)
  BY <1>1, <1>5 DEF Along
<1>9. OnBoardTo(x, <<-1, 1>>, n) /\ OnBoardTo(x, <<1, -1>>, pos)
  <2>1. \A k \in 1..7 : OnBoard(x, <<-1, 1>>, k) <=> k <= n
    <3>1. TAKE k \in 1..7
    <3>2. OnBoard(x, <<-1, 1>>, k) <=> c + k * (-1) \in 0..7 /\ r + k * 1 \in 0..7
      BY DEF OnBoard, c, r
    <3> QED
      BY <1>1, <3>2
  <2>2. \A k \in 1..7 : OnBoard(x, <<1, -1>>, k) <=> k <= pos
    BY <1>1, <1>3 DEF OnBoard, c, r
  <2> QED
    BY <2>1, <2>2 DEF OnBoardTo
<1>10. Back(<<-1, 1>>) = <<1, -1>>
  BY BackOf
<1>11. \A k \in 0..7 : k >= 0
  OBVIOUS
<1> HIDE DEF n
<1>12. Axis(x, line, midMask, pos, 7, <<-1, 1>>, n, pos)
  <2>1. pos - pos >= 0
    BY <1>5
  <2>2. \A k \in 0..7 : (k > pos - pos <=> k > 0) /\ (k >= pos - pos <=> k >= 0)
    BY <1>5
  <2> QED
    BY <1>5, <1>6, <1>7, <1>8, <1>9, <1>10, <1>11, <2>1, <2>2 DEF Axis
<1> QED
  BY <1>5, <1>12 DEF c, r, line, pos

LEMMA KindergartenIs ==
  ASSUME NEW b, Disjoint(b), NEW x \in Squares, x \notin Discs(b)
  PROVE  get_flip_kindergarten(b, x) = flippedDiscs(b, x)
<1> DEFINE c == Col(x)
           r == Row(x)
           p9 == Min({r, c})
           p7 == Min({r, 7 - c})
           row == {s \in Squares : Row(s) = r}
           column == {s \in Squares : Col(s) = c}
           F1 == FlipLine(b, row, middleColumns, c, 1)
           F2 == FlipLine(b, column, rowMiddle, r, 8)
           F3 == FlipLine(b, Diagonal9(x), midMask, p9, 9)
           F4 == FlipLine(b, Diagonal7(x), midMask, p7, 7)
           B(dir) == Bracketed(b, x, dir)
<1>1. get_flip_kindergarten(b, x) = UNION {F1, F2, F3, F4}
  BY DEF get_flip_kindergarten
<1>2. x \notin b.opponent /\ row \in SUBSET Squares /\ column \in SUBSET Squares
      /\ Diagonal9(x) \in SUBSET Squares /\ Diagonal7(x) \in SUBSET Squares
  BY DEF Discs, Diagonal9, Diagonal7
<1>3. F1 = B(<<1, 0>>) \cup B(Back(<<1, 0>>))
  <2>1. Axis(x, row, middleColumns, c, 1, <<1, 0>>, 7 - c, c)
    BY RowAxis
  <2> HIDE DEF row, c
  <2> QED
    BY <1>2, <2>1, LineIs, DirectionOf
<1>4. F2 = B(<<0, 1>>) \cup B(Back(<<0, 1>>))
  <2>1. Axis(x, column, rowMiddle, r, 8, <<0, 1>>, 7 - r, r)
    BY ColumnAxis
  <2> HIDE DEF column, r
  <2> QED
    BY <1>2, <2>1, LineIs, DirectionOf
<1>5. F3 = B(<<1, 1>>) \cup B(Back(<<1, 1>>))
  <2>1. PICK n \in 0..7 : Axis(x, Diagonal9(x), midMask, p9, 9, <<1, 1>>, n, p9)
    BY Diagonal9Axis
  <2> QED
    BY <1>2, <2>1, LineIs, DirectionOf
<1>6. F4 = B(<<-1, 1>>) \cup B(Back(<<-1, 1>>))
  <2>1. PICK n \in 0..7 : Axis(x, Diagonal7(x), midMask, p7, 7, <<-1, 1>>, n, p7)
    BY Diagonal7Axis
  <2> QED
    BY <1>2, <2>1, LineIs, DirectionOf
<1>7. flippedDiscs(b, x) = UNION {B(dir) : dir \in Directions}
  BY DEF flippedDiscs
<1>8. Directions = {<<1, 0>>, <<-1, 0>>, <<0, 1>>, <<0, -1>>, <<1, 1>>, <<-1, -1>>, <<-1, 1>>, <<1, -1>>}
  <2> DEFINE S == {<<1, 0>>, <<-1, 0>>, <<0, 1>>, <<0, -1>>, <<1, 1>>, <<-1, -1>>, <<-1, 1>>, <<1, -1>>}
  <2>1. \A dir \in S : dir \in Directions
    BY DirectionOf
  <2>2. \A dir \in Directions : dir \in S
    BY DEF Directions
  <2> HIDE DEF S
  <2> QED
    BY <2>1, <2>2 DEF S
<1> HIDE DEF F1, F2, F3, F4, B
<1>9. \A t : t \in flippedDiscs(b, x) <=>
        \/ t \in B(<<1, 0>>) \/ t \in B(<<-1, 0>>) \/ t \in B(<<0, 1>>) \/ t \in B(<<0, -1>>)
        \/ t \in B(<<1, 1>>) \/ t \in B(<<-1, -1>>) \/ t \in B(<<-1, 1>>) \/ t \in B(<<1, -1>>)
  <2>1. \A t : t \in flippedDiscs(b, x) <=> \E dir \in Directions : t \in B(dir)
    BY <1>7
  <2> QED
    BY <1>8, <2>1
<1>10. \A t : t \in get_flip_kindergarten(b, x) <=> t \in F1 \/ t \in F2 \/ t \in F3 \/ t \in F4
  BY <1>1
<1>11. \A t : t \in get_flip_kindergarten(b, x) <=> t \in flippedDiscs(b, x)
  BY <1>3, <1>4, <1>5, <1>6, <1>9, <1>10, BackOf
<1> QED
  BY <1>11

(* The kindergarten tables, the carry and the Kogge-Stone fill turn what   *)
(* get_flip turns, on every move of every position that any search stands  *)
(* at (flip_variants.rs and board.rs::get_flip).                           *)
THEOREM FlipsAgree == Spec => []FlipVariantsAgree
<1>1. ASSUME IInv
      PROVE  FlipVariantsAgree
  <2> SUFFICES ASSUME Searching, NEW x \in top.todo
               PROVE  /\ get_flip_kindergarten(top.board, x) = get_flip(top.board, x)
                      /\ get_flip_carry(top.board, x) = get_flip(top.board, x)
                      /\ get_flip_kogge_stone(top.board, x) = get_flip(top.board, x)
    BY DEF FlipVariantsAgree
  <2>1. top \in Frame /\ FlagsHold(top)
    BY <1>1, TopIs
  <2>2. Disjoint(top.board) /\ x \in get_moves(top.board)
    BY <2>1 DEF FlagsHold
  <2>3. x \in Squares /\ x \notin Discs(top.board)
    <3>1. x \in Squares
      BY <2>1 DEF Frame
    <3>2. x \notin Discs(top.board)
      BY <2>2 DEF get_moves
    <3> QED
      BY <3>1, <3>2
  <2>4. get_flip(top.board, x) = flippedDiscs(top.board, x)
    BY <2>2, <2>3, FlippedIs
  <2> QED
    BY <2>2, <2>3, <2>4, KindergartenIs, CarryIs, KoggeStoneIs
<1> QED
  BY <1>1, InitKeeps, StepKeeps, PTL DEF Spec

-----------------------------------------------------------------------------
(* Levels *)

(* The levels a row of the table is for *)
LastLevel(i) == LevelTable[i][1]

LEMMA Table ==
  /\ DOMAIN LevelTable = 1..9
  /\ LastLevel(1) = 12 /\ LastLevel(2) = 18 /\ LastLevel(3) = 21 /\ LastLevel(4) = 24 /\ LastLevel(5) = 27
  /\ LastLevel(6) = 29 /\ LastLevel(7) = 31 /\ LastLevel(8) = 33 /\ LastLevel(9) = 35
  BY DEF LevelTable, LastLevel

LEMMA RowOf ==
  ASSUME NEW level \in Nat, NEW k \in 1..9, level <= LastLevel(k), k = 1 \/ LastLevel(k - 1) < level
  PROVE  EndgameBands(level) = LevelTable[k][2]
<1> DEFINE rows == {i \in DOMAIN LevelTable : level <= LevelTable[i][1]}
<1>1. rows = {i \in 1..9 : level <= LastLevel(i)}
  BY Table DEF LastLevel
<1>2. k \in rows /\ \A i \in rows : k <= i
  <2>1. \A i \in 1..9 : i < k => LastLevel(i) < level
    <3>1. \A i \in 1..8 : LastLevel(i) < LastLevel(i + 1) /\ LastLevel(i) \in Nat
      <4> TAKE i \in 1..8
      <4>1. i = 1 \/ i = 2 \/ i = 3 \/ i = 4 \/ i = 5 \/ i = 6 \/ i = 7 \/ i = 8
        OBVIOUS
      <4> QED
        BY <4>1, Table
    <3>2. k = 1 \/ k = 2 \/ k = 3 \/ k = 4 \/ k = 5 \/ k = 6 \/ k = 7 \/ k = 8 \/ k = 9
      OBVIOUS
    <3> QED
      BY <3>2, Table
  <2>2. \A i \in 1..9 : LastLevel(i) \in Nat
    <3> TAKE i \in 1..9
    <3>1. i = 1 \/ i = 2 \/ i = 3 \/ i = 4 \/ i = 5 \/ i = 6 \/ i = 7 \/ i = 8 \/ i = 9
      OBVIOUS
    <3> QED
      BY <3>1, Table
  <2> HIDE DEF rows
  <2> QED
    BY <1>1, <2>1, <2>2
<1> HIDE DEF rows
<1>3. \A i \in rows : i \in Int
  BY <1>1
<1>4. Min(rows) = k
  <2>1. Min(rows) \in rows /\ \A i \in rows : Min(rows) <= i
    BY <1>2 DEF Min
  <2>2. Min(rows) <= k /\ k <= Min(rows) /\ Min(rows) \in Int /\ k \in Int
    BY <1>2, <1>3, <2>1
  <2> QED
    BY <2>2
<1>5. rows # {}
  BY <1>2
<1> QED
  BY <1>4, <1>5 DEF EndgameBands, rows

(* The two tables *)
LEMMA SameBands ==
  ASSUME NEW level \in 11..59
  PROVE  EndgameBands(level) = Server!Bands(level)
<1>1. CASE level \in 11..12
  <2>1. 1 \in 1..9 /\ level \in Nat /\ level <= LastLevel(1) /\ (1 = 1 \/ LastLevel(1 - 1) < level)
    BY <1>1, Table
  <2>2. EndgameBands(level) = LevelTable[1][2]
    BY <2>1, RowOf
  <2>3. LevelTable[1][2] = << <<21, 5>>, <<24, 3>> >>
    BY DEF LevelTable
  <2>4. Server!Bands(level) = << <<21, 5>>, <<24, 3>> >>
    BY <1>1 DEF Server!Bands
  <2> QED
    BY <2>2, <2>3, <2>4
<1>2. CASE level \in 13..18
  <2>1. 2 \in 1..9 /\ level \in Nat /\ level <= LastLevel(2) /\ (2 = 1 \/ LastLevel(2 - 1) < level)
    BY <1>2, Table
  <2>2. EndgameBands(level) = LevelTable[2][2]
    BY <2>1, RowOf
  <2>3. LevelTable[2][2] = << <<21, 5>>, <<24, 3>>, <<27, 1>> >>
    BY DEF LevelTable
  <2>4. Server!Bands(level) = << <<21, 5>>, <<24, 3>>, <<27, 1>> >>
    BY <1>2 DEF Server!Bands
  <2> QED
    BY <2>2, <2>3, <2>4
<1>3. CASE level \in 19..21
  <2>1. 3 \in 1..9 /\ level \in Nat /\ level <= LastLevel(3) /\ (3 = 1 \/ LastLevel(3 - 1) < level)
    BY <1>3, Table
  <2>2. EndgameBands(level) = LevelTable[3][2]
    BY <2>1, RowOf
  <2>3. LevelTable[3][2] = << <<24, 5>>, <<27, 3>>, <<30, 1>> >>
    BY DEF LevelTable
  <2>4. Server!Bands(level) = << <<24, 5>>, <<27, 3>>, <<30, 1>> >>
    BY <1>3 DEF Server!Bands
  <2> QED
    BY <2>2, <2>3, <2>4
<1>4. CASE level \in 22..24
  <2>1. 4 \in 1..9 /\ level \in Nat /\ level <= LastLevel(4) /\ (4 = 1 \/ LastLevel(4 - 1) < level)
    BY <1>4, Table
  <2>2. EndgameBands(level) = LevelTable[4][2]
    BY <2>1, RowOf
  <2>3. LevelTable[4][2] = << <<24, 5>>, <<27, 4>>, <<30, 2>>, <<33, 0>> >>
    BY DEF LevelTable
  <2>4. Server!Bands(level) = << <<24, 5>>, <<27, 4>>, <<30, 2>>, <<33, 0>> >>
    BY <1>4 DEF Server!Bands
  <2> QED
    BY <2>2, <2>3, <2>4
<1>5. CASE level \in 25..27
  <2>1. 5 \in 1..9 /\ level \in Nat /\ level <= LastLevel(5) /\ (5 = 1 \/ LastLevel(5 - 1) < level)
    BY <1>5, Table
  <2>2. EndgameBands(level) = LevelTable[5][2]
    BY <2>1, RowOf
  <2>3. LevelTable[5][2] = << <<27, 5>>, <<30, 3>>, <<33, 1>> >>
    BY DEF LevelTable
  <2>4. Server!Bands(level) = << <<27, 5>>, <<30, 3>>, <<33, 1>> >>
    BY <1>5 DEF Server!Bands
  <2> QED
    BY <2>2, <2>3, <2>4
<1>6. CASE level \in 28..29
  <2>1. 6 \in 1..9 /\ level \in Nat /\ level <= LastLevel(6) /\ (6 = 1 \/ LastLevel(6 - 1) < level)
    BY <1>6, Table
  <2>2. EndgameBands(level) = LevelTable[6][2]
    BY <2>1, RowOf
  <2>3. LevelTable[6][2] = << <<27, 5>>, <<30, 4>>, <<33, 2>>, <<36, 0>> >>
    BY DEF LevelTable
  <2>4. Server!Bands(level) = << <<27, 5>>, <<30, 4>>, <<33, 2>>, <<36, 0>> >>
    BY <1>6 DEF Server!Bands
  <2> QED
    BY <2>2, <2>3, <2>4
<1>7. CASE level \in 30..31
  <2>1. 7 \in 1..9 /\ level \in Nat /\ level <= LastLevel(7) /\ (7 = 1 \/ LastLevel(7 - 1) < level)
    BY <1>7, Table
  <2>2. EndgameBands(level) = LevelTable[7][2]
    BY <2>1, RowOf
  <2>3. LevelTable[7][2] = << <<30, 5>>, <<33, 3>>, <<36, 1>> >>
    BY DEF LevelTable
  <2>4. Server!Bands(level) = << <<30, 5>>, <<33, 3>>, <<36, 1>> >>
    BY <1>7 DEF Server!Bands
  <2> QED
    BY <2>2, <2>3, <2>4
<1>8. CASE level \in 32..33
  <2>1. 8 \in 1..9 /\ level \in Nat /\ level <= LastLevel(8) /\ (8 = 1 \/ LastLevel(8 - 1) < level)
    BY <1>8, Table
  <2>2. EndgameBands(level) = LevelTable[8][2]
    BY <2>1, RowOf
  <2>3. LevelTable[8][2] = << <<30, 5>>, <<33, 4>>, <<36, 2>>, <<39, 0>> >>
    BY DEF LevelTable
  <2>4. Server!Bands(level) = << <<30, 5>>, <<33, 4>>, <<36, 2>>, <<39, 0>> >>
    BY <1>8 DEF Server!Bands
  <2> QED
    BY <2>2, <2>3, <2>4
<1>9. CASE level \in 34..35
  <2>1. 9 \in 1..9 /\ level \in Nat /\ level <= LastLevel(9) /\ (9 = 1 \/ LastLevel(9 - 1) < level)
    BY <1>9, Table
  <2>2. EndgameBands(level) = LevelTable[9][2]
    BY <2>1, RowOf
  <2>3. LevelTable[9][2] = << <<30, 5>>, <<33, 4>>, <<36, 3>>, <<39, 1>> >>
    BY DEF LevelTable
  <2>4. Server!Bands(level) = << <<30, 5>>, <<33, 4>>, <<36, 3>>, <<39, 1>> >>
    BY <1>9 DEF Server!Bands
  <2> QED
    BY <2>2, <2>3, <2>4
<1>10. CASE level \in 36..59
  <2> DEFINE rows == {i \in DOMAIN LevelTable : level <= LevelTable[i][1]}
             bands == << <<level - 6, 5>>, <<level - 3, 4>>, <<level, 3>>,
                         <<level + 3, 2>>, <<level + 6, 1>>, <<level + 9, 0>> >>
  <2>1. rows = {}
    <3>1. rows = {i \in 1..9 : level <= LastLevel(i)}
      BY Table DEF LastLevel
    <3>2. ASSUME NEW i \in 1..9
          PROVE  ~(level <= LastLevel(i))
      <4>1. i = 1 \/ i = 2 \/ i = 3 \/ i = 4 \/ i = 5 \/ i = 6 \/ i = 7 \/ i = 8 \/ i = 9
        OBVIOUS
      <4> QED
        BY <1>10, <4>1, Table
    <3> HIDE DEF rows
    <3> QED
      BY <3>1, <3>2
  <2>2. EndgameBands(level) = [i \in 1..6 |-> <<level - 9 + 3 * i, 6 - i>>]
    BY <2>1 DEF EndgameBands
  <2>3. [i \in 1..6 |-> <<level - 9 + 3 * i, 6 - i>>] = bands
    <3>1. DOMAIN bands = 1..6
      OBVIOUS
    <3>2. ASSUME NEW i \in 1..6
          PROVE  bands[i] = <<level - 9 + 3 * i, 6 - i>>
      <4>1. i = 1 \/ i = 2 \/ i = 3 \/ i = 4 \/ i = 5 \/ i = 6
        OBVIOUS
      <4> QED
        BY <4>1
    <3>3. bands = [i \in 1..6 |-> bands[i]]
      OBVIOUS
    <3> HIDE DEF bands
    <3> QED
      BY <3>2, <3>3
  <2>4. Server!Bands(level) = bands
    BY <1>10 DEF Server!Bands
  <2> QED
    BY <2>2, <2>3, <2>4
<1> QED
  BY <1>1, <1>2, <1>3, <1>4, <1>5, <1>6, <1>7, <1>8, <1>9, <1>10

LEMMA SameLevels ==
  ASSUME NEW level \in 0..MAX_LEVEL, NEW empties \in 0..60
  PROVE  depth_and_selectivity(level, empties) = Server!DepthAndSelectivity(level, empties)
<1>1. CASE level = 0
  BY <1>1 DEF depth_and_selectivity, FixedDepth, NO_SELECTIVITY, Server!DepthAndSelectivity, Server!NoSelectivity,
              Server!MaxLevel
<1>2. CASE level \in 1..10
  BY <1>2 DEF depth_and_selectivity, FixedDepth, NO_SELECTIVITY, Server!DepthAndSelectivity, Server!NoSelectivity,
              Server!MaxLevel
<1>3. CASE level \in 11..59
  <2>1. EndgameBands(level) = Server!Bands(level)
    BY <1>3, SameBands
  <2>2. depth_and_selectivity(level, empties) = SelectiveSearch(level, empties)
    BY <1>3 DEF depth_and_selectivity
  <2>3. Server!DepthAndSelectivity(level, empties) = Server!BandSearch(level, empties)
    BY <1>3 DEF Server!DepthAndSelectivity, Server!MaxLevel
  <2>4. SelectiveSearch(level, empties) = Server!BandSearch(level, empties)
    BY <2>1 DEF SelectiveSearch, Server!BandSearch, Min, Server!Min
  <2> QED
    BY <2>2, <2>3, <2>4
<1>4. CASE level = 60
  BY <1>4 DEF depth_and_selectivity, FixedDepth, NO_SELECTIVITY, Server!DepthAndSelectivity, Server!NoSelectivity,
              Server!MaxLevel
<1> QED
  BY <1>1, <1>2, <1>3, <1>4 DEF MAX_LEVEL

(* For every level and number of empty squares: the local evaluator and    *)
(* the server take the same depth and confidence for them (search.rs and   *)
(* internal/edax/search_params.go).                                        *)
THEOREM SearchesAlike == Spec => []SearchesAsTheServer
<1>1. SearchesAsTheServer
  BY SameLevels DEF SearchesAsTheServer
<1> QED
  BY <1>1, PTL

-----------------------------------------------------------------------------
(* The words' way through the tool, the blob and the wasm module           *)

Int16 == {v \in Int : -32768 <= v /\ v <= 32767}

(* The words of plies 2..53, ply by ply, as the tool finds them *)
Slice == [k \in 0..N_PLIES * N_W - 1 |-> Words[FIRST_PLY + k \div N_W][k % N_W]]

LEMMA Bytes ==
  ASSUME NEW v \in Int
  PROVE  /\ LowByte(v) \in Int /\ HighByte(v) \in Int
         /\ FromBytes(LowByte(v), HighByte(v)) = Wrap16(v)
         /\ Wrap16(v) \in Int16
         /\ v \in Int16 => Wrap16(v) = v
<1>1. LowByte(v) = v % 256 /\ HighByte(v) = (v \div 256) % 256
  BY DEF LowByte, HighByte
<1>2. \E k \in Int : 256 * HighByte(v) + LowByte(v) = v + 65536 * k
  <2> DEFINE a == v \div 256
             b == v % 256
             c == a \div 256
             d == a % 256
  <2>1. a \in Int /\ b \in Int /\ v = 256 * a + b
    OBVIOUS
  <2> HIDE DEF a, b
  <2>2. c \in Int /\ d \in Int /\ a = 256 * c + d
    BY <2>1
  <2>3. LowByte(v) = b /\ HighByte(v) = d
    BY <1>1 DEF a, b
  <2> HIDE DEF c, d
  <2>4. 256 * d + b = v + 65536 * (-c) /\ -c \in Int
    BY <2>1, <2>2, SMT
  <2> QED
    BY <2>3, <2>4
<1>3. \A x, k \in Int : (x + 65536 * k + 32768) % 65536 = (x + 32768) % 65536
  BY SMT
<1>4. FromBytes(LowByte(v), HighByte(v)) = Wrap16(v)
  BY <1>2, <1>3, SMT DEF FromBytes, Wrap16
<1>5. Wrap16(v) \in Int16 /\ (v \in Int16 => Wrap16(v) = v)
  BY SMT DEF Wrap16, Int16
<1> QED
  BY <1>1, <1>4, <1>5

(* A difference taken and added again *)
LEMMA Differences ==
  ASSUME NEW v \in Int16, NEW w \in Int16
  PROVE  Wrap16(w + Wrap16(v - w)) = v
  BY SMT DEF Wrap16, Int16

LEMMA Dividing ==
  ASSUME NEW n \in Nat, n > 0, NEW q \in Int, NEW r \in 0..n - 1
  PROVE  (q * n + r) \div n = q /\ (q * n + r) % n = r
<1>1. n \in Int /\ r \in Int /\ r >= 0 /\ r < n
  OBVIOUS
<1>2. (n * q + r) \div n = q
  BY <1>1, SMT
<1>3. (n * q + r) % n = r
  BY <1>1, SMT
<1>4. q * n = n * q
  BY <1>1
<1> QED
  BY <1>2, <1>3, <1>4

LEMMA Divided ==
  ASSUME NEW n \in Nat, n > 0, NEW k \in Nat
  PROVE  k \div n \in Nat /\ (k % n) \in 0..n - 1 /\ k = (k \div n) * n + (k % n)
  OBVIOUS

(* A place of the slice is a ply and a word. *)
LEMMA SlicePlace ==
  ASSUME NEW k \in 0..N_PLIES * N_W - 1
  PROVE  /\ k \div N_W \in 0..51 /\ k % N_W \in 0..N_W - 1
         /\ k = (k \div N_W) * N_W + (k % N_W)
<1> DEFINE n == N_W
           q == k \div n
           r == k % n
<1>1. n \in Nat /\ n > 0 /\ k \in Nat /\ k < 52 * n
  BY NWAssumption DEF N_PLIES
<1> HIDE DEF n
<1>2. q \in Nat /\ r \in 0..n - 1 /\ k = q * n + r
  BY <1>1, Divided
<1> HIDE DEF q, r
<1>3. q <= 51
  <2> SUFFICES ASSUME q >= 52 PROVE FALSE
    BY <1>2
  <2>1. q * n >= 52 * n
    BY <1>1, <1>2
  <2> QED
    BY <1>1, <1>2, <2>1
<1>4. q \in 0..51 /\ r \in 0..n - 1 /\ k = q * n + r
  BY <1>2, <1>3
<1>5. q = k \div N_W /\ r = k % N_W /\ n = N_W
  BY DEF q, r, n
<1> QED
  BY <1>4, <1>5, Zenon

LEMMA PlaceOf ==
  ASSUME NEW p \in 0..51, NEW w \in 0..N_W - 1
  PROVE  /\ p * N_W + w \in 0..N_PLIES * N_W - 1
         /\ (p * N_W + w) \div N_W = p /\ (p * N_W + w) % N_W = w
<1>1. N_W \in Nat /\ N_W > 0 /\ p \in Int /\ p >= 0 /\ p <= 51 /\ w \in Int
  BY NWAssumption
<1>2. p * N_W >= 0 /\ p * N_W <= 51 * N_W /\ p * N_W \in Int
  BY <1>1
<1>3. p * N_W + w \in 0..52 * N_W - 1
  BY <1>1, <1>2
<1> QED
  BY <1>1, <1>3, Dividing DEF N_PLIES

LEMMA SliceIs ==
  /\ Slice \in [0..N_PLIES * N_W - 1 -> Int16]
  /\ \A p \in 0..51, w \in 0..N_W - 1 : Slice[p * N_W + w] = Words[FIRST_PLY + p][w]
<1>1. \A ply \in 0..53, i \in 0..N_W - 1 : Words[ply][i] \in Int16
  <2>1. EVAL_N_PLY - 1 = 53
    BY DEF EVAL_N_PLY
  <2> QED
    BY <2>1, EvaluatorAssumption DEF Int16
<1>2. \A k \in 0..N_PLIES * N_W - 1 : Words[FIRST_PLY + k \div N_W][k % N_W] \in Int16
  <2> TAKE k \in 0..N_PLIES * N_W - 1
  <2>1. k \div N_W \in 0..51 /\ k % N_W \in 0..N_W - 1
    BY SlicePlace
  <2>2. FIRST_PLY + k \div N_W \in 0..53
    BY <2>1 DEF FIRST_PLY
  <2> QED
    BY <1>1, <2>1, <2>2
<1>3. \A p \in 0..51, w \in 0..N_W - 1 : Slice[p * N_W + w] = Words[FIRST_PLY + p][w]
  BY PlaceOf DEF Slice
<1> QED
  BY <1>2, <1>3 DEF Slice

(* The tool finds the words in a file of either byte order. *)
LEMMA ExtractIs ==
  ASSUME NEW f \in Files, Extractable(f)
  PROVE  extract_raw_slice(f) = Slice
<1>1. PICK order \in {"little", "big"} :
        /\ (parse_header(f).byte_swapped <=> order = "big")
        /\ \A ply \in FIRST_PLY..EVAL_N_PLY - 1 : f.blocks[ply] = Written(Words, order, EVAL_N_PLY).blocks[ply]
  BY EvaluatorAssumption
<1>2. ASSUME NEW k \in 0..N_PLIES * N_W - 1
      PROVE  extract_raw_slice(f)[k] = Slice[k]
  <2> DEFINE ply == FIRST_PLY + k \div N_W
             i == k % N_W
             v == Words[ply][i]
             bytes == f.blocks[ply][i]
  <2>1. k \div N_W \in 0..51 /\ i \in 0..N_W - 1
    BY SlicePlace
  <2>2. ply \in FIRST_PLY..EVAL_N_PLY - 1 /\ ply \in 0..EVAL_N_PLY - 1
    BY <2>1 DEF FIRST_PLY, EVAL_N_PLY
  <2>3. v \in Int /\ v \in Int16
    BY <2>1, <2>2, EvaluatorAssumption DEF Int16
  <2>4. extract_raw_slice(f)[k] = IF parse_header(f).byte_swapped THEN FromBytes(bytes[2], bytes[1])
                                  ELSE FromBytes(bytes[1], bytes[2])
    BY DEF extract_raw_slice
  <2>5. Slice[k] = v
    BY DEF Slice
  <2> HIDE DEF ply, i
  <2>6. bytes = IF order = "little" THEN <<LowByte(v), HighByte(v)>> ELSE <<HighByte(v), LowByte(v)>>
    <3>1. f.blocks[ply] = Written(Words, order, EVAL_N_PLY).blocks[ply]
      BY <1>1, <2>2
    <3>2. Written(Words, order, EVAL_N_PLY).blocks[ply]
            = [j \in 0..N_W - 1 |-> IF order = "little" THEN <<LowByte(Words[ply][j]), HighByte(Words[ply][j])>>
                                    ELSE <<HighByte(Words[ply][j]), LowByte(Words[ply][j])>>]
      BY <2>2 DEF Written
    <3> QED
      BY <2>1, <3>1, <3>2 DEF bytes, v
  <2> HIDE DEF v, bytes
  <2>7. FromBytes(LowByte(v), HighByte(v)) = v
    BY <2>3, Bytes
  <2>8. CASE order = "little"
    <3>1. ~parse_header(f).byte_swapped
      BY <1>1, <2>8
    <3>2. bytes[1] = LowByte(v) /\ bytes[2] = HighByte(v)
      BY <2>6, <2>8
    <3> QED
      BY <2>4, <2>5, <2>7, <3>1, <3>2
  <2>9. CASE order = "big"
    <3>1. parse_header(f).byte_swapped
      BY <1>1, <2>9
    <3>2. bytes[2] = LowByte(v) /\ bytes[1] = HighByte(v)
      BY <2>6, <2>9
    <3> QED
      BY <2>4, <2>5, <2>7, <3>1, <3>2
  <2> QED
    BY <1>1, <2>8, <2>9
<1> QED
  BY <1>2 DEF extract_raw_slice, Slice

(* A place of the blob is a word and a ply. *)
LEMMA BlobPlace ==
  ASSUME NEW p \in 0..51, NEW w \in 0..N_W - 1
  PROVE  /\ w * 52 + p \in 0..52 * N_W - 1
         /\ (w * 52 + p) \div 52 = w /\ (w * 52 + p) % 52 = p
<1>1. N_W \in Int /\ w \in Int /\ p \in Int
  BY NWAssumption
<1> QED
  BY <1>1

(* What the blob holds at a place, and what decode makes of it: the        *)
(* difference of a word from the same word of the ply before               *)
Step(raw, w, p) == IF p = 0 THEN raw[w] ELSE Wrap16(raw[p * N_W + w] - raw[(p - 1) * N_W + w])
Blob(raw) == encode(raw, N_W, N_PLIES)
Decoded(x, w, p) ==
  FromBytes(x[w * N_PLIES + p], x[N_W * N_PLIES + w * N_PLIES + p])

LEMMA RawPlace ==
  ASSUME NEW raw \in [0..N_PLIES * N_W - 1 -> Int16], NEW p \in 0..51, NEW w \in 0..N_W - 1
  PROVE  /\ raw[p * N_W + w] \in Int16 /\ raw[p * N_W + w] \in Int
         /\ 0 * N_W + w = w /\ N_W \in Nat
<1>1. raw[p * N_W + w] \in Int16
  BY PlaceOf
<1> QED
  BY <1>1, NWAssumption DEF Int16

LEMMA StepType ==
  ASSUME NEW raw \in [0..N_PLIES * N_W - 1 -> Int16], NEW p \in 0..51, NEW w \in 0..N_W - 1
  PROVE  Step(raw, w, p) \in Int16 /\ Step(raw, w, p) \in Int
<1>1. CASE p = 0
  BY <1>1, RawPlace DEF Step
<1>2. CASE p # 0
  <2>1. p - 1 \in 0..51
    BY <1>2
  <2> DEFINE a == raw[p * N_W + w]
             b == raw[(p - 1) * N_W + w]
  <2>2. a \in Int /\ b \in Int
    BY <2>1, RawPlace
  <2> HIDE DEF a, b
  <2>3. a - b \in Int
    BY <2>2
  <2>4. Wrap16(a - b) \in Int16
    BY <2>3, Bytes
  <2>5. Step(raw, w, p) = Wrap16(a - b)
    BY <1>2 DEF Step, a, b
  <2> QED
    BY <2>4, <2>5 DEF Int16
<1> QED
  BY <1>1, <1>2

LEMMA EncodedIs ==
  ASSUME NEW raw \in [0..N_PLIES * N_W - 1 -> Int16], NEW p \in 0..51, NEW w \in 0..N_W - 1
  PROVE  Decoded(Blob(raw), w, p) = Step(raw, w, p)
<1> DEFINE len == N_W * N_PLIES
           delta(i) == LET u == i \div N_PLIES  q == i % N_PLIES
                           v == raw[q * N_W + u]
                       IN  IF q = 0 THEN v ELSE Wrap16(v - raw[(q - 1) * N_W + u])
           i == w * N_PLIES + p
           s == Step(raw, w, p)
<1>1. len = N_W * 52 /\ i = w * 52 + p /\ len \in Nat /\ i \in Nat
  BY NWAssumption DEF N_PLIES
<1>2. i \in 0..len - 1 /\ i \div N_PLIES = w /\ i % N_PLIES = p
  <2>1. N_W \in Nat
    BY NWAssumption
  <2>2. w * 52 + p \in 0..52 * N_W - 1 /\ (w * 52 + p) \div 52 = w /\ (w * 52 + p) % 52 = p
    BY BlobPlace
  <2>3. N_W * 52 = 52 * N_W
    BY <2>1
  <2> HIDE DEF len, i
  <2>4. i \in 0..len - 1 /\ i \div 52 = w /\ i % 52 = p
    BY <1>1, <2>2, <2>3
  <2> QED
    BY <2>4 DEF N_PLIES
<1> HIDE DEF i
<1>3. delta(i) = s
  <2>1. delta(i) = IF p = 0 THEN raw[p * N_W + w] ELSE Wrap16(raw[p * N_W + w] - raw[(p - 1) * N_W + w])
    BY <1>2
  <2> HIDE DEF delta
  <2>2. 0 * N_W + w = w
    BY RawPlace
  <2> QED
    BY <2>1, <2>2 DEF Step
<1>4. Blob(raw) = [j \in 0..2 * len - 1 |-> IF j < len THEN LowByte(delta(j)) ELSE HighByte(delta(j - len))]
  BY DEF Blob, encode
<1> HIDE DEF delta, len
<1>5. i \in 0..2 * len - 1 /\ len + i \in 0..2 * len - 1 /\ i < len /\ ~(len + i < len) /\ len + i - len = i
  BY <1>1, <1>2
<1>6. Blob(raw)[i] = LowByte(s) /\ Blob(raw)[len + i] = HighByte(s)
  <2>1. Blob(raw)[i] = LowByte(delta(i))
    BY <1>4, <1>5
  <2>2. Blob(raw)[len + i] = HighByte(delta(i))
    <3> DEFINE m == len + i
    <3>1. m \in 0..2 * len - 1 /\ ~(m < len) /\ m - len = i
      BY <1>1, <1>5
    <3> HIDE DEF m
    <3>2. Blob(raw)[m] = HighByte(delta(m - len))
      BY <1>4, <3>1
    <3>3. Blob(raw)[m] = HighByte(delta(i))
      BY <3>1, <3>2
    <3> QED
      BY <3>3 DEF m
  <2> QED
    BY <1>3, <2>1, <2>2
<1>7. Decoded(Blob(raw), w, p) = FromBytes(Blob(raw)[i], Blob(raw)[len + i])
  <2>1. N_W * N_PLIES + w * N_PLIES + p = len + i
    <3>1. N_W * 52 + w * 52 + p = N_W * 52 + (w * 52 + p)
      BY NWAssumption
    <3> QED
      BY <3>1, <1>1 DEF N_PLIES, i, len
  <2> QED
    BY <2>1 DEF Decoded, i
<1>8. s \in Int16 /\ s \in Int
  BY StepType
<1> HIDE DEF s
<1>9. FromBytes(LowByte(s), HighByte(s)) = s
  BY <1>8, Bytes
<1> QED
  BY <1>6, <1>7, <1>9 DEF s

LEMMA BlobDomain ==
  ASSUME NEW raw
  PROVE  /\ DOMAIN Blob(raw) = 0..2 * N_W * N_PLIES - 1
         /\ Blob(raw) # NoBlob
         /\ 0..N_W * N_PLIES - 1 # 0..2 * N_W * N_PLIES - 1
<1>1. N_W \in Nat /\ N_W > 1
  BY NWAssumption
<1>2. 2 * (N_W * N_PLIES) = 2 * N_W * N_PLIES
  BY <1>1 DEF N_PLIES
<1>3. DOMAIN Blob(raw) = 0..2 * N_W * N_PLIES - 1
  BY <1>2 DEF Blob, encode
<1>4. N_W * N_PLIES \in 0..2 * N_W * N_PLIES - 1 /\ N_W * N_PLIES \notin 0..N_W * N_PLIES - 1
  BY <1>1 DEF N_PLIES
<1>5. Blob(raw) # NoBlob
  <2>1. DOMAIN NoBlob = {}
    BY DEF NoBlob
  <2> QED
    BY <1>3, <1>4, <2>1
<1> QED
  BY <1>3, <1>4, <1>5

(* decode gives back the words that encode was given. *)
LEMMA DecodeEncode ==
  ASSUME NEW raw \in [0..N_PLIES * N_W - 1 -> Int16]
  PROVE  decode(Blob(raw), N_W, N_PLIES) = raw
<1> DEFINE b == Blob(raw)
           len == N_W * N_PLIES
           delta(w, p) == FromBytes(b[w * N_PLIES + p], b[len + w * N_PLIES + p])
           F(w, x) == x = [p \in 0..N_PLIES - 1 |->
                             IF p = 0 THEN delta(w, p) ELSE Wrap16(x[p - 1] + delta(w, p))]
           y(w) == CHOOSE x : F(w, x)
           words == [w \in 0..N_W - 1 |-> y(w)]
<1>1. decode(b, N_W, N_PLIES) = [k \in 0..len - 1 |-> words[k % N_W][k \div N_W]]
  BY DEF decode
<1>2. \A w \in 0..N_W - 1, p \in 0..51 : delta(w, p) = Step(raw, w, p)
  BY EncodedIs DEF Decoded
<1>3. N_PLIES - 1 = 51
  BY DEF N_PLIES
<1> HIDE DEF b, delta
<1>4. \A w \in 0..N_W - 1, p \in 0..51 :
        raw[p * N_W + w] = IF p = 0 THEN delta(w, p) ELSE Wrap16(raw[(p - 1) * N_W + w] + delta(w, p))
  <2> TAKE w \in 0..N_W - 1, p \in 0..51
  <2>0. delta(w, p) = Step(raw, w, p)
    BY <1>2, Zenon
  <2>1. CASE p = 0
    <3>1. p * N_W + w = w
      BY <2>1, RawPlace, Zenon
    <3>2. delta(w, p) = raw[w]
      BY <2>0, <2>1, Zenon DEF Step
    <3> QED
      BY <2>1, <3>1, <3>2, Zenon
  <2>2. CASE p # 0
    <3>1. p - 1 \in 0..51
      BY <2>2
    <3>2. raw[p * N_W + w] \in Int16 /\ raw[(p - 1) * N_W + w] \in Int16
      BY <3>1, RawPlace
    <3>3. delta(w, p) = Wrap16(raw[p * N_W + w] - raw[(p - 1) * N_W + w])
      BY <2>0, <2>2, Zenon DEF Step
    <3> QED
      BY <2>2, <3>2, <3>3, Differences
  <2> QED
    BY <2>1, <2>2
<1>5. ASSUME NEW w \in 0..N_W - 1
      PROVE  \A p \in 0..51 : y(w)[p] = raw[p * N_W + w]
  <2> DEFINE z == [p \in 0..51 |-> raw[p * N_W + w]]
             x == y(w)
             S == {p \in Nat : p <= 51 => x[p] = raw[p * N_W + w]}
  <2>1. F(w, z)
    <3>1. \A p \in 0..51 : p # 0 => p - 1 \in 0..51
      OBVIOUS
    <3>2. \A p \in 0..51 : p # 0 => z[p - 1] = raw[(p - 1) * N_W + w]
      BY <3>1
    <3>3. \A p \in 0..51 : z[p] = IF p = 0 THEN delta(w, p) ELSE Wrap16(z[p - 1] + delta(w, p))
      BY <1>4, <3>2
    <3> QED
      BY <1>3, <3>3
  <2>2. F(w, x)
    <3> HIDE DEF F, z
    <3> QED
      BY <2>1
  <2> HIDE DEF x
  <2>3. \A p \in 0..51 : x[p] = IF p = 0 THEN delta(w, p) ELSE Wrap16(x[p - 1] + delta(w, p))
    <3>1. x = [p \in 0..51 |-> IF p = 0 THEN delta(w, p) ELSE Wrap16(x[p - 1] + delta(w, p))]
      BY <1>3, <2>2, Zenon
    <3> QED
      BY <3>1, Zenon
  <2>4. 0 \in S
    <3>1. 0 \in 0..51
      OBVIOUS
    <3> QED
      BY <3>1, <1>4, <2>3
  <2>5. ASSUME NEW p \in S PROVE p + 1 \in S
    <3> SUFFICES ASSUME p + 1 <= 51 PROVE x[p + 1] = raw[(p + 1) * N_W + w]
      BY <2>5
    <3>1. p \in Nat /\ x[p] = raw[p * N_W + w]
      BY <2>5
    <3>2. p + 1 \in 0..51 /\ p + 1 # 0 /\ (p + 1) - 1 = p
      BY <3>1
    <3> HIDE DEF S
    <3>3. x[p + 1] = Wrap16(x[p] + delta(w, p + 1))
      BY <2>3, <3>2
    <3>4. raw[(p + 1) * N_W + w] = Wrap16(raw[p * N_W + w] + delta(w, p + 1))
      BY <1>4, <3>2
    <3> QED
      BY <3>1, <3>3, <3>4
  <2>6. S \in SUBSET Nat
    OBVIOUS
  <2> HIDE DEF S
  <2>7. \A p \in Nat : p \in S
    BY <2>4, <2>5, <2>6, SetInduction
  <2> QED
    BY <2>7 DEF S, x
<1>6. len = N_PLIES * N_W
  BY NWAssumption DEF N_PLIES
<1>7. ASSUME NEW k \in 0..len - 1
      PROVE  words[k % N_W][k \div N_W] = raw[k]
  <2>1. k \div N_W \in 0..51 /\ (k % N_W) \in 0..N_W - 1 /\ k = (k \div N_W) * N_W + (k % N_W)
    BY <1>6, SlicePlace
  <2>2. words[k % N_W] = y(k % N_W)
    BY <2>1
  <2> HIDE DEF y, words
  <2>3. y(k % N_W)[k \div N_W] = raw[(k \div N_W) * N_W + (k % N_W)]
    BY <1>5, <2>1
  <2> QED
    BY <2>1, <2>2, <2>3
<1>8. raw = [k \in 0..len - 1 |-> raw[k]]
  BY <1>6
<1> HIDE DEF len, words, y
<1>9. decode(b, N_W, N_PLIES) = [k \in 0..len - 1 |-> raw[k]]
  BY <1>1, <1>7
<1> QED
  BY <1>8, <1>9 DEF b

-----------------------------------------------------------------------------
(* What the module has loaded are the words trained. *)

WeightsInv ==
  /\ blob \in {NoBlob, Blob(Slice)}
  /\ weights \in {Unset, Slice}
  /\ Searching => weights = Slice

LEMMA WeightsStep == WeightsInv /\ [Next]_vars => WeightsInv'
<1> SUFFICES ASSUME WeightsInv, [Next]_vars PROVE WeightsInv'
  OBVIOUS
<1>1. ASSUME NEW f \in Files, ExtractWeights(f) PROVE WeightsInv'
  <2>1. blob' = Blob(Slice) /\ weights' = weights /\ calls' = calls
    BY <1>1, ExtractIs DEF ExtractWeights, Blob
  <2> QED
    BY <2>1 DEF WeightsInv, Searching
<1>2. CASE init_weights(blob)
  <2>1. blob = Blob(Slice) /\ blob' = blob /\ ~Searching /\ calls' = calls
    BY <1>2 DEF init_weights, WeightsInv
  <2>2. decode(blob, N_W, N_PLIES) = Slice
    BY <2>1, SliceIs, DecodeEncode
  <2>3. weights' = weights \/ weights' = Slice
    BY <1>2, <2>2 DEF init_weights
  <2> QED
    BY <2>1, <2>3 DEF WeightsInv, Searching
<1>3. CASE init_weights(CutShort)
  <2>1. DOMAIN CutShort # 0..2 * N_W * N_PLIES - 1
    BY BlobDomain DEF CutShort
  <2>2. weights' = weights /\ blob' = blob /\ calls' = calls
    BY <1>3, <2>1 DEF init_weights
  <2> QED
    BY <2>2 DEF WeightsInv, Searching
<1>4. ASSUME NEW r \in Requests, evaluate(r[1], r[2]) PROVE WeightsInv'
  <2>1. weights' = weights /\ blob' = blob /\ ~Searching /\ (weights = Unset => calls' = calls)
    BY <1>4 DEF evaluate
  <2> QED
    BY <2>1 DEF WeightsInv, Searching
<1>5. ASSUME Searching, blob' = blob, weights' = weights PROVE WeightsInv'
  BY <1>5 DEF WeightsInv
<1>6. CASE UNCHANGED vars
  BY <1>6 DEF WeightsInv, vars, Searching
<1>7. CASE \/ ReturnAtOnce \/ Pass \/ ReturnPassed \/ ProbeUpper \/ ProbeLower \/ ReturnProbed
           \/ (GoesOn /\ \E x \in top.todo : SearchMove(x))
           \/ SearchAgain \/ MoveSearched \/ ReturnBest
  <2>1. Searching /\ blob' = blob /\ weights' = weights
    BY <1>7 DEF ReturnAtOnce, Pass, ReturnPassed, ProbeUpper, ProbeLower, Probe, ReturnProbed, SearchMove,
                SearchAgain, MoveSearched, ReturnBest, Return, GoesOn
  <2> QED
    BY <1>5, <2>1
<1> QED
  BY <1>1, <1>2, <1>3, <1>4, <1>6, <1>7 DEF Next

(* Whatever files the tool is given and in whatever byte order, the words  *)
(* the module evaluates with are those trained for plies 2 to 53           *)
(* (extract_weights.rs, weights_transform.rs, weights.rs).                 *)
THEOREM WeightsLoaded == Spec => []WeightsInv
<1>1. Init => WeightsInv
  BY DEF Init, WeightsInv, Searching
<1> QED
  BY <1>1, WeightsStep, PTL DEF Spec

-----------------------------------------------------------------------------
(* The region an index of a table belongs to                               *)

LEMMA RegionTable ==
  /\ Regions[1].group = "c9" /\ Regions[2].group = "c10" /\ Regions[3].group = "s100" /\ Regions[4].group = "s101"
  /\ Regions[5].group = "s8x4" /\ Regions[6].group = "s8x4" /\ Regions[7].group = "s8x4" /\ Regions[8].group = "s8x4"
  /\ Regions[9].group = "s7654" /\ Regions[10].group = "s7654" /\ Regions[11].group = "s7654"
     /\ Regions[12].group = "s7654"
  /\ Regions[5].offset = 0 /\ Regions[6].offset = 6561 /\ Regions[7].offset = 13122 /\ Regions[8].offset = 19683
  /\ Regions[9].offset = 0 /\ Regions[10].offset = 2187 /\ Regions[11].offset = 2916 /\ Regions[12].offset = 3159
  BY DEF Regions

LEMMA StateBounds ==
  ASSUME NEW r \in 1..12, NEW s \in States(r)
  PROVE  /\ s \in Int /\ 0 <= s
         /\ r \in 5..8 => s < 3^8
         /\ r = 9 => s < 3^7
         /\ r = 10 => s < 3^6
         /\ r = 11 => s < 3^5
         /\ r = 12 => s < 3^4
<1> DEFINE n == Regions[r].digits
           p == 3^n
<1>1. s \in 0..p - 1
  BY DEF States
<1>2. /\ r \in 5..8 => n = 8
      /\ r = 9 => n = 7
      /\ r = 10 => n = 6
      /\ r = 11 => n = 5
      /\ r = 12 => n = 4
  <2>1. r \in 5..8 => r = 5 \/ r = 6 \/ r = 7 \/ r = 8
    OBVIOUS
  <2> QED
    BY <2>1, RegionDigits
<1>3. n = 4 \/ n = 5 \/ n = 6 \/ n = 7 \/ n = 8 \/ n = 9 \/ n = 10
  BY RegionTypes
<1> HIDE DEF n
<1>4. /\ r \in 5..8 => p = 3^8
      /\ r = 9 => p = 3^7
      /\ r = 10 => p = 3^6
      /\ r = 11 => p = 3^5
      /\ r = 12 => p = 3^4
  BY <1>2, Zenon
<1>5. p = 3^4 \/ p = 3^5 \/ p = 3^6 \/ p = 3^7 \/ p = 3^8 \/ p = 3^9 \/ p = 3^10
  BY <1>3, Zenon
<1> HIDE DEF p
<1>6. s \in Int /\ 0 <= s /\ s < p
  BY <1>1, <1>5
<1> QED
  BY <1>4, <1>6

LEMMA RegionFound ==
  ASSUME NEW r \in 1..12, NEW s \in States(r), NEW q \in 1..12,
         Regions[q].group = Regions[r].group,
         (Regions[r].offset + s) - Regions[q].offset \in States(q)
  PROVE  q = r
<1> DEFINE u == (Regions[r].offset + s) - Regions[q].offset
<1>1. u \in States(q)
  OBVIOUS
<1>2. /\ s \in Int /\ 0 <= s
      /\ r \in 5..8 => s < 3^8
      /\ r = 9 => s < 3^7
      /\ r = 10 => s < 3^6
      /\ r = 11 => s < 3^5
      /\ r = 12 => s < 3^4
  BY StateBounds
<1> HIDE DEF u
<1>3. /\ u \in Int /\ 0 <= u
      /\ q \in 5..8 => u < 3^8
      /\ q = 9 => u < 3^7
      /\ q = 10 => u < 3^6
      /\ q = 11 => u < 3^5
      /\ q = 12 => u < 3^4
  BY <1>1, StateBounds
<1>4. r = 1 \/ r = 2 \/ r = 3 \/ r = 4 \/ r \in 5..8 \/ r \in 9..12
  OBVIOUS
<1>5. q = 1 \/ q = 2 \/ q = 3 \/ q = 4 \/ q = 5 \/ q = 6 \/ q = 7 \/ q = 8 \/ q = 9 \/ q = 10 \/ q = 11 \/ q = 12
  OBVIOUS
<1>6. CASE r = 1
  BY <1>5, <1>6, RegionTable
<1>7. CASE r = 2
  BY <1>5, <1>7, RegionTable
<1>8. CASE r = 3
  BY <1>5, <1>8, RegionTable
<1>9. CASE r = 4
  BY <1>5, <1>9, RegionTable
<1>10. CASE r \in 5..8
  <2>1. r = 5 \/ r = 6 \/ r = 7 \/ r = 8
    BY <1>10
  <2>2. Regions[r].group = "s8x4" /\ Regions[r].offset = 6561 * (r - 5)
    BY <2>1, RegionTable
  <2>3. q = 5 \/ q = 6 \/ q = 7 \/ q = 8
    BY <1>5, <2>2, RegionTable
  <2>4. Regions[q].offset = 6561 * (q - 5)
    BY <2>3, RegionTable
  <2>5. u = (6561 * (r - 5) + s) - 6561 * (q - 5)
    BY <2>2, <2>4 DEF u
  <2>6. s < 6561 /\ u < 6561
    BY <1>2, <1>3, <1>10, <2>3
  <2> QED
    BY <1>2, <1>3, <2>5, <2>6
<1>11. CASE r \in 9..12
  <2>1. r = 9 \/ r = 10 \/ r = 11 \/ r = 12
    BY <1>11
  <2>2. Regions[r].group = "s7654"
    BY <2>1, RegionTable
  <2>3. q = 9 \/ q = 10 \/ q = 11 \/ q = 12
    BY <1>5, <2>2, RegionTable
  <2> DEFINE a == Regions[r].offset
             c == Regions[q].offset
  <2>4. \/ r = 9 /\ a = 0 /\ s < 2187
        \/ r = 10 /\ a = 2187 /\ s < 729
        \/ r = 11 /\ a = 2916 /\ s < 243
        \/ r = 12 /\ a = 3159 /\ s < 81
    BY <1>2, <2>1, RegionTable
  <2>5. \/ q = 9 /\ c = 0 /\ u < 2187
        \/ q = 10 /\ c = 2187 /\ u < 729
        \/ q = 11 /\ c = 2916 /\ u < 243
        \/ q = 12 /\ c = 3159 /\ u < 81
    BY <1>3, <2>3, RegionTable
  <2>6. u = (a + s) - c
    BY DEF u
  <2> HIDE DEF a, c
  <2> QED
    BY <1>2, <1>3, <2>4, <2>5, <2>6
<1> QED
  BY <1>4, <1>6, <1>7, <1>8, <1>9, <1>10, <1>11

-----------------------------------------------------------------------------
(* The weight of a pattern is the word trained for it.                     *)

(* What a board shows on the squares of a pattern *)
Shows(i, b) == [j \in 1..Regions[FEATURES[i].region].digits |-> Colour(b, FEATURES[i].squares[j])]

LEMMA ShowsIs ==
  ASSUME NEW i \in Features, NEW b
  PROVE  LET r == FEATURES[i].region
         IN  /\ r \in 1..12 /\ Shows(i, b) \in Colours(r)
             /\ \A j \in 1..Regions[r].digits : FEATURES[i].squares[j] \in Squares
             /\ compute_features(b)[i] = Regions[r].offset + Horner(Shows(i, b))
             /\ Horner(Shows(i, b)) \in States(r) /\ Horner(Shows(i, b)) \in Nat
             /\ Regions[r].offset \in Nat
             /\ compute_features(b)[i] - Regions[r].offset = Horner(Shows(i, b))
<1> DEFINE r == FEATURES[i].region
           q == FEATURES[i].squares
           n == Regions[r].digits
<1>1. r \in 1..12 /\ q \in Seq(Squares) /\ Len(q) = n
  BY FeatureTypes DEF Pattern
<1>2. DOMAIN q = 1..n /\ \A j \in 1..n : q[j] \in Squares
  BY <1>1, LenProperties, ElementOfSeq
<1>3. \A s : Colour(b, s) \in 0..2
  BY DEF Colour
<1>4. Shows(i, b) \in Colours(r)
  BY <1>3 DEF Shows, Colours
<1>5. PatternNumber(i, b) = Horner(Shows(i, b))
  BY <1>2 DEF PatternNumber, Shows
<1>6. compute_features(b)[i] = Regions[r].offset + Horner(Shows(i, b))
  BY <1>5, ValuesAre
<1>7. Horner(Shows(i, b)) \in States(r) /\ Horner(Shows(i, b)) \in Nat
  BY <1>1, <1>4, NumberIn
<1>8. Regions[r].offset \in Nat
  BY <1>1, RegionTypes
<1>9. compute_features(b)[i] - Regions[r].offset = Horner(Shows(i, b))
  BY <1>6, <1>7, <1>8
<1> QED
  BY <1>1, <1>2, <1>4, <1>6, <1>7, <1>8, <1>9

LEMMA WordIn ==
  ASSUME NEW r \in 1..12, NEW k \in Nat
  PROVE  Word(r, k) \in 0..N_W - 1 /\ S0 \in 0..N_W - 1
<1>1. N_W \in Nat /\ N_W > 1
  BY NWAssumption
<1>2. EVAL_PACKED_OFS[r] \in Nat
  BY DEF EVAL_PACKED_OFS
<1> DEFINE a == EVAL_PACKED_OFS[r] + k
<1>3. a \in Nat
  BY <1>2
<1> HIDE DEF a
<1>4. (a % (N_W - 1)) \in 0..N_W - 2
  BY <1>1, <1>3
<1>5. Word(r, k) = a % (N_W - 1)
  BY DEF Word, a
<1> QED
  BY <1>1, <1>4, <1>5 DEF S0

(* The opponent's view of the other player's view is one's own. *)
LEMMA ViewTwice ==
  ASSUME NEW b, Disjoint(b), NEW i \in Features
  PROVE  opponent_feature(Regions[FEATURES[i].region].digits, Horner(Shows(i, Passed(b)))) = Horner(Shows(i, b))
<1> DEFINE r == FEATURES[i].region
           n == Regions[r].digits
           d == Shows(i, Passed(b))
<1>1. r \in 1..12 /\ d \in Colours(r)
  BY ShowsIs
<1>2. n \in 1..10 /\ d \in [1..n -> 0..2]
  <2>1. n \in 4..10
    BY <1>1, RegionTypes
  <2> QED
    BY <1>1, <2>1 DEF Colours
<1>3. opponent_feature(n, Horner(d)) = Horner([j \in 1..n |-> Swapped(d[j])])
  <2> HIDE DEF n, d
  <2> QED
    BY <1>2, OpponentIs
<1>4. \A s : Swapped(Colour(Passed(b), s)) = Colour(b, s)
  BY DEF Disjoint, Passed, Colour, Swapped
<1>5. [j \in 1..n |-> Swapped(d[j])] = Shows(i, b)
  BY <1>4 DEF Shows
<1> QED
  BY <1>3, <1>5

LEMMA WeightIs ==
  ASSUME NEW b, Disjoint(b), NEW i \in Features, NEW p \in 0..51, p % 2 = n_empties(b) % 2, n_empties(b) \in Nat
  PROVE  /\ UnpackedWeight(Slice, p, Regions[FEATURES[i].region].group, ValuesOf(b)[i]) = Words[p + 2][MoverWord(i, b)]
         /\ MoverWord(i, b) = Word(FEATURES[i].region, Packed(FEATURES[i].region, Horner(Shows(i, b))))
         /\ Words[p + 2][MoverWord(i, b)] \in Int
<1> DEFINE r == FEATURES[i].region
           v == Viewed(b)
           l == Horner(Shows(i, v))
           k == Packed(r, Horner(Shows(i, b)))
           x == ValuesOf(b)[i]
           g == Regions[r].group
           Fits(q) == Regions[q].group = g /\ x - Regions[q].offset \in States(q)
<1>1. r \in 1..12 /\ x = Regions[r].offset + l /\ x - Regions[r].offset = l /\ l \in States(r)
      /\ Regions[r].offset \in Nat
  BY ShowsIs DEF ValuesOf, init_features, Viewed
<1>2. (CHOOSE q \in DOMAIN Regions : Fits(q)) = r
  <2>1. DOMAIN Regions = 1..12
    BY RegionTypes
  <2>2. Fits(r)
    BY <1>1
  <2>3. \A q \in 1..12 : Fits(q) => q = r
    <3> SUFFICES ASSUME NEW q \in 1..12, Fits(q) PROVE q = r
      OBVIOUS
    <3> HIDE DEF r, l, x
    <3>1. (Regions[r].offset + l) - Regions[q].offset \in States(q)
      BY <1>1
    <3> QED
      BY <1>1, <3>1, RegionFound
  <2> HIDE DEF Fits
  <2> QED
    BY <1>1, <2>1, <2>2, <2>3
<1>3. symmetry_packing(r, p % 2, l) = k
  <2>1. n_empties(b) % 2 \in {0, 1}
    OBVIOUS
  <2>2. CASE n_empties(b) % 2 = 1
    BY <2>2, ViewTwice DEF Viewed, symmetry_packing
  <2>3. CASE n_empties(b) % 2 = 0
    BY <2>3 DEF Viewed, symmetry_packing
  <2> QED
    BY <2>1, <2>2, <2>3
<1>4. UnpackedWeight(Slice, p, g, x) = Slice[p * N_W + Word(r, k)]
  <2>1. UnpackedWeight(Slice, p, g, x)
          = LET q == CHOOSE q \in DOMAIN Regions : Fits(q)
            IN  Slice[p * N_W + Word(q, symmetry_packing(q, p % 2, x - Regions[q].offset))]
    BY DEF UnpackedWeight
  <2> HIDE DEF Fits, r, x, k, l, g
  <2> QED
    BY <1>1, <1>2, <1>3, <2>1
<1>5. k \in Nat
  BY ShowsIs, PackedAlike
<1>6. Word(r, k) \in 0..N_W - 1
  <2> HIDE DEF r, k
  <2> QED
    BY <1>1, <1>5, WordIn
<1>7. MoverWord(i, b) = Word(r, k)
  BY ShowsIs DEF MoverWord
<1> HIDE DEF r, k, x, g
<1>8. Slice[p * N_W + Word(r, k)] = Words[FIRST_PLY + p][Word(r, k)] /\ Slice[p * N_W + Word(r, k)] \in Int16
  BY <1>6, SliceIs, PlaceOf
<1>9. FIRST_PLY + p = p + 2
  BY DEF FIRST_PLY
<1>10. Words[p + 2][MoverWord(i, b)] \in Int
  BY <1>7, <1>8, <1>9 DEF Int16
<1> QED
  BY <1>4, <1>7, <1>8, <1>9, <1>10 DEF r, k, x, g

-----------------------------------------------------------------------------
(* A position's score is the one trained.                                  *)

LEMMA PlyIs ==
  ASSUME NEW n \in 0..64
  PROVE  /\ TableOfPly(60 - n) \in 0..51 /\ TableOfPly(60 - n) % 2 = n % 2
         /\ TrainedPly(n) = TableOfPly(60 - n) + 2
<1> DEFINE ply == 60 - n
           e == ply % 2
<1>1. ply \in Int /\ ply <= 60 /\ ply >= -4 /\ e = n % 2 /\ (e = 0 \/ e = 1)
  OBVIOUS
<1>2. e = ply % 2
  OBVIOUS
<1> HIDE DEF ply, e
<1>3. CASE ply >= 54
  <2>1. TableOfPly(ply) = 50 + e
    BY <1>1, <1>2, <1>3 DEF TableOfPly, EVAL_N_PLY
  <2>2. TrainedPly(n) = 52 + e
    BY <1>1, <1>2, <1>3 DEF TrainedPly, ply
  <2> QED
    BY <1>1, <2>1, <2>2 DEF ply
<1>4. CASE ply < 2
  <2>1. TableOfPly(ply) = e
    BY <1>1, <1>2, <1>4 DEF TableOfPly, EVAL_N_PLY
  <2>2. TrainedPly(n) = 2 + e
    BY <1>1, <1>2, <1>4 DEF TrainedPly, ply
  <2> QED
    BY <1>1, <2>1, <2>2 DEF ply
<1>5. CASE ply >= 2 /\ ply < 54
  <2>1. TableOfPly(ply) = ply - 2
    BY <1>1, <1>5 DEF TableOfPly, EVAL_N_PLY
  <2>2. TrainedPly(n) = ply
    BY <1>1, <1>5 DEF TrainedPly, ply
  <2>3. (ply - 2) % 2 = ply % 2
    BY <1>1
  <2> QED
    BY <1>1, <1>2, <1>5, <2>1, <2>2, <2>3 DEF ply
<1> QED
  BY <1>1, <1>3, <1>4, <1>5

LEMMA TotalUnique ==
  ASSUME NEW n \in Nat, NEW c, NEW t, NEW x, IsTotal(x, n, c, t), NEW y, IsTotal(y, n, c, t)
  PROVE  x[n] = y[n]
<1> DEFINE S == {i \in Nat : i <= n => x[i] = y[i]}
<1>1. x[0] = y[0] /\ \A i \in 1..n : x[i] = x[i - 1] + t[i] /\ y[i] = y[i - 1] + t[i]
  BY DEF IsTotal
<1>2. 0 \in S
  BY <1>1
<1>3. \A i \in S : i + 1 \in S
  <2> TAKE i \in S
  <2> SUFFICES ASSUME i + 1 <= n PROVE x[i + 1] = y[i + 1]
    OBVIOUS
  <2>1. i + 1 \in 1..n /\ (i + 1) - 1 = i /\ x[i] = y[i]
    OBVIOUS
  <2> QED
    BY <1>1, <2>1
<1> HIDE DEF S
<1>4. n \in S
  BY <1>2, <1>3, SetInduction DEF S
<1> QED
  BY <1>4 DEF S

(* The words of a board's patterns, and their sum *)
WordsFor(b) == [i \in Features |-> Words[TrainedPly(n_empties(b))][MoverWord(i, b)]]
Constant(b) == Words[TrainedPly(n_empties(b))][S0]

LEMMA WordsForTypes ==
  ASSUME NEW b, Disjoint(b)
  PROVE  /\ WordsFor(b) \in [1..Len(FEATURES) -> Int] /\ Constant(b) \in Int
         /\ Features = 1..Len(FEATURES) /\ Len(FEATURES) \in Nat
         /\ {0} \cup Features = 0..Len(FEATURES)
<1> DEFINE p == TableOfPly(60 - n_empties(b))
<1>1. n_empties(b) \in 0..64
  BY EmptiesAfter
<1>2. p \in 0..51 /\ p % 2 = n_empties(b) % 2 /\ TrainedPly(n_empties(b)) = p + 2
  BY <1>1, PlyIs
<1> HIDE DEF p
<1>3. \A i \in Features : Words[p + 2][MoverWord(i, b)] \in Int
  <2>1. n_empties(b) \in Nat
    BY <1>1
  <2> QED
    BY <1>2, <2>1, WeightIs
<1>4. Features = 1..Len(FEATURES) /\ Len(FEATURES) \in Nat
  BY FeatureTypes
<1>5. {0} \cup Features = 0..Len(FEATURES)
  BY <1>4
<1>6. S0 \in 0..N_W - 1
  <2>1. 1 \in 1..12 /\ 0 \in Nat
    OBVIOUS
  <2> QED
    BY <2>1, WordIn
<1>7. Words[p + 2][S0] \in Int
  <2>1. p + 2 \in 0..EVAL_N_PLY - 1
    BY <1>2 DEF EVAL_N_PLY
  <2> QED
    BY <1>6, <2>1, EvaluatorAssumption
<1> QED
  BY <1>2, <1>3, <1>4, <1>5, <1>7 DEF WordsFor, Constant

LEMMA TrainedTotal ==
  ASSUME NEW b, Disjoint(b)
  PROVE  \E x : IsTotal(x, Len(FEATURES), Constant(b), WordsFor(b)) /\ TrainedScore(b) = Discounted(x[Len(FEATURES)])
<1> DEFINE n == Len(FEATURES)
           c == Constant(b)
           t == WordsFor(b)
           w == Words[TrainedPly(n_empties(b))]
           F(x) == x = [i \in {0} \cup Features |-> IF i = 0 THEN w[S0] ELSE x[i - 1] + w[MoverWord(i, b)]]
           y == CHOOSE x : F(x)
<1>1. TrainedScore(b) = Discounted(y[n])
  BY DEF TrainedScore
<1>2. t \in [1..n -> Int] /\ c \in Int /\ n \in Nat /\ {0} \cup Features = 0..n
  BY WordsForTypes
<1>3. c = w[S0] /\ \A i \in 0..n : i # 0 => t[i] = w[MoverWord(i, b)]
  BY FeatureTypes DEF WordsFor, Constant
<1> HIDE DEF n, c, t, w
<1>4. \A x : F(x) <=> x = [i \in 0..n |-> IF i = 0 THEN c ELSE x[i - 1] + t[i]]
  BY <1>2, <1>3
<1> HIDE DEF F
<1>5. \E x : F(x)
  <2>1. PICK x : IsTotal(x, n, c, t) /\ x = [m \in 0..n |-> IF m = 0 THEN c ELSE x[m - 1] + t[m]]
    BY <1>2, TotalExists
  <2> QED
    BY <1>4, <2>1
<1>6. F(y)
  BY <1>5
<1> HIDE DEF y
<1>7. IsTotal(y, n, c, t)
  BY <1>2, <1>4, <1>6, TotalIs
<1> QED
  BY <1>1, <1>7 DEF n, c, t

LEMMA ScoredAsTrained ==
  ASSUME NEW b, Disjoint(b)
  PROVE  eval_from_features(ValuesOf(b), n_empties(b), Slice) = TrainedScore(b)
<1> DEFINE n == Len(FEATURES)
           c == Constant(b)
           t == WordsFor(b)
           p == TableOfPly(60 - n_empties(b))
           u(i) == UnpackedWeight(Slice, p, Regions[FEATURES[i].region].group, ValuesOf(b)[i])
           F(x) == x = [i \in {0} \cup Features |-> IF i = 0 THEN Slice[p * N_W + S0] ELSE x[i - 1] + u(i)]
           y == CHOOSE x : F(x)
<1>1. eval_from_features(ValuesOf(b), n_empties(b), Slice) = Discounted(y[n])
  BY DEF eval_from_features, accumulate_eval
<1>2. t \in [1..n -> Int] /\ c \in Int /\ n \in Nat /\ {0} \cup Features = 0..n /\ Features = 1..n
  BY WordsForTypes
<1>3. p \in 0..51 /\ p % 2 = n_empties(b) % 2 /\ TrainedPly(n_empties(b)) = p + 2 /\ n_empties(b) \in Nat
  <2>1. n_empties(b) \in 0..64
    BY EmptiesAfter, Zenon
  <2>2. n_empties(b) \in Nat
    BY <2>1
  <2> QED
    BY <2>1, <2>2, PlyIs, Zenon
<1>4. c = Slice[p * N_W + S0]
  <2>1. S0 \in 0..N_W - 1
    <3>1. 1 \in 1..12 /\ 0 \in Nat
      OBVIOUS
    <3> QED
      BY <3>1, WordIn
  <2>2. FIRST_PLY + p = p + 2
    BY <1>3 DEF FIRST_PLY
  <2> HIDE DEF p
  <2>3. Slice[p * N_W + S0] = Words[FIRST_PLY + p][S0]
    BY <1>3, <2>1, SliceIs, Zenon
  <2> QED
    BY <1>3, <2>2, <2>3 DEF Constant
<1>5. \A i \in 0..n : i # 0 => t[i] = u(i)
  <2> HIDE DEF p
  <2>1. \A i \in Features : u(i) = Words[p + 2][MoverWord(i, b)]
    BY <1>3, WeightIs, Zenon
  <2>2. \A i \in 0..n : i # 0 => i \in Features
    BY <1>2
  <2>3. \A i \in Features : t[i] = Words[TrainedPly(n_empties(b))][MoverWord(i, b)]
    BY Zenon DEF WordsFor
  <2>4. TrainedPly(n_empties(b)) = p + 2
    BY <1>3
  <2>5. \A i \in Features : t[i] = u(i)
    <3> HIDE DEF t, u
    <3> QED
      BY <2>1, <2>3, <2>4, Zenon
  <2> HIDE DEF t, u
  <2> QED
    BY <2>2, <2>5, Zenon
<1> HIDE DEF n, c, t, u, p
<1>6. \A x : F(x) <=> x = [i \in 0..n |-> IF i = 0 THEN c ELSE x[i - 1] + t[i]]
  <2> TAKE x
  <2>1. [i \in {0} \cup Features |-> IF i = 0 THEN Slice[p * N_W + S0] ELSE x[i - 1] + u(i)]
          = [i \in 0..n |-> IF i = 0 THEN c ELSE x[i - 1] + t[i]]
    <3>1. {0} \cup Features = 0..n
      BY <1>2
    <3> HIDE DEF F
    <3> QED
      BY <1>4, <1>5, <3>1
  <2> QED
    BY <2>1
<1> HIDE DEF F
<1>7. PICK x : IsTotal(x, n, c, t) /\ TrainedScore(b) = Discounted(x[n])
  BY TrainedTotal DEF n, c, t
<1>8. \E z : F(z)
  <2>1. PICK z : IsTotal(z, n, c, t) /\ z = [m \in 0..n |-> IF m = 0 THEN c ELSE z[m - 1] + t[m]]
    BY <1>2, TotalExists
  <2> QED
    BY <1>6, <2>1
<1>9. F(y)
  BY <1>8
<1> HIDE DEF y
<1>10. IsTotal(y, n, c, t)
  BY <1>2, <1>6, <1>9, TotalIs
<1>11. x[n] = y[n]
  BY <1>2, <1>7, <1>10, TotalUnique
<1> QED
  BY <1>1, <1>7, <1>11

-----------------------------------------------------------------------------
(* A symmetry of the board changes no sum: it carries the patterns of each *)
(* region to each other.                                                   *)

(* A sum, block of patterns by block of patterns. *)
SumsByBlock(x, t) ==
  /\ x[4] = x[0] + (t[1] + t[2] + t[3] + t[4])
  /\ x[8] = x[4] + (t[5] + t[6] + t[7] + t[8])
  /\ x[12] = x[8] + (t[9] + t[10] + t[11] + t[12])
  /\ x[16] = x[12] + (t[13] + t[14] + t[15] + t[16])
  /\ x[20] = x[16] + (t[17] + t[18] + t[19] + t[20])
  /\ x[24] = x[20] + (t[21] + t[22] + t[23] + t[24])
  /\ x[28] = x[24] + (t[25] + t[26] + t[27] + t[28])
  /\ x[30] = x[28] + (t[29] + t[30])
  /\ x[34] = x[30] + (t[31] + t[32] + t[33] + t[34])
  /\ x[38] = x[34] + (t[35] + t[36] + t[37] + t[38])
  /\ x[42] = x[38] + (t[39] + t[40] + t[41] + t[42])
  /\ x[46] = x[42] + (t[43] + t[44] + t[45] + t[46])

LEMMA BlockSums ==
  ASSUME NEW c \in Int, NEW t \in [1..46 -> Int], NEW x, IsTotal(x, 46, c, t)
  PROVE  SumsByBlock(x, t)
<1>1. \A i \in 1..46 : x[i] = x[i - 1] + t[i] /\ t[i] \in Int
  BY DEF IsTotal
<1>2. \A i \in 0..46 : x[i] \in Int
  BY DEF IsTotal
<1>3. x[4] = x[0] + (t[1] + t[2] + t[3] + t[4])
  <2>1. /\ 1 \in 1..46 /\ 1 - 1 = 0
        /\ 2 \in 1..46 /\ 2 - 1 = 1
        /\ 3 \in 1..46 /\ 3 - 1 = 2
        /\ 4 \in 1..46 /\ 4 - 1 = 3
    OBVIOUS
  <2>2. /\ x[1] = x[0] + t[1] /\ t[1] \in Int
        /\ x[2] = x[1] + t[2] /\ t[2] \in Int
        /\ x[3] = x[2] + t[3] /\ t[3] \in Int
        /\ x[4] = x[3] + t[4] /\ t[4] \in Int
    BY <1>1, <2>1
  <2>3. x[0] \in Int
    BY <1>2
  <2> QED
    BY <2>2, <2>3
<1>4. x[8] = x[4] + (t[5] + t[6] + t[7] + t[8])
  <2>1. /\ 5 \in 1..46 /\ 5 - 1 = 4
        /\ 6 \in 1..46 /\ 6 - 1 = 5
        /\ 7 \in 1..46 /\ 7 - 1 = 6
        /\ 8 \in 1..46 /\ 8 - 1 = 7
    OBVIOUS
  <2>2. /\ x[5] = x[4] + t[5] /\ t[5] \in Int
        /\ x[6] = x[5] + t[6] /\ t[6] \in Int
        /\ x[7] = x[6] + t[7] /\ t[7] \in Int
        /\ x[8] = x[7] + t[8] /\ t[8] \in Int
    BY <1>1, <2>1
  <2>3. x[4] \in Int
    BY <1>2
  <2> QED
    BY <2>2, <2>3
<1>5. x[12] = x[8] + (t[9] + t[10] + t[11] + t[12])
  <2>1. /\ 9 \in 1..46 /\ 9 - 1 = 8
        /\ 10 \in 1..46 /\ 10 - 1 = 9
        /\ 11 \in 1..46 /\ 11 - 1 = 10
        /\ 12 \in 1..46 /\ 12 - 1 = 11
    OBVIOUS
  <2>2. /\ x[9] = x[8] + t[9] /\ t[9] \in Int
        /\ x[10] = x[9] + t[10] /\ t[10] \in Int
        /\ x[11] = x[10] + t[11] /\ t[11] \in Int
        /\ x[12] = x[11] + t[12] /\ t[12] \in Int
    BY <1>1, <2>1
  <2>3. x[8] \in Int
    BY <1>2
  <2> QED
    BY <2>2, <2>3
<1>6. x[16] = x[12] + (t[13] + t[14] + t[15] + t[16])
  <2>1. /\ 13 \in 1..46 /\ 13 - 1 = 12
        /\ 14 \in 1..46 /\ 14 - 1 = 13
        /\ 15 \in 1..46 /\ 15 - 1 = 14
        /\ 16 \in 1..46 /\ 16 - 1 = 15
    OBVIOUS
  <2>2. /\ x[13] = x[12] + t[13] /\ t[13] \in Int
        /\ x[14] = x[13] + t[14] /\ t[14] \in Int
        /\ x[15] = x[14] + t[15] /\ t[15] \in Int
        /\ x[16] = x[15] + t[16] /\ t[16] \in Int
    BY <1>1, <2>1
  <2>3. x[12] \in Int
    BY <1>2
  <2> QED
    BY <2>2, <2>3
<1>7. x[20] = x[16] + (t[17] + t[18] + t[19] + t[20])
  <2>1. /\ 17 \in 1..46 /\ 17 - 1 = 16
        /\ 18 \in 1..46 /\ 18 - 1 = 17
        /\ 19 \in 1..46 /\ 19 - 1 = 18
        /\ 20 \in 1..46 /\ 20 - 1 = 19
    OBVIOUS
  <2>2. /\ x[17] = x[16] + t[17] /\ t[17] \in Int
        /\ x[18] = x[17] + t[18] /\ t[18] \in Int
        /\ x[19] = x[18] + t[19] /\ t[19] \in Int
        /\ x[20] = x[19] + t[20] /\ t[20] \in Int
    BY <1>1, <2>1
  <2>3. x[16] \in Int
    BY <1>2
  <2> QED
    BY <2>2, <2>3
<1>8. x[24] = x[20] + (t[21] + t[22] + t[23] + t[24])
  <2>1. /\ 21 \in 1..46 /\ 21 - 1 = 20
        /\ 22 \in 1..46 /\ 22 - 1 = 21
        /\ 23 \in 1..46 /\ 23 - 1 = 22
        /\ 24 \in 1..46 /\ 24 - 1 = 23
    OBVIOUS
  <2>2. /\ x[21] = x[20] + t[21] /\ t[21] \in Int
        /\ x[22] = x[21] + t[22] /\ t[22] \in Int
        /\ x[23] = x[22] + t[23] /\ t[23] \in Int
        /\ x[24] = x[23] + t[24] /\ t[24] \in Int
    BY <1>1, <2>1
  <2>3. x[20] \in Int
    BY <1>2
  <2> QED
    BY <2>2, <2>3
<1>9. x[28] = x[24] + (t[25] + t[26] + t[27] + t[28])
  <2>1. /\ 25 \in 1..46 /\ 25 - 1 = 24
        /\ 26 \in 1..46 /\ 26 - 1 = 25
        /\ 27 \in 1..46 /\ 27 - 1 = 26
        /\ 28 \in 1..46 /\ 28 - 1 = 27
    OBVIOUS
  <2>2. /\ x[25] = x[24] + t[25] /\ t[25] \in Int
        /\ x[26] = x[25] + t[26] /\ t[26] \in Int
        /\ x[27] = x[26] + t[27] /\ t[27] \in Int
        /\ x[28] = x[27] + t[28] /\ t[28] \in Int
    BY <1>1, <2>1
  <2>3. x[24] \in Int
    BY <1>2
  <2> QED
    BY <2>2, <2>3
<1>10. x[30] = x[28] + (t[29] + t[30])
  <2>1. /\ 29 \in 1..46 /\ 29 - 1 = 28
        /\ 30 \in 1..46 /\ 30 - 1 = 29
    OBVIOUS
  <2>2. /\ x[29] = x[28] + t[29] /\ t[29] \in Int
        /\ x[30] = x[29] + t[30] /\ t[30] \in Int
    BY <1>1, <2>1
  <2>3. x[28] \in Int
    BY <1>2
  <2> QED
    BY <2>2, <2>3
<1>11. x[34] = x[30] + (t[31] + t[32] + t[33] + t[34])
  <2>1. /\ 31 \in 1..46 /\ 31 - 1 = 30
        /\ 32 \in 1..46 /\ 32 - 1 = 31
        /\ 33 \in 1..46 /\ 33 - 1 = 32
        /\ 34 \in 1..46 /\ 34 - 1 = 33
    OBVIOUS
  <2>2. /\ x[31] = x[30] + t[31] /\ t[31] \in Int
        /\ x[32] = x[31] + t[32] /\ t[32] \in Int
        /\ x[33] = x[32] + t[33] /\ t[33] \in Int
        /\ x[34] = x[33] + t[34] /\ t[34] \in Int
    BY <1>1, <2>1
  <2>3. x[30] \in Int
    BY <1>2
  <2> QED
    BY <2>2, <2>3
<1>12. x[38] = x[34] + (t[35] + t[36] + t[37] + t[38])
  <2>1. /\ 35 \in 1..46 /\ 35 - 1 = 34
        /\ 36 \in 1..46 /\ 36 - 1 = 35
        /\ 37 \in 1..46 /\ 37 - 1 = 36
        /\ 38 \in 1..46 /\ 38 - 1 = 37
    OBVIOUS
  <2>2. /\ x[35] = x[34] + t[35] /\ t[35] \in Int
        /\ x[36] = x[35] + t[36] /\ t[36] \in Int
        /\ x[37] = x[36] + t[37] /\ t[37] \in Int
        /\ x[38] = x[37] + t[38] /\ t[38] \in Int
    BY <1>1, <2>1
  <2>3. x[34] \in Int
    BY <1>2
  <2> QED
    BY <2>2, <2>3
<1>13. x[42] = x[38] + (t[39] + t[40] + t[41] + t[42])
  <2>1. /\ 39 \in 1..46 /\ 39 - 1 = 38
        /\ 40 \in 1..46 /\ 40 - 1 = 39
        /\ 41 \in 1..46 /\ 41 - 1 = 40
        /\ 42 \in 1..46 /\ 42 - 1 = 41
    OBVIOUS
  <2>2. /\ x[39] = x[38] + t[39] /\ t[39] \in Int
        /\ x[40] = x[39] + t[40] /\ t[40] \in Int
        /\ x[41] = x[40] + t[41] /\ t[41] \in Int
        /\ x[42] = x[41] + t[42] /\ t[42] \in Int
    BY <1>1, <2>1
  <2>3. x[38] \in Int
    BY <1>2
  <2> QED
    BY <2>2, <2>3
<1>14. x[46] = x[42] + (t[43] + t[44] + t[45] + t[46])
  <2>1. /\ 43 \in 1..46 /\ 43 - 1 = 42
        /\ 44 \in 1..46 /\ 44 - 1 = 43
        /\ 45 \in 1..46 /\ 45 - 1 = 44
        /\ 46 \in 1..46 /\ 46 - 1 = 45
    OBVIOUS
  <2>2. /\ x[43] = x[42] + t[43] /\ t[43] \in Int
        /\ x[44] = x[43] + t[44] /\ t[44] \in Int
        /\ x[45] = x[44] + t[45] /\ t[45] \in Int
        /\ x[46] = x[45] + t[46] /\ t[46] \in Int
    BY <1>1, <2>1
  <2>3. x[42] \in Int
    BY <1>2
  <2> QED
    BY <2>2, <2>3
<1> QED
  BY <1>3, <1>4, <1>5, <1>6, <1>7, <1>8, <1>9, <1>10, <1>11, <1>12, <1>13, <1>14 DEF SumsByBlock

(* The words of u are those of t, carried by g. *)
SameWords(g, t, u) == \A i, j \in 1..46 : Carries(g, i, j) => u[i] = t[j]

LEMMA TotalsAlike ==
  ASSUME NEW g, g = HorizontalMap \/ g = DiagonalMap,
         NEW c \in Int, NEW t \in [1..46 -> Int], NEW u \in [1..46 -> Int], NEW x, IsTotal(x, 46, c, t),
         NEW y, IsTotal(y, 46, c, u), SameWords(g, t, u)
  PROVE  x[46] = y[46]
<1>1. x[0] = y[0]
  BY DEF IsTotal
<1>2. \A i \in 1..46 : t[i] \in Int /\ u[i] \in Int
  OBVIOUS
<1>3. SumsByBlock(x, t) /\ SumsByBlock(y, u)
  <2>1. SumsByBlock(x, t)
    BY BlockSums, Zenon
  <2>2. SumsByBlock(y, u)
    BY BlockSums, Zenon
  <2> QED
    BY <2>1, <2>2
<1> DEFINE W == 1..46
<1>w. \A i, j \in W : Carries(g, i, j) => u[i] = t[j]
  BY Zenon DEF SameWords
<1> HIDE DEF W
<1>4. x[4] = y[4]
  <2>0. 1 \in W /\ 2 \in W /\ 3 \in W /\ 4 \in W
    BY DEF W
  <2>s. /\ x[4] = x[0] + (t[1] + t[2] + t[3] + t[4])
        /\ y[4] = y[0] + (u[1] + u[2] + u[3] + u[4])
    BY <1>3, Zenon DEF SumsByBlock
  <2>1. CASE g = HorizontalMap
    <3>1. u[1] = t[2] /\ u[2] = t[1] /\ u[3] = t[4] /\ u[4] = t[3]
      BY <1>w, <2>0, <2>1, CarriedBlock1
    <3>2. (u[1] + u[2] + u[3] + u[4]) = (t[1] + t[2] + t[3] + t[4])
      BY <1>2, <3>1
    <3> QED
      BY <1>1, <2>s, <3>2, Zenon
  <2>2. CASE g = DiagonalMap
    <3>1. u[1] = t[1] /\ u[2] = t[3] /\ u[3] = t[2] /\ u[4] = t[4]
      BY <1>w, <2>0, <2>2, CarriedBlock1
    <3>2. (u[1] + u[2] + u[3] + u[4]) = (t[1] + t[2] + t[3] + t[4])
      BY <1>2, <3>1
    <3> QED
      BY <1>1, <2>s, <3>2, Zenon
  <2> QED
    BY <2>1, <2>2
<1>5. x[8] = y[8]
  <2>0. 5 \in W /\ 6 \in W /\ 7 \in W /\ 8 \in W
    BY DEF W
  <2>s. /\ x[8] = x[4] + (t[5] + t[6] + t[7] + t[8])
        /\ y[8] = y[4] + (u[5] + u[6] + u[7] + u[8])
    BY <1>3, Zenon DEF SumsByBlock
  <2>1. CASE g = HorizontalMap
    <3>1. u[5] = t[6] /\ u[6] = t[5] /\ u[7] = t[8] /\ u[8] = t[7]
      BY <1>w, <2>0, <2>1, CarriedBlock2
    <3>2. (u[5] + u[6] + u[7] + u[8]) = (t[5] + t[6] + t[7] + t[8])
      BY <1>2, <3>1
    <3> QED
      BY <1>4, <2>s, <3>2, Zenon
  <2>2. CASE g = DiagonalMap
    <3>1. u[5] = t[5] /\ u[6] = t[7] /\ u[7] = t[6] /\ u[8] = t[8]
      BY <1>w, <2>0, <2>2, CarriedBlock2
    <3>2. (u[5] + u[6] + u[7] + u[8]) = (t[5] + t[6] + t[7] + t[8])
      BY <1>2, <3>1
    <3> QED
      BY <1>4, <2>s, <3>2, Zenon
  <2> QED
    BY <2>1, <2>2
<1>6. x[12] = y[12]
  <2>0. 9 \in W /\ 10 \in W /\ 11 \in W /\ 12 \in W
    BY DEF W
  <2>s. /\ x[12] = x[8] + (t[9] + t[10] + t[11] + t[12])
        /\ y[12] = y[8] + (u[9] + u[10] + u[11] + u[12])
    BY <1>3, Zenon DEF SumsByBlock
  <2>1. CASE g = HorizontalMap
    <3>1. u[9] = t[9] /\ u[10] = t[10] /\ u[11] = t[12] /\ u[12] = t[11]
      BY <1>w, <2>0, <2>1, CarriedBlock3
    <3>2. (u[9] + u[10] + u[11] + u[12]) = (t[9] + t[10] + t[11] + t[12])
      BY <1>2, <3>1
    <3> QED
      BY <1>5, <2>s, <3>2, Zenon
  <2>2. CASE g = DiagonalMap
    <3>1. u[9] = t[11] /\ u[10] = t[12] /\ u[11] = t[9] /\ u[12] = t[10]
      BY <1>w, <2>0, <2>2, CarriedBlock3
    <3>2. (u[9] + u[10] + u[11] + u[12]) = (t[9] + t[10] + t[11] + t[12])
      BY <1>2, <3>1
    <3> QED
      BY <1>5, <2>s, <3>2, Zenon
  <2> QED
    BY <2>1, <2>2
<1>7. x[16] = y[16]
  <2>0. 13 \in W /\ 14 \in W /\ 15 \in W /\ 16 \in W
    BY DEF W
  <2>s. /\ x[16] = x[12] + (t[13] + t[14] + t[15] + t[16])
        /\ y[16] = y[12] + (u[13] + u[14] + u[15] + u[16])
    BY <1>3, Zenon DEF SumsByBlock
  <2>1. CASE g = HorizontalMap
    <3>1. u[13] = t[13] /\ u[14] = t[14] /\ u[15] = t[16] /\ u[16] = t[15]
      BY <1>w, <2>0, <2>1, CarriedBlock4
    <3>2. (u[13] + u[14] + u[15] + u[16]) = (t[13] + t[14] + t[15] + t[16])
      BY <1>2, <3>1
    <3> QED
      BY <1>6, <2>s, <3>2, Zenon
  <2>2. CASE g = DiagonalMap
    <3>1. u[13] = t[15] /\ u[14] = t[16] /\ u[15] = t[13] /\ u[16] = t[14]
      BY <1>w, <2>0, <2>2, CarriedBlock4
    <3>2. (u[13] + u[14] + u[15] + u[16]) = (t[13] + t[14] + t[15] + t[16])
      BY <1>2, <3>1
    <3> QED
      BY <1>6, <2>s, <3>2, Zenon
  <2> QED
    BY <2>1, <2>2
<1>8. x[20] = y[20]
  <2>0. 17 \in W /\ 18 \in W /\ 19 \in W /\ 20 \in W
    BY DEF W
  <2>s. /\ x[20] = x[16] + (t[17] + t[18] + t[19] + t[20])
        /\ y[20] = y[16] + (u[17] + u[18] + u[19] + u[20])
    BY <1>3, Zenon DEF SumsByBlock
  <2>1. CASE g = HorizontalMap
    <3>1. u[17] = t[17] /\ u[18] = t[18] /\ u[19] = t[20] /\ u[20] = t[19]
      BY <1>w, <2>0, <2>1, CarriedBlock5
    <3>2. (u[17] + u[18] + u[19] + u[20]) = (t[17] + t[18] + t[19] + t[20])
      BY <1>2, <3>1
    <3> QED
      BY <1>7, <2>s, <3>2, Zenon
  <2>2. CASE g = DiagonalMap
    <3>1. u[17] = t[19] /\ u[18] = t[20] /\ u[19] = t[17] /\ u[20] = t[18]
      BY <1>w, <2>0, <2>2, CarriedBlock5
    <3>2. (u[17] + u[18] + u[19] + u[20]) = (t[17] + t[18] + t[19] + t[20])
      BY <1>2, <3>1
    <3> QED
      BY <1>7, <2>s, <3>2, Zenon
  <2> QED
    BY <2>1, <2>2
<1>9. x[24] = y[24]
  <2>0. 21 \in W /\ 22 \in W /\ 23 \in W /\ 24 \in W
    BY DEF W
  <2>s. /\ x[24] = x[20] + (t[21] + t[22] + t[23] + t[24])
        /\ y[24] = y[20] + (u[21] + u[22] + u[23] + u[24])
    BY <1>3, Zenon DEF SumsByBlock
  <2>1. CASE g = HorizontalMap
    <3>1. u[21] = t[21] /\ u[22] = t[22] /\ u[23] = t[24] /\ u[24] = t[23]
      BY <1>w, <2>0, <2>1, CarriedBlock6
    <3>2. (u[21] + u[22] + u[23] + u[24]) = (t[21] + t[22] + t[23] + t[24])
      BY <1>2, <3>1
    <3> QED
      BY <1>8, <2>s, <3>2, Zenon
  <2>2. CASE g = DiagonalMap
    <3>1. u[21] = t[23] /\ u[22] = t[24] /\ u[23] = t[21] /\ u[24] = t[22]
      BY <1>w, <2>0, <2>2, CarriedBlock6
    <3>2. (u[21] + u[22] + u[23] + u[24]) = (t[21] + t[22] + t[23] + t[24])
      BY <1>2, <3>1
    <3> QED
      BY <1>8, <2>s, <3>2, Zenon
  <2> QED
    BY <2>1, <2>2
<1>10. x[28] = y[28]
  <2>0. 25 \in W /\ 26 \in W /\ 27 \in W /\ 28 \in W
    BY DEF W
  <2>s. /\ x[28] = x[24] + (t[25] + t[26] + t[27] + t[28])
        /\ y[28] = y[24] + (u[25] + u[26] + u[27] + u[28])
    BY <1>3, Zenon DEF SumsByBlock
  <2>1. CASE g = HorizontalMap
    <3>1. u[25] = t[25] /\ u[26] = t[26] /\ u[27] = t[28] /\ u[28] = t[27]
      BY <1>w, <2>0, <2>1, CarriedBlock7
    <3>2. (u[25] + u[26] + u[27] + u[28]) = (t[25] + t[26] + t[27] + t[28])
      BY <1>2, <3>1
    <3> QED
      BY <1>9, <2>s, <3>2, Zenon
  <2>2. CASE g = DiagonalMap
    <3>1. u[25] = t[27] /\ u[26] = t[28] /\ u[27] = t[25] /\ u[28] = t[26]
      BY <1>w, <2>0, <2>2, CarriedBlock7
    <3>2. (u[25] + u[26] + u[27] + u[28]) = (t[25] + t[26] + t[27] + t[28])
      BY <1>2, <3>1
    <3> QED
      BY <1>9, <2>s, <3>2, Zenon
  <2> QED
    BY <2>1, <2>2
<1>11. x[30] = y[30]
  <2>0. 29 \in W /\ 30 \in W
    BY DEF W
  <2>s. /\ x[30] = x[28] + (t[29] + t[30])
        /\ y[30] = y[28] + (u[29] + u[30])
    BY <1>3, Zenon DEF SumsByBlock
  <2>1. CASE g = HorizontalMap
    <3>1. u[29] = t[30] /\ u[30] = t[29]
      BY <1>w, <2>0, <2>1, CarriedBlock8
    <3>2. (u[29] + u[30]) = (t[29] + t[30])
      BY <1>2, <3>1
    <3> QED
      BY <1>10, <2>s, <3>2, Zenon
  <2>2. CASE g = DiagonalMap
    <3>1. u[29] = t[29] /\ u[30] = t[30]
      BY <1>w, <2>0, <2>2, CarriedBlock8
    <3>2. (u[29] + u[30]) = (t[29] + t[30])
      BY <1>2, <3>1
    <3> QED
      BY <1>10, <2>s, <3>2, Zenon
  <2> QED
    BY <2>1, <2>2
<1>12. x[34] = y[34]
  <2>0. 31 \in W /\ 32 \in W /\ 33 \in W /\ 34 \in W
    BY DEF W
  <2>s. /\ x[34] = x[30] + (t[31] + t[32] + t[33] + t[34])
        /\ y[34] = y[30] + (u[31] + u[32] + u[33] + u[34])
    BY <1>3, Zenon DEF SumsByBlock
  <2>1. CASE g = HorizontalMap
    <3>1. u[31] = t[34] /\ u[32] = t[33] /\ u[33] = t[32] /\ u[34] = t[31]
      BY <1>w, <2>0, <2>1, CarriedBlock9
    <3>2. (u[31] + u[32] + u[33] + u[34]) = (t[31] + t[32] + t[33] + t[34])
      BY <1>2, <3>1
    <3> QED
      BY <1>11, <2>s, <3>2, Zenon
  <2>2. CASE g = DiagonalMap
    <3>1. u[31] = t[33] /\ u[32] = t[32] /\ u[33] = t[31] /\ u[34] = t[34]
      BY <1>w, <2>0, <2>2, CarriedBlock9
    <3>2. (u[31] + u[32] + u[33] + u[34]) = (t[31] + t[32] + t[33] + t[34])
      BY <1>2, <3>1
    <3> QED
      BY <1>11, <2>s, <3>2, Zenon
  <2> QED
    BY <2>1, <2>2
<1>13. x[38] = y[38]
  <2>0. 35 \in W /\ 36 \in W /\ 37 \in W /\ 38 \in W
    BY DEF W
  <2>s. /\ x[38] = x[34] + (t[35] + t[36] + t[37] + t[38])
        /\ y[38] = y[34] + (u[35] + u[36] + u[37] + u[38])
    BY <1>3, Zenon DEF SumsByBlock
  <2>1. CASE g = HorizontalMap
    <3>1. u[35] = t[37] /\ u[36] = t[38] /\ u[37] = t[35] /\ u[38] = t[36]
      BY <1>w, <2>0, <2>1, CarriedBlock10
    <3>2. (u[35] + u[36] + u[37] + u[38]) = (t[35] + t[36] + t[37] + t[38])
      BY <1>2, <3>1
    <3> QED
      BY <1>12, <2>s, <3>2, Zenon
  <2>2. CASE g = DiagonalMap
    <3>1. u[35] = t[36] /\ u[36] = t[35] /\ u[37] = t[37] /\ u[38] = t[38]
      BY <1>w, <2>0, <2>2, CarriedBlock10
    <3>2. (u[35] + u[36] + u[37] + u[38]) = (t[35] + t[36] + t[37] + t[38])
      BY <1>2, <3>1
    <3> QED
      BY <1>12, <2>s, <3>2, Zenon
  <2> QED
    BY <2>1, <2>2
<1>14. x[42] = y[42]
  <2>0. 39 \in W /\ 40 \in W /\ 41 \in W /\ 42 \in W
    BY DEF W
  <2>s. /\ x[42] = x[38] + (t[39] + t[40] + t[41] + t[42])
        /\ y[42] = y[38] + (u[39] + u[40] + u[41] + u[42])
    BY <1>3, Zenon DEF SumsByBlock
  <2>1. CASE g = HorizontalMap
    <3>1. u[39] = t[41] /\ u[40] = t[42] /\ u[41] = t[39] /\ u[42] = t[40]
      BY <1>w, <2>0, <2>1, CarriedBlock11
    <3>2. (u[39] + u[40] + u[41] + u[42]) = (t[39] + t[40] + t[41] + t[42])
      BY <1>2, <3>1
    <3> QED
      BY <1>13, <2>s, <3>2, Zenon
  <2>2. CASE g = DiagonalMap
    <3>1. u[39] = t[40] /\ u[40] = t[39] /\ u[41] = t[41] /\ u[42] = t[42]
      BY <1>w, <2>0, <2>2, CarriedBlock11
    <3>2. (u[39] + u[40] + u[41] + u[42]) = (t[39] + t[40] + t[41] + t[42])
      BY <1>2, <3>1
    <3> QED
      BY <1>13, <2>s, <3>2, Zenon
  <2> QED
    BY <2>1, <2>2
<1>15. x[46] = y[46]
  <2>0. 43 \in W /\ 44 \in W /\ 45 \in W /\ 46 \in W
    BY DEF W
  <2>s. /\ x[46] = x[42] + (t[43] + t[44] + t[45] + t[46])
        /\ y[46] = y[42] + (u[43] + u[44] + u[45] + u[46])
    BY <1>3, Zenon DEF SumsByBlock
  <2>1. CASE g = HorizontalMap
    <3>1. u[43] = t[45] /\ u[44] = t[46] /\ u[45] = t[43] /\ u[46] = t[44]
      BY <1>w, <2>0, <2>1, CarriedBlock12
    <3>2. (u[43] + u[44] + u[45] + u[46]) = (t[43] + t[44] + t[45] + t[46])
      BY <1>2, <3>1
    <3> QED
      BY <1>14, <2>s, <3>2, Zenon
  <2>2. CASE g = DiagonalMap
    <3>1. u[43] = t[43] /\ u[44] = t[45] /\ u[45] = t[44] /\ u[46] = t[46]
      BY <1>w, <2>0, <2>2, CarriedBlock12
    <3>2. (u[43] + u[44] + u[45] + u[46]) = (t[43] + t[44] + t[45] + t[46])
      BY <1>2, <3>1
    <3> QED
      BY <1>14, <2>s, <3>2, Zenon
  <2> QED
    BY <2>1, <2>2
<1> QED
  BY <1>15

LEMMA SameScore ==
  ASSUME NEW b, Disjoint(b), NEW e, Disjoint(e), n_empties(e) = n_empties(b),
         NEW g \in [Squares -> Squares], g = HorizontalMap \/ g = DiagonalMap,
         \A s \in Squares : Colour(e, s) = Colour(b, g[s])
  PROVE  TrainedScore(e) = TrainedScore(b)
<1> DEFINE c == [s \in Squares |-> Colour(b, s)]
           t == WordsFor(b)
           u == WordsFor(e)
           k == Constant(b)
<1>1. c \in [Squares -> 0..2]
  BY DEF Colour
<1>2. Len(FEATURES) = 46 /\ Features = 1..46
  BY FeatureBlocks, FeatureTypes
<1>3. t \in [1..46 -> Int] /\ u \in [1..46 -> Int] /\ k \in Int
  BY <1>2, WordsForTypes
<1>4. Constant(e) = k
  BY DEF Constant
<1>5. ASSUME NEW i \in Features
      PROVE  Shows(i, b) = Seen(i, c) /\ Shows(i, e) = Seen(i, Moved(c, g))
  <2>1. \A j \in 1..Regions[FEATURES[i].region].digits : FEATURES[i].squares[j] \in Squares
    BY ShowsIs
  <2> QED
    BY <2>1 DEF Shows, Seen, Sq, Moved
<1>6. ASSUME NEW i \in 1..46, NEW j \in 1..46, Carries(g, i, j)
      PROVE  u[i] = t[j]
  <2>1. i \in Features /\ j \in Features
    BY <1>2
  <2>2. FEATURES[j].region = FEATURES[i].region
    BY <1>6 DEF Carries
  <2>3. MoverWord(i, e) = Word(FEATURES[i].region, Index(i, Moved(c, g)))
    BY <1>5, <2>1, ShowsIs DEF MoverWord, Index
  <2>4. MoverWord(j, b) = Word(FEATURES[j].region, Index(j, c))
    BY <1>5, <2>1, ShowsIs DEF MoverWord, Index
  <2>5. Index(i, Moved(c, g)) = Index(j, c)
    BY <1>1, <1>6, <2>1, CarriedIndex
  <2>6. MoverWord(i, e) = MoverWord(j, b)
    BY <2>2, <2>3, <2>4, <2>5
  <2> QED
    BY <2>1, <2>6 DEF WordsFor
<1>10. SameWords(g, t, u)
  BY <1>6 DEF SameWords
<1> HIDE DEF c, t, u, k
<1>7. PICK x : IsTotal(x, 46, k, t) /\ TrainedScore(b) = Discounted(x[46])
  BY <1>2, TrainedTotal DEF k, t
<1>8. PICK y : IsTotal(y, 46, k, u) /\ TrainedScore(e) = Discounted(y[46])
  BY <1>2, <1>4, TrainedTotal DEF u
<1>9. x[46] = y[46]
  BY <1>3, <1>7, <1>8, <1>10, TotalsAlike
<1> QED
  BY <1>7, <1>8, <1>9

-----------------------------------------------------------------------------
(* Rotated boards                                                          *)

LEMMA MapsAre ==
  /\ HorizontalMap \in [Squares -> Squares] /\ \A s \in Squares : HorizontalMap[HorizontalMap[s]] = s
  /\ DiagonalMap \in [Squares -> Squares] /\ \A s \in Squares : DiagonalMap[DiagonalMap[s]] = s
<1>1. \A s \in Squares : Mirrored(s) \in Squares /\ Transposed(s) \in Squares
  BY MapCoordinates
<1>2. ASSUME NEW s \in Squares
      PROVE  Mirrored(Mirrored(s)) = s /\ Transposed(Transposed(s)) = s
  <2>1. /\ Col(Mirrored(Mirrored(s))) = 7 - (7 - Col(s)) /\ Row(Mirrored(Mirrored(s))) = Row(s)
        /\ Col(Transposed(Transposed(s))) = Col(s) /\ Row(Transposed(Transposed(s))) = Row(s)
    BY <1>1, MapCoordinates
  <2>2. 7 - (7 - Col(s)) = Col(s)
    <3>1. Col(s) \in 0..7
      BY Coordinates
    <3> HIDE <1>1
    <3> QED
      BY <3>1
  <2> QED
    BY <1>1, <2>1, <2>2, SameSquare
<1> QED
  BY <1>1, <1>2 DEF HorizontalMap, DiagonalMap

LEMMA ImageScore ==
  ASSUME NEW b, Disjoint(b), NEW e, Disjoint(e), NEW g, g = HorizontalMap \/ g = DiagonalMap,
         ImageOf(g, e.player, b.player), ImageOf(g, e.opponent, b.opponent)
  PROVE  TrainedScore(e) = TrainedScore(b)
<1>1. g \in [Squares -> Squares] /\ \A s \in Squares : g[g[s]] = s
  BY MapsAre
<1>2. \A s \in Squares : /\ s \in e.player <=> g[s] \in b.player
                         /\ s \in e.opponent <=> g[s] \in b.opponent
  BY DEF ImageOf
<1>3. \A s \in Squares : Colour(e, s) = Colour(b, g[s])
  BY <1>2 DEF Colour
<1>4. n_empties(e) = n_empties(b)
  <2> DEFINE f == [s \in Discs(e) |-> g[s]]
  <2>1. Discs(e) \subseteq Squares /\ Discs(b) \subseteq Squares
    BY DEF Disjoint, Position, Discs
  <2>2. \A s \in Squares : s \in Discs(e) <=> g[s] \in Discs(b)
    BY <1>2 DEF Discs
  <2>3. f \in [Discs(e) -> Discs(b)]
    BY <2>1, <2>2
  <2>4. \A s, z \in Discs(e) : f[s] = f[z] => s = z
    BY <1>1, <2>1
  <2>5. \A z \in Discs(b) : \E s \in Discs(e) : f[s] = z
    <3> SUFFICES ASSUME NEW z \in Discs(b) PROVE \E s \in Discs(e) : f[s] = z
      OBVIOUS
    <3>1. g[z] \in Squares /\ g[g[z]] = z
      BY <1>1, <2>1
    <3>2. g[z] \in Discs(e)
      BY <2>2, <3>1
    <3> QED
      BY <3>1, <3>2
  <2>6. f \in Bijection(Discs(e), Discs(b))
    BY <2>3, <2>4, <2>5 DEF Bijection, Injection, Surjection, IsInjective
  <2>7. IsFiniteSet(Discs(e))
    <3>1. IsFiniteSet(0..63)
      BY 0 \in Int, 63 \in Int, FS_Interval
    <3> QED
      BY <2>1, <3>1, FS_Subset DEF Squares
  <2>8. Cardinality(Discs(e)) = Cardinality(Discs(b))
    BY <2>6, <2>7, FS_Bijection DEF ExistsBijection
  <2> QED
    BY <2>8 DEF n_empties
<1> QED
  BY <1>1, <1>3, <1>4, SameScore

LEMMA RotatedScore ==
  ASSUME NEW b, Disjoint(b), NEW r \in {1, 2, 4}
  PROVE  Disjoint(Rotated(b, r)) /\ TrainedScore(Rotated(b, r)) = TrainedScore(b)
<1>1. ASSUME NEW e, Disjoint(e)
      PROVE  /\ Disjoint(Rotated(e, 1)) /\ TrainedScore(Rotated(e, 1)) = TrainedScore(e)
             /\ Disjoint(Rotated(e, 4)) /\ TrainedScore(Rotated(e, 4)) = TrainedScore(e)
  <2>1. e.player \in SUBSET Squares /\ e.opponent \in SUBSET Squares
    BY <1>1 DEF Disjoint, Position
  <2>2. Disjoint(Rotated(e, 1)) /\ Disjoint(Rotated(e, 4))
    BY <1>1, RotatedIs DEF Rotations
  <2>3. /\ Rotated(e, 1).player = flipHorizontally(e.player) /\ Rotated(e, 1).opponent = flipHorizontally(e.opponent)
        /\ Rotated(e, 4).player = flipDiagonally(e.player) /\ Rotated(e, 4).opponent = flipDiagonally(e.opponent)
    BY RotateCases DEF Rotated
  <2>4. /\ ImageOf(HorizontalMap, Rotated(e, 1).player, e.player)
        /\ ImageOf(HorizontalMap, Rotated(e, 1).opponent, e.opponent)
    BY <2>1, <2>3, FlipHorizontally DEF ImageOf, HorizontalMap
  <2>5. /\ ImageOf(DiagonalMap, Rotated(e, 4).player, e.player)
        /\ ImageOf(DiagonalMap, Rotated(e, 4).opponent, e.opponent)
    BY <2>1, <2>3, FlipDiagonally DEF ImageOf, DiagonalMap
  <2>6. TrainedScore(Rotated(e, 1)) = TrainedScore(e)
    BY <1>1, <2>2, <2>4, ImageScore
  <2>7. TrainedScore(Rotated(e, 4)) = TrainedScore(e)
    BY <1>1, <2>2, <2>5, ImageScore
  <2> QED
    BY <2>2, <2>6, <2>7
<1>2. Rotated(Rotated(Rotated(b, 4), 1), 4) = Rotated(b, 2)
  <2>1. ASSUME NEW x \in SUBSET Squares
        PROVE  rotateBits(rotateBits(rotateBits(x, 4), 1), 4) = rotateBits(x, 2)
    <3>1. flipDiagonally(flipHorizontally(flipDiagonally(x))) = flipVertically(x)
      BY FlipRelations
    <3> QED
      BY <3>1, RotateCases
  <2>2. b.player \in SUBSET Squares /\ b.opponent \in SUBSET Squares
    BY DEF Disjoint, Position
  <2> QED
    BY <2>1, <2>2 DEF Rotated
<1>3. CASE r = 1
  BY <1>1, <1>3
<1>4. CASE r = 4
  BY <1>1, <1>4
<1>5. CASE r = 2
  <2>1. Disjoint(Rotated(b, 4)) /\ TrainedScore(Rotated(b, 4)) = TrainedScore(b)
    BY <1>1
  <2> DEFINE d == Rotated(b, 4)
             e == Rotated(d, 1)
  <2>2. Disjoint(e) /\ TrainedScore(e) = TrainedScore(d)
    <3> HIDE DEF d
    <3> QED
      BY <1>1, <2>1 DEF d
  <2>3. Disjoint(Rotated(e, 4)) /\ TrainedScore(Rotated(e, 4)) = TrainedScore(e)
    <3> HIDE DEF e
    <3> QED
      BY <1>1, <2>2
  <2> QED
    BY <1>2, <1>5, <2>1, <2>2, <2>3
<1> QED
  BY <1>3, <1>4, <1>5

-----------------------------------------------------------------------------
(* The score of a leaf *)

LEMMA LeafScores ==
  ASSUME IInv, WeightsInv
  PROVE  EvaluatesAsTrained
<1> SUFFICES ASSUME Leaf PROVE EvaluatesAsTrained
  BY DEF EvaluatesAsTrained
<1> DEFINE b == top.board
<1>1. Searching /\ top.at = "entered" /\ top.in_midgame
  BY DEF Leaf
<1>2. Disjoint(b) /\ pattern = ValuesOf(b)
  <2>1. top \in Frame /\ FlagsHold(top) /\ ShownIn(top, pattern)
    BY <1>1, TopIs
  <2>2. ShownBy(top) = top.board
    BY <1>1 DEF ShownBy
  <2> QED
    BY <1>1, <2>1, <2>2 DEF FlagsHold, ShownIn
<1>3. weights = Slice
  BY <1>1 DEF WeightsInv
<1>4. eval_from_features(pattern, n_empties(b), weights) = TrainedScore(b)
  BY <1>2, <1>3, ScoredAsTrained
<1>5. \A r \in {1, 2, 4} : search_eval_0(Rotated(b, r), weights) = TrainedScore(b)
  <2> TAKE r \in {1, 2, 4}
  <2> DEFINE e == Rotated(b, r)
  <2>1. Disjoint(e) /\ TrainedScore(e) = TrainedScore(b)
    BY <1>2, RotatedScore
  <2> HIDE DEF e
  <2>2. search_eval_0(e, weights) = TrainedScore(e)
    BY <1>3, <2>1, ScoredAsTrained DEF search_eval_0, ValuesOf
  <2> QED
    BY <2>1, <2>2 DEF e
<1> QED
  BY <1>4, <1>5 DEF EvaluatesAsTrained

(* For all trained words and every position a search evaluates: the score  *)
(* from the tracked values and the words that came through the tool, the   *)
(* blob and the unpacking is the sum of the words trained for the patterns *)
(* as the mover sees them, and neither mirroring nor transposing the board *)
(* changes it (eval.rs, weights.rs).                                       *)
THEOREM TrainedScores == Spec => []EvaluatesAsTrained
<1>1. Init => IInv
  BY InitKeeps
<1>2. IInv /\ [Next]_vars => IInv'
  BY StepKeeps
<1>3. IInv /\ WeightsInv => EvaluatesAsTrained
  BY LeafScores
<1> QED
  BY <1>1, <1>2, <1>3, WeightsLoaded, PTL DEF Spec

=============================================================================

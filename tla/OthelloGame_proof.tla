-------------------------- MODULE OthelloGame_proof -------------------------
(* The rules of the game as the three programs compute them, on every      *)
(* board -- their moves, flips and scores are the same, and the symmetries *)
(* of the board keep moves -- and what stays of its discs in every game;   *)
(* then the patterns the evaluator reads off a board: their numbers, their *)
(* squares, and what a symmetry of the board does to them.                 *)
EXTENDS OthelloGame, Evaluation, SequenceTheorems, FiniteSetTheorems, WellFoundedInduction, TLAPS

-----------------------------------------------------------------------------
(* Squares and their coordinates *)

LEMMA Coordinates ==
  /\ \A s \in Squares : s \in Int /\ s = 8 * Row(s) + Col(s) /\ Row(s) \in 0..7 /\ Col(s) \in 0..7
  /\ \A c, r \in 0..7 : 8 * r + c \in Squares /\ Row(8 * r + c) = r /\ Col(8 * r + c) = c
  BY DEF Squares, Row, Col

Offset(dir) == 8 * dir[2] + dir[1]

LEMMA DirectionCases ==
  ASSUME NEW dir \in Directions
  PROVE  \/ dir[1] = 1 /\ dir[2] = 0 /\ Offset(dir) = 1
         \/ dir[1] = -1 /\ dir[2] = 0 /\ Offset(dir) = -1
         \/ dir[1] = 0 /\ dir[2] = 1 /\ Offset(dir) = 8
         \/ dir[1] = 0 /\ dir[2] = -1 /\ Offset(dir) = -8
         \/ dir[1] = 1 /\ dir[2] = 1 /\ Offset(dir) = 9
         \/ dir[1] = -1 /\ dir[2] = -1 /\ Offset(dir) = -9
         \/ dir[1] = -1 /\ dir[2] = 1 /\ Offset(dir) = 7
         \/ dir[1] = 1 /\ dir[2] = -1 /\ Offset(dir) = -7
  BY DEF Directions, Offset

LEMMA DirectionOf ==
  /\ <<1, 0>> \in Directions /\ Offset(<<1, 0>>) = 1 /\ <<-1, 0>> \in Directions /\ Offset(<<-1, 0>>) = -1
  /\ <<0, 1>> \in Directions /\ Offset(<<0, 1>>) = 8 /\ <<0, -1>> \in Directions /\ Offset(<<0, -1>>) = -8
  /\ <<1, 1>> \in Directions /\ Offset(<<1, 1>>) = 9 /\ <<-1, -1>> \in Directions /\ Offset(<<-1, -1>>) = -9
  /\ <<-1, 1>> \in Directions /\ Offset(<<-1, 1>>) = 7 /\ <<1, -1>> \in Directions /\ Offset(<<1, -1>>) = -7
  BY DEF Directions, Offset

LEMMA OnBoardAlong ==
  ASSUME NEW s \in Squares, NEW dir \in Directions, NEW k \in 0..7, OnBoard(s, dir, k)
  PROVE  /\ Along(s, dir, k) \in Squares
         /\ Col(Along(s, dir, k)) = Col(s) + k * dir[1] /\ Row(Along(s, dir, k)) = Row(s) + k * dir[2]
<1> DEFINE c == Col(s)
           r == Row(s)
           c2 == c + k * dir[1]
           r2 == r + k * dir[2]
<1>1. s = 8 * r + c /\ r \in 0..7 /\ c \in 0..7
  BY Coordinates
<1>2. c2 \in 0..7 /\ r2 \in 0..7
  BY DEF OnBoard
<1> HIDE DEF c, r
<1>3. Along(s, dir, k) = 8 * r2 + c2
  BY <1>1, DirectionCases DEF Along
<1> HIDE DEF c2, r2
<1>4. Along(s, dir, k) \in Squares /\ Col(Along(s, dir, k)) = c2 /\ Row(Along(s, dir, k)) = r2
  <2>1. 8 * r2 + c2 \in Squares /\ Row(8 * r2 + c2) = r2 /\ Col(8 * r2 + c2) = c2
    BY <1>2, Coordinates, Zenon
  <2> QED
    BY <1>3, <2>1, Zenon
<1> QED
  BY <1>4 DEF c, r, c2, r2

(* One step off a square that is not on an edge the direction leaves by     *)
LEMMA StepOnBoard ==
  ASSUME NEW t \in Squares, NEW dir \in Directions, t + Offset(dir) \in Squares,
         \/ dir[1] = 0
         \/ t \in middleColumns
         \/ t + Offset(dir) \in middleColumns
  PROVE  Col(t) + dir[1] \in 0..7 /\ Row(t) + dir[2] \in 0..7
<1> DEFINE u == t + Offset(dir)
           c == Col(t)
           r == Row(t)
           c2 == Col(u)
           r2 == Row(u)
<1>1. /\ t = 8 * r + c /\ r \in 0..7 /\ c \in 0..7
      /\ u = 8 * r2 + c2 /\ r2 \in 0..7 /\ c2 \in 0..7
  BY Coordinates
<1>2. dir[1] = 0 \/ c \in 1..6 \/ c2 \in 1..6
  BY <1>1 DEF middleColumns
<1>3. dir[1] \in -1..1 /\ dir[2] \in -1..1 /\ Offset(dir) = 8 * dir[2] + dir[1]
  BY DEF Directions, Offset
<1>4. 8 * r2 + c2 = 8 * r + c + 8 * dir[2] + dir[1]
  BY <1>1, <1>3
<1> DEFINE x == dir[1]
           y == dir[2]
<1> HIDE DEF c, r, c2, r2, x, y
<1>5. x \in -1..1 /\ y \in -1..1 /\ (x = 0 \/ c \in 1..6 \/ c2 \in 1..6) /\ 8 * r2 + c2 = 8 * r + c + 8 * y + x
  BY <1>2, <1>3, <1>4 DEF x, y
<1>6. c + x \in 0..7 /\ r + y \in 0..7
  BY <1>1, <1>5
<1> QED
  BY <1>6 DEF c, r, x, y

LEMMA AlongIs ==
  ASSUME NEW s \in Int, NEW dir \in Directions, NEW k \in Int
  PROVE  /\ Along(s, dir, k) = s + k * Offset(dir) /\ Along(s, dir, k) \in Int
         /\ Along(s, dir, 1) = s + Offset(dir)
         /\ Along(s, dir, k + 1) = Along(s, dir, k) + Offset(dir)
  BY DirectionCases DEF Along, Offset

LEMMA FirstOnRay ==
  ASSUME NEW s \in Squares, NEW dir \in Directions, Along(s, dir, 1) \in Squares,
         dir[1] = 0 \/ Along(s, dir, 1) \in middleColumns
  PROVE  OnBoard(s, dir, 1)
<1>1. s \in Int /\ 1 \in Int
  BY DEF Squares
<1>2. Along(s, dir, 1) = s + Offset(dir)
  BY <1>1, AlongIs
<1>3. 1 * dir[1] = dir[1] /\ 1 * dir[2] = dir[2]
  BY DirectionCases
<1> QED
  BY <1>2, <1>3, StepOnBoard DEF OnBoard

LEMMA NextOnRay ==
  ASSUME NEW s \in Squares, NEW dir \in Directions, NEW k \in 1..6, OnBoard(s, dir, k),
         Along(s, dir, k + 1) \in Squares, dir[1] = 0 \/ Along(s, dir, k) \in middleColumns
  PROVE  OnBoard(s, dir, k + 1)
<1> DEFINE t == Along(s, dir, k)
           c == Col(s)
           r == Row(s)
<1>1. t \in Squares /\ Col(t) = c + k * dir[1] /\ Row(t) = r + k * dir[2]
  BY OnBoardAlong
<1>2. Along(s, dir, k + 1) = t + Offset(dir)
  <2>1. s \in Int /\ k \in Int
    BY DEF Squares
  <2> QED
    BY <2>1, AlongIs
<1>3. Col(t) + dir[1] \in 0..7 /\ Row(t) + dir[2] \in 0..7
  BY <1>1, <1>2, StepOnBoard
<1>4. c \in 0..7 /\ r \in 0..7
  BY Coordinates
<1> HIDE DEF t, c, r
<1>5. c + (k + 1) * dir[1] = Col(t) + dir[1] /\ r + (k + 1) * dir[2] = Row(t) + dir[2]
  BY <1>1, <1>4, DirectionCases
<1> QED
  BY <1>3, <1>5 DEF OnBoard, c, r

LEMMA InnerOnRay ==
  ASSUME NEW s \in Squares, NEW dir \in Directions, NEW k \in 2..7, OnBoard(s, dir, k), NEW i \in 1..k - 1
  PROVE  OnBoard(s, dir, i) /\ (dir[1] # 0 => Along(s, dir, i) \in middleColumns)
<1> DEFINE c == Col(s)
           r == Row(s)
           x == dir[1]
           y == dir[2]
<1>1. c \in 0..7 /\ r \in 0..7 /\ c + k * x \in 0..7 /\ r + k * y \in 0..7
  BY Coordinates DEF OnBoard
<1>2. x \in {-1, 0, 1} /\ y \in {-1, 0, 1}
  BY DirectionCases
<1> HIDE DEF c, r, x, y
<1>3. c + i * x \in 0..7 /\ (x # 0 => c + i * x \in 1..6)
  <2>1. CASE x = 1
    BY <1>1, <2>1
  <2>2. CASE x = 0
    BY <1>1, <2>2
  <2>3. CASE x = -1
    BY <1>1, <2>3
  <2> QED
    BY <1>2, <2>1, <2>2, <2>3
<1>4. r + i * y \in 0..7
  <2>1. CASE y = 1
    BY <1>1, <2>1
  <2>2. CASE y = 0
    BY <1>1, <2>2
  <2>3. CASE y = -1
    BY <1>1, <2>3
  <2> QED
    BY <1>2, <2>1, <2>2, <2>3
<1>5. OnBoard(s, dir, i)
  BY <1>3, <1>4 DEF OnBoard, c, r, x, y
<1>6. Along(s, dir, i) \in Squares /\ Col(Along(s, dir, i)) = c + i * x
  BY <1>5, OnBoardAlong DEF c, x
<1> QED
  BY <1>3, <1>5, <1>6 DEF middleColumns, x

-----------------------------------------------------------------------------
(* Runs: j - 1 more squares of m from t on in steps of e, then one of p.    *)
(* A direction of the board is a step that runs of the middle columns       *)
(* cannot take around an edge.                                              *)

Reach(p, m, t, e, j) == t + j * e \in p /\ \A i \in 0..j - 1 : t + i * e \in m
Near(p, m, t, e, n) == \E j \in 1..n : Reach(p, m, t, e, j)
LineMask(o, dir) == IF dir[1] = 0 THEN o ELSE o \cap middleColumns

LEMMA ReachOne ==
  ASSUME NEW p, NEW m, NEW t \in Int, NEW e \in Int
  PROVE  Reach(p, m, t, e, 1) <=> t \in m /\ t + e \in p
<1>1. t + 1 * e = t + e /\ t + 0 * e = t /\ 0..1 - 1 = {0}
  OBVIOUS
<1> QED
  BY <1>1 DEF Reach

LEMMA ReachNext ==
  ASSUME NEW p, NEW m, NEW t \in Int, NEW e \in Int, NEW j \in Nat \ {0}
  PROVE  Reach(p, m, t, e, j + 1) <=> t \in m /\ Reach(p, m, t + e, e, j)
<1>1. \A i \in Int : t + (i + 1) * e = (t + e) + i * e
  OBVIOUS
<1>2. t + 0 * e = t
  OBVIOUS
<1>3. ASSUME Reach(p, m, t, e, j + 1)
      PROVE  t \in m /\ Reach(p, m, t + e, e, j)
  <2>1. t + (j + 1) * e \in p /\ \A i \in 0..j : t + i * e \in m
    BY <1>3 DEF Reach
  <2>2. t \in m
    BY <1>2, <2>1
  <2>3. (t + e) + j * e \in p
    BY <1>1, <2>1
  <2>4. ASSUME NEW i \in 0..j - 1 PROVE (t + e) + i * e \in m
    <3>1. i + 1 \in 0..j /\ i \in Int
      OBVIOUS
    <3> QED
      BY <1>1, <2>1, <3>1
  <2> QED
    BY <2>2, <2>3, <2>4 DEF Reach
<1>4. ASSUME t \in m, Reach(p, m, t + e, e, j)
      PROVE  Reach(p, m, t, e, j + 1)
  <2>1. (t + e) + j * e \in p /\ \A i \in 0..j - 1 : (t + e) + i * e \in m
    BY <1>4 DEF Reach
  <2>2. t + (j + 1) * e \in p
    BY <1>1, <2>1
  <2>3. ASSUME NEW i \in 0..j PROVE t + i * e \in m
    <3>1. CASE i = 0
      BY <1>2, <1>4, <3>1
    <3>2. CASE i # 0
      <4>1. i - 1 \in 0..j - 1 /\ i - 1 \in Int /\ (i - 1) + 1 = i
        BY <3>2
      <4> QED
        BY <1>1, <2>1, <4>1
    <3> QED
      BY <3>1, <3>2
  <2>4. (j + 1) - 1 = j
    OBVIOUS
  <2> QED
    BY <2>2, <2>3, <2>4 DEF Reach
<1> QED
  BY <1>3, <1>4

LEMMA NearOne ==
  ASSUME NEW p, NEW m, NEW t \in Int, NEW e \in Int
  PROVE  Near(p, m, t, e, 1) <=> t \in m /\ t + e \in p
<1>1. 1..1 = {1}
  OBVIOUS
<1> QED
  BY <1>1, ReachOne DEF Near

LEMMA NearNext ==
  ASSUME NEW p, NEW m, NEW t \in Int, NEW e \in Int, NEW n \in Nat \ {0}
  PROVE  Near(p, m, t, e, n + 1) <=> t \in m /\ (t + e \in p \/ Near(p, m, t + e, e, n))
<1>1. ASSUME Near(p, m, t, e, n + 1)
      PROVE  t \in m /\ (t + e \in p \/ Near(p, m, t + e, e, n))
  <2>1. PICK j \in 1..n + 1 : Reach(p, m, t, e, j)
    BY <1>1 DEF Near
  <2>2. CASE j = 1
    BY <2>1, <2>2, ReachOne
  <2>3. CASE j # 1
    <3>1. j - 1 \in 1..n /\ j - 1 \in Nat \ {0} /\ (j - 1) + 1 = j
      BY <2>3
    <3>2. t \in m /\ Reach(p, m, t + e, e, j - 1)
      BY <2>1, <3>1, ReachNext
    <3> QED
      BY <3>1, <3>2 DEF Near
  <2> QED
    BY <2>2, <2>3
<1>2. ASSUME t \in m, t + e \in p
      PROVE  Near(p, m, t, e, n + 1)
  <2>1. 1 \in 1..n + 1
    OBVIOUS
  <2> QED
    BY <1>2, <2>1, ReachOne DEF Near
<1>3. ASSUME t \in m, Near(p, m, t + e, e, n)
      PROVE  Near(p, m, t, e, n + 1)
  <2>1. PICK j \in 1..n : Reach(p, m, t + e, e, j)
    BY <1>3 DEF Near
  <2>2. j + 1 \in 1..n + 1 /\ j \in Nat \ {0}
    OBVIOUS
  <2>3. Reach(p, m, t, e, j + 1)
    BY <1>3, <2>1, <2>2, ReachNext
  <2> QED
    BY <2>2, <2>3 DEF Near
<1> QED
  BY <1>1, <1>2, <1>3

LEMMA NearStarts ==
  ASSUME NEW p, NEW m, NEW t \in Int, NEW e \in Int, NEW n \in Nat, Near(p, m, t, e, n)
  PROVE  t \in m
<1>1. PICK j \in 1..n : Reach(p, m, t, e, j)
  BY DEF Near
<1>2. 0 \in 0..j - 1 /\ t + 0 * e = t
  OBVIOUS
<1> QED
  BY <1>1, <1>2 DEF Reach

LEMMA ShiftIs ==
  ASSUME NEW x \in SUBSET Squares, NEW d \in Int
  PROVE  Shift(x, d) \subseteq Squares /\ \A t \in Int : t \in Shift(x, d) <=> t \in Squares /\ t - d \in x
<1>1. ASSUME NEW t \in Int, t - d \in x PROVE \E u \in x : t = u + d
  <2>1. t = (t - d) + d
    OBVIOUS
  <2> QED
    BY <1>1, <2>1
<1>2. ASSUME NEW t \in Int, NEW u \in x, t = u + d PROVE t - d = u
  BY <1>2 DEF Squares
<1> QED
  BY <1>1, <1>2 DEF Shift

LEMMA BeyondIs ==
  ASSUME NEW p \in SUBSET Squares, NEW m \in SUBSET Squares, NEW e \in Int, NEW s \in Int
  PROVE  s \in Beyond(p, m, -e) <=> s \in Squares /\ Near(p, m, s + e, e, 6)
<1> DEFINE d == -e
           one == m \cap Shift(p, d)
           two == one \cup (m \cap Shift(one, d))
           pair == m \cap Shift(m, d)
           four == two \cup (pair \cap Shift(two, 2 * d))
           six == four \cup (pair \cap Shift(four, 2 * d))
           N(t, n) == Near(p, m, t, e, n)
<1>1. Beyond(p, m, d) = Shift(six, d)
  BY DEF Beyond
<1>2. d \in Int /\ 2 * d \in Int /\ Squares \subseteq Int /\ \A t \in Int : t - d = t + e /\ t - 2 * d = (t + e) + e
  BY DEF Squares
<1>3. \A n \in Nat \ {0}, t \in Int : N(t, n + 1) <=> t \in m /\ (t + e \in p \/ N(t + e, n))
  BY NearNext
<1>4. \A t \in Int : N(t, 1) <=> t \in m /\ t + e \in p
  BY NearOne
<1>5. /\ \A t \in Int : N(t, 2) <=> t \in m /\ (t + e \in p \/ N(t + e, 1))
      /\ \A t \in Int : N(t, 3) <=> t \in m /\ (t + e \in p \/ N(t + e, 2))
      /\ \A t \in Int : N(t, 4) <=> t \in m /\ (t + e \in p \/ N(t + e, 3))
      /\ \A t \in Int : N(t, 5) <=> t \in m /\ (t + e \in p \/ N(t + e, 4))
      /\ \A t \in Int : N(t, 6) <=> t \in m /\ (t + e \in p \/ N(t + e, 5))
  <2>1. /\ 1 \in Nat \ {0} /\ 2 \in Nat \ {0} /\ 3 \in Nat \ {0} /\ 4 \in Nat \ {0} /\ 5 \in Nat \ {0}
        /\ 1 + 1 = 2 /\ 2 + 1 = 3 /\ 3 + 1 = 4 /\ 4 + 1 = 5 /\ 5 + 1 = 6
    OBVIOUS
  <2> HIDE DEF N
  <2> QED
    BY <1>3, <2>1
<1>6. \A t \in Int : t + e \in Int
  OBVIOUS
<1> HIDE DEF d, N
<1>7. one \in SUBSET Squares /\ \A t \in Int : t \in one <=> N(t, 1)
  BY <1>2, <1>4, ShiftIs
<1>8. pair \in SUBSET Squares /\ \A t \in Int : t \in pair <=> t \in m /\ t + e \in m
  BY <1>2, ShiftIs
<1> HIDE DEF one, pair
<1>9. two \in SUBSET Squares /\ \A t \in Int : t \in two <=> N(t, 2)
  <2>1. \A t \in Int : t \in Shift(one, d) <=> t \in Squares /\ t + e \in one
    BY <1>2, <1>7, ShiftIs
  <2> QED
    BY <2>1, <1>4, <1>5, <1>6, <1>7
<1> HIDE DEF two
<1>10. four \in SUBSET Squares /\ \A t \in Int : t \in four <=> N(t, 4)
  <2>1. \A t \in Int : t \in Shift(two, 2 * d) <=> t \in Squares /\ (t + e) + e \in two
    BY <1>2, <1>9, ShiftIs
  <2> QED
    BY <2>1, <1>4, <1>5, <1>6, <1>8, <1>9
<1> HIDE DEF four
<1>11. six \in SUBSET Squares /\ \A t \in Int : t \in six <=> N(t, 6)
  <2>1. \A t \in Int : t \in Shift(four, 2 * d) <=> t \in Squares /\ (t + e) + e \in four
    BY <1>2, <1>10, ShiftIs
  <2> QED
    BY <2>1, <1>4, <1>5, <1>6, <1>8, <1>10
<1> HIDE DEF six
<1>12. s \in Shift(six, d) <=> s \in Squares /\ s + e \in six
  BY <1>2, <1>11, ShiftIs
<1> QED
  BY <1>1, <1>6, <1>11, <1>12 DEF d, N

(* A run of the opponent's discs with a disc of the player beyond it, as    *)
(* the server and the page walk it, square by square on the board, is one   *)
(* of the mask in steps of the direction's offset.                          *)
LEMMA RayIsRun ==
  ASSUME NEW p \in SUBSET Squares, NEW o \in SUBSET Squares, NEW s \in Squares, NEW dir \in Directions,
         NEW k \in 2..7
  PROVE  /\ OnBoard(s, dir, k) /\ Along(s, dir, k) \in p /\ \A i \in 1..k - 1 : Along(s, dir, i) \in o
         <=> Reach(p, LineMask(o, dir), s + Offset(dir), Offset(dir), k - 1)
<1> DEFINE e == Offset(dir)
           m == LineMask(o, dir)
           A(i) == Along(s, dir, i)
<1>1. /\ s \in Int /\ e \in Int /\ \A i \in Int : A(i + 1) = (s + e) + i * e /\ A(i) \in Int
  BY DirectionCases DEF Along, Squares, Offset
<1>2. Reach(p, m, s + e, e, k - 1) <=> A(k) \in p /\ \A i \in 1..k - 1 : A(i) \in m
  <2>1. (k - 1) + 1 = k /\ k - 1 \in Int /\ (k - 1) - 1 = k - 2
    OBVIOUS
  <2>2. A(k) = (s + e) + (k - 1) * e
    BY <1>1, <2>1
  <2>3. (\A i \in 0..k - 2 : (s + e) + i * e \in m) <=> \A i \in 1..k - 1 : A(i) \in m
    <3>1. ASSUME \A i \in 0..k - 2 : (s + e) + i * e \in m, NEW i \in 1..k - 1 PROVE A(i) \in m
      <4>1. i - 1 \in 0..k - 2 /\ i - 1 \in Int /\ (i - 1) + 1 = i
        OBVIOUS
      <4> QED
        BY <1>1, <3>1, <4>1
    <3>2. ASSUME \A i \in 1..k - 1 : A(i) \in m, NEW i \in 0..k - 2 PROVE (s + e) + i * e \in m
      <4>1. i + 1 \in 1..k - 1 /\ i \in Int
        OBVIOUS
      <4> QED
        BY <1>1, <3>2, <4>1
    <3> QED
      BY <3>1, <3>2
  <2> QED
    BY <2>1, <2>2, <2>3 DEF Reach
<1>3. ASSUME OnBoard(s, dir, k), \A i \in 1..k - 1 : A(i) \in o
      PROVE  \A i \in 1..k - 1 : A(i) \in m
  BY <1>3, InnerOnRay DEF LineMask
<1>4. ASSUME A(k) \in p, \A i \in 1..k - 1 : A(i) \in m
      PROVE  OnBoard(s, dir, k) /\ \A i \in 1..k - 1 : A(i) \in o
  <2> DEFINE On(i) == i <= k => OnBoard(s, dir, i)
  <2>1. \A i \in 1..k : A(i) \in Squares /\ (i < k => dir[1] = 0 \/ A(i) \in middleColumns)
    <3>1. TAKE i \in 1..k
    <3>2. i = k \/ i \in 1..k - 1
      OBVIOUS
    <3>3. CASE i = k
      BY <1>4, <3>3
    <3>4. CASE i \in 1..k - 1
      BY <1>4, <3>4 DEF LineMask
    <3> QED
      BY <3>2, <3>3, <3>4
  <2>2. On(1)
    <3>1. 1 \in 1..k /\ 1 < k
      OBVIOUS
    <3> QED
      BY <2>1, <3>1, FirstOnRay
  <2>3. \A i \in 1..6 : On(i) => On(i + 1)
    <3>1. TAKE i \in 1..6
    <3>2. CASE i + 1 <= k
      <4>1. i \in 1..k /\ i < k /\ i <= k /\ i + 1 \in 1..k
        BY <3>2
      <4> QED
        BY <2>1, <4>1, NextOnRay
    <3> QED
      BY <3>2
  <2> HIDE DEF On
  <2>4. On(1) /\ On(2) /\ On(3) /\ On(4) /\ On(5) /\ On(6) /\ On(7)
    <3>1. (On(1) => On(1 + 1)) /\ (On(2) => On(2 + 1)) /\ (On(3) => On(3 + 1)) /\ (On(4) => On(4 + 1))
          /\ (On(5) => On(5 + 1)) /\ (On(6) => On(6 + 1))
      BY <2>3
    <3> QED
      BY <2>2, <3>1
  <2>5. On(k)
    BY <2>4
  <2> QED
    BY <1>4, <2>5 DEF On, LineMask
<1> QED
  BY <1>2, <1>3, <1>4 DEF LineMask

-----------------------------------------------------------------------------
(* The three programs' moves *)

Slants == {1, -1, 7, -7, 9, -9}
Uprights == {8, -8}

(* The mask that the programs use for a step *)
StepMask(o, e) == IF e \in Uprights THEN o ELSE o \cap middleColumns

LEMMA Steps ==
  /\ \A dir \in Directions : Offset(dir) \in Slants \cup Uprights
  /\ \A e \in Slants \cup Uprights : \E dir \in Directions : Offset(dir) = e
  /\ \A o : \A dir \in Directions : LineMask(o, dir) = StepMask(o, Offset(dir))
  /\ \A o : \A e \in Slants : StepMask(o, e) = o \cap middleColumns
  /\ \A o : \A e \in Uprights : StepMask(o, e) = o
  /\ \A e \in Slants \cup Uprights : e \in Int /\ -e \in Slants \cup Uprights /\ -(-e) = e
  /\ \A e \in Slants : -e \in Slants
  /\ \A e \in Uprights : -e \in Uprights
<1>1. \A dir \in Directions : Offset(dir) \in Slants \cup Uprights
  BY DirectionCases DEF Slants, Uprights
<1>2. \A e \in Slants \cup Uprights : \E dir \in Directions : Offset(dir) = e
  BY DirectionOf DEF Slants, Uprights
<1>3. \A dir \in Directions : dir[1] = 0 <=> Offset(dir) \in Uprights
  BY DirectionCases DEF Uprights
<1>4. \A o : \A dir \in Directions : LineMask(o, dir) = StepMask(o, Offset(dir))
  BY <1>3 DEF LineMask, StepMask
<1>5. \A e \in Slants : e \notin Uprights
  BY DEF Slants, Uprights
<1>6. /\ \A e \in Slants \cup Uprights : e \in Int /\ -e \in Slants \cup Uprights /\ -(-e) = e
      /\ \A e \in Slants : -e \in Slants
      /\ \A e \in Uprights : -e \in Uprights
  <2>1. \A e \in Slants \cup Uprights : e \in Int
    BY DEF Slants, Uprights
  <2>2. \A e \in Slants : -e \in Slants
    BY DEF Slants
  <2>3. \A e \in Uprights : -e \in Uprights
    BY DEF Uprights
  <2>4. \A e \in Int : -(-e) = e
    OBVIOUS
  <2> QED
    BY <2>1, <2>2, <2>3, <2>4
<1> QED
  BY <1>1, <1>2, <1>4, <1>5, <1>6 DEF StepMask

(* A run of o next to s in steps of e has a disc of p beyond it. *)
Flanks(p, o, s, e) == Near(p, StepMask(o, e), s + e, e, 6)

Disjoint(b) == b \in Position /\ b.player \cap b.opponent = {}

LEMMA LegalMovesIs ==
  ASSUME NEW b, b \in Position
  PROVE  legalMoves(b) = {s \in Squares \ Discs(b) : \E e \in Slants \cup Uprights : Flanks(b.player, b.opponent, s, e)}
<1> DEFINE p == b.player
           o == b.opponent
           mid == o \cap middleColumns
           all == {Beyond(p, mid, d) : d \in Slants} \cup {Beyond(p, o, d) : d \in Uprights}
<1>1. p \in SUBSET Squares /\ o \in SUBSET Squares /\ mid \in SUBSET Squares
  BY DEF Position
<1>2. Slants = {1, -1, 7, -7, 9, -9} /\ Uprights = {8, -8} /\ Squares \subseteq Int
  BY DEF Slants, Uprights, Squares
<1>3. legalMoves(b) = (UNION all) \ Discs(b)
  BY DEF legalMoves, Slants, Uprights
<1> HIDE DEF p, o, mid, all
<1>4. ASSUME NEW m \in SUBSET Squares, NEW e \in Slants \cup Uprights, NEW s \in Int
      PROVE  s \in Beyond(p, m, -e) <=> s \in Squares /\ Near(p, m, s + e, e, 6)
  BY <1>1, BeyondIs, Steps
<1>5. \A m, d : Beyond(p, m, d) \subseteq Squares
  BY DEF Beyond, Shift
<1>6. ASSUME NEW s \in Squares
      PROVE  /\ (\E d \in Slants : s \in Beyond(p, mid, d)) <=> \E e \in Slants : Near(p, mid, s + e, e, 6)
             /\ (\E d \in Uprights : s \in Beyond(p, o, d)) <=> \E e \in Uprights : Near(p, o, s + e, e, 6)
  <2>1. s \in Int
    BY <1>2
  <2>2. \A e \in Slants : s \in Beyond(p, mid, -e) <=> Near(p, mid, s + e, e, 6)
    BY <1>1, <1>4, <2>1
  <2>3. \A e \in Uprights : s \in Beyond(p, o, -e) <=> Near(p, o, s + e, e, 6)
    BY <1>1, <1>4, <2>1
  <2>4. (\A d \in Slants : -d \in Slants /\ -(-d) = d) /\ \A d \in Uprights : -d \in Uprights /\ -(-d) = d
    BY Steps
  <2> QED
    BY <2>2, <2>3, <2>4
<1>7. ASSUME NEW s \in Squares
      PROVE  (\E e \in Slants \cup Uprights : Flanks(p, o, s, e))
             <=> (\E e \in Slants : Near(p, mid, s + e, e, 6)) \/ \E e \in Uprights : Near(p, o, s + e, e, 6)
  BY Steps DEF Flanks, mid
<1>8. ASSUME NEW s
      PROVE  s \in legalMoves(b)
             <=> s \in Squares \ Discs(b) /\ \E e \in Slants \cup Uprights : Flanks(p, o, s, e)
  <2>3. s \in UNION all <=> (\E d \in Slants : s \in Beyond(p, mid, d)) \/ \E d \in Uprights : s \in Beyond(p, o, d)
    BY DEF all
  <2>1. s \in legalMoves(b) => s \in Squares
    BY <1>3, <1>5, <2>3
  <2>2. CASE s \in Squares
    <3>1. s \in legalMoves(b) <=> s \notin Discs(b) /\ ((\E d \in Slants : s \in Beyond(p, mid, d)) \/ \E d \in Uprights : s \in Beyond(p, o, d))
      BY <1>3, <2>3
    <3> QED
      BY <1>6, <1>7, <2>2, <3>1
  <2> QED
    BY <2>1, <2>2
<1> QED
  BY <1>8 DEF p, o

(* The local evaluator's flood in both directions finds no more than the    *)
(* runs: what it adds on the other side of a run is the player's disc.      *)
LEMMA FloodStep ==
  ASSUME NEW p \in SUBSET Squares, NEW m \in SUBSET Squares, p \cap m = {}, NEW d \in Int, NEW n \in Nat \ {0},
         NEW flip \in SUBSET Squares,
         \A t \in Int : t \in flip <=> Near(p, m, t, d, n) \/ Near(p, m, t, -d, n)
  PROVE  /\ flip \cup (Both(flip, d) \cap m) \in SUBSET Squares
         /\ \A t \in Int : t \in flip \cup (Both(flip, d) \cap m)
                          <=> Near(p, m, t, d, n + 1) \/ Near(p, m, t, -d, n + 1)
<1>1. -d \in Int /\ \A t \in Int : /\ t - d = t + (-d) /\ t - (-d) = t + d
                                  /\ (t + d) + (-d) = t /\ (t + (-d)) + d = t /\ t + d \in Int /\ t + (-d) \in Int
  OBVIOUS
<1>2. \A t \in Int : t \in Both(flip, d) <=> t \in Squares /\ (t + (-d) \in flip \/ t + d \in flip)
  BY <1>1, ShiftIs DEF Both
<1>3. \A t, e \in Int : Near(p, m, t, e, n + 1) <=> t \in m /\ (t + e \in p \/ Near(p, m, t + e, e, n))
  BY NearNext
<1>4. \A t, e \in Int : Near(p, m, t, e, n) => Near(p, m, t, e, n + 1)
  <2>1. 1..n \subseteq 1..n + 1
    OBVIOUS
  <2> QED
    BY <2>1 DEF Near
<1>5. \A t, e \in Int : Near(p, m, t, e, n) => t \in m
  BY <1>3, <1>4
<1>6. ASSUME NEW t \in m, NEW e \in {d, -d}, Near(p, m, t + e, -e, n)
      PROVE  Near(p, m, t, -e, n + 1)
  <2>1. t \in Int /\ e \in Int /\ -e \in Int /\ t + e \in Int /\ (t + e) + (-e) = t
    BY DEF Squares
  <2>2. t \notin p /\ Near(p, m, t + e, -e, n + 1)
    BY <1>4, <1>6, <2>1
  <2>3. Near(p, m, t, -e, n)
    BY <1>3, <2>1, <2>2
  <2> QED
    BY <1>4, <2>1, <2>3
<1>7. -(-d) = d
  OBVIOUS
<1>8. ASSUME NEW t \in m
      PROVE  /\ Near(p, m, t + (-d), d, n) => Near(p, m, t, d, n + 1)
             /\ Near(p, m, t + d, -d, n) => Near(p, m, t, -d, n + 1)
  BY <1>6, <1>7
<1>9. ASSUME NEW t \in Int, t \in m, t + (-d) \in flip \/ t + d \in flip
      PROVE  Near(p, m, t, d, n + 1) \/ Near(p, m, t, -d, n + 1)
  BY <1>1, <1>3, <1>8, <1>9
<1>10. ASSUME NEW t \in Int, NEW e \in {d, -d}, Near(p, m, t, e, n + 1)
       PROVE  t \in flip \cup (Both(flip, d) \cap m)
  <2>1. t \in m /\ (t + e \in p \/ Near(p, m, t + e, e, n)) /\ t + e \in Int /\ e \in Int
    BY <1>1, <1>3, <1>10
  <2>2. CASE Near(p, m, t + e, e, n)
    BY <1>1, <1>2, <2>1, <2>2
  <2>3. CASE t + e \in p
    <3>1. Near(p, m, t, e, 1)
      BY <2>1, <2>3, NearOne
    <3>2. 1 \in 1..n /\ 1..1 \subseteq 1..n
      OBVIOUS
    <3>3. Near(p, m, t, e, n)
      BY <3>1, <3>2 DEF Near
    <3> QED
      BY <3>3
  <2> QED
    BY <2>1, <2>2, <2>3
<1> QED
  BY <1>2, <1>4, <1>9, <1>10

LEMMA SomeMovesIs ==
  ASSUME NEW p \in SUBSET Squares, NEW m \in SUBSET Squares, p \cap m = {}, NEW d \in Int,
         NEW s \in Squares, s \notin p, s \notin m
  PROVE  s \in get_some_moves(p, m, d) <=> Near(p, m, s + d, d, 6) \/ Near(p, m, s + (-d), -d, 6)
<1> DEFINE Flood(flip) == flip \cup (Both(flip, d) \cap m)
           f1 == Both(p, d) \cap m
           f2 == Flood(f1)
           f3 == Flood(f2)
           f4 == Flood(f3)
           f5 == Flood(f4)
           f6 == Flood(f5)
           Known(f, n) == /\ f \in SUBSET Squares
                          /\ \A t \in Int : t \in f <=> Near(p, m, t, d, n) \/ Near(p, m, t, -d, n)
<1>1. get_some_moves(p, m, d) = Both(f6, d)
  BY DEF get_some_moves, FiveTimes
<1>2. /\ -d \in Int /\ s \in Int /\ Squares \subseteq Int
      /\ \A t \in Int : /\ t - d = t + (-d) /\ t - (-d) = t + d
                      /\ (t + d) + (-d) = t /\ (t + (-d)) + d = t /\ t + d \in Int /\ t + (-d) \in Int
  BY DEF Squares
<1>3. \A f \in SUBSET Squares : \A t \in Int : t \in Both(f, d) <=> t \in Squares /\ (t + (-d) \in f \/ t + d \in f)
  BY <1>2, ShiftIs DEF Both
<1>4. Known(f1, 1)
  BY <1>2, <1>3, NearOne
<1>5. \A f \in SUBSET Squares : \A n \in Nat \ {0} : Known(f, n) => Known(Flood(f), n + 1)
  BY FloodStep
<1>6. /\ 1 \in Nat \ {0} /\ 2 \in Nat \ {0} /\ 3 \in Nat \ {0} /\ 4 \in Nat \ {0} /\ 5 \in Nat \ {0}
      /\ 1 + 1 = 2 /\ 2 + 1 = 3 /\ 3 + 1 = 4 /\ 4 + 1 = 5 /\ 5 + 1 = 6
  OBVIOUS
<1>7. \A f, n : Known(f, n) => f \in SUBSET Squares
  OBVIOUS
<1> HIDE DEF Known, Flood, f1
<1>8. Known(f6, 6)
  <2>1. Known(f2, 2)
    BY <1>4, <1>5, <1>6, <1>7
  <2>2. Known(f3, 3)
    BY <2>1, <1>5, <1>6, <1>7
  <2>3. Known(f4, 4)
    BY <2>2, <1>5, <1>6, <1>7
  <2>4. Known(f5, 5)
    BY <2>3, <1>5, <1>6, <1>7
  <2> QED
    BY <2>4, <1>5, <1>6, <1>7
<1> HIDE DEF f6
<1>9. ASSUME NEW e \in {d, -d} PROVE ~Near(p, m, s + e, -e, 6)
  <2>1. e \in Int /\ -e \in Int /\ s + e \in Int /\ (s + e) + (-e) = s /\ 5 \in Nat \ {0} /\ 5 + 1 = 6 /\ 4 \in Nat \ {0} /\ 4 + 1 = 5
    BY <1>2
  <2>2. ~Near(p, m, s, -e, 5)
    BY <1>2, <2>1, NearStarts
  <2> QED
    BY <2>1, <2>2, NearNext
<1>10. -(-d) = d
  BY <1>2
<1>11. ~Near(p, m, s + d, -d, 6) /\ ~Near(p, m, s + (-d), d, 6)
  BY <1>9, <1>10
<1>12. s + d \in f6 <=> Near(p, m, s + d, d, 6)
  BY <1>2, <1>8, <1>11 DEF Known
<1>13. s + (-d) \in f6 <=> Near(p, m, s + (-d), -d, 6)
  BY <1>2, <1>8, <1>11 DEF Known
<1> QED
  BY <1>1, <1>2, <1>3, <1>8, <1>12, <1>13 DEF Known

LEMMA GetMovesIs ==
  ASSUME NEW b, Disjoint(b)
  PROVE  get_moves(b) = legalMoves(b)
<1> DEFINE p == b.player
           o == b.opponent
           om == o \cap middleColumns
           all == {get_some_moves(p, om, d) : d \in {1, 7, 9}} \cup {get_some_moves(p, o, 8)}
<1>1. /\ b \in Position /\ p \in SUBSET Squares /\ o \in SUBSET Squares /\ om \in SUBSET Squares
      /\ p \cap o = {} /\ p \cap om = {} /\ Discs(b) = p \cup o
  BY DEF Disjoint, Position, Discs
<1>2. get_moves(b) = (UNION all) \ Discs(b)
  BY DEF get_moves
<1>3. legalMoves(b) = {s \in Squares \ Discs(b) : \E e \in Slants \cup Uprights : Flanks(p, o, s, e)}
  BY <1>1, LegalMovesIs
<1>4. /\ \A s : s \in UNION all <=> \/ s \in get_some_moves(p, om, 1) \/ s \in get_some_moves(p, om, 7)
                                \/ s \in get_some_moves(p, om, 9) \/ s \in get_some_moves(p, o, 8)
      /\ \A s : s \in UNION all => s \in Squares
  <2>1. \A x, d : Both(x, d) \subseteq Squares
    BY DEF Both, Shift
  <2>2. \A m, d : get_some_moves(p, m, d) \subseteq Squares
    BY <2>1 DEF get_some_moves, FiveTimes
  <2> QED
    BY <2>2
<1> HIDE DEF p, o, om, all
<1>5. ASSUME NEW s \in Squares \ Discs(b)
      PROVE  s \in UNION all <=> \E e \in Slants \cup Uprights : Flanks(p, o, s, e)
  <2>1. s \notin p /\ s \notin o /\ s \notin om
    BY <1>1 DEF om
  <2>2. \A d \in {1, 7, 9} : s \in get_some_moves(p, om, d) <=> Near(p, om, s + d, d, 6) \/ Near(p, om, s + (-d), -d, 6)
    BY <1>1, <2>1, SomeMovesIs
  <2>3. s \in get_some_moves(p, o, 8) <=> Near(p, o, s + 8, 8, 6) \/ Near(p, o, s + (-8), -8, 6)
    BY <1>1, <2>1, SomeMovesIs
  <2>4. (\E e \in Slants \cup Uprights : Flanks(p, o, s, e))
        <=> (\E e \in Slants : Near(p, om, s + e, e, 6)) \/ \E e \in Uprights : Near(p, o, s + e, e, 6)
    <3>1. \A e \in Slants : Flanks(p, o, s, e) <=> Near(p, om, s + e, e, 6)
      BY Steps, Zenon DEF Flanks, om
    <3>2. \A e \in Uprights : Flanks(p, o, s, e) <=> Near(p, o, s + e, e, 6)
      BY Steps, Zenon DEF Flanks
    <3> QED
      BY <3>1, <3>2, Zenon
  <2>5. (\E e \in Slants : Near(p, om, s + e, e, 6))
        <=> \E d \in {1, 7, 9} : Near(p, om, s + d, d, 6) \/ Near(p, om, s + (-d), -d, 6)
    BY DEF Slants
  <2>6. (\E e \in Uprights : Near(p, o, s + e, e, 6)) <=> Near(p, o, s + 8, 8, 6) \/ Near(p, o, s + (-8), -8, 6)
    BY DEF Uprights
  <2> QED
    BY <1>4, <2>2, <2>3, <2>4, <2>5, <2>6
<1> QED
  BY <1>2, <1>3, <1>4, <1>5

(* The discs of a run next to s with a disc of p beyond it *)
Trapped(p, m, s, e, t) == \E j \in 1..6 : Reach(p, m, s + e, e, j) /\ \E i \in 0..j - 1 : t = (s + e) + i * e

LEMMA TrappedIsRun ==
  ASSUME NEW p \in SUBSET Squares, NEW m \in SUBSET Squares, NEW s \in Int, NEW e \in Int
  PROVE  /\ \A t : Trapped(p, m, s, e, t) => t \in m
         /\ (\E t : Trapped(p, m, s, e, t)) <=> Near(p, m, s + e, e, 6)
<1>1. ASSUME NEW t, Trapped(p, m, s, e, t) PROVE t \in m
  BY <1>1 DEF Trapped, Reach
<1>2. ASSUME NEW j \in 1..6, Reach(p, m, s + e, e, j) PROVE Trapped(p, m, s, e, (s + e) + 0 * e)
  <2>1. 0 \in 0..j - 1
    OBVIOUS
  <2> QED
    BY <1>2, <2>1 DEF Trapped
<1> QED
  BY <1>1, <1>2 DEF Trapped, Near

LEMMA BracketedIs ==
  ASSUME NEW b \in Position, NEW s \in Squares, NEW dir \in Directions
  PROVE  \A t : t \in Bracketed(b, s, dir)
               <=> Trapped(b.player, StepMask(b.opponent, Offset(dir)), s, Offset(dir), t)
<1> DEFINE p == b.player
           o == b.opponent
           e == Offset(dir)
           m == StepMask(o, e)
           Hit(k) == /\ OnBoard(s, dir, k) /\ Along(s, dir, k) \in p
                     /\ \A i \in 1..k - 1 : Along(s, dir, i) \in o
<1>1. \A t : t \in Bracketed(b, s, dir) <=> \E k \in 2..7 : Hit(k) /\ \E i \in 1..k - 1 : t = Along(s, dir, i)
  <2> DEFINE S == {k \in 2..7 : Hit(k)}
  <2>1. Bracketed(b, s, dir) = UNION {{Along(s, dir, i) : i \in 1..k - 1} : k \in S}
    BY DEF Bracketed
  <2>2. \A k : k \in S <=> k \in 2..7 /\ Hit(k)
    OBVIOUS
  <2> HIDE DEF S, Hit
  <2> QED
    BY <2>1, <2>2
<1>2. ASSUME NEW k \in 2..7 PROVE Hit(k) <=> Reach(p, m, s + e, e, k - 1)
  <2>1. p \in SUBSET Squares /\ o \in SUBSET Squares /\ m = LineMask(o, dir)
    BY Steps DEF Position
  <2> QED
    BY <2>1, RayIsRun
<1>3. \A i \in Int : Along(s, dir, i + 1) = (s + e) + i * e
  BY DirectionCases DEF Along, Squares, Offset
<1> HIDE DEF p, o, e, m, Hit
<1>4. ASSUME NEW t, NEW k \in 2..7, Hit(k), NEW i \in 1..k - 1, t = Along(s, dir, i)
      PROVE  Trapped(p, m, s, e, t)
  <2>1. k - 1 \in 1..6 /\ i - 1 \in 0..(k - 1) - 1 /\ i - 1 \in Int /\ (i - 1) + 1 = i
    OBVIOUS
  <2>2. t = (s + e) + (i - 1) * e
    BY <1>3, <1>4, <2>1
  <2> QED
    BY <1>2, <1>4, <2>1, <2>2 DEF Trapped
<1>5. ASSUME NEW t, NEW j \in 1..6, Reach(p, m, s + e, e, j), NEW i \in 0..j - 1, t = (s + e) + i * e
      PROVE  \E k \in 2..7 : Hit(k) /\ \E i0 \in 1..k - 1 : t = Along(s, dir, i0)
  <2>1. j + 1 \in 2..7 /\ (j + 1) - 1 = j /\ i + 1 \in 1..(j + 1) - 1 /\ i \in Int
    OBVIOUS
  <2>2. t = Along(s, dir, i + 1)
    BY <1>3, <1>5, <2>1
  <2>3. Hit(j + 1)
    BY <1>2, <1>5, <2>1
  <2> QED
    BY <2>1, <2>2, <2>3
<1> QED
  BY <1>1, <1>4, <1>5 DEF Trapped, p, o, e, m

LEMMA FlipAlongIs ==
  ASSUME NEW p \in SUBSET Squares, NEW m \in SUBSET Squares, p \cap m = {}, NEW s \in Squares, NEW e \in Int
  PROVE  \A t : t \in FlipAlong(p, m, s, e) <=> Trapped(p, m, s, e, t)
<1> DEFINE y == s + e
           W(i) == \A h \in 0..i : y + h * e \in m
           Walk(g) == g \cup (Shift(g, e) \cap m)
           g1 == Shift({s}, e) \cap m
           g2 == Walk(g1)
           g3 == Walk(g2)
           g4 == Walk(g3)
           g5 == Walk(g4)
           g6 == Walk(g5)
           Known(g, n) == /\ g \in SUBSET Squares
                          /\ \A t : t \in g <=> \E i \in 0..n - 1 : t = y + i * e /\ W(i)
<1>1. FlipAlong(p, m, s, e) = IF Shift(g6, e) \cap p # {} THEN g6 ELSE {}
  BY DEF FlipAlong, FiveTimes
<1>2. /\ y \in Int /\ s \in Int /\ Squares \subseteq Int
      /\ \A i \in Int : y + (i + 1) * e = (y + i * e) + e /\ y + i * e \in Int
      /\ y + 0 * e = y
      /\ \A t \in Int : (t - e = s <=> t = y) /\ (t - e) + e = t /\ (t + e) - e = t /\ t - e \in Int /\ t + e \in Int
  BY DEF Squares
<1>3. W(0) <=> y \in m
  <2>1. 0..0 = {0}
    OBVIOUS
  <2> QED
    BY <1>2, <2>1
<1>4. \A n \in Nat : W(n + 1) <=> W(n) /\ y + (n + 1) * e \in m
  <2>1. TAKE n \in Nat
  <2>2. 0..n + 1 = 0..n \cup {n + 1}
    OBVIOUS
  <2> QED
    BY <2>2
<1>5. \A i, n \in Nat : i <= n /\ W(n) => W(i) /\ y + i * e \in m
  <2>1. \A i, n \in Nat : i <= n => 0..i \subseteq 0..n /\ i \in 0..n
    OBVIOUS
  <2> QED
    BY <2>1
<1> HIDE DEF W
<1>6. Known(g1, 1)
  <2>1. {s} \in SUBSET Squares /\ 0..1 - 1 = {0}
    OBVIOUS
  <2>2. \A t \in Int : t \in Shift({s}, e) <=> t \in Squares /\ t - e \in {s}
    BY <2>1, ShiftIs
  <2>3. g1 \in SUBSET Squares /\ \A t : t \in g1 <=> t = y /\ y \in m
    BY <1>2, <2>2 
  <2> HIDE DEF g1, y
  <2>4. \A t : t \in g1 <=> t = y + 0 * e /\ W(0)
    BY <1>2, <1>3, <2>3
  <2> QED
    BY <2>1, <2>3, <2>4
<1>7. ASSUME NEW g, NEW n \in Nat \ {0}, Known(g, n) PROVE Known(Walk(g), n + 1)
  <2>1. \A t \in Int : t \in Shift(g, e) <=> t \in Squares /\ t - e \in g
    BY <1>7, ShiftIs
  <2> HIDE DEF y
  <2>2. ASSUME NEW t, t \in Walk(g) PROVE \E i \in 0..n : t = y + i * e /\ W(i)
    <3>1. CASE t \in g
      BY <1>7, <3>1
    <3>2. CASE t \notin g
      <4>1. t \in Int /\ t \in m /\ t - e \in g
        BY <1>2, <2>1, <2>2, <3>2
      <4>2. PICK i \in 0..n - 1 : t - e = y + i * e /\ W(i)
        BY <1>7, <4>1
      <4>3. t = y + (i + 1) * e
        <5>1. i \in Int
          OBVIOUS
        <5> QED
          BY <1>2, <4>1, <4>2, <5>1
      <4>4. i + 1 \in 0..n /\ i \in Nat
        OBVIOUS
      <4> QED
        BY <1>4, <4>1, <4>2, <4>3, <4>4
    <3> QED
      BY <3>1, <3>2
  <2>3. ASSUME NEW i \in 0..n, W(i) PROVE y + i * e \in Walk(g)
    <3>1. CASE i \in 0..n - 1
      BY <1>7, <2>3, <3>1
    <3>2. CASE i = n
      <4>1. n - 1 \in 0..n - 1 /\ n - 1 \in Nat /\ n - 1 <= n /\ (n - 1) + 1 = n /\ n - 1 \in Int /\ n <= n
        OBVIOUS
      <4>2. W(n - 1) /\ y + n * e \in m
        BY <1>5, <2>3, <3>2, <4>1
      <4>3. y + (n - 1) * e \in g
        BY <1>7, <4>1, <4>2
      <4>4. y + n * e = (y + (n - 1) * e) + e /\ y + (n - 1) * e \in Int
        BY <1>2, <4>1
      <4>5. y + n * e \in Shift(g, e)
        BY <1>2, <2>1, <4>2, <4>3, <4>4
      <4> QED
        BY <3>2, <4>2, <4>5
    <3> QED
      BY <3>1, <3>2
  <2>4. Walk(g) \in SUBSET Squares /\ (n + 1) - 1 = n
    BY <1>7
  <2> QED
    BY <2>2, <2>3, <2>4
<1>8. /\ 1 \in Nat \ {0} /\ 2 \in Nat \ {0} /\ 3 \in Nat \ {0} /\ 4 \in Nat \ {0} /\ 5 \in Nat \ {0}
      /\ 1 + 1 = 2 /\ 2 + 1 = 3 /\ 3 + 1 = 4 /\ 4 + 1 = 5 /\ 5 + 1 = 6
  OBVIOUS
<1> HIDE DEF Known, Walk, g1
<1>9. Known(g6, 6)
  <2>1. Known(g2, 2)
    BY <1>6, <1>7, <1>8
  <2>2. Known(g3, 3)
    BY <2>1, <1>7, <1>8
  <2>3. Known(g4, 4)
    BY <2>2, <1>7, <1>8
  <2>4. Known(g5, 5)
    BY <2>3, <1>7, <1>8
  <2> QED
    BY <2>4, <1>7, <1>8
<1> HIDE DEF g6
<1>10. g6 \in SUBSET Squares /\ \A t : t \in g6 <=> \E i \in 0..5 : t = y + i * e /\ W(i)
  <2>1. 6 - 1 = 5
    OBVIOUS
  <2> QED
    BY <1>9, <2>1 DEF Known
<1>11. ASSUME NEW j \in 1..6
       PROVE  Reach(p, m, y, e, j) <=> y + j * e \in p /\ W(j - 1)
  BY DEF Reach, W
<1>12. Shift(g6, e) \cap p # {} <=> \E j \in 1..6 : Reach(p, m, y, e, j)
  <2> HIDE DEF y
  <2>1. \A t \in Int : t \in Shift(g6, e) <=> t \in Squares /\ t - e \in g6
    BY <1>10, ShiftIs
  <2>2. ASSUME NEW t \in Shift(g6, e) \cap p PROVE \E j \in 1..6 : Reach(p, m, y, e, j)
    <3>1. t \in Int /\ t \in p /\ t - e \in g6
      BY <1>2, <2>1
    <3>2. PICK i \in 0..5 : t - e = y + i * e /\ W(i)
      BY <1>10, <3>1
    <3>3. i + 1 \in 1..6 /\ (i + 1) - 1 = i /\ i \in Int
      OBVIOUS
    <3>4. t = y + (i + 1) * e
      BY <1>2, <3>1, <3>2, <3>3
    <3> QED
      BY <1>11, <3>1, <3>2, <3>3, <3>4
  <2>3. ASSUME NEW j \in 1..6, Reach(p, m, y, e, j) PROVE y + j * e \in Shift(g6, e) \cap p
    <3>1. j - 1 \in 0..5 /\ (j - 1) + 1 = j /\ j - 1 \in Int
      OBVIOUS
    <3>2. y + j * e \in p /\ y + (j - 1) * e \in g6
      BY <1>10, <1>11, <2>3, <3>1
    <3>3. y + j * e = (y + (j - 1) * e) + e /\ y + (j - 1) * e \in Int
      BY <1>2, <3>1
    <3> QED
      BY <1>2, <2>1, <3>2, <3>3
  <2> QED
    BY <2>2, <2>3
<1>13. ASSUME NEW j \in 1..6, Reach(p, m, y, e, j), NEW i \in 0..5, W(i)
       PROVE  i \in 0..j - 1
  <2>1. y + j * e \notin m
    BY <1>11, <1>13
  <2>2. ~(j <= i)
    BY <1>5, <1>13, <2>1
  <2> QED
    BY <2>2
<1>14. ASSUME NEW j \in 1..6, Reach(p, m, y, e, j), NEW i \in 0..j - 1
       PROVE  i \in 0..5 /\ W(i)
  <2>1. i \in 0..5 /\ i \in Nat /\ j - 1 \in Nat /\ i <= j - 1
    OBVIOUS
  <2> QED
    BY <1>5, <1>11, <1>14, <2>1
<1>15. ASSUME NEW t
       PROVE  t \in FlipAlong(p, m, s, e) <=> \E j \in 1..6 : Reach(p, m, y, e, j) /\ \E i \in 0..j - 1 : t = y + i * e
  <2> HIDE DEF y
  <2>1. t \in FlipAlong(p, m, s, e) <=> (\E j \in 1..6 : Reach(p, m, y, e, j)) /\ \E i \in 0..5 : t = y + i * e /\ W(i)
    BY <1>1, <1>10, <1>12
  <2> QED
    BY <2>1, <1>13, <1>14
<1> QED
  BY <1>15 DEF Trapped

LEMMA FlippedIs ==
  ASSUME NEW b, Disjoint(b), NEW s \in Squares
  PROVE  /\ \A t : t \in flippedDiscs(b, s)
                 <=> \E e \in Slants \cup Uprights : Trapped(b.player, StepMask(b.opponent, e), s, e, t)
         /\ flippedDiscs(b, s) \subseteq b.opponent
         /\ flippedDiscs(b, s) # {} <=> \E e \in Slants \cup Uprights : Flanks(b.player, b.opponent, s, e)
         /\ get_flip(b, s) = flippedDiscs(b, s)
<1> DEFINE p == b.player
           o == b.opponent
           mid == o \cap middleColumns
           all == {FlipAlong(p, mid, s, d) : d \in Slants} \cup {FlipAlong(p, o, s, d) : d \in Uprights}
<1>1. /\ b \in Position /\ p \in SUBSET Squares /\ o \in SUBSET Squares /\ mid \in SUBSET Squares
      /\ p \cap o = {} /\ p \cap mid = {} /\ s \in Int
  BY DEF Disjoint, Position, Squares
<1>2. flippedDiscs(b, s) = UNION {Bracketed(b, s, dir) : dir \in Directions}
  BY DEF flippedDiscs
<1>3. \A t : t \in flippedDiscs(b, s) <=> \E dir \in Directions : t \in Bracketed(b, s, dir)
  BY <1>2
<1>4. \A dir \in Directions : \A t : t \in Bracketed(b, s, dir) <=> Trapped(p, StepMask(o, Offset(dir)), s, Offset(dir), t)
  BY <1>1, BracketedIs
<1>5. get_flip(b, s) = UNION all
  BY DEF get_flip, Slants, Uprights
<1> HIDE DEF p, o
<1>6. \A t : t \in flippedDiscs(b, s) <=> \E e \in Slants \cup Uprights : Trapped(p, StepMask(o, e), s, e, t)
  BY <1>3, <1>4, Steps
<1>7. /\ \A e \in Slants \cup Uprights : StepMask(o, e) \in SUBSET o
      /\ \A e \in Slants \cup Uprights : StepMask(o, e) \in SUBSET Squares /\ e \in Int
  BY <1>1, Steps DEF StepMask
<1>8. \A e \in Slants \cup Uprights :
        /\ \A t : Trapped(p, StepMask(o, e), s, e, t) => t \in StepMask(o, e)
        /\ (\E t : Trapped(p, StepMask(o, e), s, e, t)) <=> Near(p, StepMask(o, e), s + e, e, 6)
  BY <1>1, <1>7, TrappedIsRun
<1>9. flippedDiscs(b, s) \subseteq o
  BY <1>6, <1>7, <1>8
<1>10. flippedDiscs(b, s) # {} <=> \E e \in Slants \cup Uprights : Flanks(p, o, s, e)
  BY <1>6, <1>8 DEF Flanks
<1>11. \A t : t \in UNION all
             <=> (\E d \in Slants : t \in FlipAlong(p, mid, s, d)) \/ \E d \in Uprights : t \in FlipAlong(p, o, s, d)
  OBVIOUS
<1> HIDE DEF mid, all
<1>12. /\ \A d \in Slants : \A t : t \in FlipAlong(p, mid, s, d) <=> Trapped(p, mid, s, d, t)
       /\ \A d \in Uprights : \A t : t \in FlipAlong(p, o, s, d) <=> Trapped(p, o, s, d, t)
  BY <1>1, <1>7, FlipAlongIs
<1>13. \A t : t \in UNION all <=> \E e \in Slants \cup Uprights : Trapped(p, StepMask(o, e), s, e, t)
  <2>1. (\A e \in Slants : StepMask(o, e) = mid) /\ \A e \in Uprights : StepMask(o, e) = o
    BY Steps DEF mid
  <2> QED
    BY <1>11, <1>12, <2>1
<1>14. get_flip(b, s) = flippedDiscs(b, s)
  <2>1. \A t : t \in UNION all <=> t \in flippedDiscs(b, s)
    BY <1>6, <1>13
  <2> HIDE DEF all
  <2> QED
    BY <2>1, <1>5
<1> QED
  BY <1>6, <1>9, <1>10, <1>14 DEF p, o

LEMMA LeastElement ==
  ASSUME NEW S \in SUBSET Nat, S # {}
  PROVE  \E m \in S : \A x \in S : m <= x
<1>1. PICK m \in S : \A y \in S : ~(<<y, m>> \in OpToRel(<, Nat))
  BY NatLessThanWellFounded, WFMin
<1>2. ASSUME NEW x \in S PROVE m <= x
  <2>1. <<x, m>> \notin OpToRel(<, Nat)
    BY <1>1
  <2>2. x \in Nat /\ m \in Nat
    OBVIOUS
  <2> QED
    BY <2>1, <2>2 DEF OpToRel
<1> QED
  BY <1>2

(* The page's walk stops at the first square where the server's loop does. *)
LEMMA WalkIs ==
  ASSUME NEW b, Disjoint(b), NEW s \in Squares, s \notin Discs(b), NEW dir \in Directions
  PROVE  getFlippedPerDirection(b, s, dir[2], dir[1]) = Bracketed(b, s, dir)
<1> DEFINE x(n) == Row(s) + n * dir[2]
           y(n) == Col(s) + n * dir[1]
           current(n) == x(n) * 8 + y(n)
           Inside(n) == x(n) \in 0..7 /\ y(n) \in 0..7
           GoesOn(n) == Inside(n) /\ current(n) \in b.opponent
           FirstStop(n) == ~GoesOn(n) /\ \A i \in 1..n - 1 : GoesOn(i)
           last == CHOOSE n \in 1..8 : FirstStop(n)
           Hit(k) == /\ OnBoard(s, dir, k) /\ Along(s, dir, k) \in b.player
                     /\ \A i \in 1..k - 1 : Along(s, dir, i) \in b.opponent
<1>1. getFlippedPerDirection(b, s, dir[2], dir[1])
      = IF Inside(last) /\ current(last) \in b.player THEN {current(i) : i \in 1..last - 1} ELSE {}
  BY DEF getFlippedPerDirection
<1>2. Bracketed(b, s, dir) = UNION {{Along(s, dir, i) : i \in 1..k - 1} : k \in {k \in 2..7 : Hit(k)}}
  BY DEF Bracketed
<1>3. dir[1] \in -1..1 /\ dir[2] \in -1..1 /\ (dir[1] # 0 \/ dir[2] # 0)
  BY DEF Directions
<1>4. s = 8 * Row(s) + Col(s) /\ Row(s) \in 0..7 /\ Col(s) \in 0..7
  BY Coordinates
<1>5. ASSUME NEW n \in 1..8
      PROVE  /\ current(n) = Along(s, dir, n) /\ (Inside(n) <=> OnBoard(s, dir, n))
             /\ ~Inside(8)
             /\ \A i \in 1..n : Inside(n) => Inside(i)
  <2>1. current(n) = Along(s, dir, n) /\ (Inside(n) <=> OnBoard(s, dir, n))
    <3>1. n * (8 * dir[2] + dir[1]) = 8 * (n * dir[2]) + n * dir[1]
      BY <1>3, DirectionCases
    <3>2. n * dir[2] \in Int /\ n * dir[1] \in Int
      BY <1>3
    <3> QED
      BY <1>4, <3>1, <3>2 DEF Along, OnBoard
  <2>2. ~Inside(8)
    BY <1>3, <1>4
  <2>3. ASSUME NEW i \in 1..n, Inside(n) PROVE Inside(i)
    <3>1. i \in 1..8 /\ n \in Int /\ i \in Int /\ 1 <= i /\ i <= n
      OBVIOUS
    <3>2. Row(s) + i * dir[2] \in 0..7
      <4>1. CASE dir[2] = 1
        BY <1>4, <2>3, <3>1, <4>1
      <4>2. CASE dir[2] = -1
        BY <1>4, <2>3, <3>1, <4>2
      <4>3. CASE dir[2] = 0
        BY <1>4, <2>3, <3>1, <4>3
      <4> QED
        BY <1>3, <4>1, <4>2, <4>3
    <3>3. Col(s) + i * dir[1] \in 0..7
      <4>1. CASE dir[1] = 1
        BY <1>4, <2>3, <3>1, <4>1
      <4>2. CASE dir[1] = -1
        BY <1>4, <2>3, <3>1, <4>2
      <4>3. CASE dir[1] = 0
        BY <1>4, <2>3, <3>1, <4>3
      <4> QED
        BY <1>3, <4>1, <4>2, <4>3
    <3> QED
      BY <3>2, <3>3
  <2> QED
    BY <2>1, <2>2, <2>3
<1> HIDE DEF x, y, current, Inside
<1>6. last \in 1..8 /\ FirstStop(last)
  <2> DEFINE S == {n \in 1..8 : ~GoesOn(n)}
  <2>1. S \in SUBSET Nat /\ 8 \in S
    BY <1>5
  <2> HIDE DEF GoesOn
  <2>2. PICK n \in S : \A m \in S : n <= m
    BY <2>1, LeastElement
  <2>3. ASSUME NEW i \in 1..n - 1 PROVE GoesOn(i)
    BY <2>2, <2>3
  <2>4. n \in 1..8 /\ FirstStop(n)
    BY <2>2, <2>3
  <2> HIDE DEF FirstStop
  <2> QED
    BY <2>4
<1> HIDE DEF last
<1>7. b.player \cap b.opponent = {}
  BY DEF Disjoint
<1>8. ASSUME NEW k \in 2..7, Hit(k) PROVE k = last /\ Inside(last) /\ current(last) \in b.player
  <2>1. Inside(k) /\ current(k) \in b.player /\ \A i \in 1..k - 1 : Inside(i) /\ current(i) \in b.opponent
    BY <1>5, <1>8
  <2>2. ~GoesOn(k) /\ \A i \in 1..k - 1 : GoesOn(i)
    BY <1>7, <2>1
  <2> HIDE DEF GoesOn
  <2>3. ~(k < last) /\ ~(last < k)
    BY <1>6, <2>2
  <2> QED
    BY <1>6, <2>1, <2>3
<1>9. ASSUME Inside(last), current(last) \in b.player, last # 1 PROVE last \in 2..7 /\ Hit(last)
  <2>1. last \in 2..7
    BY <1>5, <1>6, <1>9
  <2>2. \A i \in 1..last - 1 : i \in 1..8 /\ current(i) \in b.opponent
    BY <1>6
  <2> QED
    BY <1>5, <1>9, <2>1, <2>2
<1>10. \A k \in 1..8 : {current(i) : i \in 1..k - 1} = {Along(s, dir, i) : i \in 1..k - 1}
  BY <1>5
<1>11. CASE Inside(last) /\ current(last) \in b.player /\ last # 1
  <2>1. {k \in 2..7 : Hit(k)} = {last}
    BY <1>8, <1>9, <1>11
  <2> HIDE DEF Hit
  <2>2. Bracketed(b, s, dir) = {Along(s, dir, i) : i \in 1..last - 1}
    BY <1>2, <2>1
  <2> QED
    BY <1>1, <1>6, <1>10, <1>11, <2>2
<1>12. CASE ~(Inside(last) /\ current(last) \in b.player /\ last # 1)
  <2>1. {k \in 2..7 : Hit(k)} = {}
    BY <1>8, <1>12
  <2> HIDE DEF Hit
  <2>2. Bracketed(b, s, dir) = {}
    BY <1>2, <2>1
  <2>3. last = 1 => {current(i) : i \in 1..last - 1} = {}
    OBVIOUS
  <2> QED
    BY <1>1, <1>12, <2>2, <2>3
<1> QED
  BY <1>11, <1>12

LEMMA PageFlips ==
  ASSUME NEW b, Disjoint(b), NEW s \in Squares
  PROVE  getFlipped(b, s) = IF s \in Discs(b) THEN {} ELSE flippedDiscs(b, s)
<1>1. CASE s \in Discs(b)
  <2>1. \A dir \in Directions : getFlippedPerDirection(b, s, dir[1], dir[2]) = {}
    BY <1>1 DEF getFlippedPerDirection
  <2> QED
    BY <1>1, <2>1 DEF getFlipped
<1>2. CASE s \notin Discs(b)
  <2>1. \A dir \in Directions : getFlippedPerDirection(b, s, dir[2], dir[1]) = Bracketed(b, s, dir)
    BY <1>2, WalkIs
  <2>2. \A dir \in Directions : /\ <<dir[2], dir[1]>> \in Directions
                               /\ <<dir[2], dir[1]>>[1] = dir[2] /\ <<dir[2], dir[1]>>[2] = dir[1]
    BY DEF Directions
  <2>3. \A dir \in Directions : getFlippedPerDirection(b, s, dir[1], dir[2]) = Bracketed(b, s, <<dir[2], dir[1]>>)
    BY <2>1, <2>2
  <2>4. \A t : t \in getFlipped(b, s) <=> \E dir \in Directions : t \in Bracketed(b, s, <<dir[2], dir[1]>>)
    BY <2>3 DEF getFlipped
  <2>5. \A t : t \in getFlipped(b, s) <=> \E dir \in Directions : t \in Bracketed(b, s, dir)
    <3>1. \A dir \in Directions : \E e \in Directions : <<e[2], e[1]>> = dir
      <4> SUFFICES ASSUME NEW dir \in Directions PROVE <<<<dir[2], dir[1]>>[2], <<dir[2], dir[1]>>[1]>> = dir
        BY <2>2
      <4> QED
        BY DEF Directions
    <3> QED
      BY <2>2, <2>4, <3>1
  <2>6. \A t : t \in flippedDiscs(b, s) <=> \E dir \in Directions : t \in Bracketed(b, s, dir)
    BY DEF flippedDiscs
  <2>7. \A t : t \in getFlipped(b, s) <=> t \in flippedDiscs(b, s)
    BY <2>5, <2>6
  <2>8. getFlipped(b, s) = flippedDiscs(b, s)
    BY <2>7
  <2> QED
    BY <1>2, <2>8
<1> QED
  BY <1>1, <1>2

(* Moves, boards after them and final scores, on every board *)
LEMMA SameMoves ==
  ASSUME NEW b, Disjoint(b)
  PROVE  legalMoves(b) = get_moves(b) /\ legalMoves(b) = getValidMoves(b)
<1>1. legalMoves(b) = {s \in Squares \ Discs(b) : \E e \in Slants \cup Uprights : Flanks(b.player, b.opponent, s, e)}
  BY LegalMovesIs DEF Disjoint
<1>2. ASSUME NEW s \in Squares
      PROVE  s \in legalMoves(b) <=> getFlipped(b, s) # {}
  <2>1. CASE s \in Discs(b)
    BY <1>1, <2>1, PageFlips
  <2>2. CASE s \notin Discs(b)
    BY <1>1, <2>2, FlippedIs, PageFlips
  <2> QED
    BY <2>1, <2>2
<1>3. legalMoves(b) = getValidMoves(b)
  BY <1>1, <1>2 DEF getValidMoves
<1> QED
  BY <1>3, GetMovesIs

LEMMA SameBoards ==
  ASSUME NEW b, Disjoint(b), NEW s \in legalMoves(b)
  PROVE  /\ applyMove(b, s) = play(b, s) /\ applyMove(b, s) = doMove(b, s)
         /\ applyMove(b, s) = [player |-> b.opponent \ flippedDiscs(b, s),
                               opponent |-> b.player \cup flippedDiscs(b, s) \cup {s}]
<1>1. s \in Squares \ Discs(b)
  BY LegalMovesIs DEF Disjoint
<1>2. get_flip(b, s) = flippedDiscs(b, s) /\ getFlipped(b, s) = flippedDiscs(b, s) /\ flippedDiscs(b, s) \subseteq b.opponent
  BY <1>1, FlippedIs, PageFlips
<1>3. b.player \cap b.opponent = {} /\ s \notin b.player /\ s \notin b.opponent
  BY <1>1 DEF Disjoint, Discs
<1> DEFINE f == flippedDiscs(b, s)
<1> HIDE DEF f
<1>4. /\ Xor(b.opponent, f) = b.opponent \ f
      /\ Xor(b.player, f \cup {s}) = b.player \cup f \cup {s}
      /\ b.opponent \ (b.player \cup f \cup {s}) = b.opponent \ f
  BY <1>2, <1>3 DEF Xor, f
<1>5. play(b, s) = [player |-> Xor(b.opponent, f), opponent |-> Xor(b.player, f \cup {s})]
  BY <1>2 DEF play, f
<1>6. applyMove(b, s) = [player |-> b.opponent \ (b.player \cup f \cup {s}), opponent |-> b.player \cup f \cup {s}]
  BY DEF applyMove, f
<1>7. doMove(b, s) = [player |-> b.opponent \ (b.player \cup f \cup {s}), opponent |-> b.player \cup f \cup {s}]
  BY <1>2 DEF doMove, f
<1> QED
  BY <1>4, <1>5, <1>6, <1>7 DEF f

LEMMA DiscCounts ==
  ASSUME NEW b, Disjoint(b)
  PROVE  /\ IsFiniteSet(b.player) /\ IsFiniteSet(b.opponent) /\ IsFiniteSet(Discs(b))
         /\ Cardinality(b.player) \in Nat /\ Cardinality(b.opponent) \in Nat
         /\ Cardinality(Discs(b)) = Cardinality(b.player) + Cardinality(b.opponent)
<1>1. IsFiniteSet(Squares)
  <2>1. 0 \in Int /\ 63 \in Int
    OBVIOUS
  <2> QED
    BY <2>1, FS_Interval DEF Squares
<1>2. b.player \subseteq Squares /\ b.opponent \subseteq Squares /\ b.player \cap b.opponent = {}
  BY DEF Disjoint, Position
<1>3. IsFiniteSet(b.player) /\ IsFiniteSet(b.opponent)
  BY <1>1, <1>2, FS_Subset
<1>4. Cardinality({}) = 0
  BY FS_EmptySet
<1>5. Cardinality(b.player) \in Nat /\ Cardinality(b.opponent) \in Nat
  BY <1>3, FS_CardinalityType
<1>6. Cardinality(b.player \cup b.opponent) = Cardinality(b.player) + Cardinality(b.opponent) - Cardinality(b.player \cap b.opponent)
  BY <1>3, FS_Union
<1>7. IsFiniteSet(b.player \cup b.opponent)
  BY <1>3, FS_Union
<1> QED
  BY <1>2, <1>3, <1>4, <1>5, <1>6, <1>7 DEF Discs

LEMMA SameScores ==
  ASSUME NEW b, Disjoint(b)
  PROVE  FinalScore(b) = final_score(b)
<1> DEFINE P == Cardinality(b.player)
           O == Cardinality(b.opponent)
<1>1. P \in Nat /\ O \in Nat /\ Cardinality(Discs(b)) = P + O
  BY DiscCounts
<1>2. FinalScore(b) = CASE P > O -> 64 - 2 * O [] O > P -> 2 * P - 64 [] OTHER -> 0
  BY DEF FinalScore
<1>3. final_score(b) = LET diff == (2 * P - 64) + (64 - (P + O))
                       IN  IF diff = 0 THEN 0 ELSE IF diff > 0 THEN diff + (64 - (P + O)) ELSE 2 * P - 64
  BY <1>1 DEF final_score
<1> HIDE DEF P, O
<1>4. CASE P > O
  BY <1>1, <1>2, <1>3, <1>4
<1>5. CASE O > P
  BY <1>1, <1>2, <1>3, <1>5
<1>6. CASE O = P
  BY <1>1, <1>2, <1>3, <1>6
<1> QED
  BY <1>1, <1>4, <1>5, <1>6

-----------------------------------------------------------------------------
(* The symmetries of the board: a flip's shifts and masks move every      *)
(* square to its mirror image, and the moves with it.                      *)

Mirrored(s) == 8 * Row(s) + (7 - Col(s))
Upended(s) == 8 * (7 - Row(s)) + Col(s)
Transposed(s) == 8 * Col(s) + Row(s)

(* The square that a swap brings to s *)
Source(s, d, k) == IF s \in k THEN s + d ELSE s - d

LEMMA SwapIs ==
  ASSUME NEW x \in SUBSET Squares, NEW d \in Int, NEW k \in SUBSET Squares,
         \A s \in Squares : s \notin k => s - d \in k,
         \A s \in Squares : s \in k => s - d \notin k
  PROVE  /\ Swap(x, d, k) \in SUBSET Squares
         /\ \A s \in Squares : s \in Swap(x, d, k) <=> Source(s, d, k) \in x
<1>1. -d \in Int /\ x \cap k \in SUBSET Squares /\ \A s \in Squares : s \in Int /\ s - (-d) = s + d
  BY DEF Squares
<1>2. \A s \in Squares : s \in Shift(x, -d) <=> s + d \in x
  BY <1>1, ShiftIs
<1>3. \A s \in Squares : s \in Shift(x \cap k, d) <=> s - d \in x \cap k
  BY <1>1, ShiftIs
<1>4. Swap(x, d, k) \in SUBSET Squares
  BY DEF Swap, Shift
<1> QED
  BY <1>2, <1>3, <1>4 DEF Swap, Source

LEMMA FlipHorizontally ==
  ASSUME NEW x \in SUBSET Squares
  PROVE  /\ flipHorizontally(x) \in SUBSET Squares
         /\ \A s \in Squares : s \in flipHorizontally(x) <=> Mirrored(s) \in x
<1> DEFINE x1 == Swap(x, 1, EvenColumns)
           x2 == Swap(x1, 2, LowColumnsOfFour)
           x3 == Swap(x2, 4, LowColumns)
<1>1. x1 \in SUBSET Squares /\ \A s \in Squares : s \in x1 <=> Source(s, 1, EvenColumns) \in x
  <2>1. /\ EvenColumns \in SUBSET Squares
        /\ \A s \in Squares : s \notin EvenColumns => s - 1 \in EvenColumns
        /\ \A s \in Squares : s \in EvenColumns => s - 1 \notin EvenColumns
    BY DEF EvenColumns, Squares
  <2> QED
    BY <2>1, SwapIs
<1> HIDE DEF x1
<1>2. x2 \in SUBSET Squares /\ \A s \in Squares : s \in x2 <=> Source(s, 2, LowColumnsOfFour) \in x1
  <2>1. /\ LowColumnsOfFour \in SUBSET Squares
        /\ \A s \in Squares : s \notin LowColumnsOfFour => s - 2 \in LowColumnsOfFour
        /\ \A s \in Squares : s \in LowColumnsOfFour => s - 2 \notin LowColumnsOfFour
    BY DEF LowColumnsOfFour, Squares
  <2> QED
    BY <1>1, <2>1, SwapIs
<1> HIDE DEF x2
<1>3. x3 \in SUBSET Squares /\ \A s \in Squares : s \in x3 <=> Source(s, 4, LowColumns) \in x2
  <2>1. /\ LowColumns \in SUBSET Squares
        /\ \A s \in Squares : s \notin LowColumns => s - 4 \in LowColumns
        /\ \A s \in Squares : s \in LowColumns => s - 4 \notin LowColumns
    BY DEF LowColumns, Squares, Col
  <2> QED
    BY <1>2, <2>1, SwapIs
<1> HIDE DEF x3
<1>4. \A s \in Squares : Source(s, 4, LowColumns) \in Squares /\ Source(s, 4, LowColumns) = IF s % 8 < 4 THEN s + 4 ELSE s - 4
  BY DEF Source, LowColumns, Squares, Col
<1>5. \A s \in Squares : Source(s, 2, LowColumnsOfFour) \in Squares /\ Source(s, 2, LowColumnsOfFour) = IF s % 4 < 2 THEN s + 2 ELSE s - 2
  BY DEF Source, LowColumnsOfFour, Squares
<1>6. \A s \in Squares : Source(s, 1, EvenColumns) \in Squares /\ Source(s, 1, EvenColumns) = IF s % 2 = 0 THEN s + 1 ELSE s - 1
  BY DEF Source, EvenColumns, Squares
<1>7. ASSUME NEW s \in Squares
      PROVE  Source(Source(Source(s, 4, LowColumns), 2, LowColumnsOfFour), 1, EvenColumns) = Mirrored(s)
  <2> DEFINE s1 == Source(s, 4, LowColumns)
             s2 == Source(s1, 2, LowColumnsOfFour)
             s3 == Source(s2, 1, EvenColumns)
  <2>1. s1 \in Squares /\ s1 = IF s % 8 < 4 THEN s + 4 ELSE s - 4
    BY <1>4
  <2>2. s2 \in Squares /\ s2 = IF s1 % 4 < 2 THEN s1 + 2 ELSE s1 - 2
    BY <1>5, <2>1
  <2>3. s3 \in Squares /\ s3 = IF s2 % 2 = 0 THEN s2 + 1 ELSE s2 - 1
    BY <1>6, <2>2
  <2> HIDE DEF s1, s2, s3
  <2>4. s3 = 8 * (s \div 8) + (7 - (s % 8))
    BY <2>1, <2>2, <2>3 DEF Squares
  <2> QED
    BY <2>4 DEF s1, s2, s3, Mirrored, Row, Col
<1> QED
  BY <1>1, <1>2, <1>3, <1>4, <1>5, <1>7 DEF flipHorizontally, x1, x2, x3

LEMMA FlipVertically ==
  ASSUME NEW x \in SUBSET Squares
  PROVE  /\ flipVertically(x) \in SUBSET Squares
         /\ \A s \in Squares : s \in flipVertically(x) <=> Upended(s) \in x
<1> DEFINE x1 == Swap(x, 8, EvenRows)
           x2 == Swap(x1, 16, LowRowsOfFour)
           x3 == Shift(x2, -32) \cup Shift(x2, 32)
<1>1. x1 \in SUBSET Squares /\ \A s \in Squares : s \in x1 <=> Source(s, 8, EvenRows) \in x
  <2>1. /\ EvenRows \in SUBSET Squares
        /\ \A s \in Squares : s \notin EvenRows => s - 8 \in EvenRows
        /\ \A s \in Squares : s \in EvenRows => s - 8 \notin EvenRows
    BY DEF EvenRows, Squares, Row
  <2> QED
    BY <2>1, SwapIs
<1> HIDE DEF x1
<1>2. x2 \in SUBSET Squares /\ \A s \in Squares : s \in x2 <=> Source(s, 16, LowRowsOfFour) \in x1
  <2>1. /\ LowRowsOfFour \in SUBSET Squares
        /\ \A s \in Squares : s \notin LowRowsOfFour => s - 16 \in LowRowsOfFour
        /\ \A s \in Squares : s \in LowRowsOfFour => s - 16 \notin LowRowsOfFour
    BY DEF LowRowsOfFour, Squares, Row
  <2> QED
    BY <1>1, <2>1, SwapIs
<1> HIDE DEF x2
<1>3. x3 \in SUBSET Squares /\ \A s \in Squares : s \in x3 <=> (IF s < 32 THEN s + 32 ELSE s - 32) \in x2
  <2>1. -32 \in Int /\ 32 \in Int /\ Squares \subseteq Int
    BY DEF Squares
  <2>2. \A s \in Squares : (s \in Shift(x2, -32) <=> s - (-32) \in x2) /\ (s \in Shift(x2, 32) <=> s - 32 \in x2)
    BY <1>2, <2>1, ShiftIs
  <2>3. \A s \in Squares : s - (-32) = s + 32 /\ (s >= 32 => s + 32 \notin Squares) /\ (s < 32 => s - 32 \notin Squares)
    BY DEF Squares
  <2>4. x3 \in SUBSET Squares
    BY DEF Shift
  <2>5. \A s \in Squares : s < 32 \/ s >= 32
    BY DEF Squares
  <2>6. \A s \in x2 : s \in Squares
    BY <1>2
  <2>7. ASSUME NEW s \in Squares PROVE s \in x3 <=> (IF s < 32 THEN s + 32 ELSE s - 32) \in x2
    <3>1. s \in x3 <=> s + 32 \in x2 \/ s - 32 \in x2
      BY <2>2, <2>3
    <3> HIDE DEF x3
    <3>2. CASE s < 32
      BY <2>3, <2>6, <3>1, <3>2
    <3>3. CASE ~(s < 32)
      BY <2>3, <2>5, <2>6, <3>1, <3>3
    <3> QED
      BY <3>2, <3>3
  <2> QED
    BY <2>4, <2>7
<1> HIDE DEF x3
<1>4. \A s \in Squares : (IF s < 32 THEN s + 32 ELSE s - 32) \in Squares
  BY DEF Squares
<1>5. \A s \in Squares : /\ Source(s, 16, LowRowsOfFour) \in Squares
                       /\ Source(s, 16, LowRowsOfFour) = IF (s \div 8) % 4 < 2 THEN s + 16 ELSE s - 16
  BY DEF Source, LowRowsOfFour, Squares, Row
<1>6. \A s \in Squares : /\ Source(s, 8, EvenRows) \in Squares
                       /\ Source(s, 8, EvenRows) = IF (s \div 8) % 2 = 0 THEN s + 8 ELSE s - 8
  BY DEF Source, EvenRows, Squares, Row
<1>7. ASSUME NEW s \in Squares
      PROVE  Source(Source(IF s < 32 THEN s + 32 ELSE s - 32, 16, LowRowsOfFour), 8, EvenRows) = Upended(s)
  <2> DEFINE s1 == IF s < 32 THEN s + 32 ELSE s - 32
             s2 == Source(s1, 16, LowRowsOfFour)
             s3 == Source(s2, 8, EvenRows)
  <2>1. s1 \in Squares /\ s1 = IF s < 32 THEN s + 32 ELSE s - 32
    BY <1>4
  <2>2. s2 \in Squares /\ s2 = IF (s1 \div 8) % 4 < 2 THEN s1 + 16 ELSE s1 - 16
    BY <1>5, <2>1
  <2>3. s3 \in Squares /\ s3 = IF (s2 \div 8) % 2 = 0 THEN s2 + 8 ELSE s2 - 8
    BY <1>6, <2>2
  <2> HIDE DEF s1, s2, s3
  <2>4. s3 = 8 * (7 - (s \div 8)) + (s % 8)
    BY <2>1, <2>2, <2>3 DEF Squares
  <2> QED
    BY <2>4 DEF s1, s2, s3, Upended, Row, Col
<1> QED
  BY <1>1, <1>2, <1>3, <1>4, <1>5, <1>7 DEF flipVertically, x1, x2, x3

(* The square that a delta swap brings to s *)
Traded(s, d, k) == IF s \in k THEN s - d ELSE IF s + d \in k THEN s + d ELSE s

LEMMA DeltaSwapIs ==
  ASSUME NEW x \in SUBSET Squares, NEW d \in Int, NEW k \in SUBSET Squares,
         \A s \in k : s - d \in Squares /\ s + d \notin k
  PROVE  /\ DeltaSwap(x, d, k) \in SUBSET Squares
         /\ \A s \in Squares : s \in DeltaSwap(x, d, k) <=> Traded(s, d, k) \in x
<1> DEFINE t == k \cap Xor(x, Shift(x, d))
           u == Shift(t, -d)
<1>1. -d \in Int /\ \A s \in Squares : s \in Int /\ s - (-d) = s + d /\ s + d \in Int /\ (s + d) - d = s
  BY DEF Squares
<1>2. \A s \in Int : s \in t <=> s \in k /\ ~(s \in x <=> s - d \in x)
  <2>1. \A s \in Int : s \in Shift(x, d) <=> s \in Squares /\ s - d \in x
    BY ShiftIs
  <2> QED
    BY <2>1 DEF Xor
<1>3. t \in SUBSET Squares
  OBVIOUS
<1> HIDE DEF t
<1>4. \A s \in Squares : s \in u <=> s + d \in t
  BY <1>1, <1>3, ShiftIs
<1>5. u \in SUBSET Squares
  BY DEF Shift
<1> HIDE DEF u
<1>6. DeltaSwap(x, d, k) = Xor(x, Xor(t, u))
  BY DEF DeltaSwap, t, u
<1>7. ASSUME NEW s \in Squares PROVE s \in DeltaSwap(x, d, k) <=> Traded(s, d, k) \in x
  <2>1. s \in DeltaSwap(x, d, k) <=> ~(s \in x <=> ~(s \in t <=> s \in u))
    BY <1>6 DEF Xor
  <2>2. s \in t <=> s \in k /\ ~(s \in x <=> s - d \in x)
    BY <1>1, <1>2
  <2>3. s \in u <=> s + d \in k /\ ~(s + d \in x <=> s \in x)
    BY <1>1, <1>2, <1>4
  <2> QED
    BY <2>1, <2>2, <2>3 DEF Traded
<1> QED
  BY <1>3, <1>5, <1>6, <1>7 DEF Xor

LEMMA FlipDiagonally ==
  ASSUME NEW x \in SUBSET Squares
  PROVE  /\ flipDiagonally(x) \in SUBSET Squares
         /\ \A s \in Squares : s \in flipDiagonally(x) <=> Transposed(s) \in x
<1> DEFINE x1 == DeltaSwap(x, 28, Blocks4)
           x2 == DeltaSwap(x1, 14, Blocks2)
           x3 == DeltaSwap(x2, 7, Blocks1)
<1>0. \A s \in Squares : s \in Int /\ s % 8 \in 0..7 /\ s \div 8 \in 0..7 /\ s % 4 \in 0..3 /\ (s \div 8) % 4 \in 0..3
  BY DEF Squares
<1>1. /\ Blocks4 \in SUBSET Squares
      /\ \A s \in Int : s \in Blocks4 <=> s \in Squares /\ s % 8 < 4 /\ s \div 8 >= 4
  BY <1>0 DEF Blocks4, LowColumns, LowRows, Col, Row
<1>2. /\ Blocks2 \in SUBSET Squares
      /\ \A s \in Int : s \in Blocks2 <=> s \in Squares /\ s % 4 < 2 /\ (s \div 8) % 4 >= 2
  BY <1>0 DEF Blocks2, LowColumnsOfFour, LowRowsOfFour, Row
<1>3. /\ Blocks1 \in SUBSET Squares
      /\ \A s \in Int : s \in Blocks1 <=> s \in Squares /\ s % 2 = 0 /\ (s \div 8) % 2 # 0
  BY <1>0 DEF Blocks1, EvenColumns, EvenRows, Row
<1>4. \A s \in Blocks4 : s - 28 \in Squares /\ s + 28 \notin Blocks4
  BY <1>1 DEF Squares
<1>5. \A s \in Blocks2 : s - 14 \in Squares /\ s + 14 \notin Blocks2
  BY <1>2 DEF Squares
<1>6. \A s \in Blocks1 : s - 7 \in Squares /\ s + 7 \notin Blocks1
  BY <1>3 DEF Squares
<1>7. x1 \in SUBSET Squares /\ \A s \in Squares : s \in x1 <=> Traded(s, 28, Blocks4) \in x
  BY <1>1, <1>4, DeltaSwapIs
<1> HIDE DEF x1
<1>8. x2 \in SUBSET Squares /\ \A s \in Squares : s \in x2 <=> Traded(s, 14, Blocks2) \in x1
  BY <1>2, <1>5, <1>7, DeltaSwapIs
<1> HIDE DEF x2
<1>9. x3 \in SUBSET Squares /\ \A s \in Squares : s \in x3 <=> Traded(s, 7, Blocks1) \in x2
  BY <1>3, <1>6, <1>8, DeltaSwapIs
<1> HIDE DEF x3
<1>10. ASSUME NEW s \in Squares
       PROVE  /\ Traded(s, 7, Blocks1) \in Squares /\ Traded(Traded(s, 7, Blocks1), 14, Blocks2) \in Squares
              /\ Traded(Traded(Traded(s, 7, Blocks1), 14, Blocks2), 28, Blocks4) = Transposed(s)
  <2> DEFINE c == Col(s)
             r == Row(s)
             s1 == Traded(s, 7, Blocks1)
             s2 == Traded(s1, 14, Blocks2)
             s3 == Traded(s2, 28, Blocks4)
  <2>1. s1 \in Squares /\ s1 = IF s \in Blocks1 THEN s - 7 ELSE IF s + 7 \in Blocks1 THEN s + 7 ELSE s
    BY <1>3, <1>6 DEF Traded
  <2>2. s2 \in Squares /\ s2 = IF s1 \in Blocks2 THEN s1 - 14 ELSE IF s1 + 14 \in Blocks2 THEN s1 + 14 ELSE s1
    BY <1>2, <1>5, <2>1 DEF Traded
  <2>3. s3 = IF s2 \in Blocks4 THEN s2 - 28 ELSE IF s2 + 28 \in Blocks4 THEN s2 + 28 ELSE s2
    BY DEF Traded
  <2> HIDE DEF s1, s2, s3
  <2>4. c \in 0..7 /\ r \in 0..7 /\ s = 8 * r + c
    BY Coordinates
  <2> HIDE DEF c, r
  <2>5. \A a, h \in 0..7 : /\ 8 * h + a \in Squares /\ 8 * h + a \in Int
                          /\ (8 * h + a) % 2 = a % 2 /\ (8 * h + a) % 4 = a % 4 /\ (8 * h + a) % 8 = a
                          /\ (8 * h + a) \div 8 = h
    BY DEF Squares
  <2> DEFINE c1 == (c - (c % 2)) + (r % 2)
             r1 == (r - (r % 2)) + (c % 2)
             c2 == (c1 - (c1 % 4)) + ((r1 % 4) - (r1 % 2)) + (c1 % 2)
             r2 == (r1 - (r1 % 4)) + ((c1 % 4) - (c1 % 2)) + (r1 % 2)
  <2>6. c1 \in 0..7 /\ r1 \in 0..7
    BY <2>4
  <2>7. s1 = 8 * r1 + c1
    <3>1. s \in Blocks1 <=> (c % 2) = 0 /\ (r % 2) # 0
      BY <1>3, <2>4, <2>5
    <3>2. s + 7 \in Blocks1 <=> (c % 2) # 0 /\ (r % 2) = 0
      BY <1>3, <2>4 DEF Squares
    <3> QED
      BY <2>1, <2>4, <3>1, <3>2
  <2> HIDE DEF c1, r1
  <2>8. c2 \in 0..7 /\ r2 \in 0..7
    BY <2>6
  <2>9. s2 = 8 * r2 + c2
    <3>1. s1 \in Blocks2 <=> (c1 % 4) < 2 /\ (r1 % 4) >= 2
      BY <1>2, <2>5, <2>6, <2>7
    <3>2. s1 + 14 \in Blocks2 <=> (c1 % 4) >= 2 /\ (r1 % 4) < 2
      BY <1>2, <2>6, <2>7 DEF Squares
    <3> QED
      BY <2>2, <2>6, <2>7, <3>1, <3>2
  <2> HIDE DEF c2, r2
  <2>10. s3 = 8 * ((r2 % 4) + (c2 - (c2 % 4))) + (c2 % 4) + (r2 - (r2 % 4))
    <3>1. s2 \in Blocks4 <=> c2 < 4 /\ r2 >= 4
      BY <1>1, <2>5, <2>8, <2>9
    <3>2. s2 + 28 \in Blocks4 <=> c2 >= 4 /\ r2 < 4
      BY <1>1, <2>8, <2>9 DEF Squares
    <3> QED
      BY <2>3, <2>8, <2>9, <3>1, <3>2
  <2>11. (r2 % 4) + (c2 - (c2 % 4)) = c /\ (c2 % 4) + (r2 - (r2 % 4)) = r
    <3>1. (c1 % 2) = (r % 2) /\ (r1 % 2) = (c % 2) /\ c1 - (c1 % 2) = c - (c % 2) /\ r1 - (r1 % 2) = r - (r % 2)
      BY <2>4 DEF c1, r1
    <3>2. (c1 % 4) = ((c % 4) - (c % 2)) + (r % 2) /\ (r1 % 4) = ((r % 4) - (r % 2)) + (c % 2)
      BY <2>4 DEF c1, r1
    <3>3. c2 = (c - (c % 4)) + (r % 4) /\ r2 = (r - (r % 4)) + (c % 4)
      BY <2>4, <2>6, <3>1, <3>2 DEF c2, r2
    <3> QED
      BY <2>4, <3>3
  <2>12. s3 = 8 * c + r
    BY <2>4, <2>8, <2>10, <2>11
  <2> QED
    BY <2>1, <2>2, <2>12 DEF s1, s2, s3, Transposed, c, r
<1> QED
  BY <1>7, <1>8, <1>9, <1>10 DEF flipDiagonally, x1, x2, x3

-----------------------------------------------------------------------------
(* Moves of an image                                                       *)

(* A disc of p beyond k - 1 discs of o, on the board *)
Hit(p, o, s, dir, k) ==
  /\ OnBoard(s, dir, k) /\ Along(s, dir, k) \in p
  /\ \A i \in 1..k - 1 : Along(s, dir, i) \in o

LEMMA LegalIsHit ==
  ASSUME NEW b, Disjoint(b), NEW s \in Squares
  PROVE  s \in legalMoves(b)
         <=> s \notin Discs(b) /\ \E dir \in Directions : \E k \in 2..7 : Hit(b.player, b.opponent, s, dir, k)
<1> DEFINE p == b.player
           o == b.opponent
<1>1. b \in Position /\ p \in SUBSET Squares /\ o \in SUBSET Squares
  BY DEF Disjoint, Position
<1>2. s \in legalMoves(b) <=> s \notin Discs(b) /\ \E e \in Slants \cup Uprights : Flanks(p, o, s, e)
  BY <1>1, LegalMovesIs
<1>3. (\E e \in Slants \cup Uprights : Flanks(p, o, s, e))
      <=> \E dir \in Directions : Near(p, LineMask(o, dir), s + Offset(dir), Offset(dir), 6)
  BY Steps DEF Flanks
<1>4. ASSUME NEW dir \in Directions
      PROVE  Near(p, LineMask(o, dir), s + Offset(dir), Offset(dir), 6) <=> \E k \in 2..7 : Hit(p, o, s, dir, k)
  <2>1. \A k \in 2..7 : Hit(p, o, s, dir, k) <=> Reach(p, LineMask(o, dir), s + Offset(dir), Offset(dir), k - 1)
    BY <1>1, RayIsRun DEF Hit
  <2>2. \A k \in 2..7 : k - 1 \in 1..6
    OBVIOUS
  <2>3. \A j \in 1..6 : j + 1 \in 2..7 /\ (j + 1) - 1 = j
    OBVIOUS
  <2> QED
    BY <2>1, <2>2, <2>3 DEF Near
<1> QED
  BY <1>2, <1>3, <1>4

(* A map of the squares that takes rays to rays, as another takes the       *)
(* directions                                                              *)
Symmetry(sq, dr) ==
  /\ sq \in [Squares -> Squares] /\ dr \in [Directions -> Directions]
  /\ \A dir \in Directions : dr[dr[dir]] = dir
  /\ \A s \in Squares, dir \in Directions, k \in 1..7 :
       /\ OnBoard(s, dir, k) <=> OnBoard(sq[s], dr[dir], k)
       /\ OnBoard(s, dir, k) => sq[Along(s, dir, k)] = Along(sq[s], dr[dir], k)

(* x is the image of y. *)
ImageOf(sq, x, y) == x \in SUBSET Squares /\ \A s \in Squares : s \in x <=> sq[s] \in y

LEMMA MovesOfImage ==
  ASSUME NEW sq, NEW dr, Symmetry(sq, dr), NEW b, Disjoint(b), NEW c, Disjoint(c),
         ImageOf(sq, c.player, b.player), ImageOf(sq, c.opponent, b.opponent)
  PROVE  ImageOf(sq, legalMoves(c), legalMoves(b))
<1>1. ASSUME NEW s \in Squares, NEW dir \in Directions, NEW k \in 2..7
      PROVE  Hit(c.player, c.opponent, s, dir, k) <=> Hit(b.player, b.opponent, sq[s], dr[dir], k)
  <2>1. k \in 1..7 /\ k \in 0..7 /\ \A i \in 1..k - 1 : i \in 1..7 /\ i \in 0..7
    OBVIOUS
  <2>2. OnBoard(s, dir, k) <=> OnBoard(sq[s], dr[dir], k)
    BY <2>1 DEF Symmetry
  <2>3. ASSUME OnBoard(s, dir, k) PROVE Hit(c.player, c.opponent, s, dir, k) <=> Hit(b.player, b.opponent, sq[s], dr[dir], k)
    <3>1. \A i \in 1..k - 1 : OnBoard(s, dir, i)
      BY <2>3, InnerOnRay
    <3>2. ASSUME NEW i \in 1..7, OnBoard(s, dir, i)
          PROVE  /\ Along(s, dir, i) \in c.player <=> Along(sq[s], dr[dir], i) \in b.player
                 /\ Along(s, dir, i) \in c.opponent <=> Along(sq[s], dr[dir], i) \in b.opponent
      <4>1. i \in 0..7
        OBVIOUS
      <4>2. Along(s, dir, i) \in Squares
        BY <3>2, <4>1, OnBoardAlong
      <4>3. sq[Along(s, dir, i)] = Along(sq[s], dr[dir], i)
        BY <3>2 DEF Symmetry
      <4> QED
        BY <4>2, <4>3 DEF ImageOf
    <3> QED
      BY <2>1, <2>2, <2>3, <3>1, <3>2 DEF Hit
  <2> QED
    BY <2>2, <2>3 DEF Hit
<1>2. ASSUME NEW s \in Squares PROVE s \in legalMoves(c) <=> sq[s] \in legalMoves(b)
  <2>1. sq[s] \in Squares /\ \A dir \in Directions : dr[dir] \in Directions /\ dr[dr[dir]] = dir
    BY DEF Symmetry
  <2>2. s \in Discs(c) <=> sq[s] \in Discs(b)
    BY DEF ImageOf, Discs
  <2>3. (\E dir \in Directions : \E k \in 2..7 : Hit(c.player, c.opponent, s, dir, k))
        <=> \E dir \in Directions : \E k \in 2..7 : Hit(b.player, b.opponent, sq[s], dir, k)
    BY <1>1, <2>1
  <2>4. s \in legalMoves(c) <=> s \notin Discs(c) /\ \E dir \in Directions : \E k \in 2..7 : Hit(c.player, c.opponent, s, dir, k)
    BY LegalIsHit
  <2>5. sq[s] \in legalMoves(b)
        <=> sq[s] \notin Discs(b) /\ \E dir \in Directions : \E k \in 2..7 : Hit(b.player, b.opponent, sq[s], dir, k)
    BY <2>1, LegalIsHit
  <2> QED
    BY <2>2, <2>3, <2>4, <2>5
<1>3. legalMoves(c) \in SUBSET Squares
  BY LegalMovesIs DEF Disjoint
<1> QED
  BY <1>2, <1>3 DEF ImageOf

HorizontalMap == [s \in Squares |-> Mirrored(s)]
VerticalMap == [s \in Squares |-> Upended(s)]
DiagonalMap == [s \in Squares |-> Transposed(s)]

LEMMA MapCoordinates ==
  ASSUME NEW s \in Squares
  PROVE  /\ Mirrored(s) \in Squares /\ Col(Mirrored(s)) = 7 - Col(s) /\ Row(Mirrored(s)) = Row(s)
         /\ Upended(s) \in Squares /\ Col(Upended(s)) = Col(s) /\ Row(Upended(s)) = 7 - Row(s)
         /\ Transposed(s) \in Squares /\ Col(Transposed(s)) = Row(s) /\ Row(Transposed(s)) = Col(s)
<1>1. Col(s) \in 0..7 /\ Row(s) \in 0..7
  BY Coordinates
<1>2. \A a \in 0..7 : 7 - a \in 0..7
  OBVIOUS
<1> QED
  BY <1>1, <1>2, Coordinates DEF Mirrored, Upended, Transposed

LEMMA SameSquare ==
  ASSUME NEW s \in Squares, NEW t \in Squares, Col(s) = Col(t), Row(s) = Row(t)
  PROVE  s = t
  BY Coordinates

(* Directions with the components given exist and are determined by them.  *)
LEMMA DirectionIs ==
  /\ \A dir \in Directions : /\ dir[1] \in {-1, 0, 1} /\ dir[2] \in {-1, 0, 1} /\ ~(dir[1] = 0 /\ dir[2] = 0)
                            /\ dir = <<dir[1], dir[2]>>
  /\ \A x, y \in {-1, 0, 1} : ~(x = 0 /\ y = 0) => <<x, y>> \in Directions
  BY DEF Directions

LEMMA Symmetries ==
  /\ Symmetry(HorizontalMap, [dir \in Directions |-> <<-dir[1], dir[2]>>])
  /\ Symmetry(VerticalMap, [dir \in Directions |-> <<dir[1], -dir[2]>>])
  /\ Symmetry(DiagonalMap, [dir \in Directions |-> <<dir[2], dir[1]>>])
<1>1. ASSUME NEW sq, sq \in [Squares -> Squares], NEW dr, dr \in [Directions -> Directions],
             \A dir \in Directions : dr[dr[dir]] = dir,
             \A s \in Squares, dir \in Directions, k \in 1..7 :
               /\ OnBoard(s, dir, k) <=> OnBoard(sq[s], dr[dir], k)
               /\ \A t \in Squares : Col(t) = Col(s) + k * dir[1] /\ Row(t) = Row(s) + k * dir[2]
                    => Col(sq[t]) = Col(sq[s]) + k * dr[dir][1] /\ Row(sq[t]) = Row(sq[s]) + k * dr[dir][2]
      PROVE  Symmetry(sq, dr)
  <2>1. ASSUME NEW s \in Squares, NEW dir \in Directions, NEW k \in 1..7, OnBoard(s, dir, k)
        PROVE  sq[Along(s, dir, k)] = Along(sq[s], dr[dir], k)
    <3> DEFINE t == Along(s, dir, k)
               u == Along(sq[s], dr[dir], k)
    <3>1. k \in 0..7 /\ sq[s] \in Squares /\ dr[dir] \in Directions /\ OnBoard(sq[s], dr[dir], k)
      BY <1>1, <2>1
    <3>2. t \in Squares /\ Col(t) = Col(s) + k * dir[1] /\ Row(t) = Row(s) + k * dir[2]
      BY <2>1, <3>1, OnBoardAlong
    <3>3. u \in Squares /\ Col(u) = Col(sq[s]) + k * dr[dir][1] /\ Row(u) = Row(sq[s]) + k * dr[dir][2]
      BY <3>1, OnBoardAlong
    <3> HIDE DEF t, u
    <3>4. sq[t] \in Squares /\ Col(sq[t]) = Col(u) /\ Row(sq[t]) = Row(u)
      BY <1>1, <3>2, <3>3
    <3>5. sq[t] = u
      BY <3>3, <3>4, SameSquare
    <3> QED
      BY <3>5 DEF t, u
  <2> QED
    BY <1>1, <2>1 DEF Symmetry
<1>2. Symmetry(HorizontalMap, [dir \in Directions |-> <<-dir[1], dir[2]>>])
  <2> DEFINE dr == [dir \in Directions |-> <<-dir[1], dir[2]>>]
  <2>1. HorizontalMap \in [Squares -> Squares] /\ \A s \in Squares : HorizontalMap[s] = Mirrored(s)
    BY MapCoordinates DEF HorizontalMap
  <2>2. \A dir \in Directions : dr[dir] = <<-dir[1], dir[2]>> /\ dr[dir] \in Directions /\ dr[dir][1] = -dir[1] /\ dr[dir][2] = dir[2]
    BY DirectionIs
  <2>3. dr \in [Directions -> Directions]
    BY <2>2
  <2> HIDE DEF dr
  <2>4. ASSUME NEW dir \in Directions PROVE dr[dr[dir]] = dir
    <3>1. dr[dr[dir]] = <<-dr[dir][1], dr[dir][2]>>
      BY <2>2
    <3> QED
      BY <2>2, <3>1, DirectionIs
  <2>5. ASSUME NEW s \in Squares, NEW dir \in Directions, NEW k \in 1..7
        PROVE  /\ OnBoard(s, dir, k) <=> OnBoard(HorizontalMap[s], dr[dir], k)
               /\ \A t \in Squares : Col(t) = Col(s) + k * dir[1] /\ Row(t) = Row(s) + k * dir[2]
                    => /\ Col(HorizontalMap[t]) = Col(HorizontalMap[s]) + k * dr[dir][1]
                       /\ Row(HorizontalMap[t]) = Row(HorizontalMap[s]) + k * dr[dir][2]
    <3>1. \A t \in Squares : Col(HorizontalMap[t]) = 7 - Col(t) /\ Row(HorizontalMap[t]) = Row(t) /\ Col(t) \in 0..7 /\ Row(t) \in 0..7
      BY <2>1, MapCoordinates, Coordinates
    <3>2. dir[1] \in Int /\ dir[2] \in Int /\ k * (-dir[1]) = -(k * dir[1]) /\ k * dir[1] \in Int /\ k * dir[2] \in Int
      BY DirectionIs
    <3> DEFINE a == Col(s)
               x == k * dir[1]
    <3>3. a \in 0..7 /\ x \in Int /\ (a + x \in 0..7 <=> (7 - a) + (-x) \in 0..7) /\ 7 - (a + x) = (7 - a) + (-x)
      <4>1. a \in 0..7 /\ x \in Int
        BY <3>1, <3>2
      <4> HIDE DEF a, x
      <4> QED
        BY <4>1
    <3>4. Col(HorizontalMap[s]) + k * dr[dir][1] = (7 - a) + (-x) /\ Row(HorizontalMap[s]) + k * dr[dir][2] = Row(s) + k * dir[2]
      BY <2>2, <3>1, <3>2
    <3>5. OnBoard(s, dir, k) <=> OnBoard(HorizontalMap[s], dr[dir], k)
      BY <3>3, <3>4 DEF OnBoard
    <3>6. ASSUME NEW t \in Squares, Col(t) = a + x, Row(t) = Row(s) + k * dir[2]
          PROVE  Col(HorizontalMap[t]) = (7 - a) + (-x) /\ Row(HorizontalMap[t]) = Row(s) + k * dir[2]
      BY <3>1, <3>3, <3>6
    <3> QED
      BY <3>4, <3>5, <3>6
  <2>6. Symmetry(HorizontalMap, dr)
    BY <1>1, <2>1, <2>3, <2>4, <2>5
  <2> QED
    BY <2>6 DEF dr
<1>3. Symmetry(VerticalMap, [dir \in Directions |-> <<dir[1], -dir[2]>>])
  <2> DEFINE dr == [dir \in Directions |-> <<dir[1], -dir[2]>>]
  <2>1. VerticalMap \in [Squares -> Squares] /\ \A s \in Squares : VerticalMap[s] = Upended(s)
    BY MapCoordinates DEF VerticalMap
  <2>2. \A dir \in Directions : dr[dir] = <<dir[1], -dir[2]>> /\ dr[dir] \in Directions /\ dr[dir][1] = dir[1] /\ dr[dir][2] = -dir[2]
    BY DirectionIs
  <2>3. dr \in [Directions -> Directions]
    BY <2>2
  <2> HIDE DEF dr
  <2>4. ASSUME NEW dir \in Directions PROVE dr[dr[dir]] = dir
    <3>1. dr[dr[dir]] = <<dr[dir][1], -dr[dir][2]>>
      BY <2>2
    <3> QED
      BY <2>2, <3>1, DirectionIs
  <2>5. ASSUME NEW s \in Squares, NEW dir \in Directions, NEW k \in 1..7
        PROVE  /\ OnBoard(s, dir, k) <=> OnBoard(VerticalMap[s], dr[dir], k)
               /\ \A t \in Squares : Col(t) = Col(s) + k * dir[1] /\ Row(t) = Row(s) + k * dir[2]
                    => /\ Col(VerticalMap[t]) = Col(VerticalMap[s]) + k * dr[dir][1]
                       /\ Row(VerticalMap[t]) = Row(VerticalMap[s]) + k * dr[dir][2]
    <3>1. \A t \in Squares : Col(VerticalMap[t]) = Col(t) /\ Row(VerticalMap[t]) = 7 - Row(t) /\ Col(t) \in 0..7 /\ Row(t) \in 0..7
      BY <2>1, MapCoordinates, Coordinates
    <3>2. dir[1] \in Int /\ dir[2] \in Int /\ k * (-dir[2]) = -(k * dir[2]) /\ k * dir[1] \in Int /\ k * dir[2] \in Int
      BY DirectionIs
    <3> DEFINE a == Row(s)
               x == k * dir[2]
    <3>3. a \in 0..7 /\ x \in Int /\ (a + x \in 0..7 <=> (7 - a) + (-x) \in 0..7) /\ 7 - (a + x) = (7 - a) + (-x)
      <4>1. a \in 0..7 /\ x \in Int
        BY <3>1, <3>2
      <4> HIDE DEF a, x
      <4> QED
        BY <4>1
    <3>4. Row(VerticalMap[s]) + k * dr[dir][2] = (7 - a) + (-x) /\ Col(VerticalMap[s]) + k * dr[dir][1] = Col(s) + k * dir[1]
      BY <2>2, <3>1, <3>2
    <3>5. OnBoard(s, dir, k) <=> OnBoard(VerticalMap[s], dr[dir], k)
      BY <3>3, <3>4 DEF OnBoard
    <3>6. ASSUME NEW t \in Squares, Row(t) = a + x, Col(t) = Col(s) + k * dir[1]
          PROVE  Row(VerticalMap[t]) = (7 - a) + (-x) /\ Col(VerticalMap[t]) = Col(s) + k * dir[1]
      BY <3>1, <3>3, <3>6
    <3> QED
      BY <3>4, <3>5, <3>6
  <2>6. Symmetry(VerticalMap, dr)
    BY <1>1, <2>1, <2>3, <2>4, <2>5
  <2> QED
    BY <2>6 DEF dr
<1>4. Symmetry(DiagonalMap, [dir \in Directions |-> <<dir[2], dir[1]>>])
  <2> DEFINE dr == [dir \in Directions |-> <<dir[2], dir[1]>>]
  <2>1. DiagonalMap \in [Squares -> Squares] /\ \A s \in Squares : DiagonalMap[s] = Transposed(s)
    BY MapCoordinates DEF DiagonalMap
  <2>2. \A dir \in Directions : dr[dir] = <<dir[2], dir[1]>> /\ dr[dir] \in Directions /\ dr[dir][1] = dir[2] /\ dr[dir][2] = dir[1]
    BY DirectionIs
  <2>3. dr \in [Directions -> Directions]
    BY <2>2
  <2> HIDE DEF dr
  <2>4. ASSUME NEW dir \in Directions PROVE dr[dr[dir]] = dir
    <3>1. dr[dr[dir]] = <<dr[dir][2], dr[dir][1]>>
      BY <2>2
    <3> QED
      BY <2>2, <3>1, DirectionIs
  <2>5. ASSUME NEW s \in Squares, NEW dir \in Directions, NEW k \in 1..7
        PROVE  /\ OnBoard(s, dir, k) <=> OnBoard(DiagonalMap[s], dr[dir], k)
               /\ \A t \in Squares : Col(t) = Col(s) + k * dir[1] /\ Row(t) = Row(s) + k * dir[2]
                    => /\ Col(DiagonalMap[t]) = Col(DiagonalMap[s]) + k * dr[dir][1]
                       /\ Row(DiagonalMap[t]) = Row(DiagonalMap[s]) + k * dr[dir][2]
    <3>1. \A t \in Squares : Col(DiagonalMap[t]) = Row(t) /\ Row(DiagonalMap[t]) = Col(t)
      BY <2>1, MapCoordinates
    <3> QED
      BY <2>2, <3>1 DEF OnBoard
  <2>6. Symmetry(DiagonalMap, dr)
    BY <1>1, <2>1, <2>3, <2>4, <2>5
  <2> QED
    BY <2>6 DEF dr
<1> QED
  BY <1>2, <1>3, <1>4

-----------------------------------------------------------------------------
(* The eight rotations are the group that the three flips generate.        *)

LEMMA FlipImages ==
  ASSUME NEW x \in SUBSET Squares
  PROVE  /\ ImageOf(HorizontalMap, flipHorizontally(x), x)
         /\ ImageOf(VerticalMap, flipVertically(x), x)
         /\ ImageOf(DiagonalMap, flipDiagonally(x), x)
  BY FlipHorizontally, FlipVertically, FlipDiagonally DEF ImageOf, HorizontalMap, VerticalMap, DiagonalMap

LEMMA FlipRelations ==
  ASSUME NEW x \in SUBSET Squares
  PROVE  /\ flipHorizontally(x) \in SUBSET Squares /\ flipVertically(x) \in SUBSET Squares
         /\ flipDiagonally(x) \in SUBSET Squares
         /\ flipHorizontally(flipHorizontally(x)) = x /\ flipVertically(flipVertically(x)) = x
         /\ flipDiagonally(flipDiagonally(x)) = x
         /\ flipHorizontally(flipVertically(x)) = flipVertically(flipHorizontally(x))
         /\ flipHorizontally(flipDiagonally(x)) = flipDiagonally(flipVertically(x))
         /\ flipVertically(flipDiagonally(x)) = flipDiagonally(flipHorizontally(x))
<1>1. \A y \in SUBSET Squares :
        /\ flipHorizontally(y) \in SUBSET Squares /\ \A s \in Squares : s \in flipHorizontally(y) <=> Mirrored(s) \in y
        /\ flipVertically(y) \in SUBSET Squares /\ \A s \in Squares : s \in flipVertically(y) <=> Upended(s) \in y
        /\ flipDiagonally(y) \in SUBSET Squares /\ \A s \in Squares : s \in flipDiagonally(y) <=> Transposed(s) \in y
  BY FlipHorizontally, FlipVertically, FlipDiagonally
<1>2. \A s \in Squares : Mirrored(s) \in Squares /\ Upended(s) \in Squares /\ Transposed(s) \in Squares
  BY MapCoordinates
<1>3. \A s \in Squares : 7 - (7 - Col(s)) = Col(s) /\ 7 - (7 - Row(s)) = Row(s)
  <2>1. \A s \in Squares : Col(s) \in 0..7 /\ Row(s) \in 0..7
    BY Coordinates
  <2>2. \A a \in 0..7 : 7 - (7 - a) = a
    OBVIOUS
  <2> QED
    BY <2>1, <2>2
<1>4. ASSUME NEW s \in Squares
      PROVE  /\ Mirrored(Mirrored(s)) = s /\ Upended(Upended(s)) = s /\ Transposed(Transposed(s)) = s
             /\ Upended(Mirrored(s)) = Mirrored(Upended(s))
             /\ Transposed(Mirrored(s)) = Upended(Transposed(s))
             /\ Transposed(Upended(s)) = Mirrored(Transposed(s))
  <2>1. Mirrored(Mirrored(s)) = s
    BY <1>2, <1>3, MapCoordinates, SameSquare
  <2>2. Upended(Upended(s)) = s
    BY <1>2, <1>3, MapCoordinates, SameSquare
  <2>3. Transposed(Transposed(s)) = s
    BY <1>2, MapCoordinates, SameSquare
  <2>4. Upended(Mirrored(s)) = Mirrored(Upended(s))
    BY <1>2, MapCoordinates, SameSquare
  <2>5. Transposed(Mirrored(s)) = Upended(Transposed(s))
    BY <1>2, MapCoordinates, SameSquare
  <2>6. Transposed(Upended(s)) = Mirrored(Transposed(s))
    BY <1>2, MapCoordinates, SameSquare
  <2> QED
    BY <2>1, <2>2, <2>3, <2>4, <2>5, <2>6
<1>5. \A y, z \in SUBSET Squares : (\A s \in Squares : s \in y <=> s \in z) => y = z
  OBVIOUS
<1>6. flipHorizontally(flipHorizontally(x)) = x
  <2>1. \A s \in Squares : s \in flipHorizontally(flipHorizontally(x)) <=> s \in x
    BY <1>1, <1>2, <1>4
  <2> QED
    BY <1>1, <1>5, <2>1
<1>7. flipVertically(flipVertically(x)) = x
  <2>1. \A s \in Squares : s \in flipVertically(flipVertically(x)) <=> s \in x
    BY <1>1, <1>2, <1>4
  <2> QED
    BY <1>1, <1>5, <2>1
<1>8. flipDiagonally(flipDiagonally(x)) = x
  <2>1. \A s \in Squares : s \in flipDiagonally(flipDiagonally(x)) <=> s \in x
    BY <1>1, <1>2, <1>4
  <2> QED
    BY <1>1, <1>5, <2>1
<1>9. flipHorizontally(flipVertically(x)) = flipVertically(flipHorizontally(x))
  <2>1. \A s \in Squares : s \in flipHorizontally(flipVertically(x)) <=> s \in flipVertically(flipHorizontally(x))
    BY <1>1, <1>2, <1>4
  <2>2. flipHorizontally(flipVertically(x)) \in SUBSET Squares /\ flipVertically(flipHorizontally(x)) \in SUBSET Squares
    BY <1>1
  <2> QED
    BY <1>5, <2>1, <2>2
<1>10. flipHorizontally(flipDiagonally(x)) = flipDiagonally(flipVertically(x))
  <2>1. \A s \in Squares : s \in flipHorizontally(flipDiagonally(x)) <=> s \in flipDiagonally(flipVertically(x))
    BY <1>1, <1>2, <1>4
  <2>2. flipHorizontally(flipDiagonally(x)) \in SUBSET Squares /\ flipDiagonally(flipVertically(x)) \in SUBSET Squares
    BY <1>1
  <2> QED
    BY <1>5, <2>1, <2>2
<1>11. flipVertically(flipDiagonally(x)) = flipDiagonally(flipHorizontally(x))
  <2>1. \A s \in Squares : s \in flipVertically(flipDiagonally(x)) <=> s \in flipDiagonally(flipHorizontally(x))
    BY <1>1, <1>2, <1>4
  <2>2. flipVertically(flipDiagonally(x)) \in SUBSET Squares /\ flipDiagonally(flipHorizontally(x)) \in SUBSET Squares
    BY <1>1
  <2> QED
    BY <1>5, <2>1, <2>2
<1> QED
  BY <1>1, <1>6, <1>7, <1>8, <1>9, <1>10, <1>11

LEMMA RotateCases ==
  ASSUME NEW x
  PROVE  /\ rotateBits(x, 0) = x
         /\ rotateBits(x, 1) = flipHorizontally(x)
         /\ rotateBits(x, 2) = flipVertically(x)
         /\ rotateBits(x, 3) = flipVertically(flipHorizontally(x))
         /\ rotateBits(x, 4) = flipDiagonally(x)
         /\ rotateBits(x, 5) = flipDiagonally(flipHorizontally(x))
         /\ rotateBits(x, 6) = flipDiagonally(flipVertically(x))
         /\ rotateBits(x, 7) = flipDiagonally(flipVertically(flipHorizontally(x)))
  BY DEF rotateBits

(* Which rotation a flip makes of each                                     *)
LEMMA FlipRotated ==
  /\ \A r \in Rotations : \E u \in Rotations : \A x \in SUBSET Squares : flipHorizontally(rotateBits(x, r)) = rotateBits(x, u)
  /\ \A r \in Rotations : \E u \in Rotations : \A x \in SUBSET Squares : flipVertically(rotateBits(x, r)) = rotateBits(x, u)
  /\ \A r \in Rotations : \E u \in Rotations : \A x \in SUBSET Squares : flipDiagonally(rotateBits(x, r)) = rotateBits(x, u)
<1>1. \A r \in Rotations : r \in {0, 1, 2, 3, 4, 5, 6, 7}
  BY DEF Rotations
<1>2. \A r \in {0, 1, 2, 3, 4, 5, 6, 7} : r \in Rotations
  BY DEF Rotations
<1>3. ASSUME NEW x \in SUBSET Squares
      PROVE  /\ flipHorizontally(rotateBits(x, 0)) = rotateBits(x, 1) /\ flipHorizontally(rotateBits(x, 1)) = rotateBits(x, 0)
             /\ flipHorizontally(rotateBits(x, 2)) = rotateBits(x, 3) /\ flipHorizontally(rotateBits(x, 3)) = rotateBits(x, 2)
             /\ flipHorizontally(rotateBits(x, 4)) = rotateBits(x, 6) /\ flipHorizontally(rotateBits(x, 5)) = rotateBits(x, 7)
             /\ flipHorizontally(rotateBits(x, 6)) = rotateBits(x, 4) /\ flipHorizontally(rotateBits(x, 7)) = rotateBits(x, 5)
  BY RotateCases, FlipRelations
<1>4. ASSUME NEW x \in SUBSET Squares
      PROVE  /\ flipVertically(rotateBits(x, 0)) = rotateBits(x, 2) /\ flipVertically(rotateBits(x, 1)) = rotateBits(x, 3)
             /\ flipVertically(rotateBits(x, 2)) = rotateBits(x, 0) /\ flipVertically(rotateBits(x, 3)) = rotateBits(x, 1)
             /\ flipVertically(rotateBits(x, 4)) = rotateBits(x, 5) /\ flipVertically(rotateBits(x, 5)) = rotateBits(x, 4)
             /\ flipVertically(rotateBits(x, 6)) = rotateBits(x, 7) /\ flipVertically(rotateBits(x, 7)) = rotateBits(x, 6)
  BY RotateCases, FlipRelations
<1>5. ASSUME NEW x \in SUBSET Squares
      PROVE  /\ flipDiagonally(rotateBits(x, 0)) = rotateBits(x, 4) /\ flipDiagonally(rotateBits(x, 1)) = rotateBits(x, 5)
             /\ flipDiagonally(rotateBits(x, 2)) = rotateBits(x, 6) /\ flipDiagonally(rotateBits(x, 3)) = rotateBits(x, 7)
             /\ flipDiagonally(rotateBits(x, 4)) = rotateBits(x, 0) /\ flipDiagonally(rotateBits(x, 5)) = rotateBits(x, 1)
             /\ flipDiagonally(rotateBits(x, 6)) = rotateBits(x, 2) /\ flipDiagonally(rotateBits(x, 7)) = rotateBits(x, 3)
  BY RotateCases, FlipRelations
<1>6. \A r \in Rotations : \E u \in Rotations : \A x \in SUBSET Squares : flipHorizontally(rotateBits(x, r)) = rotateBits(x, u)
  BY <1>1, <1>2, <1>3
<1>7. \A r \in Rotations : \E u \in Rotations : \A x \in SUBSET Squares : flipVertically(rotateBits(x, r)) = rotateBits(x, u)
  BY <1>1, <1>2, <1>4
<1>8. \A r \in Rotations : \E u \in Rotations : \A x \in SUBSET Squares : flipDiagonally(rotateBits(x, r)) = rotateBits(x, u)
  BY <1>1, <1>2, <1>5
<1> QED
  BY <1>6, <1>7, <1>8

LEMMA RotateTwice ==
  ASSUME NEW r \in Rotations, NEW q \in Rotations
  PROVE  \E u \in Rotations : \A x \in SUBSET Squares : rotateBits(rotateBits(x, r), q) = rotateBits(x, u)
<1>1. PICK h \in Rotations : \A x \in SUBSET Squares : flipHorizontally(rotateBits(x, r)) = rotateBits(x, h)
  BY FlipRotated
<1>2. PICK v \in Rotations : \A x \in SUBSET Squares : flipVertically(rotateBits(x, r)) = rotateBits(x, v)
  BY FlipRotated
<1>3. PICK hv \in Rotations : \A x \in SUBSET Squares : flipVertically(rotateBits(x, h)) = rotateBits(x, hv)
  BY FlipRotated
<1>4. \A w \in {r, h, v, hv} : \E u \in Rotations : \A x \in SUBSET Squares : flipDiagonally(rotateBits(x, w)) = rotateBits(x, u)
  BY FlipRotated
<1>5. q \in {0, 1, 2, 3, 4, 5, 6, 7}
  BY DEF Rotations
<1>6. CASE q \in {0, 1, 2, 3}
  BY <1>1, <1>2, <1>3, <1>6, RotateCases
<1>7. CASE q = 4
  BY <1>4, <1>7, RotateCases
<1>8. CASE q = 5
  BY <1>1, <1>4, <1>8, RotateCases
<1>9. CASE q = 6
  BY <1>2, <1>4, <1>9, RotateCases
<1>10. CASE q = 7
  BY <1>1, <1>3, <1>4, <1>10, RotateCases
<1> QED
  BY <1>5, <1>6, <1>7, <1>8, <1>9, <1>10

LEMMA RotateBack ==
  ASSUME NEW r \in Rotations
  PROVE  \E q \in Rotations : \A x \in SUBSET Squares : rotateBits(rotateBits(x, r), q) = x
<1>1. r \in {0, 1, 2, 3, 4, 5, 6, 7} /\ {0, 1, 2, 3, 4, 5, 6, 7} \subseteq Rotations
  BY DEF Rotations
<1>2. ASSUME NEW x \in SUBSET Squares
      PROVE  /\ rotateBits(rotateBits(x, 0), 0) = x /\ rotateBits(rotateBits(x, 1), 1) = x
             /\ rotateBits(rotateBits(x, 2), 2) = x /\ rotateBits(rotateBits(x, 3), 3) = x
             /\ rotateBits(rotateBits(x, 4), 4) = x /\ rotateBits(rotateBits(x, 5), 6) = x
             /\ rotateBits(rotateBits(x, 6), 5) = x /\ rotateBits(rotateBits(x, 7), 7) = x
  BY RotateCases, FlipRelations
<1> QED
  BY <1>1, <1>2

LEMMA RotatedIs ==
  ASSUME NEW b, Disjoint(b), NEW r \in Rotations
  PROVE  Disjoint(Rotated(b, r)) /\ legalMoves(Rotated(b, r)) = rotateBits(legalMoves(b), r)
<1> DEFINE H(c) == [player |-> flipHorizontally(c.player), opponent |-> flipHorizontally(c.opponent)]
           V(c) == [player |-> flipVertically(c.player), opponent |-> flipVertically(c.opponent)]
           D(c) == [player |-> flipDiagonally(c.player), opponent |-> flipDiagonally(c.opponent)]
<1>1. ASSUME NEW sq, NEW dr, Symmetry(sq, dr), NEW c, Disjoint(c), NEW d,
             d = [player |-> d.player, opponent |-> d.opponent],
             ImageOf(sq, d.player, c.player), ImageOf(sq, d.opponent, c.opponent),
             NEW y, ImageOf(sq, y, legalMoves(c))
      PROVE  Disjoint(d) /\ legalMoves(d) = y
  <2>1. Disjoint(d)
    BY <1>1 DEF Disjoint, Position, ImageOf, Symmetry
  <2>2. ImageOf(sq, legalMoves(d), legalMoves(c))
    BY <1>1, <2>1, MovesOfImage
  <2> QED
    BY <1>1, <2>1, <2>2 DEF ImageOf
<1>2. ASSUME NEW c, Disjoint(c)
      PROVE  /\ Disjoint(H(c)) /\ legalMoves(H(c)) = flipHorizontally(legalMoves(c))
             /\ Disjoint(V(c)) /\ legalMoves(V(c)) = flipVertically(legalMoves(c))
             /\ Disjoint(D(c)) /\ legalMoves(D(c)) = flipDiagonally(legalMoves(c))
  <2>1. c.player \in SUBSET Squares /\ c.opponent \in SUBSET Squares /\ legalMoves(c) \in SUBSET Squares
    BY <1>2, LegalMovesIs DEF Disjoint, Position
  <2>2. /\ H(c).player = flipHorizontally(c.player) /\ H(c).opponent = flipHorizontally(c.opponent)
        /\ V(c).player = flipVertically(c.player) /\ V(c).opponent = flipVertically(c.opponent)
        /\ D(c).player = flipDiagonally(c.player) /\ D(c).opponent = flipDiagonally(c.opponent)
    OBVIOUS
  <2>3. /\ H(c) = [player |-> H(c).player, opponent |-> H(c).opponent]
        /\ V(c) = [player |-> V(c).player, opponent |-> V(c).opponent]
        /\ D(c) = [player |-> D(c).player, opponent |-> D(c).opponent]
    OBVIOUS
  <2> HIDE DEF H, V, D
  <2>4. Disjoint(H(c)) /\ legalMoves(H(c)) = flipHorizontally(legalMoves(c))
    <3>1. PICK dr : Symmetry(HorizontalMap, dr)
      BY Symmetries
    <3>2. /\ ImageOf(HorizontalMap, H(c).player, c.player) /\ ImageOf(HorizontalMap, H(c).opponent, c.opponent)
          /\ ImageOf(HorizontalMap, flipHorizontally(legalMoves(c)), legalMoves(c))
      BY <2>1, <2>2, FlipImages
    <3> QED
      BY <1>1, <1>2, <2>3, <3>1, <3>2
  <2>5. Disjoint(V(c)) /\ legalMoves(V(c)) = flipVertically(legalMoves(c))
    <3>1. PICK dr : Symmetry(VerticalMap, dr)
      BY Symmetries
    <3>2. /\ ImageOf(VerticalMap, V(c).player, c.player) /\ ImageOf(VerticalMap, V(c).opponent, c.opponent)
          /\ ImageOf(VerticalMap, flipVertically(legalMoves(c)), legalMoves(c))
      BY <2>1, <2>2, FlipImages
    <3> QED
      BY <1>1, <1>2, <2>3, <3>1, <3>2
  <2>6. Disjoint(D(c)) /\ legalMoves(D(c)) = flipDiagonally(legalMoves(c))
    <3>1. PICK dr : Symmetry(DiagonalMap, dr)
      BY Symmetries
    <3>2. /\ ImageOf(DiagonalMap, D(c).player, c.player) /\ ImageOf(DiagonalMap, D(c).opponent, c.opponent)
          /\ ImageOf(DiagonalMap, flipDiagonally(legalMoves(c)), legalMoves(c))
      BY <2>1, <2>2, FlipImages
    <3> QED
      BY <1>1, <1>2, <2>3, <3>1, <3>2
  <2> QED
    BY <2>4, <2>5, <2>6
<1>3. r \in {0, 1, 2, 3, 4, 5, 6, 7}
  BY DEF Rotations
<1>4. b = [player |-> b.player, opponent |-> b.opponent]
  BY DEF Disjoint, Position
<1>5. /\ Rotated(b, 0) = b /\ Rotated(b, 1) = H(b) /\ Rotated(b, 2) = V(b) /\ Rotated(b, 3) = V(H(b))
      /\ Rotated(b, 4) = D(b) /\ Rotated(b, 5) = D(H(b)) /\ Rotated(b, 6) = D(V(b)) /\ Rotated(b, 7) = D(V(H(b)))
  BY <1>4, RotateCases DEF Rotated
<1> HIDE DEF H, V, D
<1>6. Disjoint(b)
  OBVIOUS
<1>7. Disjoint(H(b)) /\ legalMoves(H(b)) = flipHorizontally(legalMoves(b))
  BY <1>2, <1>6
<1>8. Disjoint(V(b)) /\ legalMoves(V(b)) = flipVertically(legalMoves(b))
  BY <1>2, <1>6
<1>9. Disjoint(V(H(b))) /\ legalMoves(V(H(b))) = flipVertically(flipHorizontally(legalMoves(b)))
  BY <1>2, <1>7
<1>10. CASE r = 0
  BY <1>5, <1>6, <1>10, RotateCases
<1>11. CASE r = 1
  BY <1>5, <1>7, <1>11, RotateCases
<1>12. CASE r = 2
  BY <1>5, <1>8, <1>12, RotateCases
<1>13. CASE r = 3
  BY <1>5, <1>9, <1>13, RotateCases
<1>14. CASE r = 4
  BY <1>5, <1>2, <1>6, <1>14, RotateCases
<1>15. CASE r = 5
  BY <1>5, <1>2, <1>7, <1>15, RotateCases
<1>16. CASE r = 6
  BY <1>5, <1>2, <1>8, <1>16, RotateCases
<1>17. CASE r = 7
  BY <1>5, <1>2, <1>9, <1>17, RotateCases
<1> QED
  BY <1>3, <1>10, <1>11, <1>12, <1>13, <1>14, <1>15, <1>16, <1>17

LEMMA SameNormalForm ==
  ASSUME NEW b, Disjoint(b), NEW r \in Rotations
  PROVE  Normalize(Rotated(b, r)) = Normalize(b)
<1> DEFINE c == Rotated(b, r)
           p == b.player
           o == b.opponent
           of(d) == {Rotated(d, q) : q \in Rotations}
<1>1. p \in SUBSET Squares /\ o \in SUBSET Squares
  BY DEF Disjoint, Position
<1>2. c.player = rotateBits(p, r) /\ c.opponent = rotateBits(o, r)
  BY DEF Rotated
<1>3. \A d, q : Rotated(d, q) = [player |-> rotateBits(d.player, q), opponent |-> rotateBits(d.opponent, q)]
  BY DEF Rotated
<1> HIDE DEF c
<1>4. ASSUME NEW q \in Rotations PROVE \E u \in Rotations : Rotated(c, q) = Rotated(b, u)
  <2>1. PICK u \in Rotations : \A x \in SUBSET Squares : rotateBits(rotateBits(x, r), q) = rotateBits(x, u)
    BY RotateTwice
  <2> QED
    BY <1>1, <1>2, <1>3, <2>1
<1>5. PICK back \in Rotations : \A x \in SUBSET Squares : rotateBits(rotateBits(x, r), back) = x
  BY RotateBack
<1>6. \A s \in Rotations : \A x \in SUBSET Squares : rotateBits(x, s) \in SUBSET Squares
  <2>1. \A s \in Rotations : s \in {0, 1, 2, 3, 4, 5, 6, 7}
    BY DEF Rotations
  <2> QED
    BY <2>1, RotateCases, FlipRelations
<1>7. ASSUME NEW u \in Rotations PROVE \E q \in Rotations : Rotated(b, u) = Rotated(c, q)
  <2>1. PICK q \in Rotations : \A x \in SUBSET Squares : rotateBits(rotateBits(x, back), u) = rotateBits(x, q)
    BY RotateTwice
  <2>2. /\ rotateBits(p, u) = rotateBits(rotateBits(p, r), q)
        /\ rotateBits(o, u) = rotateBits(rotateBits(o, r), q)
    BY <1>1, <1>5, <1>6, <2>1
  <2> QED
    BY <1>2, <1>3, <2>2
<1>8. of(c) = of(b)
  BY <1>4, <1>7
<1> HIDE DEF of
<1>9. \A d : Normalize(d) = CHOOSE a \in of(d) : \A e \in of(d) : ~less(e, a)
  BY DEF Normalize, of
<1> QED
  BY <1>8, <1>9 DEF c

-----------------------------------------------------------------------------
(* Induction and recursion over data, by least counterexamples              *)

LEMMA SetInduction ==
  ASSUME NEW S \in SUBSET Nat, 0 \in S, \A n \in S : n + 1 \in S
  PROVE  \A n \in Nat : n \in S
<1> SUFFICES ASSUME Nat \ S # {} PROVE FALSE
  OBVIOUS
<1>1. PICK m \in Nat \ S : \A x \in Nat \ S : m <= x
  BY LeastElement
<1>2. m - 1 \in Nat /\ m - 1 \notin Nat \ S
  BY <1>1
<1> QED
  BY <1>2

Iterates(h, B, a, G, N) == h \in [0..N -> B] /\ h[0] = a /\ \A n \in 1..N : h[n] = G[h[n - 1]]

LEMMA Iteration ==
  ASSUME NEW B, NEW a \in B, NEW G \in [B -> B], NEW N \in Nat
  PROVE  \E h : Iterates(h, B, a, G, N)
<1> DEFINE Upto(n) == {h \in [0..n -> B] : h[0] = a /\ \A i \in 1..n : h[i] = G[h[i - 1]]}
           S == {n \in Nat : Upto(n) # {}}
<1>1. 0 \in S
  <2>1. [i \in 0..0 |-> a] \in Upto(0)
    OBVIOUS
  <2> QED
    BY <2>1
<1>2. ASSUME NEW n \in S PROVE n + 1 \in S
  <2>1. PICK h \in [0..n -> B] : h[0] = a /\ \A i \in 1..n : h[i] = G[h[i - 1]]
    OBVIOUS
  <2> DEFINE g == [i \in 0..(n + 1) |-> IF i <= n THEN h[i] ELSE G[h[n]]]
  <2>2. g \in [0..(n + 1) -> B]
    BY <2>1
  <2>3. g[0] = a /\ \A i \in 1..(n + 1) : g[i] = G[g[i - 1]]
    BY <2>1
  <2>4. Upto(n + 1) # {} /\ n + 1 \in Nat
    <3> HIDE DEF g
    <3> QED
      BY <2>2, <2>3
  <2> QED
    BY <2>4
<1>3. N \in S
  <2> HIDE DEF S
  <2>1. S \in SUBSET Nat
    BY DEF S
  <2> QED
    BY <1>1, <1>2, <2>1, SetInduction
<1> QED
  BY <1>3 DEF Iterates

(* A functional that looks only at arguments of less rank has a fixpoint.   *)
LooksBelow(A, B, rank, G) ==
  \A f, g \in B : \A x \in A : (\A y \in A : rank[y] < rank[x] => f[y] = g[y]) => G[f][x] = G[g][x]
Fixpoint(B, G, f) == f \in B /\ G[f] = f

LEMMA BoundedRecursion ==
  ASSUME NEW A, NEW V, NEW B \in SUBSET [A -> V], B # {}, NEW N \in Nat, NEW rank \in [A -> 0..N],
         NEW G \in [B -> B], LooksBelow(A, B, rank, G)
  PROVE  \E f : Fixpoint(B, G, f)
<1> USE DEF LooksBelow, Fixpoint
<1>1. PICK a \in B : TRUE
  OBVIOUS
<1>2. N + 2 \in Nat
  OBVIOUS
<1>3. PICK h \in [0..(N + 2) -> B] : h[0] = a /\ \A n \in 1..(N + 2) : h[n] = G[h[n - 1]]
  <2>1. PICK h : Iterates(h, B, a, G, N + 2)
    BY <1>2, Iteration
  <2> QED
    BY <2>1 DEF Iterates
<1> DEFINE S == {k \in Nat : k <= N + 1 => \A x \in A : rank[x] < k => h[k][x] = h[k + 1][x]}
<1>4. 0 \in S
  OBVIOUS
<1>5. ASSUME NEW k \in S PROVE k + 1 \in S
  <2> SUFFICES ASSUME k + 1 <= N + 1, NEW x \in A, rank[x] < k + 1 PROVE h[k + 1][x] = h[k + 2][x]
    OBVIOUS
  <2>1. \A y \in A : rank[y] < rank[x] => h[k][y] = h[k + 1][y]
    <3>1. \A y \in A : rank[y] \in Int
      OBVIOUS
    <3>2. \A y \in A : rank[y] < rank[x] => rank[y] < k
      BY <3>1
    <3> QED
      BY <3>2
  <2>2. h[k] \in B /\ h[k + 1] \in B
    OBVIOUS
  <2>3. h[k + 1] = G[h[k]] /\ h[k + 2] = G[h[k + 1]]
    BY <1>3
  <2>4. G[h[k]][x] = G[h[k + 1]][x]
    BY <2>1, <2>2, Zenon
  <2> QED
    BY <2>3, <2>4, Zenon
<1>6. N + 1 \in S
  <2>1. S \in SUBSET Nat
    OBVIOUS
  <2> HIDE DEF S
  <2> QED
    BY <1>4, <1>5, <2>1, SetInduction
<1> DEFINE f == h[N + 1]
<1>7. f \in B /\ h[N + 2] = G[f] /\ h[N + 2] \in B
  BY <1>3
<1>8. \A x \in A : f[x] = h[N + 2][x]
  BY <1>6
<1>9. h[N + 2] = f
  <2>1. h[N + 2] \in [A -> V] /\ f \in [A -> V]
    BY <1>7
  <2> HIDE DEF f
  <2> QED
    BY <1>8, <2>1
<1> QED
  BY <1>7, <1>9

-----------------------------------------------------------------------------
(* The record of a game: every move was legal where it was played, passes   *)
(* stand alone behind the square played before them, and the discs on a     *)
(* board are counted by the squares played before it.                       *)

Real(ms) == {i \in DOMAIN ms : ms[i] # PassMove}

RecordTypes(ms, ps) ==
  /\ ms \in Seq(Squares \cup {PassMove}) /\ ps \in Seq(Position) /\ Len(ps) = Len(ms) + 1
  /\ \A n \in 1..Len(ps) : Disjoint(ps[n])

RecordMoves(ms, ps) ==
  \A n \in 1..Len(ms) :
    /\ IsValidMove(ps[n], ms[n]) /\ ps[n + 1] = DoMove(ps[n], ms[n])
    /\ ms[n] = PassMove => n > 1 /\ ms[n - 1] # PassMove

RecordCounts(ms, ps) ==
  \A n \in 1..Len(ps) :
    Cardinality(Discs(ps[n])) = Cardinality(Discs(ps[1])) + Cardinality({i \in Real(ms) : i < n})

Recorded(ms, ps) == RecordTypes(ms, ps) /\ RecordMoves(ms, ps) /\ RecordCounts(ms, ps)

LEMMA PassedIs ==
  ASSUME NEW b, Disjoint(b)
  PROVE  Disjoint(Passed(b)) /\ Discs(Passed(b)) = Discs(b) /\ Passed(Passed(b)) = b
  BY DEF Disjoint, Position, Passed, Discs

LEMMA NextIs ==
  ASSUME NEW b, Disjoint(b), NEW s \in legalMoves(b)
  PROVE  /\ Disjoint(applyMove(b, s)) /\ s \in Squares /\ s \notin Discs(b)
         /\ Discs(applyMove(b, s)) = Discs(b) \cup {s}
<1> DEFINE f == flippedDiscs(b, s)
<1>1. s \in Squares \ Discs(b)
  BY LegalMovesIs DEF Disjoint
<1>2. f \subseteq b.opponent
  BY <1>1, FlippedIs
<1>3. applyMove(b, s) = [player |-> b.opponent \ f, opponent |-> b.player \cup f \cup {s}]
  BY SameBoards
<1> HIDE DEF f
<1> QED
  BY <1>1, <1>2, <1>3 DEF Disjoint, Position, Discs

LEMMA RecordOne ==
  ASSUME NEW ms, NEW ps, Recorded(ms, ps), NEW mv \in Squares \cup {PassMove}, IsValidMove(Latest(ps), mv),
         mv = PassMove => ms # <<>> /\ Latest(ms) # PassMove
  PROVE  /\ Recorded(Append(ms, mv), Append(ps, DoMove(Latest(ps), mv)))
         /\ Disjoint(Latest(ps)) /\ Disjoint(DoMove(Latest(ps), mv))
         /\ Latest(Append(ps, DoMove(Latest(ps), mv))) = DoMove(Latest(ps), mv)
         /\ Latest(Append(ms, mv)) = mv
<1> DEFINE k == Len(ms)
           b == Latest(ps)
           c == DoMove(b, mv)
           ms2 == Append(ms, mv)
           ps2 == Append(ps, c)
<1>1. /\ ms \in Seq(Squares \cup {PassMove}) /\ ps \in Seq(Position) /\ Len(ps) = k + 1 /\ k \in Nat
      /\ \A n \in 1..k + 1 : Disjoint(ps[n])
      /\ DOMAIN ms = 1..k
  BY DEF Recorded, RecordTypes
<1>2. Disjoint(b) /\ b = ps[k + 1]
  BY <1>1 DEF Latest
<1>3. Disjoint(c) /\ Discs(c) = (IF mv = PassMove THEN Discs(b) ELSE Discs(b) \cup {mv})
      /\ (mv # PassMove => mv \notin Discs(b))
  <2>1. CASE mv = PassMove
    BY <1>2, <2>1, PassedIs DEF DoMove
  <2>2. CASE mv # PassMove
    BY <1>2, <2>2, NextIs DEF DoMove, IsValidMove
  <2> QED
    BY <2>1, <2>2
<1>4. c \in Position
  BY <1>3 DEF Disjoint
<1> HIDE DEF b, c
<1>5. /\ ms2 \in Seq(Squares \cup {PassMove}) /\ Len(ms2) = k + 1 /\ ms2[k + 1] = mv
      /\ \A n \in 1..k : ms2[n] = ms[n]
      /\ DOMAIN ms2 = 1..k + 1
  BY <1>1
<1>6. /\ ps2 \in Seq(Position) /\ Len(ps2) = k + 2 /\ ps2[k + 2] = c
      /\ \A n \in 1..k + 1 : ps2[n] = ps[n]
  BY <1>1, <1>4
<1> HIDE DEF ms2, ps2
<1>7. RecordTypes(ms2, ps2)
  <2>1. 1..k + 2 = 1..k + 1 \cup {k + 2}
    BY <1>1
  <2> QED
    BY <2>1, <1>1, <1>3, <1>5, <1>6 DEF RecordTypes
<1>8. RecordMoves(ms2, ps2)
  <2>1. SUFFICES ASSUME NEW n \in 1..k + 1
                 PROVE  /\ IsValidMove(ps2[n], ms2[n]) /\ ps2[n + 1] = DoMove(ps2[n], ms2[n])
                        /\ ms2[n] = PassMove => n > 1 /\ ms2[n - 1] # PassMove
    BY <1>5 DEF RecordMoves
  <2>2. CASE n \in 1..k
    <3>1. /\ IsValidMove(ps[n], ms[n]) /\ ps[n + 1] = DoMove(ps[n], ms[n])
          /\ ms[n] = PassMove => n > 1 /\ ms[n - 1] # PassMove
      BY <2>2 DEF Recorded, RecordMoves
    <3>2. n > 1 => n - 1 \in 1..k
      BY <2>2
    <3>3. n \in 1..k + 1 /\ n + 1 \in 1..k + 1
      BY <2>2
    <3> QED
      BY <3>1, <3>2, <3>3, <2>2, <1>5, <1>6
  <2>3. CASE n = k + 1
    <3>1. ps2[n] = b /\ ms2[n] = mv /\ ps2[n + 1] = c
      <4>1. (k + 1) + 1 = k + 2 /\ k + 1 \in 1..k + 1
        BY <1>1
      <4> QED
        BY <1>2, <1>5, <1>6, <2>3, <4>1
    <3>2. ASSUME mv = PassMove PROVE k \in 1..k /\ n > 1 /\ ms2[n - 1] # PassMove
      <4>1. k # 0 /\ ms[k] # PassMove
        BY <1>1, <3>2 DEF Latest
      <4> QED
        BY <1>1, <1>5, <2>3, <4>1
    <3> QED
      BY <3>1, <3>2 DEF b, c
  <2> QED
    BY <1>1, <2>2, <2>3
<1>9. RecordCounts(ms2, ps2)
  <2>1. SUFFICES ASSUME NEW n \in 1..k + 2
                 PROVE  Cardinality(Discs(ps2[n])) = Cardinality(Discs(ps2[1])) + Cardinality({i \in Real(ms2) : i < n})
    BY <1>6 DEF RecordCounts
  <2>2. ps2[1] = ps[1]
    BY <1>1, <1>6
  <2>3. \A i \in 1..k : i \in Real(ms2) <=> i \in Real(ms)
    BY <1>1, <1>5 DEF Real
  <2>4. Real(ms) \subseteq 1..k /\ Real(ms2) \subseteq 1..k + 1 /\ (k + 1 \in Real(ms2) <=> mv # PassMove)
    BY <1>1, <1>5 DEF Real
  <2>5. ASSUME NEW j \in 1..k + 1
        PROVE  /\ {i \in Real(ms2) : i < j} = {i \in Real(ms) : i < j}
               /\ Cardinality(Discs(ps[j])) = Cardinality(Discs(ps[1])) + Cardinality({i \in Real(ms) : i < j})
    <3>1. {i \in Real(ms2) : i < j} = {i \in Real(ms) : i < j}
      BY <1>1, <2>3, <2>4
    <3>2. j \in 1..Len(ps)
      BY <1>1
    <3> QED
      BY <3>1, <3>2 DEF Recorded, RecordCounts
  <2>6. CASE n \in 1..k + 1
    BY <1>6, <2>2, <2>5, <2>6
  <2>7. CASE n = k + 2
    <3> DEFINE R == {i \in Real(ms) : i < k + 1}
               R2 == {i \in Real(ms2) : i < k + 2}
    <3>1. IsFiniteSet(R) /\ Cardinality(R) \in Nat
      <4>1. 1 \in Int /\ k \in Int /\ R \subseteq 1..k
        BY <1>1, <2>4
      <4> QED
        BY <4>1, FS_Interval, FS_Subset, FS_CardinalityType
    <3>2. Cardinality(Discs(b)) = Cardinality(Discs(ps[1])) + Cardinality(R)
      <4>1. k + 1 \in 1..k + 1
        BY <1>1
      <4> QED
        BY <1>2, <2>5, <4>1
    <3>3. IsFiniteSet(Discs(b)) /\ Cardinality(Discs(b)) \in Nat
      BY <1>2, DiscCounts, FS_CardinalityType
    <3>4. IsFiniteSet(Discs(ps[1])) /\ Cardinality(Discs(ps[1])) \in Nat
      <4>1. Disjoint(ps[1])
        BY <1>1
      <4> QED
        BY <4>1, DiscCounts, FS_CardinalityType
    <3>5. CASE mv = PassMove
      <4>1. R2 = R
        BY <1>1, <2>3, <2>4, <3>5
      <4> QED
        BY <4>1, <1>3, <1>6, <2>2, <2>7, <3>2, <3>5
    <3>6. CASE mv # PassMove
      <4>1. R2 = R \cup {k + 1} /\ k + 1 \notin R
        BY <1>1, <2>3, <2>4, <3>6
      <4>2. Cardinality(R2) = Cardinality(R) + 1
        BY <4>1, <3>1, FS_AddElement
      <4>3. Cardinality(Discs(c)) = Cardinality(Discs(b)) + 1
        BY <1>3, <3>3, <3>6, FS_AddElement
      <4> HIDE DEF R, R2
      <4>4. Cardinality(Discs(c)) = Cardinality(Discs(ps[1])) + Cardinality(R2)
        BY <3>1, <3>2, <3>3, <3>4, <4>2, <4>3
      <4> QED
        BY <4>4, <1>6, <2>2, <2>7 DEF R2
    <3> QED
      BY <3>5, <3>6
  <2> QED
    BY <1>1, <2>6, <2>7
<1>10. Latest(ps2) = c /\ Latest(ms2) = mv
  BY <1>1, <1>5, <1>6 DEF Latest
<1> QED
  BY <1>2, <1>3, <1>7, <1>8, <1>9, <1>10 DEF Recorded, b, c, ms2, ps2

LEMMA Prefix ==
  ASSUME NEW T, NEW s \in Seq(T), NEW j \in 0..Len(s)
  PROVE  /\ SubSeq(s, 1, j) \in Seq(T) /\ Len(SubSeq(s, 1, j)) = j
         /\ \A h \in 1..j : SubSeq(s, 1, j)[h] = s[h]
  OBVIOUS

LEMMA RecordBack ==
  ASSUME NEW ms, NEW ps, Recorded(ms, ps), NEW j \in 0..Len(ms)
  PROVE  Recorded(SubSeq(ms, 1, j), SubSeq(ps, 1, j + 1)) /\ Latest(SubSeq(ps, 1, j + 1)) = ps[j + 1]
<1> DEFINE ms2 == SubSeq(ms, 1, j)
           ps2 == SubSeq(ps, 1, j + 1)
<1>1. /\ ms \in Seq(Squares \cup {PassMove}) /\ ps \in Seq(Position) /\ Len(ps) = Len(ms) + 1
      /\ Len(ms) \in Nat /\ j \in Nat /\ j <= Len(ms) /\ DOMAIN ms = 1..Len(ms)
  BY DEF Recorded, RecordTypes
<1>2. /\ ms2 \in Seq(Squares \cup {PassMove}) /\ Len(ms2) = j /\ DOMAIN ms2 = 1..j
      /\ \A n \in 1..j : ms2[n] = ms[n] /\ n \in 1..Len(ms)
  BY <1>1
<1>3. /\ ps2 \in Seq(Position) /\ Len(ps2) = j + 1
      /\ \A n \in 1..j + 1 : ps2[n] = ps[n] /\ n \in 1..Len(ps)
  BY <1>1
<1> HIDE DEF ms2, ps2
<1>4. RecordTypes(ms2, ps2)
  BY <1>1, <1>2, <1>3 DEF Recorded, RecordTypes
<1>5. RecordMoves(ms2, ps2)
  <2>1. SUFFICES ASSUME NEW n \in 1..j
                 PROVE  /\ IsValidMove(ps2[n], ms2[n]) /\ ps2[n + 1] = DoMove(ps2[n], ms2[n])
                        /\ ms2[n] = PassMove => n > 1 /\ ms2[n - 1] # PassMove
    BY <1>2 DEF RecordMoves
  <2>2. /\ IsValidMove(ps[n], ms[n]) /\ ps[n + 1] = DoMove(ps[n], ms[n])
        /\ ms[n] = PassMove => n > 1 /\ ms[n - 1] # PassMove
    BY <1>2 DEF Recorded, RecordMoves
  <2>3. (n > 1 => n - 1 \in 1..j) /\ n \in 1..j + 1 /\ n + 1 \in 1..j + 1
    BY <1>1
  <2> QED
    BY <1>2, <1>3, <2>2, <2>3
<1>6. RecordCounts(ms2, ps2)
  <2>1. SUFFICES ASSUME NEW n \in 1..j + 1
                 PROVE  Cardinality(Discs(ps2[n])) = Cardinality(Discs(ps2[1])) + Cardinality({i \in Real(ms2) : i < n})
    BY <1>3 DEF RecordCounts
  <2>2. {i \in Real(ms2) : i < n} = {i \in Real(ms) : i < n}
    BY <1>1, <1>2 DEF Real
  <2>3. Cardinality(Discs(ps[n])) = Cardinality(Discs(ps[1])) + Cardinality({i \in Real(ms) : i < n})
    BY <1>3 DEF Recorded, RecordCounts
  <2>4. ps2[n] = ps[n] /\ ps2[1] = ps[1]
    BY <1>1, <1>3
  <2> QED
    BY <2>2, <2>3, <2>4
<1>7. Latest(ps2) = ps[j + 1]
  BY <1>1, <1>3 DEF Latest
<1> QED
  BY <1>4, <1>5, <1>6, <1>7 DEF Recorded, ms2, ps2

LEMMA MaxIs ==
  ASSUME NEW S, S \subseteq Int, NEW n \in S, \A j \in S : j <= n
  PROVE  Max(S) = n
<1>1. \A y \in S : n >= y
  OBVIOUS
<1>2. Max(S) \in S /\ \A y \in S : Max(S) >= y
  BY <1>1, Zenon DEF Max
<1>3. Max(S) \in Int /\ n \in Int /\ Max(S) <= n /\ Max(S) >= n
  BY <1>2
<1> QED
  BY <1>3

(* The last square played is the last move or the one before a last pass.  *)
LEMMA LastReal ==
  ASSUME NEW ms, NEW ps, Recorded(ms, ps), ms # <<>>
  PROVE  /\ Max(Real(ms)) \in Real(ms) /\ Max(Real(ms)) \in 1..Len(ms)
         /\ \A i \in Real(ms) : i <= Max(Real(ms))
         /\ Max(Real(ms)) = IF Len(ms) >= 2 /\ Latest(ms) = PassMove THEN Len(ms) - 1 ELSE Len(ms)
         /\ ms[Max(Real(ms))] \in legalMoves(ps[Max(Real(ms))])
<1> DEFINE k == Len(ms)
           R == Real(ms)
<1>1. ms \in Seq(Squares \cup {PassMove}) /\ k \in Nat /\ k # 0 /\ R \subseteq 1..k /\ DOMAIN ms = 1..k /\ R \subseteq Int
  BY DEF Recorded, RecordTypes, Real
<1>2. \A n \in 1..k : IsValidMove(ps[n], ms[n]) /\ (ms[n] = PassMove => n > 1 /\ ms[n - 1] # PassMove)
  BY DEF Recorded, RecordMoves
<1>3. \A n \in 1..k : n \in R <=> ms[n] # PassMove
  BY <1>1 DEF Real
<1>4. Latest(ms) = ms[k]
  BY DEF Latest
<1> HIDE DEF k, R
<1>5. ASSUME NEW n \in R, \A i \in R : i <= n,
             n = IF k >= 2 /\ Latest(ms) = PassMove THEN k - 1 ELSE k
      PROVE  /\ Max(R) \in R /\ Max(R) \in 1..k /\ \A i \in R : i <= Max(R)
             /\ Max(R) = IF k >= 2 /\ Latest(ms) = PassMove THEN k - 1 ELSE k
             /\ ms[Max(R)] \in legalMoves(ps[Max(R)])
  <2>1. Max(R) = n
    BY <1>1, <1>5, MaxIs
  <2>2. n \in 1..k /\ ms[n] # PassMove
    BY <1>1, <1>3, <1>5
  <2>3. ms[n] \in legalMoves(ps[n])
    BY <1>2, <2>2 DEF IsValidMove
  <2> QED
    BY <1>5, <2>1, <2>2, <2>3
<1>6. CASE ms[k] = PassMove
  <2>1. k \in 1..k /\ k > 1 /\ ms[k - 1] # PassMove
    BY <1>1, <1>2, <1>6
  <2>2. k - 1 \in R /\ k \notin R
    BY <1>1, <1>3, <1>6, <2>1
  <2>3. \A i \in R : i <= k - 1
    BY <1>1, <2>2
  <2> QED
    BY <1>1, <1>4, <1>5, <1>6, <2>1, <2>2, <2>3 DEF k, R
<1>7. CASE ms[k] # PassMove
  <2>1. k \in R /\ \A i \in R : i <= k
    BY <1>1, <1>3, <1>7
  <2> QED
    BY <1>1, <1>4, <1>5, <1>7, <2>1 DEF k, R
<1> QED
  BY <1>6, <1>7

-----------------------------------------------------------------------------
(* The page's history: its boards with moves are the positions where        *)
(* squares were played, in the order they were played.                      *)

Entries(bh) == bh \in Seq([board : Position, black : BOOLEAN]) /\ \A n \in DOMAIN bh : Disjoint(bh[n].board)

Links(e, ms, ps, bh) ==
  /\ e \in [Real(ms) -> DOMAIN bh]
  /\ \A i, j \in Real(ms) : i < j => e[i] < e[j]
  /\ \A n \in DOMAIN bh : HasMoves(bh[n].board) => \E i \in Real(ms) : e[i] = n
  /\ \A i \in Real(ms) : bh[e[i]] = [board |-> ps[i], black |-> i % 2 = 1]

Linked(ms, ps, bh) == Entries(bh) /\ \E e : Links(e, ms, ps, bh)

LEMMA LinkMove ==
  ASSUME NEW ms, NEW ps, Recorded(ms, ps), NEW bh, Linked(ms, ps, bh),
         NEW mv \in Squares, NEW c
  PROVE  Linked(Append(ms, mv), Append(ps, c), Append(bh, [board |-> Latest(ps), black |-> Len(ms) % 2 = 0]))
<1> DEFINE k == Len(ms)
           new == [board |-> Latest(ps), black |-> Len(ms) % 2 = 0]
           ms2 == Append(ms, mv)
           ps2 == Append(ps, c)
           bh2 == Append(bh, new)
<1>1. PICK e : Links(e, ms, ps, bh)
  BY DEF Linked
<1>2. /\ ms \in Seq(Squares \cup {PassMove}) /\ ps \in Seq(Position) /\ Len(ps) = k + 1 /\ k \in Nat
      /\ \A n \in 1..k + 1 : Disjoint(ps[n])
      /\ DOMAIN ms = 1..k
  BY DEF Recorded, RecordTypes
<1>3. bh \in Seq([board : Position, black : BOOLEAN]) /\ DOMAIN bh = 1..Len(bh) /\ Len(bh) \in Nat
      /\ \A n \in 1..Len(bh) : Disjoint(bh[n].board)
  BY DEF Linked, Entries
<1>4. Latest(ps) = ps[k + 1] /\ Disjoint(Latest(ps)) /\ Latest(ps) \in Position
  BY <1>2 DEF Latest, Disjoint
<1>5. new \in [board : Position, black : BOOLEAN] /\ new.board = Latest(ps)
  BY <1>4
<1>6. /\ DOMAIN ms2 = 1..k + 1 /\ ms2[k + 1] = mv /\ \A n \in 1..k : ms2[n] = ms[n]
      /\ \A n \in 1..k + 1 : ps2[n] = ps[n]
  <2>1. ms2 \in Seq(Squares \cup {PassMove}) /\ Len(ms2) = k + 1
    BY <1>2
  <2> QED
    BY <2>1, <1>2
<1>7. /\ bh2 \in Seq([board : Position, black : BOOLEAN]) /\ DOMAIN bh2 = 1..Len(bh) + 1
      /\ bh2[Len(bh) + 1] = new /\ \A n \in 1..Len(bh) : bh2[n] = bh[n]
  BY <1>3, <1>5
<1>8. mv # PassMove
  BY DEF Squares, PassMove
<1> HIDE DEF ms2, ps2, bh2
<1>9. Real(ms2) = Real(ms) \cup {k + 1} /\ k + 1 \notin Real(ms) /\ Real(ms) \subseteq 1..k
  BY <1>2, <1>6, <1>8 DEF Real
<1>10. /\ e \in [Real(ms) -> 1..Len(bh)]
       /\ \A i, j \in Real(ms) : i < j => e[i] < e[j]
       /\ \A n \in 1..Len(bh) : HasMoves(bh[n].board) => \E i \in Real(ms) : e[i] = n
       /\ \A i \in Real(ms) : bh[e[i]] = [board |-> ps[i], black |-> i % 2 = 1]
  BY <1>1, <1>3 DEF Links
<1> DEFINE e2 == [i \in Real(ms2) |-> IF i = k + 1 THEN Len(bh) + 1 ELSE e[i]]
<1>11. /\ \A i \in Real(ms) : e2[i] = e[i] /\ e[i] \in 1..Len(bh) /\ i \in 1..k /\ i < k + 1
       /\ e2[k + 1] = Len(bh) + 1
  BY <1>2, <1>9, <1>10
<1>12. e2 \in [Real(ms2) -> 1..Len(bh) + 1]
  BY <1>3, <1>9, <1>10
<1> HIDE DEF e2
<1>13. ASSUME NEW i \in Real(ms2), NEW j \in Real(ms2), i < j PROVE e2[i] < e2[j]
  BY <1>2, <1>3, <1>9, <1>10, <1>11, <1>13
<1>14. ASSUME NEW n \in 1..Len(bh) + 1, HasMoves(bh2[n].board) PROVE \E i \in Real(ms2) : e2[i] = n
  <2>1. CASE n \in 1..Len(bh)
    <3>1. HasMoves(bh[n].board)
      BY <1>7, <1>14, <2>1
    <3>2. PICK i \in Real(ms) : e[i] = n
      BY <1>10, <2>1, <3>1
    <3> QED
      BY <1>9, <1>11, <3>2
  <2>2. CASE n = Len(bh) + 1
    BY <1>9, <1>11, <2>2
  <2> QED
    BY <1>3, <2>1, <2>2
<1>15. ASSUME NEW i \in Real(ms2) PROVE bh2[e2[i]] = [board |-> ps2[i], black |-> i % 2 = 1]
  <2>1. CASE i \in Real(ms)
    <3>1. i \in 1..k + 1
      BY <1>2, <1>9, <2>1
    <3> QED
      BY <1>6, <1>7, <1>10, <1>11, <2>1, <3>1
  <2>2. CASE i = k + 1
    <3>1. (k % 2 = 0) = ((k + 1) % 2 = 1)
      BY <1>2
    <3>2. ps2[k + 1] = Latest(ps)
      BY <1>2, <1>4, <1>6
    <3> QED
      BY <1>7, <1>11, <2>2, <3>1, <3>2
  <2> QED
    BY <1>9, <2>1, <2>2
<1>16. Links(e2, ms2, ps2, bh2)
  BY <1>7, <1>12, <1>13, <1>14, <1>15 DEF Links
<1>17. Entries(bh2)
  BY <1>3, <1>4, <1>5, <1>7 DEF Entries
<1> QED
  BY <1>16, <1>17 DEF Linked, ms2, ps2, bh2

LEMMA LinkPass ==
  ASSUME NEW ms, NEW ps, Recorded(ms, ps), NEW bh, Linked(ms, ps, bh), NEW c
  PROVE  Linked(Append(ms, PassMove), Append(ps, c), bh)
<1> DEFINE k == Len(ms)
           ms2 == Append(ms, PassMove)
           ps2 == Append(ps, c)
<1>1. /\ ms \in Seq(Squares \cup {PassMove}) /\ ps \in Seq(Position) /\ Len(ps) = k + 1 /\ k \in Nat
      /\ DOMAIN ms = 1..k
  BY DEF Recorded, RecordTypes
<1>2. /\ DOMAIN ms2 = 1..k + 1 /\ ms2[k + 1] = PassMove /\ \A n \in 1..k : ms2[n] = ms[n]
      /\ \A n \in 1..k + 1 : ps2[n] = ps[n]
  <2>1. ms2 \in Seq(Squares \cup {PassMove}) /\ Len(ms2) = k + 1
    BY <1>1
  <2> QED
    BY <2>1, <1>1
<1> HIDE DEF ms2, ps2
<1>3. Real(ms2) = Real(ms) /\ Real(ms) \subseteq 1..k
  BY <1>1, <1>2 DEF Real
<1>4. \A i \in Real(ms) : ps2[i] = ps[i]
  BY <1>1, <1>2, <1>3
<1>5. PICK e : Links(e, ms, ps, bh)
  BY DEF Linked
<1>6. /\ e \in [Real(ms2) -> DOMAIN bh]
      /\ \A i, j \in Real(ms2) : i < j => e[i] < e[j]
      /\ \A n \in DOMAIN bh : HasMoves(bh[n].board) => \E i \in Real(ms2) : e[i] = n
  BY <1>3, <1>5 DEF Links
<1>7. \A i \in Real(ms2) : bh[e[i]] = [board |-> ps2[i], black |-> i % 2 = 1]
  BY <1>3, <1>4, <1>5 DEF Links
<1>8. Links(e, ms2, ps2, bh)
  BY <1>6, <1>7 DEF Links
<1> QED
  BY <1>8 DEF Linked, ms2, ps2

LEMMA LinkStuck ==
  ASSUME NEW ms, NEW ps, NEW bh, Linked(ms, ps, bh),
         NEW x \in [board : Position, black : BOOLEAN], Disjoint(x.board), ~HasMoves(x.board)
  PROVE  Linked(ms, ps, Append(bh, x))
<1> DEFINE bh2 == Append(bh, x)
<1>1. PICK e : Links(e, ms, ps, bh)
  BY DEF Linked
<1>2. bh \in Seq([board : Position, black : BOOLEAN]) /\ DOMAIN bh = 1..Len(bh) /\ Len(bh) \in Nat
      /\ \A n \in 1..Len(bh) : Disjoint(bh[n].board)
  BY DEF Linked, Entries
<1>3. /\ bh2 \in Seq([board : Position, black : BOOLEAN]) /\ DOMAIN bh2 = 1..Len(bh) + 1
      /\ bh2[Len(bh) + 1] = x /\ \A n \in 1..Len(bh) : bh2[n] = bh[n]
  BY <1>2
<1> HIDE DEF bh2
<1>4. 1..Len(bh) + 1 = 1..Len(bh) \cup {Len(bh) + 1}
  BY <1>2
<1>5. Entries(bh2)
  BY <1>2, <1>3, <1>4 DEF Entries
<1>6. /\ e \in [Real(ms) -> 1..Len(bh)]
      /\ \A i, j \in Real(ms) : i < j => e[i] < e[j]
      /\ \A n \in 1..Len(bh) : HasMoves(bh[n].board) => \E i \in Real(ms) : e[i] = n
      /\ \A i \in Real(ms) : bh[e[i]] = [board |-> ps[i], black |-> i % 2 = 1]
  BY <1>1, <1>2 DEF Links
<1>7. e \in [Real(ms) -> 1..Len(bh) + 1] /\ \A i \in Real(ms) : e[i] \in 1..Len(bh)
  BY <1>2, <1>6
<1>8. Links(e, ms, ps, bh2)
  BY <1>3, <1>4, <1>6, <1>7 DEF Links
<1> QED
  BY <1>5, <1>8 DEF Linked, bh2

(* What undoMove finds is the board on which the last square was played.   *)
LEMMA LinkBack ==
  ASSUME NEW ms, NEW ps, Recorded(ms, ps), ms # <<>>, NEW bh, Linked(ms, ps, bh)
  PROVE  LET i == Max(Real(ms))
             n == Max({1} \cup {h \in DOMAIN bh : hasValidMoves(bh[h].board)})
         IN  /\ n \in DOMAIN bh /\ bh # <<>> /\ bh[n] = [board |-> ps[i], black |-> i % 2 = 1]
             /\ Linked(SubSeq(ms, 1, i - 1), SubSeq(ps, 1, i), SubSeq(bh, 1, n - 1))
<1> DEFINE i == Max(Real(ms))
           live == {h \in DOMAIN bh : hasValidMoves(bh[h].board)}
           n == Max({1} \cup live)
           ms2 == SubSeq(ms, 1, i - 1)
           ps2 == SubSeq(ps, 1, i)
           bh2 == SubSeq(bh, 1, n - 1)
<1>1. PICK e : Links(e, ms, ps, bh)
  BY DEF Linked
<1>2. /\ ms \in Seq(Squares \cup {PassMove}) /\ ps \in Seq(Position) /\ Len(ps) = Len(ms) + 1 /\ Len(ms) \in Nat
      /\ DOMAIN ms = 1..Len(ms)
  BY DEF Recorded, RecordTypes
<1>3. bh \in Seq([board : Position, black : BOOLEAN]) /\ DOMAIN bh = 1..Len(bh) /\ Len(bh) \in Nat
      /\ \A h \in 1..Len(bh) : Disjoint(bh[h].board)
  BY DEF Linked, Entries
<1>4. /\ e \in [Real(ms) -> 1..Len(bh)]
      /\ \A i1, i2 \in Real(ms) : i1 < i2 => e[i1] < e[i2]
      /\ \A h \in 1..Len(bh) : HasMoves(bh[h].board) => \E i1 \in Real(ms) : e[i1] = h
      /\ \A i1 \in Real(ms) : bh[e[i1]] = [board |-> ps[i1], black |-> i1 % 2 = 1]
  BY <1>1, <1>3 DEF Links
<1>5. /\ i \in Real(ms) /\ i \in 1..Len(ms) /\ \A j \in Real(ms) : j <= i
      /\ HasMoves(ps[i])
  BY LastReal DEF HasMoves
<1>6. \A h \in 1..Len(bh) : h \in live <=> HasMoves(bh[h].board)
  BY <1>3, SameMoves DEF hasValidMoves, HasMoves
<1>7. Real(ms) \subseteq 1..Len(ms)
  BY <1>2 DEF Real
<1> HIDE DEF i
<1>8. n = e[i] /\ n \in 1..Len(bh)
  <2>1. e[i] \in 1..Len(bh) /\ HasMoves(bh[e[i]].board)
    <3>1. e[i] \in 1..Len(bh) /\ bh[e[i]] = [board |-> ps[i], black |-> i % 2 = 1]
      BY <1>4, <1>5
    <3>2. bh[e[i]].board = ps[i]
      BY <3>1
    <3> QED
      BY <1>5, <3>1, <3>2
  <2>2. e[i] \in live
    BY <1>6, <2>1
  <2>3. ASSUME NEW h \in live PROVE h <= e[i]
    <3>1. h \in 1..Len(bh)
      BY <1>3
    <3>2. PICK j \in Real(ms) : e[j] = h
      BY <1>4, <1>6, <2>3, <3>1
    <3>3. j <= i /\ j \in Int /\ i \in Int /\ e[j] \in Int /\ e[i] \in Int
      BY <1>4, <1>5, <1>7, <3>2
    <3>4. CASE j = i
      BY <3>2, <3>3, <3>4
    <3>5. CASE j < i
      BY <1>4, <1>5, <3>2, <3>3, <3>5
    <3> QED
      BY <3>3, <3>4, <3>5
  <2>4. {1} \cup live \subseteq Int
    BY <1>3
  <2> HIDE DEF live
  <2>5. e[i] \in {1} \cup live /\ \A h \in {1} \cup live : h <= e[i]
    BY <1>3, <2>1, <2>2, <2>3
  <2>6. n = e[i]
    BY <2>4, <2>5, MaxIs
  <2> QED
    BY <2>1, <2>6
<1> HIDE DEF live, n
<1>9. n \in DOMAIN bh /\ bh # <<>> /\ bh[n] = [board |-> ps[i], black |-> i % 2 = 1]
  <2>1. bh[e[i]] = [board |-> ps[i], black |-> i % 2 = 1]
    BY <1>4, <1>5
  <2>2. n \in DOMAIN bh
    BY <1>3, <1>8
  <2>3. bh # <<>>
    BY <1>3, <2>2
  <2> QED
    BY <1>8, <2>1, <2>2, <2>3
<1>10. /\ DOMAIN ms2 = 1..i - 1 /\ \A h \in 1..i - 1 : ms2[h] = ms[h]
       /\ \A h \in 1..i : ps2[h] = ps[h]
  <2>1. Len(ms2) = i - 1 /\ ms2 \in Seq(Squares \cup {PassMove})
    BY <1>2, <1>5
  <2> QED
    BY <1>2, <1>5, <2>1
<1>11. /\ bh2 \in Seq([board : Position, black : BOOLEAN]) /\ DOMAIN bh2 = 1..n - 1
       /\ \A h \in 1..n - 1 : bh2[h] = bh[h] /\ h \in 1..Len(bh)
  <2>1. n - 1 \in 0..Len(bh) /\ \A h \in 1..n - 1 : h \in 1..Len(bh)
    BY <1>3, <1>8
  <2> HIDE DEF bh2
  <2>2. bh2 \in Seq([board : Position, black : BOOLEAN]) /\ Len(bh2) = n - 1 /\ \A h \in 1..n - 1 : bh2[h] = bh[h]
    BY <1>3, <2>1, Prefix DEF bh2
  <2> QED
    BY <2>1, <2>2
<1> HIDE DEF ms2, ps2, bh2
<1>12. Real(ms2) = Real(ms) \ {i} /\ \A j \in Real(ms2) : j \in Real(ms) /\ j < i /\ j \in 1..i - 1 /\ j \in 1..i
  <2>1. \A j : j \in Real(ms2) <=> j \in 1..i - 1 /\ ms[j] # PassMove
    BY <1>10 DEF Real
  <2>2. \A j : j \in Real(ms) <=> j \in 1..Len(ms) /\ ms[j] # PassMove
    BY <1>2 DEF Real
  <2>3. \A j \in 1..i - 1 : j \in 1..Len(ms) /\ j < i /\ j \in 1..i
    BY <1>2, <1>5
  <2>4. \A j \in Real(ms) \ {i} : j \in 1..i - 1
    BY <1>5, <1>7
  <2>5. i \notin 1..i - 1
    BY <1>5
  <2> QED
    BY <2>1, <2>2, <2>3, <2>4, <2>5
<1> DEFINE e2 == [j \in Real(ms2) |-> e[j]]
<1>13. \A j \in Real(ms2) : e2[j] = e[j] /\ e[j] \in 1..n - 1
  <2>1. TAKE j \in Real(ms2)
  <2>2. e[j] < e[i] /\ e[j] \in 1..Len(bh)
    BY <1>4, <1>5, <1>12
  <2> QED
    BY <1>8, <2>2
<1>14. e2 \in [Real(ms2) -> 1..n - 1]
  BY <1>13
<1> HIDE DEF e2
<1>15. \A j1, j2 \in Real(ms2) : j1 < j2 => e2[j1] < e2[j2]
  BY <1>4, <1>12, <1>13
<1>16. ASSUME NEW h \in 1..n - 1, HasMoves(bh2[h].board) PROVE \E j \in Real(ms2) : e2[j] = h
  <2>1. PICK j \in Real(ms) : e[j] = h
    BY <1>4, <1>11, <1>16
  <2>2. j # i
    BY <1>8, <2>1
  <2> QED
    BY <1>12, <1>13, <2>1, <2>2
<1>17. \A j \in Real(ms2) : bh2[e2[j]] = [board |-> ps2[j], black |-> j % 2 = 1]
  BY <1>4, <1>10, <1>11, <1>12, <1>13
<1>18. Links(e2, ms2, ps2, bh2)
  BY <1>11, <1>14, <1>15, <1>16, <1>17 DEF Links
<1>19. Entries(bh2)
  BY <1>3, <1>11 DEF Entries
<1> QED
  BY <1>9, <1>18, <1>19 DEF Linked, i, live, n, ms2, ps2, bh2

-----------------------------------------------------------------------------
(* The server's game and the page's, together                              *)

(* The page shows the last position of the record; once the game is over,   *)
(* from either side.                                                       *)
OneGame(ms, ps, shown, black) ==
  LET b == Latest(ps)
      turn == Len(ms) % 2 = 0
  IN  \/ HasMoves(b) /\ shown = b /\ black = turn
      \/ GameOver(b) /\ ((shown = b /\ black = turn) \/ (shown = Passed(b) /\ black = ~turn))

GameInv ==
  /\ Recorded(moves, positions) /\ positions[1] \in Starts
  /\ Linked(moves, positions, boardHistory)
  /\ OneGame(moves, positions, board, blackTurn) /\ blackTurn \in BOOLEAN

LEMMA StartIs == ASSUME NEW b \in Starts PROVE Disjoint(b) /\ HasMoves(b)
  BY GameAssumption DEF Disjoint, HasMoves

LEMMA GameInvInit == GameInit => GameInv
<1> SUFFICES ASSUME GameInit PROVE GameInv
  OBVIOUS
<1>1. /\ board \in Starts /\ blackTurn = TRUE /\ boardHistory = <<>> /\ moves = <<>> /\ positions = <<board>>
      /\ Disjoint(board) /\ HasMoves(board) /\ board \in Position
  BY StartIs DEF GameInit, Disjoint
<1>2. /\ Len(moves) = 0 /\ Len(positions) = 1 /\ positions[1] = board /\ Latest(positions) = board
      /\ moves \in Seq(Squares \cup {PassMove}) /\ positions \in Seq(Position) /\ DOMAIN moves = {}
  BY <1>1 DEF Latest
<1>3. Real(moves) = {}
  BY <1>2 DEF Real
<1>4. RecordTypes(moves, positions)
  <2>1. 1..1 = {1}
    OBVIOUS
  <2> QED
    BY <1>1, <1>2, <2>1 DEF RecordTypes
<1>5. RecordMoves(moves, positions)
  BY <1>2 DEF RecordMoves
<1>6. RecordCounts(moves, positions)
  <2>1. {i \in Real(moves) : i < 1} = {} /\ 1..1 = {1}
    BY <1>3
  <2>2. Cardinality({}) = 0 /\ Cardinality(Discs(board)) \in Nat
    BY <1>1, DiscCounts, FS_EmptySet
  <2>3. SUFFICES ASSUME NEW n \in 1..1
                 PROVE  Cardinality(Discs(positions[n])) = Cardinality(Discs(positions[1])) + Cardinality({i \in Real(moves) : i < n})
    BY <1>2 DEF RecordCounts
  <2>4. n = 1 /\ {i \in Real(moves) : i < n} = {}
    BY <1>3
  <2>5. positions[n] = board /\ Cardinality({i \in Real(moves) : i < n}) = 0
    BY <1>2, <2>2, <2>4
  <2> QED
    BY <1>2, <2>2, <2>5
<1>7. Linked(moves, positions, boardHistory)
  <2>1. boardHistory \in Seq([board : Position, black : BOOLEAN]) /\ DOMAIN boardHistory = {}
    BY <1>1
  <2> DEFINE e == [i \in {} |-> i]
  <2>2. e \in [{} -> {}]
    OBVIOUS
  <2> HIDE DEF e
  <2>3. Links(e, moves, positions, boardHistory)
    BY <1>3, <2>1, <2>2 DEF Links
  <2> QED
    BY <2>1, <2>3 DEF Linked, Entries
<1>8. OneGame(moves, positions, board, blackTurn)
  <2>1. 0 % 2 = 0
    OBVIOUS
  <2> QED
    BY <1>1, <1>2, <2>1 DEF OneGame
<1> QED
  BY <1>1, <1>2, <1>4, <1>5, <1>6, <1>7, <1>8 DEF GameInv, Recorded

LEMMA Twice ==
  ASSUME NEW T, NEW s \in Seq(T), NEW x \in T, NEW y \in T
  PROVE  s \o <<x>> = Append(s, x) /\ s \o <<x, y>> = Append(Append(s, x), y)
  OBVIOUS

LEMMA FirstOfThree ==
  ASSUME NEW T, NEW x \in T, NEW y \in T
  PROVE  LET s == <<x, y, x>>
         IN  /\ s[1] = x /\ s[2] = y /\ s[3] = x
             /\ SubSeq(s, 1, 0) = <<>> /\ SubSeq(s, 1, 1) = <<x>> /\ SubSeq(s, 1, 2) = <<x, y>>
<1> DEFINE s == <<x, y, x>>
<1>1. s \in Seq(T) /\ Len(s) = 3 /\ s[1] = x /\ s[2] = y /\ s[3] = x
  OBVIOUS
<1> HIDE DEF s
<1>2. \A j \in 0..3 : /\ SubSeq(s, 1, j) \in Seq(T) /\ Len(SubSeq(s, 1, j)) = j
                     /\ \A h \in 1..j : SubSeq(s, 1, j)[h] = s[h]
  BY <1>1, Prefix
<1>3. SubSeq(s, 1, 0) = <<>>
  BY <1>2
<1>4. SubSeq(s, 1, 1) = <<x>>
  <2>1. <<x>> \in Seq(T) /\ Len(<<x>>) = 1 /\ \A h \in 1..1 : <<x>>[h] = s[h]
    BY <1>1
  <2>2. SubSeq(s, 1, 1) \in Seq(T) /\ Len(SubSeq(s, 1, 1)) = 1 /\ \A h \in 1..1 : SubSeq(s, 1, 1)[h] = s[h]
    BY <1>2
  <2> QED
    BY <2>1, <2>2, SeqEqual
<1>5. SubSeq(s, 1, 2) = <<x, y>>
  <2>1. <<x, y>> \in Seq(T) /\ Len(<<x, y>>) = 2 /\ \A h \in 1..2 : <<x, y>>[h] = s[h]
    BY <1>1
  <2>2. SubSeq(s, 1, 2) \in Seq(T) /\ Len(SubSeq(s, 1, 2)) = 2 /\ \A h \in 1..2 : SubSeq(s, 1, 2)[h] = s[h]
    BY <1>2
  <2> QED
    BY <2>1, <2>2, SeqEqual
<1> QED
  BY <1>1, <1>3, <1>4, <1>5 DEF s

(* A square can only be played on the position both show.                  *)
LEMMA PlayIs ==
  ASSUME GameInv, NEW square \in legalMoves(Latest(positions)) \cup getValidMoves(board)
  PROVE  /\ Disjoint(Latest(positions)) /\ HasMoves(Latest(positions))
         /\ board = Latest(positions) /\ blackTurn = (Len(moves) % 2 = 0)
         /\ square \in legalMoves(board) /\ square \in Squares /\ square # PassMove
         /\ IsValidMove(Latest(positions), square) /\ getFlipped(board, square) # {}
<1> DEFINE b == Latest(positions)
<1>1. Disjoint(b) /\ Disjoint(Passed(b))
  <2>1. Len(positions) \in 1..Len(positions)
    BY DEF GameInv, Recorded, RecordTypes
  <2>2. Disjoint(b)
    BY <2>1 DEF GameInv, Recorded, RecordTypes, Latest
  <2> QED
    BY <2>2, PassedIs
<1>2. ~GameOver(b)
  <2>1. SUFFICES ASSUME GameOver(b) PROVE FALSE
    OBVIOUS
  <2>2. legalMoves(b) = {} /\ legalMoves(Passed(b)) = {}
    BY <2>1 DEF GameOver, HasMoves
  <2>3. board \in {b, Passed(b)}
    BY DEF GameInv, OneGame
  <2>4. getValidMoves(board) = {}
    BY <1>1, <2>2, <2>3, SameMoves
  <2> QED
    BY <2>2, <2>4
<1>3. HasMoves(b) /\ board = b /\ blackTurn = (Len(moves) % 2 = 0)
  BY <1>2 DEF GameInv, OneGame
<1>4. square \in legalMoves(b) /\ square \in getValidMoves(b)
  BY <1>1, <1>3, SameMoves
<1>5. square \in Squares /\ getFlipped(b, square) # {}
  BY <1>4 DEF getValidMoves
<1>6. square # PassMove
  BY <1>5 DEF Squares, PassMove
<1> QED
  BY <1>1, <1>3, <1>4, <1>5, <1>6 DEF IsValidMove

LEMMA PlayStep ==
  ASSUME GameInv, NEW square \in legalMoves(Latest(positions)) \cup getValidMoves(board), Play(square)
  PROVE  GameInv' /\ Len(moves') > Len(moves)
<1> DEFINE b == Latest(positions)
           next == applyMove(b, square)
           turn == Len(moves) % 2 = 0
           ms1 == Append(moves, square)
           ps1 == Append(positions, next)
           bh1 == Append(boardHistory, [board |-> b, black |-> turn])
<1>1. /\ Disjoint(b) /\ HasMoves(b) /\ board = b /\ blackTurn = turn
      /\ square \in legalMoves(b) /\ square \in Squares /\ square # PassMove
      /\ IsValidMove(b, square) /\ getFlipped(board, square) # {}
  BY PlayIs
<1>2. PushMove(square) /\ onCellClick(square)
  BY <1>1 DEF Play
<1>3. /\ moves \in Seq(Squares \cup {PassMove}) /\ positions \in Seq(Position) /\ Len(moves) \in Nat
      /\ Len(positions) = Len(moves) + 1
  BY DEF GameInv, Recorded, RecordTypes
<1>4. DoMove(b, square) = next /\ doMove(board, square) = next
  BY <1>1, SameBoards DEF DoMove
<1>5. Recorded(ms1, ps1) /\ Disjoint(next) /\ Latest(ps1) = next /\ Latest(ms1) = square
  BY <1>1, <1>4, RecordOne DEF GameInv
<1>6. Linked(ms1, ps1, bh1)
  BY <1>1, LinkMove DEF GameInv
<1>7. Disjoint(Passed(next)) /\ Passed(Passed(next)) = next /\ next \in Position /\ Passed(next) \in Position
  BY <1>5, PassedIs DEF Disjoint
<1>8. /\ (hasValidMoves(next) <=> HasMoves(next)) /\ (hasValidMoves(Passed(next)) <=> HasMoves(Passed(next)))
  BY <1>5, <1>7, SameMoves DEF hasValidMoves, HasMoves
<1>9. ShownPosition = [board |-> b, black |-> turn] /\ turn \in BOOLEAN
  BY <1>1 DEF ShownPosition
<1> DEFINE entry1 == [board |-> next, black |-> ~turn]
           entry2 == [board |-> Passed(next), black |-> turn]
           then == <<entry1, entry2, entry1>>
           ms2 == Append(ms1, PassMove)
           ps2 == Append(ps1, Passed(next))
           bh2 == Append(bh1, entry1)
           bh3 == Append(bh2, entry2)
<1>10. /\ Len(ms1) = Len(moves) + 1 /\ ms1 \in Seq(Squares \cup {PassMove}) /\ ps1[1] = positions[1]
       /\ Len(ps1) = Len(moves) + 2 /\ ps1 \in Seq(Position) /\ ms1 # <<>>
       /\ Len(ms2) = Len(moves) + 2 /\ ps2[1] = positions[1]
  BY <1>1, <1>3, <1>7
<1>11. boardHistory \in Seq([board : Position, black : BOOLEAN]) /\ bh1 \in Seq([board : Position, black : BOOLEAN])
       /\ entry1 \in [board : Position, black : BOOLEAN] /\ entry2 \in [board : Position, black : BOOLEAN]
  <2>1. b \in Position
    BY <1>1 DEF Disjoint
  <2> QED
    BY <1>7, <1>9, <2>1 DEF GameInv, Linked, Entries
<1>12. /\ ((Len(moves) + 1) % 2 = 0) = ~turn /\ ((Len(moves) + 2) % 2 = 0) = turn
  BY <1>3
<1>13. then[1] = entry1 /\ then[2] = entry2 /\ then[3] = entry1
       /\ SubSeq(then, 1, 0) = <<>> /\ SubSeq(then, 1, 1) = <<entry1>> /\ SubSeq(then, 1, 2) = <<entry1, entry2>>
  <2> HIDE DEF entry1, entry2
  <2> DEFINE T == [board : Position, black : BOOLEAN]
  <2>1. entry1 \in T /\ entry2 \in T
    BY <1>11
  <2> HIDE DEF T
  <2> QED
    BY <2>1, FirstOfThree
<1>14. /\ moves \o <<square>> = ms1 /\ positions \o <<next>> = ps1
       /\ moves \o <<square, PassMove>> = ms2 /\ positions \o <<next, Passed(next)>> = ps2
  BY <1>1, <1>3, <1>7
<1>15. bh1 \o <<>> = bh1 /\ bh1 \o <<entry1>> = bh2 /\ bh1 \o <<entry1, entry2>> = bh3
  <2> HIDE DEF bh1, entry1, entry2
  <2> QED
    BY <1>11, Twice DEF bh2, bh3
<1>16. positions[1] \in Starts
  BY DEF GameInv
<1>17. PICK passes \in 0..2 :
         /\ passes = IF HasMoves(next) THEN 0 ELSE IF HasMoves(Passed(next)) THEN 1 ELSE 2
         /\ board' = then[passes + 1].board /\ blackTurn' = then[passes + 1].black
         /\ boardHistory' = bh1 \o SubSeq(then, 1, passes)
  <2> DEFINE child == doMove(board, square)
             passes == IF hasValidMoves(child) THEN 0 ELSE IF hasValidMoves(Passed(child)) THEN 1 ELSE 2
             after == <<[board |-> child, black |-> ~blackTurn], [board |-> Passed(child), black |-> blackTurn],
                        [board |-> child, black |-> ~blackTurn]>>
  <2>1. /\ board' = after[passes + 1].board /\ blackTurn' = after[passes + 1].black
        /\ boardHistory' = Append(boardHistory, ShownPosition) \o SubSeq(after, 1, passes)
    BY <1>2 DEF onCellClick
  <2>2. after = then /\ Append(boardHistory, ShownPosition) = bh1 /\ child = next
    BY <1>1, <1>4, <1>9
  <2>3. passes \in 0..2 /\ passes = IF HasMoves(next) THEN 0 ELSE IF HasMoves(Passed(next)) THEN 1 ELSE 2
    <3> HIDE DEF child, next
    <3> QED
      BY <1>8, <2>2
  <2> HIDE DEF after, passes, then, bh1, child
  <2> QED
    BY <2>1, <2>2, <2>3
<1>18. /\ moves' = IF ~HasMoves(next) /\ HasMoves(Passed(next)) THEN ms2 ELSE ms1
       /\ positions' = IF ~HasMoves(next) /\ HasMoves(Passed(next)) THEN ps2 ELSE ps1
  BY <1>1, <1>2, <1>4, <1>14 DEF PushMove, Record
<1> HIDE DEF b, next, turn, ms1, ps1, bh1, entry1, entry2, then, ms2, ps2, bh2, bh3
<1>19. entry1.board = next /\ entry1.black = ~turn /\ entry2.board = Passed(next) /\ entry2.black = turn
  BY DEF entry1, entry2
<1>20. CASE HasMoves(next)
  <2>0. passes = 0 /\ passes + 1 = 1
    BY <1>17, <1>20
  <2>1. /\ board' = next /\ blackTurn' = ~turn /\ boardHistory' = bh1 /\ moves' = ms1 /\ positions' = ps1
    BY <1>13, <1>15, <1>17, <1>18, <1>19, <1>20, <2>0
  <2>2. OneGame(ms1, ps1, next, ~turn)
    BY <1>5, <1>10, <1>12, <1>20 DEF OneGame
  <2> QED
    BY <1>3, <1>5, <1>6, <1>9, <1>10, <1>16, <2>1, <2>2 DEF GameInv
<1>21. CASE ~HasMoves(next) /\ HasMoves(Passed(next))
  <2>0. passes = 1 /\ passes + 1 = 2
    BY <1>17, <1>21
  <2>1. /\ board' = Passed(next) /\ blackTurn' = turn /\ boardHistory' = bh2 /\ moves' = ms2 /\ positions' = ps2
    BY <1>13, <1>15, <1>17, <1>18, <1>19, <1>21, <2>0
  <2>2. DoMove(next, PassMove) = Passed(next) /\ IsValidMove(next, PassMove)
    BY <1>21 DEF DoMove, IsValidMove
  <2>3. Recorded(ms2, ps2) /\ Latest(ps2) = Passed(next)
    BY <1>1, <1>5, <1>10, <2>2, RecordOne DEF ms2, ps2
  <2>4. Linked(ms2, ps2, bh2)
    BY <1>5, <1>6, <1>11, <1>19, <1>21, LinkPass, LinkStuck DEF ms2, ps2, bh2
  <2>5. OneGame(ms2, ps2, Passed(next), turn)
    BY <1>10, <1>12, <1>21, <2>3 DEF OneGame
  <2> QED
    BY <1>3, <1>9, <1>10, <1>16, <2>1, <2>3, <2>4, <2>5 DEF GameInv
<1>22. CASE ~HasMoves(next) /\ ~HasMoves(Passed(next))
  <2>0. passes = 2 /\ passes + 1 = 3
    BY <1>17, <1>22
  <2>1. /\ board' = next /\ blackTurn' = ~turn /\ boardHistory' = bh3 /\ moves' = ms1 /\ positions' = ps1
    BY <1>13, <1>15, <1>17, <1>18, <1>19, <1>22, <2>0
  <2>2. Linked(ms1, ps1, bh2)
    BY <1>5, <1>6, <1>11, <1>19, <1>22, LinkStuck DEF bh2
  <2>3. Linked(ms1, ps1, bh3)
    BY <1>7, <1>11, <1>19, <1>22, <2>2, LinkStuck DEF bh3
  <2>4. OneGame(ms1, ps1, next, ~turn)
    <3>1. (Len(ms1) % 2 = 0) = ~turn
      BY <1>10, <1>12
    <3>2. GameOver(next) /\ Latest(ps1) = next
      BY <1>5, <1>22 DEF GameOver
    <3> DEFINE t == Len(ms1) % 2 = 0
    <3>3. (~turn) = t
      BY <3>1
    <3> HIDE DEF t
    <3>4. GameOver(Latest(ps1)) /\ next = Latest(ps1)
      BY <3>2
    <3> QED
      BY <3>3, <3>4 DEF OneGame, t
  <2> QED
    BY <1>3, <1>5, <1>9, <1>10, <1>16, <2>1, <2>3, <2>4 DEF GameInv
<1> QED
  BY <1>20, <1>21, <1>22

LEMMA PassStep ==
  ASSUME GameInv, PlayPass
  PROVE  GameInv' /\ Len(moves') > Len(moves)
<1> DEFINE b == Latest(positions)
           turn == Len(moves) % 2 = 0
           ms1 == Append(moves, PassMove)
           ps1 == Append(positions, Passed(b))
<1>1. /\ moves \in Seq(Squares \cup {PassMove}) /\ positions \in Seq(Position) /\ Len(moves) \in Nat
      /\ Len(positions) = Len(moves) + 1 /\ \A n \in 1..Len(positions) : Disjoint(positions[n])
  BY DEF GameInv, Recorded, RecordTypes
<1>2. Disjoint(b)
  BY <1>1 DEF Latest
<1>3. Disjoint(Passed(b)) /\ Passed(Passed(b)) = b /\ Passed(b) \in Position
  BY <1>2, PassedIs DEF Disjoint
<1>4. IsValidMove(b, PassMove) /\ ~HasMoves(b) /\ DoMove(b, PassMove) = Passed(b)
  BY DEF PlayPass, IsValidMove, DoMove
<1>5. moves # <<>> /\ Latest(moves) # PassMove
  <2>1. moves # <<>>
    <3>1. SUFFICES ASSUME moves = <<>> PROVE FALSE
      OBVIOUS
    <3>2. Len(positions) = 1
      BY <1>1, <3>1
    <3>3. b = positions[1]
      BY <3>2 DEF Latest
    <3> QED
      BY <1>4, <3>3, StartIs DEF GameInv
  <2> QED
    BY <2>1 DEF PlayPass, RepeatsPass
<1>6. GameOver(b) /\ ((board = b /\ blackTurn = turn) \/ (board = Passed(b) /\ blackTurn = ~turn))
  <2> HIDE DEF b, turn
  <2> QED
    BY <1>4 DEF GameInv, OneGame, b, turn
<1>7. Recorded(ms1, ps1) /\ Latest(ps1) = Passed(b)
  BY <1>4, <1>5, RecordOne DEF GameInv
<1>8. Linked(ms1, ps1, boardHistory)
  BY LinkPass DEF GameInv
<1>9. moves' = ms1 /\ positions' = ps1 /\ UNCHANGED pageVars
  <2>1. moves' = moves \o <<PassMove>> /\ positions' = positions \o <<Passed(b)>> /\ UNCHANGED pageVars
    BY <1>4 DEF PlayPass, PushMove, Record
  <2> QED
    BY <1>1, <1>3, <2>1
<1>10. ((Len(moves) + 1) % 2 = 0) = ~turn
  BY <1>1
<1>11. Len(ms1) = Len(moves) + 1 /\ ps1[1] = positions[1]
  BY <1>1, <1>3
<1> HIDE DEF b, turn, ms1, ps1
<1>12. OneGame(ms1, ps1, board, blackTurn)
  <2>1. GameOver(Passed(b))
    BY <1>3, <1>6 DEF GameOver
  <2>2. turn \in BOOLEAN /\ (Len(ms1) % 2 = 0) = ~turn
    BY <1>10, <1>11 DEF turn
  <2>3. CASE board = b /\ blackTurn = turn
    BY <1>3, <1>7, <2>1, <2>2, <2>3 DEF OneGame
  <2>4. CASE board = Passed(b) /\ blackTurn = ~turn
    BY <1>7, <2>1, <2>2, <2>4 DEF OneGame
  <2> QED
    BY <1>6, <2>3, <2>4
<1> QED
  BY <1>1, <1>7, <1>8, <1>9, <1>11, <1>12 DEF GameInv, pageVars

LEMMA UndoStep ==
  ASSUME GameInv, Undo
  PROVE  LET i == Max(Real(moves))
         IN  /\ GameInv' /\ i \in 1..Len(moves)
             /\ moves' = SubSeq(moves, 1, i - 1) /\ Latest(positions') = positions[i] /\ board' = positions[i]
<1> DEFINE i == Max(Real(moves))
           k == Len(moves)
           ms1 == SubSeq(moves, 1, i - 1)
           ps1 == SubSeq(positions, 1, i)
           n == Max({1} \cup {h \in DOMAIN boardHistory : hasValidMoves(boardHistory[h].board)})
           bh1 == SubSeq(boardHistory, 1, n - 1)
<1>1. /\ moves \in Seq(Squares \cup {PassMove}) /\ positions \in Seq(Position) /\ k \in Nat /\ Len(positions) = k + 1
      /\ \A j \in 1..Len(positions) : Disjoint(positions[j])
  BY DEF GameInv, Recorded, RecordTypes
<1>2. moves # <<>> /\ PopMove
  BY DEF Undo
<1>3. /\ i \in 1..k /\ moves[i] \in legalMoves(positions[i])
      /\ i = IF k >= 2 /\ Latest(moves) = PassMove THEN k - 1 ELSE k
  BY <1>2, LastReal DEF GameInv
<1>4. moves' = ms1 /\ positions' = ps1
  <2> DEFINE m == IF k >= 2 /\ Latest(moves) = PassMove THEN 2 ELSE 1
  <2>1. moves' = SubSeq(moves, 1, k - m) /\ positions' = SubSeq(positions, 1, (k + 1) - m)
    BY <1>1, <1>2 DEF PopMove, Shortened
  <2> HIDE DEF i
  <2>2. k - m = i - 1 /\ (k + 1) - m = i
    BY <1>1, <1>3
  <2> QED
    BY <2>1, <2>2
<1>5. /\ n \in DOMAIN boardHistory /\ boardHistory # <<>>
      /\ boardHistory[n] = [board |-> positions[i], black |-> i % 2 = 1]
      /\ Linked(ms1, ps1, bh1)
  BY <1>2, LinkBack DEF GameInv
<1>6. board' = positions[i] /\ blackTurn' = (i % 2 = 1) /\ boardHistory' = bh1
  <2>1. undoMove
    BY <1>5 DEF Undo
  <2>2. board' = boardHistory[n].board /\ blackTurn' = boardHistory[n].black /\ boardHistory' = bh1
    BY <2>1 DEF undoMove
  <2> HIDE DEF n, i, bh1
  <2> QED
    BY <1>5, <2>2
<1> HIDE DEF i
<1>7. Recorded(ms1, ps1) /\ Latest(ps1) = positions[i]
  <2>1. i - 1 \in 0..k /\ (i - 1) + 1 = i
    BY <1>1, <1>3
  <2>2. /\ Recorded(SubSeq(moves, 1, i - 1), SubSeq(positions, 1, (i - 1) + 1))
        /\ Latest(SubSeq(positions, 1, (i - 1) + 1)) = positions[(i - 1) + 1]
    BY <2>1, RecordBack DEF GameInv
  <2> QED
    BY <2>1, <2>2
<1>8. Len(ms1) = i - 1 /\ ps1[1] = positions[1]
  <2>1. i - 1 \in 0..k /\ i \in 0..Len(positions) /\ 1 \in 1..i
    BY <1>1, <1>3
  <2> QED
    BY <1>1, <2>1, Prefix
<1>9. OneGame(ms1, ps1, positions[i], i % 2 = 1)
  <2>1. (i % 2 = 1) = ((i - 1) % 2 = 0)
    <3>1. i \in Int /\ \A j \in Int : (j % 2 = 1) = ((j - 1) % 2 = 0)
      BY <1>1, <1>3
    <3> QED
      BY <3>1
  <2>2. HasMoves(positions[i])
    BY <1>3 DEF HasMoves
  <2> HIDE DEF ms1, ps1
  <2> QED
    BY <1>7, <1>8, <2>1, <2>2 DEF OneGame
<1>10. GameInv'
  <2> HIDE DEF ms1, ps1, bh1
  <2> QED
    BY <1>4, <1>5, <1>6, <1>7, <1>8, <1>9 DEF GameInv
<1> QED
  BY <1>3, <1>4, <1>6, <1>7, <1>10 DEF i

LEMMA GameInvStep == GameInv /\ [GameNext]_gameVars => GameInv'
<1> SUFFICES ASSUME GameInv, [GameNext]_gameVars PROVE GameInv'
  OBVIOUS
<1>1. ASSUME NEW square \in legalMoves(Latest(positions)) \cup getValidMoves(board), Play(square) PROVE GameInv'
  BY <1>1, PlayStep
<1>2. CASE PlayPass
  BY <1>2, PassStep
<1>3. CASE Undo
  BY <1>3, UndoStep
<1>4. CASE UNCHANGED gameVars
  BY <1>4 DEF GameInv, gameVars, serverVars, pageVars
<1> QED
  BY <1>1, <1>2, <1>3, <1>4 DEF GameNext

LEMMA GameInvHolds == GameSpec => []GameInv
  BY GameInvInit, GameInvStep, PTL DEF GameSpec

LEMMA LastIs ==
  ASSUME GameInv
  PROVE  /\ Disjoint(Latest(positions)) /\ Disjoint(Passed(Latest(positions))) /\ Disjoint(board)
         /\ Discs(board) = Discs(Latest(positions)) /\ Passed(Passed(Latest(positions))) = Latest(positions)
<1> DEFINE b == Latest(positions)
<1>1. Disjoint(b)
  <2>1. Len(positions) \in 1..Len(positions)
    BY DEF GameInv, Recorded, RecordTypes
  <2> QED
    BY <2>1 DEF GameInv, Recorded, RecordTypes, Latest
<1>2. Disjoint(Passed(b)) /\ Discs(Passed(b)) = Discs(b) /\ Passed(Passed(b)) = b
  BY <1>1, PassedIs
<1>3. board = b \/ board = Passed(b)
  BY DEF GameInv, OneGame
<1> QED
  BY <1>1, <1>2, <1>3

(* Type correctness: discs never overlap, on the server or on the page, and *)
(* every square played adds one.                                           *)
THEOREM TypeCorrect == GameSpec => []TypeOK
<1>1. ASSUME GameInv PROVE TypeOK
  <2> DEFINE b == Latest(positions)
             R == {i \in Real(moves) : i < Len(positions)}
  <2>1. /\ moves \in Seq(Squares \cup {PassMove}) /\ positions \in Seq(Position)
        /\ Len(positions) = Len(moves) + 1 /\ Len(moves) \in Nat /\ DOMAIN moves = 1..Len(moves)
    BY <1>1 DEF GameInv, Recorded, RecordTypes
  <2>2. Disjoint(b) /\ Disjoint(board) /\ Discs(board) = Discs(b)
    BY <1>1, LastIs
  <2>3. Cardinality(Discs(b)) = Cardinality(Discs(positions[1])) + Cardinality(R)
    <3>1. Len(positions) \in 1..Len(positions)
      BY <2>1
    <3> QED
      BY <1>1, <3>1 DEF GameInv, Recorded, RecordCounts, Latest
  <2>4. R = RealMoves
    BY <2>1 DEF Real, RealMoves
  <2>5. boardHistory \in Seq([board : Position, black : BOOLEAN]) /\ blackTurn \in BOOLEAN /\ board \in Position
    BY <1>1, <2>2 DEF GameInv, Linked, Entries, Disjoint
  <2>6. \A c \in {board, b} :
          /\ c.player \cap c.opponent = {}
          /\ Cardinality(Discs(c)) = Cardinality(Discs(positions[1])) + Cardinality(RealMoves)
    BY <2>2, <2>3, <2>4 DEF Disjoint
  <2> QED
    BY <2>1, <2>5, <2>6 DEF TypeOK
<1> QED
  BY <1>1, GameInvHolds, PTL

(* The page and the server's record are the same game: its discs, in their  *)
(* colors, and control with a player who can move unless it is over.        *)
THEOREM PageFollowsRecord == GameSpec => []SameGame
<1>1. ASSUME GameInv PROVE SameGame
  <2> DEFINE b == Latest(positions)
  <2>1. Passed(Passed(b)) = b
    BY <1>1, LastIs
  <2>2. \/ HasMoves(b) /\ board = b /\ blackTurn = RecordTurn
        \/ GameOver(b) /\ ((board = b /\ blackTurn = RecordTurn) \/ (board = Passed(b) /\ blackTurn = ~RecordTurn))
    BY <1>1 DEF GameInv, OneGame, RecordTurn
  <2>3. \A c \in {board, b} : HasMoves(c) \/ GameOver(c)
    <3>1. GameOver(b) => GameOver(Passed(b))
      BY <2>1 DEF GameOver
    <3> HIDE DEF b
    <3> QED
      BY <2>2, <3>1
  <2>4. RecordTurn \in BOOLEAN /\ blackTurn \in BOOLEAN
    BY <1>1 DEF RecordTurn, GameInv
  <2>5. ASSUME NEW black \in BOOLEAN
        PROVE  BlackDiscs(board, blackTurn = black) = BlackDiscs(b, RecordTurn = black)
    <3>1. CASE board = b /\ blackTurn = RecordTurn
      BY <3>1
    <3>2. CASE board = Passed(b) /\ blackTurn = ~RecordTurn
      <4>1. Passed(b).player = b.opponent /\ Passed(b).opponent = b.player
        BY DEF Passed
      <4>2. (blackTurn = black) = ~(RecordTurn = black)
        BY <2>4, <3>2
      <4> HIDE DEF b
      <4> QED
        BY <3>2, <4>1, <4>2 DEF BlackDiscs
    <3> QED
      BY <2>2, <3>1, <3>2
  <2> QED
    BY <2>3, <2>5 DEF SameGame
<1> QED
  BY <1>1, GameInvHolds, PTL

(* An undo takes back the last square played, with the passes that followed *)
(* it, from the record and from the page.                                  *)
THEOREM UndoIsOneMove == GameSpec => UndoTakesBack
<1> DEFINE Back == Len(moves') < Len(moves) =>
                     LET i == Max(RealMoves) IN
                     moves' = SubSeq(moves, 1, i - 1) /\ Latest(positions') = positions[i] /\ board' = positions[i]
<1>1. ASSUME GameInv, [GameNext]_gameVars PROVE [Back]_gameVars
  <2>1. RealMoves = Real(moves) /\ Len(moves) \in Nat
    BY <1>1 DEF RealMoves, Real, GameInv, Recorded, RecordTypes
  <2>2. ASSUME NEW square \in legalMoves(Latest(positions)) \cup getValidMoves(board), Play(square) PROVE Back
    <3>1. Len(moves') > Len(moves) /\ Len(moves') \in Nat
      BY <1>1, <2>2, PlayStep DEF GameInv, Recorded, RecordTypes
    <3> QED
      BY <2>1, <3>1
  <2>3. CASE PlayPass
    <3>1. Len(moves') > Len(moves) /\ Len(moves') \in Nat
      BY <1>1, <2>3, PassStep DEF GameInv, Recorded, RecordTypes
    <3> QED
      BY <2>1, <3>1
  <2>4. CASE Undo
    BY <1>1, <2>1, <2>4, UndoStep
  <2> QED
    BY <1>1, <2>2, <2>3, <2>4 DEF GameNext
<1> QED
  BY <1>1, GameInvHolds, PTL DEF GameSpec, UndoTakesBack

(* The three programs agree on every position of every game.               *)
THEOREM ProgramsPlayAlike == GameSpec => []ProgramsAgree
<1>1. ASSUME GameInv PROVE ProgramsAgree
  <2>1. Disjoint(Latest(positions)) /\ Disjoint(Passed(Latest(positions)))
    BY <1>1, LastIs
  <2> QED
    BY <2>1, SameMoves, SameBoards, SameScores DEF ProgramsAgree
<1> QED
  BY <1>1, GameInvHolds, PTL

-----------------------------------------------------------------------------
(* The eight images of a position have one normal form, and each has the   *)
(* image of its moves (normalisation of game/board: what is stored under   *)
(* the normal form is true of every position it stands for).               *)
THEOREM NormalFormsAgree == GameSpec => []NormalFormIsCommon
<1>1. ASSUME GameInv PROVE NormalFormIsCommon
  <2>1. Disjoint(Latest(positions))
    BY <1>1, LastIs
  <2> QED
    BY <2>1, RotatedIs, SameNormalForm DEF NormalFormIsCommon
<1> QED
  BY <1>1, GameInvHolds, PTL

-----------------------------------------------------------------------------
(* Stable edges *)

EdgesLeft(e) == Cardinality(Edge \ (e.p \cup e.o))

LEMMA EdgesLeftIs ==
  /\ \A e \in EdgeQuestion : EdgesLeft(e) \in 0..8
  /\ \A e, d \in EdgeQuestion :
       \A i \in Edge : i \notin e.p \cup e.o /\ e.p \cup e.o \cup {i} \subseteq d.p \cup d.o
                         => EdgesLeft(d) < EdgesLeft(e)
<1>1. IsFiniteSet(Edge) /\ Cardinality(Edge) = 8
  <2>1. 0 \in Int /\ 7 \in Int /\ 7 >= 0
    OBVIOUS
  <2>2. \A a, b \in Int : IsFiniteSet(a..b) /\ (a <= b => Cardinality(a..b) = b - a + 1)
    BY FS_Interval
  <2>3. IsFiniteSet(0..7) /\ Cardinality(0..7) = 7 - 0 + 1
    BY <2>1, <2>2
  <2> QED
    BY <2>3 DEF Edge
<1>2. ASSUME NEW e \in EdgeQuestion PROVE IsFiniteSet(Edge \ (e.p \cup e.o)) /\ EdgesLeft(e) \in 0..8
  <2>1. IsFiniteSet(Edge \ (e.p \cup e.o)) /\ Cardinality(Edge \ (e.p \cup e.o)) <= Cardinality(Edge)
    BY <1>1, FS_Subset
  <2> QED
    BY <1>1, <2>1, FS_CardinalityType DEF EdgesLeft
<1>3. ASSUME NEW e \in EdgeQuestion, NEW d \in EdgeQuestion, NEW i \in Edge, i \notin e.p \cup e.o,
             e.p \cup e.o \cup {i} \subseteq d.p \cup d.o
      PROVE  EdgesLeft(d) < EdgesLeft(e)
  <2> DEFINE S == Edge \ (e.p \cup e.o)
             T == Edge \ (d.p \cup d.o)
  <2>1. T \subseteq S /\ T # S
    BY <1>3
  <2>2. IsFiniteSet(S) /\ IsFiniteSet(T)
    BY <1>2
  <2> HIDE DEF S, T
  <2>3. Cardinality(T) <= Cardinality(S) /\ (Cardinality(T) = Cardinality(S) => T = S)
    BY <2>1, <2>2, FS_Subset
  <2>4. Cardinality(S) \in Nat /\ Cardinality(T) \in Nat
    BY <2>2, FS_CardinalityType
  <2>5. Cardinality(T) < Cardinality(S)
    BY <2>1, <2>3, <2>4
  <2> QED
    BY <2>5 DEF EdgesLeft, S, T
<1> QED
  BY <1>2, <1>3

(* The edge after a play of i *)
AfterOwn(e, i, st) == [p |-> e.p \cup EdgeFlips(e.p, e.o, i) \cup {i}, o |-> e.o \ EdgeFlips(e.p, e.o, i), stable |-> st]
AfterOther(e, i, st) == [p |-> e.p \ EdgeFlips(e.o, e.p, i), o |-> e.o \cup EdgeFlips(e.o, e.p, i) \cup {i}, stable |-> st]

LEMMA EdgeFlipsIs == \A p, o \in SUBSET Edge, i \in Edge : EdgeFlips(p, o, i) \subseteq o
  BY DEF EdgeFlips

LEMMA AfterIs ==
  ASSUME NEW e \in EdgeQuestion, NEW i \in Edge, i \notin e.p \cup e.o, NEW st \in SUBSET Edge
  PROVE  /\ AfterOwn(e, i, st) \in EdgeQuestion /\ EdgesLeft(AfterOwn(e, i, st)) < EdgesLeft(e)
         /\ AfterOther(e, i, st) \in EdgeQuestion /\ EdgesLeft(AfterOther(e, i, st)) < EdgesLeft(e)
<1>1. e.p \in SUBSET Edge /\ e.o \in SUBSET Edge
  BY DEF EdgeQuestion
<1>2. EdgeFlips(e.p, e.o, i) \subseteq e.o /\ EdgeFlips(e.o, e.p, i) \subseteq e.p
  BY <1>1, EdgeFlipsIs
<1>3. AfterOwn(e, i, st) \in EdgeQuestion /\ AfterOther(e, i, st) \in EdgeQuestion
  BY <1>1, <1>2 DEF AfterOwn, AfterOther, EdgeQuestion
<1>4. e.p \cup e.o \cup {i} \subseteq AfterOwn(e, i, st).p \cup AfterOwn(e, i, st).o
  BY <1>2 DEF AfterOwn
<1>5. e.p \cup e.o \cup {i} \subseteq AfterOther(e, i, st).p \cup AfterOther(e, i, st).o
  BY <1>2 DEF AfterOther
<1> QED
  BY <1>3, <1>4, <1>5, EdgesLeftIs

LEMMA TriedUnfolds ==
  \A f, e, i, st : Tried(f, e, i, st) = IF i \in e.p \cup e.o THEN st ELSE f[AfterOther(e, i, f[AfterOwn(e, i, st)])]
  BY DEF Tried, AfterPlays, AfterOwn, AfterOther

AllTried(f, e, kept) ==
  Tried(f, e, 7, Tried(f, e, 6, Tried(f, e, 5, Tried(f, e, 4,
    Tried(f, e, 3, Tried(f, e, 2, Tried(f, e, 1, Tried(f, e, 0, kept))))))))
Answer(f, e) == IF e.stable \cap e.p = {} THEN {} ELSE AllTried(f, e, e.stable \cap e.p)

(* Searches that answer with squares they were asked about *)
Searches == {f \in [EdgeQuestion -> SUBSET Edge] : \A e \in EdgeQuestion : f[e] \subseteq e.stable \cap e.p}

(* What is left after the squares tried so far *)
Steps8(f, e, r) ==
  /\ r \in [0..8 -> SUBSET Edge] /\ r[0] = e.stable \cap e.p
  /\ \A i \in Edge : r[i + 1] = Tried(f, e, i, r[i]) /\ r[i + 1] \subseteq r[i]

LEMMA TriedIs ==
  ASSUME NEW f \in Searches, NEW e \in EdgeQuestion, NEW i \in Edge, NEW st \in SUBSET Edge
  PROVE  Tried(f, e, i, st) \in SUBSET Edge /\ Tried(f, e, i, st) \subseteq st
<1>1. CASE i \in e.p \cup e.o
  BY <1>1, TriedUnfolds
<1>2. CASE i \notin e.p \cup e.o
  <2> DEFINE own == AfterOwn(e, i, st)
             other == AfterOther(e, i, f[own])
  <2>1. own \in EdgeQuestion /\ own.stable = st
    BY <1>2, AfterIs DEF AfterOwn
  <2>2. f[own] \in SUBSET Edge /\ f[own] \subseteq st
    BY <2>1 DEF Searches
  <2>3. other \in EdgeQuestion /\ other.stable = f[own]
    BY <1>2, <2>2, AfterIs DEF AfterOther
  <2>4. f[other] \in SUBSET Edge /\ f[other] \subseteq f[own]
    BY <2>3 DEF Searches
  <2>5. Tried(f, e, i, st) = f[other]
    BY <1>2, TriedUnfolds
  <2> QED
    BY <2>2, <2>4, <2>5
<1> QED
  BY <1>1, <1>2

LEMMA AllTriedIs ==
  ASSUME NEW f \in Searches, NEW e \in EdgeQuestion
  PROVE  \E r : Steps8(f, e, r) /\ AllTried(f, e, e.stable \cap e.p) = r[8]
<1> DEFINE T(i, x) == Tried(f, e, i, x)
           k0 == e.stable \cap e.p
           k1 == T(0, k0)
           k2 == T(1, k1)
           k3 == T(2, k2)
           k4 == T(3, k3)
           k5 == T(4, k4)
           k6 == T(5, k5)
           k7 == T(6, k6)
           k8 == T(7, k7)
           r == [n \in 0..8 |-> CASE n = 0 -> k0 [] n = 1 -> k1 [] n = 2 -> k2 [] n = 3 -> k3 [] n = 4 -> k4
                                  [] n = 5 -> k5 [] n = 6 -> k6 [] n = 7 -> k7 [] n = 8 -> k8]
<1>1. AllTried(f, e, e.stable \cap e.p) = k8
  BY DEF AllTried
<1>2. k0 \in SUBSET Edge
  BY DEF EdgeQuestion
<1>3. \A i \in Edge, x \in SUBSET Edge : T(i, x) \in SUBSET Edge /\ T(i, x) \subseteq x
  BY TriedIs
<1>4. 0 \in Edge /\ 1 \in Edge /\ 2 \in Edge /\ 3 \in Edge /\ 4 \in Edge /\ 5 \in Edge /\ 6 \in Edge /\ 7 \in Edge
  BY DEF Edge
<1> HIDE DEF T
<1>5. k1 \in SUBSET Edge /\ k1 \subseteq k0
  BY <1>2, <1>3, <1>4
<1> HIDE DEF k0
<1>6. k2 \in SUBSET Edge /\ k2 \subseteq k1
  BY <1>3, <1>4, <1>5
<1> HIDE DEF k1
<1>7. k3 \in SUBSET Edge /\ k3 \subseteq k2
  BY <1>3, <1>4, <1>6
<1> HIDE DEF k2
<1>8. k4 \in SUBSET Edge /\ k4 \subseteq k3
  BY <1>3, <1>4, <1>7
<1> HIDE DEF k3
<1>9. k5 \in SUBSET Edge /\ k5 \subseteq k4
  BY <1>3, <1>4, <1>8
<1> HIDE DEF k4
<1>10. k6 \in SUBSET Edge /\ k6 \subseteq k5
  BY <1>3, <1>4, <1>9
<1> HIDE DEF k5
<1>11. k7 \in SUBSET Edge /\ k7 \subseteq k6
  BY <1>3, <1>4, <1>10
<1> HIDE DEF k6
<1>12. k8 \in SUBSET Edge /\ k8 \subseteq k7
  BY <1>3, <1>4, <1>11
<1>13. /\ k1 = T(0, k0) /\ k2 = T(1, k1) /\ k3 = T(2, k2) /\ k4 = T(3, k3)
       /\ k5 = T(4, k4) /\ k6 = T(5, k5) /\ k7 = T(6, k6) /\ k8 = T(7, k7)
  BY DEF k1, k2, k3, k4, k5, k6, k7
<1> HIDE DEF k7, k8
<1>14. /\ r[0] = k0 /\ r[1] = k1 /\ r[2] = k2 /\ r[3] = k3 /\ r[4] = k4 /\ r[5] = k5 /\ r[6] = k6
       /\ r[7] = k7 /\ r[8] = k8
  OBVIOUS
<1>15. r \in [0..8 -> SUBSET Edge]
  <2>1. \A n \in 0..8 : n \in {0, 1, 2, 3, 4, 5, 6, 7, 8}
    OBVIOUS
  <2>2. \A n \in {0, 1, 2, 3, 4, 5, 6, 7, 8} : r[n] \in SUBSET Edge
    <3> HIDE DEF r
    <3> QED
      BY <1>2, <1>5, <1>6, <1>7, <1>8, <1>9, <1>10, <1>11, <1>12, <1>14 DEF k0
  <2>3. r = [n \in 0..8 |-> r[n]]
    OBVIOUS
  <2> HIDE DEF r
  <2> QED
    BY <2>1, <2>2, <2>3
<1> HIDE DEF r
<1>16. ASSUME NEW i \in Edge PROVE r[i + 1] = T(i, r[i]) /\ r[i + 1] \subseteq r[i]
  <2>1. i = 0 \/ i = 1 \/ i = 2 \/ i = 3 \/ i = 4 \/ i = 5 \/ i = 6 \/ i = 7
    BY DEF Edge
  <2>2. 0 + 1 = 1 /\ 1 + 1 = 2 /\ 2 + 1 = 3 /\ 3 + 1 = 4 /\ 4 + 1 = 5 /\ 5 + 1 = 6 /\ 6 + 1 = 7 /\ 7 + 1 = 8
    OBVIOUS
  <2>3. /\ r[1] = T(0, r[0]) /\ r[2] = T(1, r[1]) /\ r[3] = T(2, r[2]) /\ r[4] = T(3, r[3])
        /\ r[5] = T(4, r[4]) /\ r[6] = T(5, r[5]) /\ r[7] = T(6, r[6]) /\ r[8] = T(7, r[7])
    BY <1>13, <1>14
  <2>4. /\ r[1] \subseteq r[0] /\ r[2] \subseteq r[1] /\ r[3] \subseteq r[2] /\ r[4] \subseteq r[3]
        /\ r[5] \subseteq r[4] /\ r[6] \subseteq r[5] /\ r[7] \subseteq r[6] /\ r[8] \subseteq r[7]
    BY <1>5, <1>6, <1>7, <1>8, <1>9, <1>10, <1>11, <1>12, <1>14
  <2> QED
    BY <2>1, <2>2, <2>3, <2>4
<1>17. Steps8(f, e, r)
  BY <1>14, <1>15, <1>16 DEF Steps8, T, k0
<1> QED
  BY <1>1, <1>14, <1>17

LEMMA Shrinks ==
  ASSUME NEW f, NEW e, NEW r, Steps8(f, e, r)
  PROVE  \A i \in 0..8 : r[8] \subseteq r[i]
<1>1. /\ r[0 + 1] \subseteq r[0] /\ r[1 + 1] \subseteq r[1] /\ r[2 + 1] \subseteq r[2] /\ r[3 + 1] \subseteq r[3]
      /\ r[4 + 1] \subseteq r[4] /\ r[5 + 1] \subseteq r[5] /\ r[6 + 1] \subseteq r[6] /\ r[7 + 1] \subseteq r[7]
  BY DEF Steps8, Edge
<1>2. 0 + 1 = 1 /\ 1 + 1 = 2 /\ 2 + 1 = 3 /\ 3 + 1 = 4 /\ 4 + 1 = 5 /\ 5 + 1 = 6 /\ 6 + 1 = 7 /\ 7 + 1 = 8
  OBVIOUS
<1>3. /\ r[1] \subseteq r[0] /\ r[2] \subseteq r[1] /\ r[3] \subseteq r[2] /\ r[4] \subseteq r[3]
      /\ r[5] \subseteq r[4] /\ r[6] \subseteq r[5] /\ r[7] \subseteq r[6] /\ r[8] \subseteq r[7]
  BY <1>1, <1>2
<1>4. ASSUME NEW i \in 0..8 PROVE i \in {0, 1, 2, 3, 4, 5, 6, 7, 8}
  OBVIOUS
<1>5. \A i \in {0, 1, 2, 3, 4, 5, 6, 7, 8} : r[8] \subseteq r[i]
  BY <1>3
<1> QED
  BY <1>4, <1>5

LEMMA AnswerIs ==
  ASSUME NEW f \in Searches, NEW e \in EdgeQuestion
  PROVE  Answer(f, e) \in SUBSET Edge /\ Answer(f, e) \subseteq e.stable \cap e.p
<1>1. PICK r : Steps8(f, e, r) /\ AllTried(f, e, e.stable \cap e.p) = r[8]
  BY AllTriedIs
<1>2. r[8] \subseteq r[0] /\ r[8] \in SUBSET Edge /\ r[0] = e.stable \cap e.p
  <2>1. \A i \in 0..8 : r[8] \subseteq r[i]
    BY <1>1, Shrinks, Zenon
  <2>2. r \in [0..8 -> SUBSET Edge] /\ r[0] = e.stable \cap e.p
    BY <1>1, Zenon DEF Steps8
  <2> QED
    BY <2>1, <2>2
<1> QED
  BY <1>1, <1>2 DEF Answer

(* It asks only about edges with fewer squares left.                        *)
LEMMA AnswerDepends ==
  ASSUME NEW f \in Searches, NEW g, NEW e \in EdgeQuestion,
         \A d \in EdgeQuestion : EdgesLeft(d) < EdgesLeft(e) => f[d] = g[d]
  PROVE  Answer(f, e) = Answer(g, e)
<1>1. ASSUME NEW i \in Edge, NEW st \in SUBSET Edge PROVE Tried(f, e, i, st) = Tried(g, e, i, st)
  <2>1. CASE i \in e.p \cup e.o
    BY <2>1, TriedUnfolds
  <2>2. CASE i \notin e.p \cup e.o
    <3>1. AfterOwn(e, i, st) \in EdgeQuestion /\ f[AfterOwn(e, i, st)] = g[AfterOwn(e, i, st)]
      BY <2>2, AfterIs
    <3> DEFINE left == f[AfterOwn(e, i, st)]
    <3>2. left \in SUBSET Edge
      BY <3>1 DEF Searches
    <3>3. f[AfterOther(e, i, left)] = g[AfterOther(e, i, left)]
      BY <2>2, <3>2, AfterIs
    <3> QED
      BY <2>2, <3>1, <3>3, TriedUnfolds
  <2> QED
    BY <2>1, <2>2
<1>2. PICK r : Steps8(f, e, r) /\ AllTried(f, e, e.stable \cap e.p) = r[8]
  BY AllTriedIs
<1>3. \A i \in Edge : r[i] \in SUBSET Edge /\ r[i + 1] = Tried(g, e, i, r[i])
  BY <1>1, <1>2 DEF Steps8, Edge
<1>4. /\ r[0 + 1] = Tried(g, e, 0, r[0]) /\ r[1 + 1] = Tried(g, e, 1, r[1]) /\ r[2 + 1] = Tried(g, e, 2, r[2])
      /\ r[3 + 1] = Tried(g, e, 3, r[3]) /\ r[4 + 1] = Tried(g, e, 4, r[4]) /\ r[5 + 1] = Tried(g, e, 5, r[5])
      /\ r[6 + 1] = Tried(g, e, 6, r[6]) /\ r[7 + 1] = Tried(g, e, 7, r[7])
  BY <1>3 DEF Edge
<1>5. 0 + 1 = 1 /\ 1 + 1 = 2 /\ 2 + 1 = 3 /\ 3 + 1 = 4 /\ 4 + 1 = 5 /\ 5 + 1 = 6 /\ 6 + 1 = 7 /\ 7 + 1 = 8
  OBVIOUS
<1>6. r[8] = AllTried(g, e, r[0])
  BY <1>4, <1>5 DEF AllTried
<1> QED
  BY <1>2, <1>6 DEF Answer, Steps8

LEMMA SearchUnfolds == find_edge_stable = CHOOSE f : f = [e \in EdgeQuestion |-> Answer(f, e)]
  BY Zenon DEF find_edge_stable, Answer, AllTried

LEMMA SearchIs ==
  find_edge_stable \in Searches /\ \A e \in EdgeQuestion : find_edge_stable[e] = Answer(find_edge_stable, e)
<1> DEFINE G == [f \in Searches |-> [e \in EdgeQuestion |-> Answer(f, e)]]
           rank == [e \in EdgeQuestion |-> EdgesLeft(e)]
           Solves(f) == f = [e \in EdgeQuestion |-> Answer(f, e)]
           fes == CHOOSE f : Solves(f)
<1>1. ASSUME NEW f \in Searches PROVE [e \in EdgeQuestion |-> Answer(f, e)] \in Searches
  <2> DEFINE h == [e \in EdgeQuestion |-> Answer(f, e)]
  <2>1. \A e \in EdgeQuestion : Answer(f, e) \in SUBSET Edge /\ Answer(f, e) \subseteq e.stable \cap e.p
    BY AnswerIs
  <2>2. h \in [EdgeQuestion -> SUBSET Edge] /\ \A e \in EdgeQuestion : h[e] = Answer(f, e)
    BY <2>1
  <2> HIDE DEF h
  <2> QED
    BY <2>1, <2>2 DEF Searches
<1>2. [e \in EdgeQuestion |-> {}] \in Searches
  BY DEF Searches
<1>3. G \in [Searches -> Searches] /\ \A f \in Searches : \A e \in EdgeQuestion : G[f][e] = Answer(f, e)
  BY <1>1
<1>4. rank \in [EdgeQuestion -> 0..8] /\ \A e \in EdgeQuestion : rank[e] = EdgesLeft(e)
  BY EdgesLeftIs
<1>5. Searches \in SUBSET [EdgeQuestion -> SUBSET Edge]
  BY DEF Searches
<1>6. \E f \in Searches : Solves(f)
  <2> DEFINE A == EdgeQuestion
             V == SUBSET Edge
             B == Searches
             F == G
             r == rank
             N == 8
  <2>1. \A f, g \in B : \A x \in A : (\A y \in A : r[y] < r[x] => f[y] = g[y]) => F[f][x] = F[g][x]
    <3> HIDE DEF G, rank
    <3> QED
      BY <1>3, <1>4, AnswerDepends
  <2>2. B \in SUBSET [A -> V] /\ B # {} /\ r \in [A -> 0..N] /\ F \in [B -> B] /\ N \in Nat
    BY <1>2, <1>3, <1>4, <1>5
  <2> HIDE DEF A, V, B, F, r, N
  <2>3. \E f : Fixpoint(B, F, f)
    <3>1. LooksBelow(A, B, r, F)
      BY <2>1 DEF LooksBelow
    <3> QED
      BY <2>2, <3>1, BoundedRecursion
  <2>4. PICK f \in Searches : G[f] = f
    BY <2>3 DEF B, F, Fixpoint
  <2> QED
    BY <2>4
<1>7. PICK f \in Searches : Solves(f)
  BY <1>6
<1>8. Solves(fes)
  <2> HIDE DEF Solves
  <2> QED
    BY <1>7
<1>9. find_edge_stable = fes
  BY SearchUnfolds
<1> HIDE DEF fes, G, rank
<1>10. \A e \in EdgeQuestion : fes[e] = Answer(fes, e) /\ f[e] = Answer(f, e)
  BY <1>7, <1>8, Zenon
<1>11. DOMAIN fes = EdgeQuestion /\ fes = [e \in DOMAIN fes |-> fes[e]]
  BY <1>8, Zenon
<1> HIDE DEF Solves
<1> DEFINE S == {n \in Nat : \A e \in EdgeQuestion : EdgesLeft(e) < n => fes[e] = f[e]}
<1>12. 0 \in S
  BY EdgesLeftIs
<1>13. ASSUME NEW n \in S PROVE n + 1 \in S
  <2>1. ASSUME NEW e \in EdgeQuestion, EdgesLeft(e) < n + 1 PROVE fes[e] = f[e]
    <3>1. \A d \in EdgeQuestion : EdgesLeft(d) < EdgesLeft(e) => EdgesLeft(d) < n
      BY <2>1, EdgesLeftIs
    <3>2. \A d \in EdgeQuestion : EdgesLeft(d) < EdgesLeft(e) => f[d] = fes[d]
      BY <3>1
    <3> QED
      BY <1>10, <3>2, AnswerDepends
  <2> QED
    BY <2>1
<1>14. 9 \in S
  <2>1. S \in SUBSET Nat
    OBVIOUS
  <2> HIDE DEF S
  <2> QED
    BY <1>12, <1>13, <2>1, SetInduction
<1>15. \A e \in EdgeQuestion : fes[e] = f[e]
  BY <1>14, EdgesLeftIs
<1>16. fes \in Searches
  <2>1. \A e \in EdgeQuestion : fes[e] \in SUBSET Edge /\ fes[e] \subseteq e.stable \cap e.p
    BY <1>7, <1>15 DEF Searches
  <2> QED
    BY <1>11, <2>1 DEF Searches
<1> QED
  BY <1>9, <1>10, <1>16

-----------------------------------------------------------------------------
(* What the search finds stays through any plays on the edge.               *)

Question(p, o, st) == [p |-> p, o |-> o, stable |-> st]

Solid(r, p, o) == r \subseteq p /\ \E st \in SUBSET Edge : r \subseteq find_edge_stable[Question(p, o, st)]

EdgePlay(p, o, i, p2, o2) ==
  /\ i \in Edge /\ i \notin p \cup o
  /\ p2 = p \cup EdgeFlips(p, o, i) \cup {i} /\ o2 = o \ EdgeFlips(p, o, i)

EdgeMove(p, o, p2, o2) ==
  \/ p2 = p /\ o2 = o
  \/ \E i : EdgePlay(p, o, i, p2, o2)
  \/ \E i : EdgePlay(o, p, i, o2, p2)

LEMMA SolidStays ==
  ASSUME NEW p \in SUBSET Edge, NEW o \in SUBSET Edge, NEW p2, NEW o2, EdgeMove(p, o, p2, o2),
         NEW r, Solid(r, p, o)
  PROVE  Solid(r, p2, o2)
<1> DEFINE fes == find_edge_stable
<1>1. PICK st \in SUBSET Edge : r \subseteq fes[Question(p, o, st)]
  BY DEF Solid
<1> DEFINE e == Question(p, o, st)
<1>2. e \in EdgeQuestion /\ e.p = p /\ e.o = o /\ e.stable = st
  BY DEF Question, EdgeQuestion
<1>3. fes \in Searches
  BY SearchIs
<1> HIDE DEF e, fes
<1>4. CASE r = {}
  <2>1. {} \in SUBSET Edge
    OBVIOUS
  <2> QED
    BY <1>4, <2>1 DEF Solid
<1>5. CASE p2 = p /\ o2 = o
  BY <1>5
<1>6. ASSUME r # {}, NEW i \in Edge, i \notin p \cup o
      PROVE  \E x, y \in SUBSET Edge : r \subseteq fes[AfterOwn(e, i, x)] /\ r \subseteq fes[AfterOther(e, i, y)]
  <2>1. PICK steps : Steps8(fes, e, steps) /\ AllTried(fes, e, e.stable \cap e.p) = steps[8]
    BY <1>2, <1>3, AllTriedIs
  <2>2. r \subseteq steps[8]
    BY <1>1, <1>2, <1>6, <2>1, SearchIs DEF Answer, fes, e
  <2>3. i + 1 \in 0..8 /\ i \in 0..8
    BY DEF Edge
  <2>4. r \subseteq steps[i + 1] /\ steps[i] \in SUBSET Edge /\ steps[i + 1] = Tried(fes, e, i, steps[i])
    <3>1. steps[8] \subseteq steps[i + 1]
      BY <2>1, <2>3, Shrinks
    <3>2. steps \in [0..8 -> SUBSET Edge] /\ steps[i + 1] = Tried(fes, e, i, steps[i])
      BY <2>1 DEF Steps8
    <3> QED
      BY <2>2, <2>3, <3>1, <3>2
  <2> DEFINE x == steps[i]
             y == fes[AfterOwn(e, i, x)]
  <2>5. AfterOwn(e, i, x) \in EdgeQuestion
    BY <1>2, <1>6, <2>4, AfterIs
  <2>6. y \in SUBSET Edge
    BY <1>3, <2>5 DEF Searches
  <2>7. AfterOther(e, i, y) \in EdgeQuestion /\ AfterOther(e, i, y).stable = y
    BY <1>2, <1>6, <2>6, AfterIs DEF AfterOther
  <2>8. steps[i + 1] = fes[AfterOther(e, i, y)]
    BY <1>2, <1>6, <2>4, TriedUnfolds
  <2>9. fes[AfterOther(e, i, y)] \subseteq y
    BY <1>3, <2>7 DEF Searches
  <2> QED
    BY <2>4, <2>6, <2>8, <2>9
<1>7. ASSUME r # {}, NEW i, EdgePlay(p, o, i, p2, o2) PROVE Solid(r, p2, o2)
  <2>1. PICK x \in SUBSET Edge : r \subseteq fes[AfterOwn(e, i, x)]
    BY <1>6, <1>7 DEF EdgePlay
  <2>2. AfterOwn(e, i, x) = Question(p2, o2, x)
    BY <1>2, <1>7 DEF AfterOwn, Question, EdgePlay
  <2>3. AfterOwn(e, i, x) \in EdgeQuestion /\ AfterOwn(e, i, x).p = p2
    <3>1. i \in Edge /\ i \notin e.p \cup e.o
      BY <1>2, <1>7 DEF EdgePlay
    <3> QED
      BY <1>2, <2>2, <3>1, AfterIs DEF Question
  <2>4. fes[AfterOwn(e, i, x)] \subseteq p2
    BY <1>3, <2>3 DEF Searches
  <2> QED
    BY <2>1, <2>2, <2>4 DEF Solid, fes
<1>8. ASSUME r # {}, NEW i, EdgePlay(o, p, i, o2, p2) PROVE Solid(r, p2, o2)
  <2>1. PICK x \in SUBSET Edge : r \subseteq fes[AfterOther(e, i, x)]
    BY <1>6, <1>8 DEF EdgePlay
  <2>2. AfterOther(e, i, x) = Question(p2, o2, x)
    BY <1>2, <1>8 DEF AfterOther, Question, EdgePlay
  <2>3. AfterOther(e, i, x) \in EdgeQuestion /\ AfterOther(e, i, x).p = p2
    <3>1. i \in Edge /\ i \notin e.p \cup e.o
      BY <1>2, <1>8 DEF EdgePlay
    <3> QED
      BY <1>2, <2>2, <3>1, AfterIs DEF Question
  <2>4. fes[AfterOther(e, i, x)] \subseteq p2
    BY <1>3, <2>3 DEF Searches
  <2> QED
    BY <2>1, <2>2, <2>4 DEF Solid, fes
<1> QED
  BY <1>4, <1>5, <1>7, <1>8 DEF EdgeMove

LEMMA MirrorIs ==
  ASSUME NEW x \in SUBSET Edge
  PROVE  /\ MirrorEdge(x) \in SUBSET Edge /\ \A i \in Edge : i \in MirrorEdge(x) <=> 7 - i \in x
         /\ MirrorEdge(MirrorEdge(x)) = x
<1>1. \A y \in SUBSET Edge : MirrorEdge(y) \in SUBSET Edge /\ \A i \in Edge : i \in MirrorEdge(y) <=> 7 - i \in y
  <2>1. \A i \in Edge : 7 - i \in Edge /\ 7 - (7 - i) = i /\ i \in Int
    BY DEF Edge
  <2> QED
    BY <2>1 DEF MirrorEdge
<1>2. \A i \in Edge : 7 - i \in Edge /\ 7 - (7 - i) = i
  BY DEF Edge
<1>3. \A i \in Edge : i \in MirrorEdge(MirrorEdge(x)) <=> i \in x
  BY <1>1, <1>2
<1>4. MirrorEdge(MirrorEdge(x)) \in SUBSET Edge
  BY <1>1
<1> QED
  BY <1>1, <1>3, <1>4

Between(p, o, i, t, k) ==
  /\ k \in p
  /\ \/ k < t /\ t < i /\ \A h \in Edge : k < h /\ h < i => h \in o
     \/ i < t /\ t < k /\ \A h \in Edge : i < h /\ h < k => h \in o

LEMMA BetweenIs ==
  ASSUME NEW p \in SUBSET Edge, NEW o \in SUBSET Edge, NEW i \in Edge
  PROVE  \A t : t \in EdgeFlips(p, o, i) <=> t \in Edge /\ \E k \in Edge : Between(p, o, i, t, k)
<1>1. ASSUME NEW k \in Edge PROVE \A t : t \in k + 1..i - 1 <=> t \in Edge /\ k < t /\ t < i
  BY DEF Edge
<1>2. ASSUME NEW k \in Edge PROVE \A t : t \in i + 1..k - 1 <=> t \in Edge /\ i < t /\ t < k
  BY DEF Edge
<1>3. \A t : t \in EdgeFlips(p, o, i)
        <=> \E k \in p : \/ k + 1..i - 1 \subseteq o /\ t \in k + 1..i - 1
                         \/ i + 1..k - 1 \subseteq o /\ t \in i + 1..k - 1
  BY DEF EdgeFlips
<1> QED
  BY <1>1, <1>2, <1>3 DEF Between

LEMMA MirrorFlips ==
  ASSUME NEW p \in SUBSET Edge, NEW o \in SUBSET Edge, NEW i \in Edge
  PROVE  EdgeFlips(MirrorEdge(p), MirrorEdge(o), 7 - i) = MirrorEdge(EdgeFlips(p, o, i))
<1>1. \A h \in Edge : 7 - h \in Edge /\ 7 - (7 - h) = h /\ h \in Int
  BY DEF Edge
<1>2. MirrorEdge(p) \in SUBSET Edge /\ MirrorEdge(o) \in SUBSET Edge /\ EdgeFlips(p, o, i) \in SUBSET Edge
  BY MirrorIs, EdgeFlipsIs
<1>3. \A h, k \in Edge : 7 - h < 7 - k <=> k < h
  BY <1>1
<1>4. ASSUME NEW t \in Edge, NEW k \in Edge
      PROVE  Between(MirrorEdge(p), MirrorEdge(o), 7 - i, 7 - t, 7 - k) <=> Between(p, o, i, t, k)
  <2>1. 7 - k \in MirrorEdge(p) <=> k \in p
    BY <1>1, MirrorIs
  <2>2. \A h \in Edge : 7 - h \in MirrorEdge(o) <=> h \in o
    BY <1>1, MirrorIs
  <2>3. /\ 7 - k < 7 - t <=> t < k
        /\ 7 - t < 7 - i <=> i < t
        /\ 7 - i < 7 - t <=> t < i
        /\ 7 - t < 7 - k <=> k < t
    BY <1>3
  <2>4. (\A h \in Edge : 7 - k < h /\ h < 7 - i => h \in MirrorEdge(o)) <=> \A h \in Edge : i < h /\ h < k => h \in o
    <3>1. ASSUME \A h \in Edge : 7 - k < h /\ h < 7 - i => h \in MirrorEdge(o), NEW h \in Edge, i < h, h < k PROVE h \in o
      BY <1>1, <1>3, <2>2, <3>1
    <3>2. ASSUME \A h \in Edge : i < h /\ h < k => h \in o, NEW h \in Edge, 7 - k < h, h < 7 - i PROVE h \in MirrorEdge(o)
      <4>1. 7 - h \in Edge /\ i < 7 - h /\ 7 - h < k
        BY <1>1, <3>2
      <4> QED
        BY <1>1, <2>2, <3>2, <4>1
    <3> QED
      BY <3>1, <3>2
  <2>5. (\A h \in Edge : 7 - i < h /\ h < 7 - k => h \in MirrorEdge(o)) <=> \A h \in Edge : k < h /\ h < i => h \in o
    <3>1. ASSUME \A h \in Edge : 7 - i < h /\ h < 7 - k => h \in MirrorEdge(o), NEW h \in Edge, k < h, h < i PROVE h \in o
      BY <1>1, <1>3, <2>2, <3>1
    <3>2. ASSUME \A h \in Edge : k < h /\ h < i => h \in o, NEW h \in Edge, 7 - i < h, h < 7 - k PROVE h \in MirrorEdge(o)
      <4>1. 7 - h \in Edge /\ k < 7 - h /\ 7 - h < i
        BY <1>1, <3>2
      <4> QED
        BY <1>1, <2>2, <3>2, <4>1
    <3> QED
      BY <3>1, <3>2
  <2> QED
    BY <2>1, <2>3, <2>4, <2>5 DEF Between
<1>5. ASSUME NEW t \in Edge
      PROVE  t \in EdgeFlips(MirrorEdge(p), MirrorEdge(o), 7 - i) <=> t \in MirrorEdge(EdgeFlips(p, o, i))
  <2>1. t \in EdgeFlips(MirrorEdge(p), MirrorEdge(o), 7 - i) <=> \E k \in Edge : Between(MirrorEdge(p), MirrorEdge(o), 7 - i, t, k)
    BY <1>1, <1>2, BetweenIs
  <2>2. 7 - t \in EdgeFlips(p, o, i) <=> \E k \in Edge : Between(p, o, i, 7 - t, k)
    BY <1>1, BetweenIs
  <2>3. \A k \in Edge : Between(MirrorEdge(p), MirrorEdge(o), 7 - i, t, 7 - k) <=> Between(p, o, i, 7 - t, k)
    BY <1>1, <1>4
  <2>4. \A k \in Edge : Between(MirrorEdge(p), MirrorEdge(o), 7 - i, t, k) <=> Between(p, o, i, 7 - t, 7 - k)
    BY <1>1, <2>3
  <2> QED
    BY <1>1, <1>2, <2>1, <2>2, <2>3, <2>4, MirrorIs
<1>6. EdgeFlips(MirrorEdge(p), MirrorEdge(o), 7 - i) \in SUBSET Edge /\ MirrorEdge(EdgeFlips(p, o, i)) \in SUBSET Edge
  BY <1>1, <1>2, EdgeFlipsIs, MirrorIs
<1> QED
  BY <1>5, <1>6

LEMMA MirrorPlay ==
  ASSUME NEW p \in SUBSET Edge, NEW o \in SUBSET Edge, NEW p2, NEW o2, NEW i, EdgePlay(p, o, i, p2, o2)
  PROVE  EdgePlay(MirrorEdge(p), MirrorEdge(o), 7 - i, MirrorEdge(p2), MirrorEdge(o2)) /\ p2 \in SUBSET Edge /\ o2 \in SUBSET Edge
<1> DEFINE f == EdgeFlips(p, o, i)
           g == EdgeFlips(MirrorEdge(p), MirrorEdge(o), 7 - i)
<1>1. i \in Edge /\ i \notin p \cup o /\ p2 = p \cup f \cup {i} /\ o2 = o \ f
  BY DEF EdgePlay
<1>2. \A h \in Edge : 7 - h \in Edge /\ 7 - (7 - h) = h
  BY DEF Edge
<1>3. f \in SUBSET Edge /\ g = MirrorEdge(f) /\ g \in SUBSET Edge
  BY <1>1, EdgeFlipsIs, MirrorFlips, MirrorIs
<1> HIDE DEF f, g
<1>4. p2 \in SUBSET Edge /\ o2 \in SUBSET Edge
  BY <1>1, <1>3
<1>5. 7 - i \in Edge /\ 7 - i \notin MirrorEdge(p) \cup MirrorEdge(o)
  BY <1>1, <1>2, MirrorIs
<1>6. MirrorEdge(p2) = MirrorEdge(p) \cup g \cup {7 - i}
  <2>1. \A h \in Edge : 7 - h = i <=> h = 7 - i
    BY <1>1, <1>2
  <2>2. \A h \in Edge : h \in MirrorEdge(p2) <=> h \in MirrorEdge(p) \cup g \cup {7 - i}
    BY <1>1, <1>2, <1>3, <1>4, <2>1, MirrorIs
  <2>3. MirrorEdge(p2) \in SUBSET Edge /\ MirrorEdge(p) \in SUBSET Edge
    BY <1>4, MirrorIs
  <2> QED
    BY <1>3, <1>5, <2>2, <2>3
<1>7. MirrorEdge(o2) = MirrorEdge(o) \ g
  <2>1. \A h \in Edge : h \in MirrorEdge(o2) <=> h \in MirrorEdge(o) \ g
    BY <1>1, <1>2, <1>3, <1>4, MirrorIs
  <2>2. MirrorEdge(o2) \in SUBSET Edge /\ MirrorEdge(o) \in SUBSET Edge
    BY <1>4, MirrorIs
  <2> QED
    BY <2>1, <2>2
<1> QED
  BY <1>4, <1>5, <1>6, <1>7 DEF EdgePlay, g

Firm(r, p, o) == r \in SUBSET Edge /\ (Solid(r, p, o) \/ Solid(MirrorEdge(r), MirrorEdge(p), MirrorEdge(o)))

LEMMA FirmStays ==
  ASSUME NEW p \in SUBSET Edge, NEW o \in SUBSET Edge, NEW p2, NEW o2, EdgeMove(p, o, p2, o2),
         NEW r, Firm(r, p, o)
  PROVE  p2 \in SUBSET Edge /\ o2 \in SUBSET Edge /\ Firm(r, p2, o2) /\ r \subseteq p2
<1>1. EdgeMove(MirrorEdge(p), MirrorEdge(o), MirrorEdge(p2), MirrorEdge(o2)) /\ p2 \in SUBSET Edge /\ o2 \in SUBSET Edge
  <2>1. ASSUME NEW i, EdgePlay(p, o, i, p2, o2)
        PROVE  EdgePlay(MirrorEdge(p), MirrorEdge(o), 7 - i, MirrorEdge(p2), MirrorEdge(o2)) /\ p2 \in SUBSET Edge /\ o2 \in SUBSET Edge
    BY <2>1, MirrorPlay
  <2>2. ASSUME NEW i, EdgePlay(o, p, i, o2, p2)
        PROVE  EdgePlay(MirrorEdge(o), MirrorEdge(p), 7 - i, MirrorEdge(o2), MirrorEdge(p2)) /\ p2 \in SUBSET Edge /\ o2 \in SUBSET Edge
    BY <2>2, MirrorPlay
  <2> QED
    BY <2>1, <2>2 DEF EdgeMove
<1>2. MirrorEdge(p) \in SUBSET Edge /\ MirrorEdge(o) \in SUBSET Edge
  BY MirrorIs
<1>3. Firm(r, p2, o2)
  BY <1>1, <1>2, SolidStays DEF Firm
<1>4. ASSUME MirrorEdge(r) \subseteq MirrorEdge(p2) PROVE r \subseteq p2
  <2>1. r \in SUBSET Edge
    BY DEF Firm
  <2>2. \A i \in Edge : i \in r => 7 - i \in MirrorEdge(r)
    <3>1. \A i \in Edge : 7 - i \in Edge /\ 7 - (7 - i) = i
      BY DEF Edge
    <3> QED
      BY <2>1, <3>1, MirrorIs
  <2>3. \A i \in Edge : 7 - i \in MirrorEdge(p2) => i \in p2
    <3>1. \A i \in Edge : 7 - i \in Edge /\ 7 - (7 - i) = i
      BY DEF Edge
    <3> QED
      BY <1>1, <3>1, MirrorIs
  <2> QED
    BY <1>4, <2>1, <2>2, <2>3
<1> QED
  BY <1>1, <1>3, <1>4 DEF Firm, Solid

LEMMA EdgeTableIs ==
  ASSUME NEW p \in SUBSET Edge, NEW o \in SUBSET Edge
  PROVE  Firm(EdgeTable(p, o), p, o) /\ EdgeTable(p, o) \subseteq p
<1>1. ASSUME NEW q \in SUBSET Edge, NEW w \in SUBSET Edge
      PROVE  Solid(StableOf(q, w), q, w) /\ StableOf(q, w) \in SUBSET Edge
  <2>1. Question(q, w, q) \in EdgeQuestion /\ Question(q, w, q).p = q
    BY DEF Question, EdgeQuestion
  <2>2. find_edge_stable[Question(q, w, q)] \subseteq q
    BY <2>1, SearchIs DEF Searches
  <2>3. StableOf(q, w) = find_edge_stable[Question(q, w, q)]
    BY DEF StableOf, Question
  <2> QED
    BY <2>2, <2>3 DEF Solid
<1> DEFINE t == StableOf(MirrorEdge(p), MirrorEdge(o))
<1>2. MirrorEdge(p) \in SUBSET Edge /\ MirrorEdge(o) \in SUBSET Edge
  BY MirrorIs
<1>3. Solid(t, MirrorEdge(p), MirrorEdge(o)) /\ t \in SUBSET Edge
  BY <1>1, <1>2
<1>4. MirrorEdge(MirrorEdge(t)) = t /\ MirrorEdge(t) \in SUBSET Edge
  BY <1>3, MirrorIs
<1>5. EdgeTable(p, o) = MirrorEdge(t) \/ EdgeTable(p, o) = StableOf(p, o)
  BY DEF EdgeTable
<1>6. Firm(EdgeTable(p, o), p, o)
  BY <1>1, <1>3, <1>4, <1>5 DEF Firm
<1>7. EdgeMove(p, o, p, o)
  BY DEF EdgeMove
<1> QED
  BY <1>6, <1>7, FirmStays

-----------------------------------------------------------------------------
(* Plays on the board, and what they do on an edge *)

LEMMA FlipIsHit ==
  ASSUME NEW b, NEW s
  PROVE  \A t : t \in flippedDiscs(b, s)
           <=> \E dir \in Directions : \E k \in 2..7 : \E i \in 1..k - 1 :
                 Hit(b.player, b.opponent, s, dir, k) /\ t = Along(s, dir, i)
  BY DEF flippedDiscs, Bracketed, Hit

LEMMA InsideRay ==
  ASSUME NEW s \in Squares, NEW dir \in Directions, NEW k \in 2..7, OnBoard(s, dir, k), NEW i \in 1..k - 1
  PROVE  /\ OnBoard(s, dir, i) /\ Along(s, dir, i) \in Squares
         /\ Col(Along(s, dir, i)) = Col(s) + i * dir[1] /\ Row(Along(s, dir, i)) = Row(s) + i * dir[2]
         /\ dir[1] # 0 => Col(Along(s, dir, i)) \in 1..6
         /\ dir[2] # 0 => Row(Along(s, dir, i)) \in 1..6
<1> DEFINE c == Col(s)
           r == Row(s)
           x == dir[1]
           y == dir[2]
<1>1. OnBoard(s, dir, i)
  BY InnerOnRay
<1>2. Along(s, dir, i) \in Squares /\ Col(Along(s, dir, i)) = c + i * x /\ Row(Along(s, dir, i)) = r + i * y
  BY <1>1, OnBoardAlong
<1>3. c \in 0..7 /\ r \in 0..7 /\ c + k * x \in 0..7 /\ r + k * y \in 0..7
  BY Coordinates DEF OnBoard
<1>4. x \in {-1, 0, 1} /\ y \in {-1, 0, 1}
  BY DirectionCases
<1> HIDE DEF c, r, x, y
<1>5. x # 0 => c + i * x \in 1..6
  <2>1. CASE x = 1
    BY <1>3, <2>1
  <2>2. CASE x = -1
    BY <1>3, <2>2
  <2> QED
    BY <1>4, <2>1, <2>2
<1>6. y # 0 => r + i * y \in 1..6
  <2>1. CASE y = 1
    BY <1>3, <2>1
  <2>2. CASE y = -1
    BY <1>3, <2>2
  <2> QED
    BY <1>4, <2>1, <2>2
<1> QED
  BY <1>1, <1>2, <1>5, <1>6 DEF c, r, x, y

(* An edge: the row, or else the column, at 0 or 7, and its squares         *)
Sides == [row : BOOLEAN, at : {0, 7}]
SquareOf(e, i) == IF e.row THEN 8 * e.at + i ELSE 8 * i + e.at
OnSide(x, e) == {i \in Edge : SquareOf(e, i) \in x}

(* The coordinate along an edge and the one across it, of a square and of a *)
(* direction                                                                *)
Place(e, s) == IF e.row THEN Col(s) ELSE Row(s)
Across(e, s) == IF e.row THEN Row(s) ELSE Col(s)
DirPlace(e, dir) == IF e.row THEN dir[1] ELSE dir[2]
DirAcross(e, dir) == IF e.row THEN dir[2] ELSE dir[1]
SideDir(e, sign) == IF e.row THEN <<sign, 0>> ELSE <<0, sign>>

LEMMA SideSquares ==
  ASSUME NEW e \in Sides
  PROVE  /\ e.at \in 0..7 /\ e.at \notin 1..6
         /\ \A i \in Edge : SquareOf(e, i) \in Squares /\ Place(e, SquareOf(e, i)) = i /\ Across(e, SquareOf(e, i)) = e.at
         /\ \A s \in Squares : /\ Place(e, s) \in Edge /\ Across(e, s) \in 0..7
                               /\ Across(e, s) = e.at => s = SquareOf(e, Place(e, s))
<1>1. e.at \in 0..7 /\ e.at \notin 1..6
  BY DEF Sides
<1>2. CASE e.row
  BY <1>1, <1>2, Coordinates DEF SquareOf, Place, Across, Edge
<1>3. CASE ~e.row
  BY <1>1, <1>3, Coordinates DEF SquareOf, Place, Across, Edge
<1> QED
  BY <1>1, <1>2, <1>3

LEMMA SideRay ==
  ASSUME NEW e \in Sides, NEW s \in Squares, NEW dir \in Directions, NEW k \in 2..7, OnBoard(s, dir, k),
         NEW i \in 1..k
  PROVE  /\ Along(s, dir, i) \in Squares
         /\ Place(e, Along(s, dir, i)) = Place(e, s) + i * DirPlace(e, dir)
         /\ Across(e, Along(s, dir, i)) = Across(e, s) + i * DirAcross(e, dir)
         /\ i < k /\ DirAcross(e, dir) # 0 => Across(e, Along(s, dir, i)) \in 1..6
<1>1. k \in 0..7
  OBVIOUS
<1>2. CASE i = k
  BY <1>1, <1>2, OnBoardAlong DEF Place, Across, DirPlace, DirAcross
<1>3. CASE i < k
  <2>1. i \in 1..k - 1
    BY <1>3
  <2> QED
    BY <2>1, InsideRay DEF Place, Across, DirPlace, DirAcross
<1> QED
  BY <1>2, <1>3

LEMMA AlongSide ==
  ASSUME NEW e \in Sides, NEW i \in Edge, NEW sign \in {-1, 1}, NEW k \in 1..7, i + k * sign \in Edge
  PROVE  /\ SideDir(e, sign) \in Directions
         /\ OnBoard(SquareOf(e, i), SideDir(e, sign), k)
         /\ Along(SquareOf(e, i), SideDir(e, sign), k) = SquareOf(e, i + k * sign)
<1>1. SideDir(e, sign) \in Directions
  BY DirectionOf DEF SideDir
<1>2. /\ SquareOf(e, i) \in Squares /\ Place(e, SquareOf(e, i)) = i /\ Across(e, SquareOf(e, i)) = e.at
      /\ e.at \in 0..7
  BY SideSquares
<1>3. i \in 0..7 /\ i + k * sign \in 0..7 /\ k * 0 = 0
  BY DEF Edge
<1>4. CASE e.row
  <2>1. Col(SquareOf(e, i)) = i /\ Row(SquareOf(e, i)) = e.at /\ SideDir(e, sign) = <<sign, 0>>
    BY <1>2, <1>4 DEF Place, Across, SideDir
  <2>2. SquareOf(e, i) = 8 * e.at + i /\ SquareOf(e, i + k * sign) = 8 * e.at + (i + k * sign)
    BY <1>4 DEF SquareOf
  <2> QED
    BY <1>1, <1>2, <1>3, <2>1, <2>2 DEF OnBoard, Along
<1>5. CASE ~e.row
  <2>1. Col(SquareOf(e, i)) = e.at /\ Row(SquareOf(e, i)) = i /\ SideDir(e, sign) = <<0, sign>>
    BY <1>2, <1>5 DEF Place, Across, SideDir
  <2>2. SquareOf(e, i) = 8 * i + e.at /\ SquareOf(e, i + k * sign) = 8 * (i + k * sign) + e.at
    BY <1>5 DEF SquareOf
  <2> QED
    BY <1>1, <1>2, <1>3, <2>1, <2>2 DEF OnBoard, Along
<1> QED
  BY <1>4, <1>5

(* The side with p places a disc on s. *)
Turn(p, o, s, p2, o2) ==
  LET f == flippedDiscs([player |-> p, opponent |-> o], s)
  IN  s \in Squares \ (p \cup o) /\ p2 = p \cup f \cup {s} /\ o2 = o \ f

BoardStep(p, o, p2, o2) ==
  \/ p2 = p /\ o2 = o
  \/ \E s : Turn(p, o, s, p2, o2)
  \/ \E s : Turn(o, p, s, o2, p2)

LEMMA FlipsOnSide ==
  ASSUME NEW e \in Sides, NEW p \in SUBSET Squares, NEW o \in SUBSET Squares, NEW s \in Squares, Across(e, s) = e.at
  PROVE  OnSide(flippedDiscs([player |-> p, opponent |-> o], s), e) = EdgeFlips(OnSide(p, e), OnSide(o, e), Place(e, s))
<1> DEFINE f == flippedDiscs([player |-> p, opponent |-> o], s)
           q == OnSide(p, e)
           w == OnSide(o, e)
           i == Place(e, s)
<1>1. i \in Edge /\ s = SquareOf(e, i) /\ q \in SUBSET Edge /\ w \in SUBSET Edge
  BY SideSquares DEF OnSide
<1>2. \A h \in Edge : h \in Int /\ SquareOf(e, h) \in Squares /\ Place(e, SquareOf(e, h)) = h /\ Across(e, SquareOf(e, h)) = e.at
  BY SideSquares DEF Edge
<1>3. \A h \in Edge : (h \in q <=> SquareOf(e, h) \in p) /\ (h \in w <=> SquareOf(e, h) \in o)
  BY DEF OnSide
<1>4. \A t : t \in f <=> \E dir \in Directions : \E k \in 2..7 : \E j \in 1..k - 1 :
                           Hit(p, o, s, dir, k) /\ t = Along(s, dir, j)
  <2> DEFINE b == [player |-> p, opponent |-> o]
  <2>1. b.player = p /\ b.opponent = o
    OBVIOUS
  <2> HIDE DEF b
  <2>2. \A t : t \in flippedDiscs(b, s) <=> \E dir \in Directions : \E k \in 2..7 : \E j \in 1..k - 1 :
                                              Hit(b.player, b.opponent, s, dir, k) /\ t = Along(s, dir, j)
    BY FlipIsHit
  <2> QED
    BY <2>1, <2>2 DEF b
<1>5. \A t : t \in EdgeFlips(q, w, i) <=> t \in Edge /\ \E k \in Edge : Between(q, w, i, t, k)
  <2> HIDE DEF q, w, i
  <2> QED
    BY <1>1, BetweenIs
<1> HIDE DEF f, q, w, i
<1>6. ASSUME NEW m \in Edge, SquareOf(e, m) \in f PROVE \E k \in Edge : Between(q, w, i, m, k)
  <2>0. PICK dir \in Directions, K \in 2..7 :
          \E j \in 1..K - 1 : Hit(p, o, s, dir, K) /\ SquareOf(e, m) = Along(s, dir, j)
    BY <1>4, <1>6
  <2>1. PICK J \in 1..K - 1 : Hit(p, o, s, dir, K) /\ SquareOf(e, m) = Along(s, dir, J)
    BY <2>0
  <2>2. OnBoard(s, dir, K) /\ Along(s, dir, K) \in p /\ \A j \in 1..K - 1 : Along(s, dir, j) \in o
    BY <2>1 DEF Hit
  <2> DEFINE d == DirPlace(e, dir)
             a == DirAcross(e, dir)
  <2>3. \A j \in 1..K : /\ Along(s, dir, j) \in Squares /\ Place(e, Along(s, dir, j)) = i + j * d
                        /\ Across(e, Along(s, dir, j)) = e.at + j * a
                        /\ j < K /\ a # 0 => Across(e, Along(s, dir, j)) \in 1..6
    BY <2>2, SideRay DEF i
  <2>4. J \in 1..K /\ J < K
    OBVIOUS
  <2>5. a = 0
    BY <1>2, <2>1, <2>3, <2>4, SideSquares
  <2>6. d \in {-1, 1}
    BY <2>5, DirectionCases DEF DirPlace, DirAcross
  <2> HIDE DEF d, a
  <2>7. \A j \in 1..K : i + j * d \in Edge /\ Along(s, dir, j) = SquareOf(e, i + j * d)
    <3>1. \A j \in 1..K : e.at + j * a = e.at
      BY <2>5, SideSquares
    <3> QED
      BY <2>3, <3>1, SideSquares
  <2> DEFINE k == i + K * d
  <2>8. k \in Edge /\ k \in q
    BY <1>3, <2>2, <2>7
  <2>9. \A j \in 1..K - 1 : i + j * d \in w
    BY <1>3, <2>2, <2>7
  <2>10. m = i + J * d
    BY <1>2, <2>1, <2>3, <2>4
  <2>11. CASE d = 1
    <3>1. i < m /\ m < k
      BY <1>1, <2>10, <2>11 DEF Edge
    <3>2. \A h \in Edge : i < h /\ h < k => h \in w
      <4>1. \A h \in Edge : i < h /\ h < k => h - i \in 1..K - 1 /\ i + (h - i) * d = h
        BY <1>1, <2>11 DEF Edge
      <4> QED
        BY <2>9, <4>1
    <3> QED
      BY <2>8, <3>1, <3>2 DEF Between
  <2>12. CASE d = -1
    <3>1. k < m /\ m < i
      BY <1>1, <2>10, <2>12 DEF Edge
    <3>2. \A h \in Edge : k < h /\ h < i => h \in w
      <4>1. \A h \in Edge : k < h /\ h < i => i - h \in 1..K - 1 /\ i + (i - h) * d = h
        BY <1>1, <2>12 DEF Edge
      <4> QED
        BY <2>9, <4>1
    <3> QED
      BY <2>8, <3>1, <3>2 DEF Between
  <2> QED
    BY <2>6, <2>11, <2>12
<1>7. ASSUME NEW m \in Edge, NEW k \in Edge, Between(q, w, i, m, k) PROVE SquareOf(e, m) \in f
  <2>1. ASSUME NEW d \in {-1, 1}, NEW K \in 2..7, NEW J \in 1..K - 1, k = i + K * d, m = i + J * d,
               \A j \in 1..K - 1 : i + j * d \in w
        PROVE  SquareOf(e, m) \in f
    <3>1. \A j \in 1..K : j \in 1..7 /\ i + j * d \in Edge
      BY <1>1, <2>1 DEF Edge
    <3>2. \A j \in 1..K : /\ SideDir(e, d) \in Directions /\ OnBoard(s, SideDir(e, d), j)
                          /\ Along(s, SideDir(e, d), j) = SquareOf(e, i + j * d)
      BY <1>1, <3>1, AlongSide
    <3>3. K \in 1..K /\ J \in 1..K /\ \A j \in 1..K - 1 : j \in 1..K
      BY <2>1
    <3>4. SquareOf(e, i + K * d) \in p
      BY <1>3, <1>7, <2>1 DEF Between
    <3>5. \A j \in 1..K - 1 : SquareOf(e, i + j * d) \in o
      BY <1>3, <2>1, <3>1, <3>3
    <3>6. Hit(p, o, s, SideDir(e, d), K) /\ SquareOf(e, m) = Along(s, SideDir(e, d), J)
      BY <2>1, <3>2, <3>3, <3>4, <3>5 DEF Hit
    <3>7. SideDir(e, d) \in Directions
      BY <3>2, <3>3
    <3> QED
      BY <1>4, <3>6, <3>7
  <2>2. ASSUME i < m, m < k, \A h \in Edge : i < h /\ h < k => h \in w PROVE SquareOf(e, m) \in f
    <3>1. k - i \in 2..7 /\ m - i \in 1..(k - i) - 1 /\ k = i + (k - i) * 1 /\ m = i + (m - i) * 1
      BY <1>1, <2>2 DEF Edge
    <3>2. \A j \in 1..(k - i) - 1 : i + j * 1 \in Edge /\ i < i + j * 1 /\ i + j * 1 < k
      BY <1>1 DEF Edge
    <3> QED
      BY <2>1, <2>2, <3>1, <3>2
  <2>3. ASSUME k < m, m < i, \A h \in Edge : k < h /\ h < i => h \in w PROVE SquareOf(e, m) \in f
    <3>1. i - k \in 2..7 /\ i - m \in 1..(i - k) - 1 /\ k = i + (i - k) * (-1) /\ m = i + (i - m) * (-1)
      BY <1>1, <2>3 DEF Edge
    <3>2. \A j \in 1..(i - k) - 1 : i + j * (-1) \in Edge /\ k < i + j * (-1) /\ i + j * (-1) < i
      BY <1>1 DEF Edge
    <3>3. -1 \in {-1, 1}
      OBVIOUS
    <3> QED
      BY <2>1, <2>3, <3>1, <3>2, <3>3
  <2> QED
    BY <1>7, <2>2, <2>3 DEF Between
<1>8. \A m \in Edge : m \in EdgeFlips(q, w, i) <=> SquareOf(e, m) \in f
  BY <1>5, <1>6, <1>7
<1> QED
  BY <1>5, <1>8 DEF OnSide, f, q, w, i

LEMMA NoFlipsOnSide ==
  ASSUME NEW e \in Sides, NEW p \in SUBSET Squares, NEW o \in SUBSET Squares, NEW s \in Squares, Across(e, s) # e.at
  PROVE  OnSide(flippedDiscs([player |-> p, opponent |-> o], s), e) = {}
<1> DEFINE b == [player |-> p, opponent |-> o]
<1>1. SUFFICES ASSUME NEW m \in Edge, SquareOf(e, m) \in flippedDiscs(b, s) PROVE FALSE
  BY DEF OnSide
<1>0. PICK dir \in Directions, k \in 2..7 :
        \E j \in 1..k - 1 : Hit(b.player, b.opponent, s, dir, k) /\ SquareOf(e, m) = Along(s, dir, j)
  <2> HIDE DEF b
  <2> QED
    BY <1>1, FlipIsHit
<1>2. PICK j \in 1..k - 1 : Hit(b.player, b.opponent, s, dir, k) /\ SquareOf(e, m) = Along(s, dir, j)
  BY <1>0
<1>3. OnBoard(s, dir, k) /\ j \in 1..k /\ j < k
  BY <1>2 DEF Hit
<1> DEFINE a == DirAcross(e, dir)
<1>4. e.at = Across(e, s) + j * a /\ (a # 0 => e.at \in 1..6)
  BY <1>2, <1>3, SideRay, SideSquares
<1>5. Across(e, s) \in 0..7 /\ e.at \notin 1..6
  BY SideSquares
<1> HIDE DEF a
<1> QED
  BY <1>4, <1>5

LEMMA TurnOnSide ==
  ASSUME NEW e \in Sides, NEW p \in SUBSET Squares, NEW o \in SUBSET Squares, NEW s, NEW p2, NEW o2, Turn(p, o, s, p2, o2)
  PROVE  \/ OnSide(p2, e) = OnSide(p, e) /\ OnSide(o2, e) = OnSide(o, e)
         \/ EdgePlay(OnSide(p, e), OnSide(o, e), Place(e, s), OnSide(p2, e), OnSide(o2, e))
<1> DEFINE f == flippedDiscs([player |-> p, opponent |-> o], s)
           i == Place(e, s)
<1>1. s \in Squares /\ s \notin p /\ s \notin o /\ p2 = p \cup f \cup {s} /\ o2 = o \ f
  BY DEF Turn
<1>2. CASE Across(e, s) = e.at
  <2>1. OnSide(f, e) = EdgeFlips(OnSide(p, e), OnSide(o, e), i)
    BY <1>1, <1>2, FlipsOnSide
  <2>2. i \in Edge /\ s = SquareOf(e, i) /\ \A h \in Edge : SquareOf(e, h) = s <=> h = i
    BY <1>1, <1>2, SideSquares
  <2> HIDE DEF f, i
  <2>3. i \notin OnSide(p, e) \cup OnSide(o, e)
    BY <1>1, <2>2 DEF OnSide
  <2>4. OnSide(p2, e) = OnSide(p, e) \cup OnSide(f, e) \cup {i}
    BY <1>1, <2>2 DEF OnSide
  <2>5. OnSide(o2, e) = OnSide(o, e) \ OnSide(f, e)
    BY <1>1 DEF OnSide
  <2> QED
    BY <2>1, <2>2, <2>3, <2>4, <2>5 DEF EdgePlay, i
<1>3. CASE Across(e, s) # e.at
  <2>1. OnSide(f, e) = {}
    BY <1>1, <1>3, NoFlipsOnSide
  <2>2. \A h \in Edge : SquareOf(e, h) # s
    BY <1>3, SideSquares
  <2> HIDE DEF f
  <2>3. OnSide(p2, e) = OnSide(p, e)
    BY <1>1, <2>1, <2>2 DEF OnSide
  <2>4. OnSide(o2, e) = OnSide(o, e)
    BY <1>1, <2>1 DEF OnSide
  <2> QED
    BY <2>3, <2>4
<1> QED
  BY <1>2, <1>3

LEMMA StepOnSide ==
  ASSUME NEW e \in Sides, NEW p \in SUBSET Squares, NEW o \in SUBSET Squares, NEW p2, NEW o2, BoardStep(p, o, p2, o2)
  PROVE  EdgeMove(OnSide(p, e), OnSide(o, e), OnSide(p2, e), OnSide(o2, e))
<1>1. CASE p2 = p /\ o2 = o
  BY <1>1 DEF EdgeMove
<1>2. ASSUME NEW s, Turn(p, o, s, p2, o2) PROVE EdgeMove(OnSide(p, e), OnSide(o, e), OnSide(p2, e), OnSide(o2, e))
  BY <1>2, TurnOnSide DEF EdgeMove
<1>3. ASSUME NEW s, Turn(o, p, s, o2, p2) PROVE EdgeMove(OnSide(p, e), OnSide(o, e), OnSide(p2, e), OnSide(o2, e))
  BY <1>3, TurnOnSide DEF EdgeMove
<1> QED
  BY <1>1, <1>2, <1>3 DEF BoardStep

-----------------------------------------------------------------------------
(* Full lines *)

(* Disc holds the whole line through t along the step n. *)
FullOn(disc, t, n) ==
  \A dir \in Directions : Offset(dir) \in {n, -n} =>
    \A k \in 1..7 : OnBoard(t, dir, k) => Along(t, dir, k) \in disc

LEMMA AxisOf ==
  ASSUME NEW dir \in Directions
  PROVE  /\ Offset(dir) \in {1, -1} => dir[1] \in {1, -1} /\ dir[2] = 0
         /\ Offset(dir) \in {8, -8} => dir[1] = 0 /\ dir[2] \in {1, -1}
         /\ Offset(dir) \in {9, -9} => dir = Down \/ dir = Up
         /\ Offset(dir) \in {7, -7} => dir = <<-1, 1>> \/ dir = <<1, -1>>
<1>1. dir = <<dir[1], dir[2]>>
  BY DEF Directions
<1> QED
  BY <1>1, DirectionCases DEF Down, Up

LEMMA PairIs ==
  ASSUME NEW x \in SUBSET Squares, NEW d \in Int
  PROVE  /\ x \cap Shift(x, d) \in SUBSET Squares
         /\ \A u \in x \cap Shift(x, d) : u \in Int /\ u \in x /\ u - d \in x
<1>1. \A u \in Int : u \in Shift(x, d) <=> u \in Squares /\ u - d \in x
  BY ShiftIs
<1>2. \A u \in Squares : u \in Int
  BY DEF Squares
<1> QED
  BY <1>1, <1>2

LEMMA RowsFull ==
  ASSUME NEW disc \in SUBSET Squares, NEW t \in FullRows(disc)
  PROVE  t \in Squares /\ FullOn(disc, t, 1)
<1> DEFINE two == disc \cap Shift(disc, -1)
           four == two \cap Shift(two, -2)
           eight == four \cap Shift(four, -4)
           u == t - Col(t)
<1>1. t \in Squares /\ u \in eight
  BY DEF FullRows
<1>2. two \in SUBSET Squares /\ \A v \in two : v \in Int /\ v \in disc /\ v + 1 \in disc
  <2>1. -1 \in Int /\ \A v \in Int : v - (-1) = v + 1
    OBVIOUS
  <2> QED
    BY <2>1, PairIs
<1> HIDE DEF two
<1>3. four \in SUBSET Squares /\ \A v \in four : v \in Int /\ v \in two /\ v + 2 \in two
  <2>1. -2 \in Int /\ \A v \in Int : v - (-2) = v + 2
    OBVIOUS
  <2> QED
    BY <1>2, <2>1, PairIs
<1> HIDE DEF four
<1>4. \A v \in eight : v \in Int /\ v \in four /\ v + 4 \in four
  <2>1. -4 \in Int /\ \A v \in Int : v - (-4) = v + 4
    OBVIOUS
  <2> QED
    BY <1>3, <2>1, PairIs DEF eight
<1> HIDE DEF eight
<1>5. /\ u \in Int /\ u \in disc /\ u + 1 \in disc /\ u + 2 \in disc /\ (u + 2) + 1 \in disc
      /\ u + 4 \in disc /\ (u + 4) + 1 \in disc /\ (u + 4) + 2 \in disc /\ ((u + 4) + 2) + 1 \in disc
  BY <1>1, <1>2, <1>3, <1>4
<1> HIDE DEF u
<1>6. \A i \in 0..7 : u + i \in disc
  <2>1. /\ u + 0 = u /\ (u + 2) + 1 = u + 3 /\ (u + 4) + 1 = u + 5 /\ (u + 4) + 2 = u + 6 /\ ((u + 4) + 2) + 1 = u + 7
    BY <1>5
  <2>2. \A i \in 0..7 : i = 0 \/ i = 1 \/ i = 2 \/ i = 3 \/ i = 4 \/ i = 5 \/ i = 6 \/ i = 7
    OBVIOUS
  <2> QED
    BY <1>5, <2>1, <2>2
<1>7. ASSUME NEW dir \in Directions, Offset(dir) \in {1, -1}, NEW k \in 1..7, OnBoard(t, dir, k)
      PROVE  Along(t, dir, k) \in disc
  <2>1. dir[1] \in {1, -1} /\ dir[2] = 0
    BY <1>7, AxisOf
  <2> DEFINE i == Col(t) + k * dir[1]
  <2>2. i \in 0..7
    BY <1>7 DEF OnBoard
  <2>3. Along(t, dir, k) = u + i
    <3>1. Col(t) \in Int /\ t \in Int /\ dir[1] \in Int /\ k \in Int
      <4>1. t \in Int /\ Col(t) \in 0..7
        BY <1>1, Coordinates
      <4> QED
        BY <2>1, <4>1
    <3>2. k * dir[1] \in Int /\ k * (8 * dir[2] + dir[1]) = k * dir[1]
      BY <2>1
    <3> QED
      BY <3>1, <3>2 DEF Along, u
  <2> HIDE DEF i
  <2> QED
    BY <1>6, <2>2, <2>3
<1> QED
  BY <1>1, <1>7 DEF FullOn

LEMMA RotateIs ==
  ASSUME NEW x \in SUBSET Squares, NEW n \in Int
  PROVE  \A u \in Rotate(x, n) : u \in Squares /\ (u - n) % 64 \in x
<1>1. ASSUME NEW s \in Squares PROVE (s + n) % 64 \in Squares /\ (((s + n) % 64) - n) % 64 = s
  BY DEF Squares
<1> QED
  BY <1>1 DEF Rotate

LEMMA ColumnsFull ==
  ASSUME NEW disc \in SUBSET Squares, NEW t \in FullColumns(disc)
  PROVE  t \in Squares /\ FullOn(disc, t, 8)
<1> DEFINE two == disc \cap Rotate(disc, -8)
           four == two \cap Rotate(two, -16)
<1>1. t \in four /\ t \in Rotate(four, 32)
  BY DEF FullColumns
<1>2. two \in SUBSET Squares /\ \A v \in two : v \in disc /\ (v - (-8)) % 64 \in disc
  BY RotateIs
<1> HIDE DEF two
<1>3. four \in SUBSET Squares /\ \A v \in four : v \in two /\ (v - (-16)) % 64 \in two
  BY <1>2, RotateIs
<1> HIDE DEF four
<1>4. t \in Squares /\ (t - 32) % 64 \in four
  BY <1>1, <1>3, RotateIs
<1>5. /\ t \in disc /\ (t - (-8)) % 64 \in disc /\ (t - (-16)) % 64 \in disc
      /\ (((t - (-16)) % 64) - (-8)) % 64 \in disc
  BY <1>1, <1>2, <1>3
<1> DEFINE w == (t - 32) % 64
<1>6. w \in disc /\ (w - (-8)) % 64 \in disc /\ (w - (-16)) % 64 \in disc /\ (((w - (-16)) % 64) - (-8)) % 64 \in disc
  BY <1>2, <1>3, <1>4
<1> DEFINE r == Row(t)
           c == Col(t)
<1>7. t = 8 * r + c /\ r \in 0..7 /\ c \in 0..7
  BY <1>4, Coordinates
<1> HIDE DEF r, c
<1>8. ASSUME NEW q \in 0..7 PROVE 8 * q + c \in disc
  <2>1. \/ q = r \/ q = r + 1 \/ q = r + 2 \/ q = r + 3 \/ q = r + 4 \/ q = r + 5 \/ q = r + 6 \/ q = r + 7
        \/ q = r - 1 \/ q = r - 2 \/ q = r - 3 \/ q = r - 4 \/ q = r - 5 \/ q = r - 6 \/ q = r - 7
    BY <1>7
  <2>2. CASE q = r
    BY <1>5, <1>7, <2>2
  <2>3. CASE q = r + 1 \/ q = r - 7
    <3>1. (t - (-8)) % 64 = 8 * q + c
      BY <1>7, <2>3
    <3> QED
      BY <1>5, <3>1
  <2>4. CASE q = r + 2 \/ q = r - 6
    <3>1. (t - (-16)) % 64 = 8 * q + c
      BY <1>7, <2>4
    <3> QED
      BY <1>5, <3>1
  <2>5. CASE q = r + 3 \/ q = r - 5
    <3>1. (((t - (-16)) % 64) - (-8)) % 64 = 8 * q + c
      BY <1>7, <2>5
    <3> QED
      BY <1>5, <3>1
  <2>6. CASE q = r + 4 \/ q = r - 4
    <3>1. w = 8 * q + c
      BY <1>7, <2>6
    <3> QED
      BY <1>6, <3>1
  <2>7. CASE q = r + 5 \/ q = r - 3
    <3>1. (w - (-8)) % 64 = 8 * q + c
      BY <1>7, <2>7
    <3> QED
      BY <1>6, <3>1
  <2>8. CASE q = r + 6 \/ q = r - 2
    <3>1. (w - (-16)) % 64 = 8 * q + c
      BY <1>7, <2>8
    <3> QED
      BY <1>6, <3>1
  <2>9. CASE q = r + 7 \/ q = r - 1
    <3>1. (((w - (-16)) % 64) - (-8)) % 64 = 8 * q + c
      BY <1>7, <2>9
    <3> QED
      BY <1>6, <3>1
  <2> QED
    BY <2>1, <2>2, <2>3, <2>4, <2>5, <2>6, <2>7, <2>8, <2>9
<1>9. ASSUME NEW dir \in Directions, Offset(dir) \in {8, -8}, NEW k \in 1..7, OnBoard(t, dir, k)
      PROVE  Along(t, dir, k) \in disc
  <2>1. dir[1] = 0 /\ dir[2] \in {1, -1}
    BY <1>9, AxisOf
  <2> DEFINE q == r + k * dir[2]
  <2>2. q \in 0..7
    BY <1>9 DEF OnBoard, r
  <2>3. Along(t, dir, k) = 8 * q + c
    BY <1>7, <2>1 DEF Along
  <2> HIDE DEF q
  <2> QED
    BY <1>8, <2>2, <2>3
<1> QED
  BY <1>4, <1>9 DEF FullOn

(* Up to n steps along dir from t, every square on the board is in disc. *)
ClearTo(disc, t, dir, n) == \A k \in 0..n : OnBoard(t, dir, k) => Along(t, dir, k) \in disc

LEMMA RayOfRay ==
  ASSUME NEW t \in Squares, NEW dir \in Directions, NEW k \in 0..7, NEW m \in 0..7, k + m \in 0..7, OnBoard(t, dir, k + m)
  PROVE  /\ OnBoard(t, dir, k) /\ Along(t, dir, k) \in Squares
         /\ OnBoard(Along(t, dir, k), dir, m) /\ Along(Along(t, dir, k), dir, m) = Along(t, dir, k + m)
<1> DEFINE c == Col(t)
           r == Row(t)
           x == dir[1]
           y == dir[2]
<1>1. t \in Int /\ c \in 0..7 /\ r \in 0..7 /\ c + (k + m) * x \in 0..7 /\ r + (k + m) * y \in 0..7
  BY Coordinates DEF OnBoard
<1>2. x \in {-1, 0, 1} /\ y \in {-1, 0, 1}
  BY DirectionCases
<1> HIDE DEF c, r, x, y
<1>3. c + k * x \in 0..7 /\ (c + k * x) + m * x \in 0..7
  <2>1. CASE x = 1
    BY <1>1, <2>1
  <2>2. CASE x = -1
    BY <1>1, <2>2
  <2>3. CASE x = 0
    BY <1>1, <2>3
  <2> QED
    BY <1>2, <2>1, <2>2, <2>3
<1>4. r + k * y \in 0..7 /\ (r + k * y) + m * y \in 0..7
  <2>1. CASE y = 1
    BY <1>1, <2>1
  <2>2. CASE y = -1
    BY <1>1, <2>2
  <2>3. CASE y = 0
    BY <1>1, <2>3
  <2> QED
    BY <1>2, <2>1, <2>2, <2>3
<1>5. OnBoard(t, dir, k)
  BY <1>3, <1>4 DEF OnBoard, c, r, x, y
<1>6. Along(t, dir, k) \in Squares /\ Col(Along(t, dir, k)) = c + k * x /\ Row(Along(t, dir, k)) = r + k * y
  BY <1>5, OnBoardAlong DEF c, r, x, y
<1>7. OnBoard(Along(t, dir, k), dir, m)
  BY <1>3, <1>4, <1>6 DEF OnBoard, x, y
<1>8. Along(Along(t, dir, k), dir, m) = Along(t, dir, k + m)
  <2> DEFINE d == Offset(dir)
  <2>1. d \in {1, -1, 8, -8, 9, -9, 7, -7}
    BY DirectionCases
  <2>2. Along(t, dir, k + m) = t + (k + m) * d /\ Along(t, dir, k) = t + k * d
    BY <1>1, AlongIs
  <2>3. Along(Along(t, dir, k), dir, m) = Along(t, dir, k) + m * d
    <3>1. Along(t, dir, k) \in Int /\ m \in Int
      BY <1>6 DEF Squares
    <3> QED
      BY <3>1, AlongIs
  <2> HIDE DEF d
  <2>4. t + (k + m) * d = (t + k * d) + m * d
    BY <1>1, <2>1
  <2> QED
    BY <2>2, <2>3, <2>4
<1> QED
  BY <1>5, <1>6, <1>7, <1>8

LEMMA ClearIs ==
  ASSUME NEW disc, NEW x \in SUBSET Squares, NEW dir \in Directions, NEW n \in 1..4, NEW m \in 0..3, n <= m + 1,
         \A s \in x : ClearTo(disc, s, dir, m)
  PROVE  \A s \in Clear(x, dir, n) : s \in x /\ ClearTo(disc, s, dir, n + m)
<1> SUFFICES ASSUME NEW s \in Clear(x, dir, n) PROVE s \in x /\ ClearTo(disc, s, dir, n + m)
  OBVIOUS
<1>1. s \in x /\ s \in Squares /\ (OnBoard(s, dir, n) => Along(s, dir, n) \in x)
  BY DEF Clear
<1>2. ASSUME NEW k \in 0..n + m, OnBoard(s, dir, k) PROVE Along(s, dir, k) \in disc
  <2>1. CASE k <= m
    BY <1>1, <1>2, <2>1 DEF ClearTo
  <2>2. CASE k > m
    <3>1. n \in 0..7 /\ k - n \in 0..7 /\ n + (k - n) = k /\ k \in 0..7 /\ k - n \in 0..m
      BY <2>2
    <3> DEFINE j == k - n
    <3> HIDE DEF j
    <3>2. /\ OnBoard(s, dir, n) /\ Along(s, dir, n) \in Squares
          /\ OnBoard(Along(s, dir, n), dir, j) /\ Along(Along(s, dir, n), dir, j) = Along(s, dir, k)
      <4>1. j \in 0..7 /\ n + j = k
        BY <3>1 DEF j
      <4> QED
        BY <1>1, <1>2, <3>1, <4>1, RayOfRay
    <3>3. Along(s, dir, n) \in x /\ j \in 0..m
      BY <1>1, <3>1, <3>2 DEF j
    <3>4. Along(Along(s, dir, n), dir, j) \in disc
      BY <3>2, <3>3 DEF ClearTo
    <3> QED
      BY <3>2, <3>4
  <2> QED
    BY <2>1, <2>2
<1> QED
  BY <1>1, <1>2 DEF ClearTo

LEMMA ClearThree ==
  ASSUME NEW disc \in SUBSET Squares, NEW dir \in Directions
  PROVE  Clear3(disc, dir) \in SUBSET Squares /\ \A s \in Clear3(disc, dir) : s \in disc /\ ClearTo(disc, s, dir, 3)
<1>1. \A s \in disc : ClearTo(disc, s, dir, 0)
  <2>1. \A s \in disc : Along(s, dir, 0) = s
    <3>1. \A s \in disc : s \in Int
      BY DEF Squares
    <3> QED
      BY <3>1, DirectionCases DEF Along
  <2>2. \A k \in 0..0 : k = 0
    OBVIOUS
  <2> QED
    BY <2>1, <2>2 DEF ClearTo
<1> DEFINE one == Clear(disc, dir, 1)
<1>2. \A s \in one : s \in disc /\ ClearTo(disc, s, dir, 1 + 0)
  <2>1. 1 \in 1..4 /\ 0 \in 0..3 /\ 1 <= 0 + 1
    OBVIOUS
  <2> QED
    BY <1>1, <2>1, ClearIs
<1>3. one \in SUBSET Squares /\ 1 + 0 = 1
  BY DEF Clear
<1> HIDE DEF one
<1>4. \A s \in Clear(one, dir, 2) : s \in one /\ ClearTo(disc, s, dir, 2 + 1)
  <2>1. 2 \in 1..4 /\ 1 \in 0..3 /\ 2 <= 1 + 1 /\ \A s \in one : ClearTo(disc, s, dir, 1)
    BY <1>2, <1>3
  <2> QED
    BY <1>3, <2>1, ClearIs
<1>5. Clear3(disc, dir) = Clear(one, dir, 2) /\ 2 + 1 = 3
  BY DEF Clear3, one
<1> QED
  BY <1>2, <1>3, <1>4, <1>5

LEMMA DiagonalSevenFull ==
  ASSUME NEW disc \in SUBSET Squares, NEW t \in FullD7(disc)
  PROVE  t \in Squares /\ FullOn(disc, t, 7)
<1>1. ASSUME NEW dir \in Directions PROVE \A s \in Clear(Clear3(disc, dir), dir, 4) : s \in Squares /\ ClearTo(disc, s, dir, 7)
  <2> DEFINE x == Clear3(disc, dir)
  <2>1. x \in SUBSET Squares /\ \A s \in x : ClearTo(disc, s, dir, 3)
    BY ClearThree
  <2> HIDE DEF x
  <2>2. 4 \in 1..4 /\ 3 \in 0..3 /\ 4 <= 3 + 1 /\ 4 + 3 = 7
    OBVIOUS
  <2>3. \A s \in Clear(x, dir, 4) : s \in x /\ ClearTo(disc, s, dir, 4 + 3)
    BY <2>1, <2>2, ClearIs
  <2> QED
    BY <2>1, <2>2, <2>3 DEF x
<1>2. <<-1, 1>> \in Directions /\ <<1, -1>> \in Directions
  BY DirectionOf
<1>3. t \in Squares /\ ClearTo(disc, t, <<-1, 1>>, 7) /\ ClearTo(disc, t, <<1, -1>>, 7)
  BY <1>1, <1>2 DEF FullD7
<1>4. \A k \in 1..7 : k \in 0..7
  OBVIOUS
<1> QED
  BY <1>3, <1>4, AxisOf DEF FullOn, ClearTo

LEMMA DiagonalNineFull ==
  ASSUME NEW disc \in SUBSET Squares, NEW t \in FullD9(disc)
  PROVE  t \in Squares /\ FullOn(disc, t, 9)
<1> DEFINE l == Clear3(disc, Down)
           r == Clear3(disc, Up)
<1>1. Down \in Directions /\ Up \in Directions
  BY DirectionOf DEF Down, Up
<1>2. l \in SUBSET Squares /\ \A s \in l : s \in disc /\ ClearTo(disc, s, Down, 3)
  BY <1>1, ClearThree
<1>3. r \in SUBSET Squares /\ \A s \in r : s \in disc /\ ClearTo(disc, s, Up, 3)
  BY <1>1, ClearThree
<1>4. /\ t \in l /\ t \in r
      /\ \/ t \in {s \in Squares : Row(s) < 4 <=> Col(s) >= 4} \/ t \in Shift(l, -36) \/ t \in Shift(r, 36)
  BY DEF FullD9
<1> HIDE DEF l, r
<1>5. t \in Squares /\ t \in Int /\ ClearTo(disc, t, Down, 3) /\ ClearTo(disc, t, Up, 3)
  BY <1>2, <1>3, <1>4 DEF Squares
<1> DEFINE c == Col(t)
           w == Row(t)
<1>6. t = 8 * w + c /\ c \in 0..7 /\ w \in 0..7
  BY <1>5, Coordinates
<1>7. \A k \in 1..7 : /\ OnBoard(t, Down, k) <=> c + k <= 7 /\ w + k <= 7
                      /\ OnBoard(t, Up, k) <=> c - k >= 0 /\ w - k >= 0
  <2>1. Down[1] = 1 /\ Down[2] = 1 /\ Up[1] = -1 /\ Up[2] = -1
    BY DEF Down, Up
  <2>2. \A k \in 1..7 : k * 1 = k /\ k * (-1) = -k
    OBVIOUS
  <2> QED
    BY <1>6, <2>1, <2>2 DEF OnBoard
<1>8. (w < 4 <=> c >= 4) \/ t + 36 \in l \/ t - 36 \in r
  <2>1. -36 \in Int /\ 36 \in Int /\ t - (-36) = t + 36
    BY <1>5
  <2>2. t \in Shift(l, -36) <=> t \in Squares /\ t - (-36) \in l
    BY <1>2, <1>5, <2>1, ShiftIs
  <2>3. t \in Shift(r, 36) <=> t \in Squares /\ t - 36 \in r
    BY <1>3, <1>5, <2>1, ShiftIs
  <2> QED
    BY <1>4, <2>1, <2>2, <2>3
<1> HIDE DEF c, w
<1>9. ASSUME NEW k \in 1..7, OnBoard(t, Down, k) PROVE Along(t, Down, k) \in disc
  <2>1. CASE k <= 3
    <3>1. k \in 0..3
      BY <2>1
    <3> QED
      BY <1>5, <1>9, <3>1 DEF ClearTo
  <2>2. CASE k > 3
    <3>1. c < 4 /\ w < 4 /\ c + k <= 7 /\ w + k <= 7
      BY <1>6, <1>7, <1>9, <2>2
    <3>2. t - 36 \notin Squares
      BY <1>6, <3>1 DEF Squares
    <3>3. t + 36 \in l
      BY <1>3, <1>6, <1>8, <3>1, <3>2
    <3> DEFINE j == k - 4
    <3>4. j \in 0..3 /\ j \in 0..7 /\ 4 \in 0..7 /\ k = 4 + j /\ k \in 0..7
      BY <2>2
    <3> HIDE DEF j
    <3>5. Along(t, Down, 4) = t + 36
      BY <1>5 DEF Along, Down
    <3>6. OnBoard(t + 36, Down, j) /\ Along(t + 36, Down, j) = Along(t, Down, k)
      BY <1>1, <1>5, <1>9, <3>4, <3>5, RayOfRay
    <3> QED
      BY <1>2, <3>3, <3>4, <3>6 DEF ClearTo
  <2> QED
    BY <2>1, <2>2
<1>10. ASSUME NEW k \in 1..7, OnBoard(t, Up, k) PROVE Along(t, Up, k) \in disc
  <2>1. CASE k <= 3
    <3>1. k \in 0..3
      BY <2>1
    <3> QED
      BY <1>5, <1>10, <3>1 DEF ClearTo
  <2>2. CASE k > 3
    <3>1. c >= 4 /\ w >= 4 /\ c - k >= 0 /\ w - k >= 0
      BY <1>6, <1>7, <1>10, <2>2
    <3>2. t + 36 \notin Squares
      BY <1>6, <3>1 DEF Squares
    <3>3. t - 36 \in r
      BY <1>2, <1>6, <1>8, <3>1, <3>2
    <3> DEFINE j == k - 4
    <3>4. j \in 0..3 /\ j \in 0..7 /\ 4 \in 0..7 /\ k = 4 + j /\ k \in 0..7
      BY <2>2
    <3> HIDE DEF j
    <3>5. Along(t, Up, 4) = t - 36
      BY <1>5 DEF Along, Up
    <3>6. OnBoard(t - 36, Up, j) /\ Along(t - 36, Up, j) = Along(t, Up, k)
      BY <1>1, <1>5, <1>10, <3>4, <3>5, RayOfRay
    <3> QED
      BY <1>3, <3>3, <3>4, <3>6 DEF ClearTo
  <2> QED
    BY <2>1, <2>2
<1> QED
  BY <1>5, <1>9, <1>10, AxisOf DEF FullOn

Steps4 == <<1, 8, 9, 7>>

LEMMA FullLinesAre ==
  ASSUME NEW disc \in SUBSET Squares, NEW a \in 1..4, NEW t \in get_full_lines(disc)[a]
  PROVE  t \in Squares /\ FullOn(disc, t, Steps4[a])
<1>1. a = 1 \/ a = 2 \/ a = 3 \/ a = 4
  OBVIOUS
<1> QED
  BY <1>1, RowsFull, ColumnsFull, DiagonalNineFull, DiagonalSevenFull DEF get_full_lines, Steps4

-----------------------------------------------------------------------------
(* Whatever is played: boards p[j], o[j] that follow each other by steps    *)

Trace(p, o, n) ==
  /\ \A j \in 0..n : p[j] \in SUBSET Squares /\ o[j] \in SUBSET Squares /\ p[j] \cap o[j] = {}
  /\ \A j \in 0..n : j < n => BoardStep(p[j], o[j], p[j + 1], o[j + 1])

(* The discs of x are of p all along. *)
Kept(x, p, n) == \A j \in 0..n : x \subseteq p[j]

LEMMA TraceInduction ==
  ASSUME NEW n \in Nat, NEW S \in SUBSET Nat, 0 \in S, \A j \in 0..n : j < n /\ j \in S => j + 1 \in S
  PROVE  \A j \in 0..n : j \in S
<1> DEFINE T == {j \in Nat : j <= n => j \in S}
<1>1. 0 \in T /\ \A j \in T : j + 1 \in T
  OBVIOUS
<1>2. T \in SUBSET Nat
  OBVIOUS
<1> HIDE DEF T
<1>3. \A j \in Nat : j \in T
  BY <1>1, <1>2, SetInduction
<1> QED
  BY <1>3 DEF T

LEMMA DiscsStay ==
  ASSUME NEW p, NEW o, NEW n \in Nat, Trace(p, o, n)
  PROVE  \A j \in 0..n : p[0] \cup o[0] \subseteq p[j] \cup o[j]
<1> DEFINE S == {j \in Nat : p[0] \cup o[0] \subseteq p[j] \cup o[j]}
<1>1. ASSUME NEW j \in 0..n, j < n, j \in S PROVE j + 1 \in S
  <2>1. p[j] \in SUBSET Squares /\ o[j] \in SUBSET Squares /\ BoardStep(p[j], o[j], p[j + 1], o[j + 1])
    BY <1>1 DEF Trace
  <2>2. p[j] \cup o[j] \subseteq p[j + 1] \cup o[j + 1]
    <3>1. ASSUME NEW s, Turn(p[j], o[j], s, p[j + 1], o[j + 1]) PROVE p[j] \cup o[j] \subseteq p[j + 1] \cup o[j + 1]
      BY <3>1 DEF Turn
    <3>2. ASSUME NEW s, Turn(o[j], p[j], s, o[j + 1], p[j + 1]) PROVE p[j] \cup o[j] \subseteq p[j + 1] \cup o[j + 1]
      BY <3>2 DEF Turn
    <3> QED
      BY <2>1, <3>1, <3>2 DEF BoardStep
  <2> QED
    BY <1>1, <2>2
<1>2. S \in SUBSET Nat /\ 0 \in S
  OBVIOUS
<1> HIDE DEF S
<1>3. \A j \in 0..n : j \in S
  BY <1>1, <1>2, TraceInduction
<1> QED
  BY <1>3 DEF S

(* Around a disc that is flipped, along the line of the play: a square that *)
(* was empty, another disc that is flipped, or one of the player            *)
LEMMA AroundFlip ==
  ASSUME NEW p \in SUBSET Squares, NEW o \in SUBSET Squares, NEW s \in Squares \ (p \cup o), p \cap o = {},
         NEW t \in flippedDiscs([player |-> p, opponent |-> o], s)
  PROVE  \E dir \in Directions :
           /\ \E k \in 1..7 : OnBoard(t, dir, k) /\ Along(t, dir, k) \notin p \cup o
           /\ \A u \in {t + Offset(dir), t - Offset(dir)} :
                u \in o => u \in flippedDiscs([player |-> p, opponent |-> o], s)
<1> DEFINE b == [player |-> p, opponent |-> o]
           f == flippedDiscs(b, s)
<1>1. b.player = p /\ b.opponent = o
  OBVIOUS
<1>2. \A u : u \in f <=> \E dir \in Directions : \E k \in 2..7 : \E i \in 1..k - 1 :
                           Hit(p, o, s, dir, k) /\ u = Along(s, dir, i)
  <2> HIDE DEF b
  <2> QED
    BY <1>1, FlipIsHit
<1> HIDE DEF b, f
<1>3. t \in f
  BY DEF b, f
<1>4. PICK dir \in Directions, k \in 2..7 : \E i \in 1..k - 1 : Hit(p, o, s, dir, k) /\ t = Along(s, dir, i)
  BY <1>2, <1>3
<1>5. PICK i \in 1..k - 1 : Hit(p, o, s, dir, k) /\ t = Along(s, dir, i)
  BY <1>4
<1> DEFINE back == <<-dir[1], -dir[2]>>
           e == Offset(dir)
<1>6. back \in Directions /\ Offset(back) = -e /\ back[1] = -dir[1] /\ back[2] = -dir[2]
  BY DEF Directions, Offset
<1>7. OnBoard(s, dir, k) /\ Along(s, dir, k) \in p
  BY <1>5 DEF Hit
<1>8. t \in Squares /\ Col(t) = Col(s) + i * dir[1] /\ Row(t) = Row(s) + i * dir[2]
  BY <1>5, <1>7, InsideRay
<1>9. s \in Int /\ e \in {1, -1, 8, -8, 9, -9, 7, -7} /\ dir[1] \in {-1, 0, 1} /\ dir[2] \in {-1, 0, 1}
  BY DirectionCases DEF Squares
<1>10. \A j \in 0..7 : Along(s, dir, j) = s + j * e
  BY <1>9, AlongIs
<1>11. \A j \in 1..k - 1 : Along(s, dir, j) \in f
  BY <1>2, <1>5
<1> HIDE DEF back, e
<1>12. i \in 1..7 /\ OnBoard(t, back, i) /\ Along(t, back, i) \notin p \cup o
  <2>1. OnBoard(t, back, i)
    <3>1. i * (-dir[1]) = -(i * dir[1]) /\ i * (-dir[2]) = -(i * dir[2])
      BY <1>9
    <3>2. Col(s) \in 0..7 /\ Row(s) \in 0..7 /\ i * dir[1] \in Int /\ i * dir[2] \in Int
      <4>1. Col(s) \in 0..7 /\ Row(s) \in 0..7
        BY Coordinates
      <4>2. i * 1 = i /\ i * (-1) = -i /\ i * 0 = 0 /\ i \in Int
        OBVIOUS
      <4> QED
        BY <1>9, <4>1, <4>2
    <3>3. Col(t) + i * back[1] = Col(s) /\ Row(t) + i * back[2] = Row(s)
      BY <1>6, <1>8, <3>1, <3>2
    <3> QED
      BY <3>2, <3>3 DEF OnBoard
  <2>2. Along(t, back, i) = s
    <3>1. t \in Int /\ i \in Int
      BY <1>8 DEF Squares
    <3>2. Along(t, back, i) = t + i * (-e)
      BY <1>6, <3>1, AlongIs
    <3>3. t = s + i * e
      BY <1>5, <1>10
    <3> QED
      BY <1>9, <3>2, <3>3
  <2> QED
    BY <2>1, <2>2
<1>13. ASSUME NEW u \in {t + e, t - e}, u \in o PROVE u \in f
  <2>1. t = s + i * e /\ i \in Int
    BY <1>5, <1>10
  <2>2. CASE u = t + e
    <3>1. u = s + (i + 1) * e
      BY <1>9, <2>1, <2>2
    <3>2. i + 1 \in 0..7 /\ u = Along(s, dir, i + 1)
      BY <1>10, <3>1
    <3>3. i + 1 # k
      BY <1>7, <1>13, <3>2
    <3>4. i + 1 \in 1..k - 1
      BY <3>3
    <3> QED
      BY <1>11, <3>2, <3>4
  <2>3. CASE u = t - e
    <3>1. u = s + (i - 1) * e
      BY <1>9, <2>1, <2>3
    <3>2. i - 1 \in 0..7 /\ u = Along(s, dir, i - 1)
      BY <1>10, <3>1
    <3>3. i - 1 # 0
      BY <1>9, <1>13, <3>1
    <3>4. i - 1 \in 1..k - 1
      BY <3>3
    <3> QED
      BY <1>11, <3>2, <3>4
  <2> QED
    BY <1>13, <2>2, <2>3
<1>14. \A u : u \in {t + Offset(back), t - Offset(back)} => u \in {t + e, t - e}
  <2>1. t \in Int /\ t + (-e) = t - e /\ t - (-e) = t + e
    BY <1>8, <1>9 DEF Squares
  <2> QED
    BY <1>6, <2>1
<1> QED
  BY <1>6, <1>12, <1>13, <1>14 DEF f, b

LEMMA BothIs ==
  ASSUME NEW x \in SUBSET Squares, NEW d \in Int, NEW t \in Both(x, d)
  PROVE  t \in Int /\ (t - d \in x \/ t + d \in x)
<1>1. -d \in Int
  OBVIOUS
<1>2. \A u \in Int : (u \in Shift(x, d) => u - d \in x) /\ (u \in Shift(x, -d) => u - (-d) \in x)
  BY <1>1, ShiftIs
<1>3. t \in Int
  BY DEF Both, Shift, Squares
<1>4. t - (-d) = t + d
  BY <1>3
<1> QED
  BY <1>2, <1>3, <1>4 DEF Both

(* Every line through t is full, or holds a disc of x next to t.            *)
Supported(x, disc, t) ==
  \A n \in {1, 8, 9, 7} : FullOn(disc, t, n) \/ t - n \in x \/ t + n \in x

LEMMA SpreadIs ==
  ASSUME NEW x \in SUBSET Squares, NEW pc \in SUBSET Squares, NEW disc \in SUBSET Squares
  PROVE  LET y == Spread(x, pc, get_full_lines(disc))
         IN  /\ y \in SUBSET Squares /\ x \subseteq y
             /\ \A t \in y : t \in x \/ (t \in pc /\ Supported(x, disc, t))
<1> DEFINE full == get_full_lines(disc)
           y == Spread(x, pc, full)
<1>1. \A a \in 1..4 : \A t \in full[a] : FullOn(disc, t, Steps4[a])
  BY FullLinesAre
<1>2. /\ \A t \in full[1] : FullOn(disc, t, 1)
      /\ \A t \in full[2] : FullOn(disc, t, 8)
      /\ \A t \in full[3] : FullOn(disc, t, 9)
      /\ \A t \in full[4] : FullOn(disc, t, 7)
  BY <1>1 DEF Steps4
<1>3. \A n \in {1, 8, 9, 7} : \A t \in Both(x, n) : t - n \in x \/ t + n \in x
  BY BothIs
<1> HIDE DEF full
<1>4. \A t \in y : t \in x \/ (t \in pc /\ t \in Both(x, 1) \cup full[1] /\ t \in Both(x, 8) \cup full[2]
                               /\ t \in Both(x, 9) \cup full[3] /\ t \in Both(x, 7) \cup full[4])
  BY DEF Spread
<1>5. ASSUME NEW t \in y, t \notin x PROVE t \in pc /\ Supported(x, disc, t)
  BY <1>2, <1>3, <1>4, <1>5 DEF Supported
<1>6. y \in SUBSET Squares /\ x \subseteq y
  BY DEF Spread
<1> QED
  BY <1>5, <1>6 DEF full

LEMMA SupportedStays ==
  ASSUME NEW p, NEW o, NEW n \in Nat, Trace(p, o, n), NEW x, Kept(x, p, n),
         NEW t \in p[0], Supported(x, p[0] \cup o[0], t)
  PROVE  \A j \in 0..n : t \in p[j]
<1> DEFINE S == {j \in Nat : t \in p[j]}
<1>1. ASSUME NEW j \in 0..n, j < n, j \in S PROVE j + 1 \in S
  <2>1. /\ p[j] \in SUBSET Squares /\ o[j] \in SUBSET Squares /\ p[j] \cap o[j] = {}
        /\ BoardStep(p[j], o[j], p[j + 1], o[j + 1])
    BY <1>1 DEF Trace
  <2>2. p[0] \cup o[0] \subseteq p[j] \cup o[j]
    BY DiscsStay
  <2>3. j + 1 \in 0..n
    BY <1>1
  <2>4. x \subseteq p[j] /\ x \subseteq p[j + 1] /\ t \in p[j]
    BY <1>1, <2>3 DEF Kept
  <2>5. CASE p[j + 1] = p[j]
    BY <2>4, <2>5
  <2>6. ASSUME NEW s, Turn(p[j], o[j], s, p[j + 1], o[j + 1]) PROVE t \in p[j + 1]
    BY <2>4, <2>6 DEF Turn
  <2>7. ASSUME NEW s, Turn(o[j], p[j], s, o[j + 1], p[j + 1]), t \notin p[j + 1] PROVE FALSE
    <3> DEFINE b == [player |-> o[j], opponent |-> p[j]]
               f == flippedDiscs(b, s)
    <3>1. s \in Squares \ (o[j] \cup p[j]) /\ t \in f /\ p[j + 1] = p[j] \ f
      BY <2>4, <2>7 DEF Turn
    <3>2. PICK dir \in Directions :
            /\ \E k \in 1..7 : OnBoard(t, dir, k) /\ Along(t, dir, k) \notin o[j] \cup p[j]
            /\ \A u \in {t + Offset(dir), t - Offset(dir)} : u \in p[j] => u \in f
      BY <2>1, <3>1, AroundFlip
    <3> HIDE DEF f, b
    <3>3. \A u \in {t + Offset(dir), t - Offset(dir)} : u \notin x
      BY <2>4, <3>1, <3>2
    <3>4. t \in Int
      BY <2>1, <2>4 DEF Squares
    <3>5. PICK m \in {1, 8, 9, 7} : Offset(dir) \in {m, -m}
      BY DirectionCases
    <3>6. t - m \notin x /\ t + m \notin x
      <4>1. t - (-m) = t + m /\ t + (-m) = t - m
        BY <3>4
      <4> QED
        BY <3>3, <3>5, <4>1
    <3>7. FullOn(p[0] \cup o[0], t, m)
      BY <3>6 DEF Supported
    <3> QED
      BY <2>2, <3>2, <3>5, <3>7 DEF FullOn
  <2> QED
    BY <2>1, <2>5, <2>6, <2>7 DEF BoardStep
<1>2. S \in SUBSET Nat /\ 0 \in S
  OBVIOUS
<1> HIDE DEF S
<1>3. \A j \in 0..n : j \in S
  BY <1>1, <1>2, TraceInduction
<1> QED
  BY <1>3 DEF S

LEMMA SpreadStays ==
  ASSUME NEW p, NEW o, NEW n \in Nat, Trace(p, o, n), NEW x \in SUBSET Squares, Kept(x, p, n)
  PROVE  Kept(Spread(x, p[0] \cap central, get_full_lines(p[0] \cup o[0])), p, n)
<1> DEFINE disc == p[0] \cup o[0]
           y == Spread(x, p[0] \cap central, get_full_lines(disc))
<1>1. disc \in SUBSET Squares /\ p[0] \cap central \in SUBSET Squares
  BY DEF Trace
<1>2. \A t \in y : t \in x \/ (t \in p[0] \cap central /\ Supported(x, disc, t))
  BY <1>1, SpreadIs
<1> HIDE DEF y
<1>3. ASSUME NEW t \in y PROVE \A j \in 0..n : t \in p[j]
  <2>1. CASE t \in x
    BY <2>1 DEF Kept
  <2>2. CASE t \in p[0] /\ Supported(x, disc, t)
    BY <2>2, SupportedStays
  <2> QED
    BY <1>2, <2>1, <2>2
<1> QED
  BY <1>3 DEF Kept, y

LEMMA SideStays ==
  ASSUME NEW p, NEW o, NEW n \in Nat, Trace(p, o, n), NEW e \in Sides
  PROVE  LET r == EdgeTable(OnSide(p[0], e), OnSide(o[0], e))
         IN  r \in SUBSET Edge /\ \A i \in r : SquareOf(e, i) \in Squares /\ \A j \in 0..n : SquareOf(e, i) \in p[j]
<1> DEFINE r == EdgeTable(OnSide(p[0], e), OnSide(o[0], e))
           S == {j \in Nat : Firm(r, OnSide(p[j], e), OnSide(o[j], e)) /\ r \subseteq OnSide(p[j], e)}
<1>1. \A x : OnSide(x, e) \in SUBSET Edge
  BY DEF OnSide
<1>2. 0 \in S
  BY <1>1, EdgeTableIs
<1> HIDE DEF r
<1>3. ASSUME NEW j \in 0..n, j < n, j \in S PROVE j + 1 \in S
  <2>1. p[j] \in SUBSET Squares /\ o[j] \in SUBSET Squares /\ BoardStep(p[j], o[j], p[j + 1], o[j + 1])
    BY <1>3 DEF Trace
  <2>2. EdgeMove(OnSide(p[j], e), OnSide(o[j], e), OnSide(p[j + 1], e), OnSide(o[j + 1], e))
    BY <2>1, StepOnSide
  <2>3. Firm(r, OnSide(p[j], e), OnSide(o[j], e))
    BY <1>3
  <2>4. Firm(r, OnSide(p[j + 1], e), OnSide(o[j + 1], e)) /\ r \subseteq OnSide(p[j + 1], e)
    BY <1>1, <2>2, <2>3, FirmStays
  <2> QED
    BY <1>3, <2>4
<1>4. S \in SUBSET Nat
  OBVIOUS
<1>5. \A j \in 0..n : j \in S
  <2> HIDE DEF S
  <2> QED
    BY <1>2, <1>3, <1>4, TraceInduction
<1>6. r \in SUBSET Edge
  BY <1>2 DEF Firm
<1>7. ASSUME NEW i \in r PROVE SquareOf(e, i) \in Squares /\ \A j \in 0..n : SquareOf(e, i) \in p[j]
  <2>1. SquareOf(e, i) \in Squares
    BY <1>6, SideSquares
  <2>2. \A j \in 0..n : i \in OnSide(p[j], e)
    BY <1>5
  <2> QED
    BY <2>1, <2>2 DEF OnSide
<1> QED
  BY <1>6, <1>7 DEF r

LEMMA EdgesStay ==
  ASSUME NEW p, NEW o, NEW n \in Nat, Trace(p, o, n)
  PROVE  get_stable_edge(p[0], o[0]) \in SUBSET Squares /\ Kept(get_stable_edge(p[0], o[0]), p, n)
<1> DEFINE Good(x) == x \in SUBSET Squares /\ Kept(x, p, n)
<1>1. ASSUME NEW e \in Sides, NEW first, NEW d, \A i \in Edge : first + d * i = SquareOf(e, i)
      PROVE  Good(StableOnLine(p[0], o[0], first, d))
  <2>1. /\ {i \in Edge : first + d * i \in p[0]} = OnSide(p[0], e)
        /\ {i \in Edge : first + d * i \in o[0]} = OnSide(o[0], e)
    BY <1>1 DEF OnSide
  <2> DEFINE r == EdgeTable(OnSide(p[0], e), OnSide(o[0], e))
  <2>2. r \in SUBSET Edge /\ \A i \in r : SquareOf(e, i) \in Squares /\ \A j \in 0..n : SquareOf(e, i) \in p[j]
    BY SideStays
  <2>3. StableOnLine(p[0], o[0], first, d) = {first + d * i : i \in r}
    BY <2>1 DEF StableOnLine
  <2> HIDE DEF r
  <2> QED
    BY <1>1, <2>2, <2>3 DEF Kept
<1> DEFINE top == [row |-> TRUE, at |-> 0]
           bottom == [row |-> TRUE, at |-> 7]
           left == [row |-> FALSE, at |-> 0]
           right == [row |-> FALSE, at |-> 7]
<1>2. /\ top \in Sides /\ \A i : SquareOf(top, i) = 8 * 0 + i
      /\ bottom \in Sides /\ \A i : SquareOf(bottom, i) = 8 * 7 + i
      /\ left \in Sides /\ \A i : SquareOf(left, i) = 8 * i + 0
      /\ right \in Sides /\ \A i : SquareOf(right, i) = 8 * i + 7
  BY DEF Sides, SquareOf
<1> HIDE DEF top, bottom, left, right
<1>3. Good(StableOnLine(p[0], o[0], 0, 1))
  <2>1. \A i \in Edge : 0 + 1 * i = SquareOf(top, i)
    BY <1>2 DEF Edge
  <2> QED
    BY <1>1, <1>2, <2>1
<1>4. Good(StableOnLine(p[0], o[0], 56, 1))
  <2>1. \A i \in Edge : 56 + 1 * i = SquareOf(bottom, i)
    BY <1>2 DEF Edge
  <2> QED
    BY <1>1, <1>2, <2>1
<1>5. Good(StableOnLine(p[0], o[0], 0, 8))
  <2>1. \A i \in Edge : 0 + 8 * i = SquareOf(left, i)
    BY <1>2 DEF Edge
  <2> QED
    BY <1>1, <1>2, <2>1
<1>6. Good(StableOnLine(p[0], o[0], 7, 8))
  <2>1. \A i \in Edge : 7 + 8 * i = SquareOf(right, i)
    BY <1>2 DEF Edge
  <2> QED
    BY <1>1, <1>2, <2>1
<1> QED
  BY <1>3, <1>4, <1>5, <1>6 DEF get_stable_edge, Kept

(* The rounds of spreading *)
Widened(p, o, x) == Spread(x, p \cap central, get_full_lines(p \cup o))
Rounds(p, o, f) == [x \in SUBSET Squares |-> LET y == Widened(p, o, x) IN IF y = x THEN x ELSE f[y]]
AllFour(p, o) ==
  LET full == get_full_lines(p \cup o)
  IN  p \cap central \cap full[1] \cap full[2] \cap full[3] \cap full[4]
AtFirst(p, o) == get_stable_edge(p, o) \cup AllFour(p, o)

LEMMA StableDiscsIs == \A p, o : StableDiscs(p, o) = (CHOOSE f : f = Rounds(p, o, f))[AtFirst(p, o)]
  BY Zenon DEF StableDiscs, Rounds, Widened, AtFirst, AllFour

LEMMA SquaresLeft ==
  /\ \A x \in SUBSET Squares : 64 - Cardinality(x) \in 0..64
  /\ \A x, y \in SUBSET Squares : x \subseteq y /\ x # y => 64 - Cardinality(y) < 64 - Cardinality(x)
<1>1. IsFiniteSet(Squares) /\ Cardinality(Squares) = 64
  <2>1. 0 \in Int /\ 63 \in Int /\ 63 >= 0
    OBVIOUS
  <2>2. \A a, b \in Int : IsFiniteSet(a..b) /\ (a <= b => Cardinality(a..b) = b - a + 1)
    BY FS_Interval
  <2>3. IsFiniteSet(0..63) /\ Cardinality(0..63) = 63 - 0 + 1
    BY <2>1, <2>2
  <2> QED
    BY <2>3 DEF Squares
<1>2. ASSUME NEW x \in SUBSET Squares
      PROVE  IsFiniteSet(x) /\ Cardinality(x) \in Nat /\ Cardinality(x) <= 64
  <2>1. IsFiniteSet(x) /\ Cardinality(x) <= Cardinality(Squares)
    BY <1>1, FS_Subset
  <2> QED
    BY <1>1, <2>1, FS_CardinalityType
<1>3. ASSUME NEW x \in SUBSET Squares, NEW y \in SUBSET Squares, x \subseteq y, x # y
      PROVE  Cardinality(x) < Cardinality(y)
  <2>1. Cardinality(x) <= Cardinality(y) /\ (Cardinality(x) = Cardinality(y) => x = y)
    BY <1>2, <1>3, FS_Subset
  <2> QED
    BY <1>2, <1>3, <2>1
<1>4. ASSUME NEW x \in SUBSET Squares PROVE 64 - Cardinality(x) \in 0..64
  BY <1>2
<1>5. ASSUME NEW x \in SUBSET Squares, NEW y \in SUBSET Squares, x \subseteq y, x # y
      PROVE  64 - Cardinality(y) < 64 - Cardinality(x)
  <2>1. Cardinality(x) \in Nat /\ Cardinality(y) \in Nat /\ Cardinality(x) < Cardinality(y)
    BY <1>2, <1>3, <1>5
  <2> QED
    BY <2>1
<1> QED
  BY <1>4, <1>5

LEMMA WidenedIs ==
  ASSUME NEW p \in SUBSET Squares, NEW o \in SUBSET Squares, NEW x \in SUBSET Squares
  PROVE  Widened(p, o, x) \in SUBSET Squares /\ x \subseteq Widened(p, o, x)
<1>1. p \cap central \in SUBSET Squares /\ p \cup o \in SUBSET Squares
  OBVIOUS
<1> QED
  BY <1>1, SpreadIs DEF Widened

LEMMA RoundsEnd ==
  ASSUME NEW p \in SUBSET Squares, NEW o \in SUBSET Squares
  PROVE  \E f : f = Rounds(p, o, f)
<1> DEFINE A == SUBSET Squares
           B == [A -> A]
           G == [f \in B |-> Rounds(p, o, f)]
           rank == [x \in A |-> 64 - Cardinality(x)]
<1>1. ASSUME NEW f \in B
      PROVE  /\ Rounds(p, o, f) \in B
             /\ \A x \in A : Rounds(p, o, f)[x] = IF Widened(p, o, x) = x THEN x ELSE f[Widened(p, o, x)]
  BY WidenedIs DEF Rounds
<1>2. G \in [B -> B] /\ \A f \in B : G[f] = Rounds(p, o, f)
  BY <1>1
<1>3. rank \in [A -> 0..64] /\ \A x \in A : rank[x] = 64 - Cardinality(x)
  BY SquaresLeft
<1>4. LooksBelow(A, B, rank, G)
  <2> SUFFICES ASSUME NEW f \in B, NEW g \in B, NEW x \in A, \A y \in A : rank[y] < rank[x] => f[y] = g[y]
               PROVE  G[f][x] = G[g][x]
    BY DEF LooksBelow
  <2>1. Widened(p, o, x) \in A /\ (Widened(p, o, x) # x => rank[Widened(p, o, x)] < rank[x])
    BY <1>3, WidenedIs, SquaresLeft
  <2> DEFINE y == Widened(p, o, x)
  <2>2. y \in A /\ (y # x => f[y] = g[y])
    <3> HIDE DEF rank
    <3> QED
      BY <2>1
  <2>3. G[f][x] = (IF y = x THEN x ELSE f[y]) /\ G[g][x] = IF y = x THEN x ELSE g[y]
    <3> HIDE DEF G, A, B
    <3> QED
      BY <1>1, <1>2
  <2> HIDE DEF G, rank, y
  <2> QED
    BY <2>2, <2>3
<1>5. [x \in A |-> x] \in B
  OBVIOUS
<1>6. B \in SUBSET [A -> A] /\ B # {} /\ 64 \in Nat
  BY <1>5
<1> HIDE DEF A, B, G, rank
<1>7. PICK f : Fixpoint(B, G, f)
  BY <1>2, <1>3, <1>4, <1>6, BoundedRecursion
<1> QED
  BY <1>2, <1>7 DEF Fixpoint

LEMMA RoundsKeep ==
  ASSUME NEW p, NEW o, NEW n \in Nat, Trace(p, o, n), NEW f, f = Rounds(p[0], o[0], f)
  PROVE  \A x \in SUBSET Squares : Kept(x, p, n) => f[x] \in SUBSET Squares /\ Kept(f[x], p, n)
<1> DEFINE W(x) == Widened(p[0], o[0], x)
           Good(x) == Kept(x, p, n) => f[x] \in SUBSET Squares /\ Kept(f[x], p, n)
           S == {k \in Nat : \A x \in SUBSET Squares : 64 - Cardinality(x) < k => Good(x)}
<1>1. p[0] \in SUBSET Squares /\ o[0] \in SUBSET Squares
  BY DEF Trace
<1>2. \A x \in SUBSET Squares : f[x] = IF W(x) = x THEN x ELSE f[W(x)]
  BY DEF Rounds
<1>3. \A x \in SUBSET Squares : W(x) \in SUBSET Squares /\ x \subseteq W(x)
  BY <1>1, WidenedIs
<1>4. \A x \in SUBSET Squares : Kept(x, p, n) => Kept(W(x), p, n)
  BY SpreadStays DEF Widened
<1> HIDE DEF W
<1>5. 0 \in S
  BY SquaresLeft
<1>6. ASSUME NEW k \in S PROVE k + 1 \in S
  <2>1. ASSUME NEW x \in SUBSET Squares, 64 - Cardinality(x) < k + 1, Kept(x, p, n)
        PROVE  f[x] \in SUBSET Squares /\ Kept(f[x], p, n)
    <3>1. CASE W(x) = x
      BY <1>2, <2>1, <3>1
    <3>2. CASE W(x) # x
      <4>1. 64 - Cardinality(W(x)) < 64 - Cardinality(x)
        BY <1>3, <3>2, SquaresLeft
      <4>2. 64 - Cardinality(W(x)) < k
        <5>1. 64 - Cardinality(W(x)) \in Int /\ 64 - Cardinality(x) \in Int
          BY <1>3, SquaresLeft
        <5> QED
          BY <2>1, <4>1, <5>1
      <4>3. f[W(x)] \in SUBSET Squares /\ Kept(f[W(x)], p, n)
        BY <1>3, <1>4, <1>6, <2>1, <4>2
      <4> QED
        BY <1>2, <3>2, <4>3
    <3> QED
      BY <3>1, <3>2
  <2> QED
    BY <2>1
<1>7. 65 \in S
  <2>1. S \in SUBSET Nat
    OBVIOUS
  <2> HIDE DEF S
  <2> QED
    BY <1>5, <1>6, <2>1, SetInduction
<1>8. ASSUME NEW x \in SUBSET Squares PROVE 64 - Cardinality(x) < 65
  BY SquaresLeft
<1> QED
  BY <1>7, <1>8

(* The stable discs stay through any plays.                                 *)
LEMMA StableStays ==
  ASSUME NEW p, NEW o, NEW n \in Nat, Trace(p, o, n)
  PROVE  StableDiscs(p[0], o[0]) \in SUBSET Squares /\ Kept(StableDiscs(p[0], o[0]), p, n)
<1> DEFINE f == CHOOSE f : f = Rounds(p[0], o[0], f)
           x == AtFirst(p[0], o[0])
<1>1. p[0] \in SUBSET Squares /\ o[0] \in SUBSET Squares
  BY DEF Trace
<1>2. f = Rounds(p[0], o[0], f)
  BY <1>1, RoundsEnd
<1>3. x \in SUBSET Squares /\ Kept(x, p, n)
  <2>1. Kept({}, p, n) /\ {} \in SUBSET Squares
    BY DEF Kept
  <2>2. Kept(Spread({}, p[0] \cap central, get_full_lines(p[0] \cup o[0])), p, n)
    BY <2>1, SpreadStays
  <2>3. AllFour(p[0], o[0]) \subseteq Spread({}, p[0] \cap central, get_full_lines(p[0] \cup o[0]))
    BY DEF AllFour, Spread
  <2>4. AllFour(p[0], o[0]) \in SUBSET Squares
    BY <1>1 DEF AllFour
  <2> QED
    BY <2>2, <2>3, <2>4, EdgesStay DEF AtFirst, Kept
<1> HIDE DEF f, x
<1>4. f[x] \in SUBSET Squares /\ Kept(f[x], p, n)
  BY <1>2, <1>3, RoundsKeep
<1> QED
  BY <1>4, StableDiscsIs DEF f, x

(* The game from position i on, seen from its mover's side and from the     *)
(* other one                                                                *)
Side(i) == [j \in 0..Len(positions) - i |-> Own(i, i + j)]
OtherSide(i) == [j \in 0..Len(positions) - i |-> Own(i + 1, i + j)]

LEMMA SidesAre ==
  ASSUME GameInv, NEW i \in DOMAIN positions, NEW j \in 0..Len(positions) - i
  PROVE  /\ i \in Nat /\ Len(positions) \in Nat /\ Len(positions) - i \in Nat
         /\ i + j \in 1..Len(positions) /\ Disjoint(positions[i + j])
         /\ \/ /\ j % 2 = 0 /\ (j + 1) % 2 = 1
               /\ Side(i)[j] = positions[i + j].player /\ OtherSide(i)[j] = positions[i + j].opponent
            \/ /\ j % 2 = 1 /\ (j + 1) % 2 = 0
               /\ Side(i)[j] = positions[i + j].opponent /\ OtherSide(i)[j] = positions[i + j].player
<1> DEFINE n == Len(positions)
<1>1. n \in Nat /\ i \in 1..n /\ \A k \in 1..n : Disjoint(positions[k])
  BY DEF GameInv, Recorded, RecordTypes
<1>2. i \in Nat /\ n - i \in Nat /\ i + j \in 1..n
  BY <1>1
<1>3. Side(i)[j] = Own(i, i + j) /\ OtherSide(i)[j] = Own(i + 1, i + j)
  BY DEF Side, OtherSide
<1> HIDE DEF n
<1>4. j \in Int /\ (i + j) - i = j /\ (i + j) - (i + 1) = j - 1
  BY <1>2
<1>5. \/ j % 2 = 0 /\ (j + 1) % 2 = 1 /\ (j - 1) % 2 = 1
      \/ j % 2 = 1 /\ (j + 1) % 2 = 0 /\ (j - 1) % 2 = 0
  <2>1. j \in Int /\ j - 1 \in Int /\ j + 1 \in Int
    BY <1>4
  <2>2. (j % 2 = 0 /\ (j + 1) % 2 = 1) \/ (j % 2 = 1 /\ (j + 1) % 2 = 0)
    BY <2>1
  <2>3. ((j - 1) % 2 = 0 /\ j % 2 = 1) \/ ((j - 1) % 2 = 1 /\ j % 2 = 0)
    BY <2>1
  <2> QED
    BY <2>2, <2>3
<1>6. /\ Own(i, i + j) = IF j % 2 = 0 THEN positions[i + j].player ELSE positions[i + j].opponent
      /\ Own(i + 1, i + j) = IF (j - 1) % 2 = 0 THEN positions[i + j].player ELSE positions[i + j].opponent
  BY <1>4 DEF Own
<1> QED
  BY <1>1, <1>2, <1>3, <1>5, <1>6 DEF n

LEMMA GameTrace ==
  ASSUME GameInv, NEW i \in DOMAIN positions
  PROVE  Trace(Side(i), OtherSide(i), Len(positions) - i) /\ Trace(OtherSide(i), Side(i), Len(positions) - i)
<1> DEFINE n == Len(positions) - i
           p == Side(i)
           o == OtherSide(i)
<1>1. i \in 1..Len(positions) /\ Len(positions) = Len(moves) + 1 /\ Len(moves) \in Nat /\ n \in Nat
  BY DEF GameInv, Recorded, RecordTypes
<1>2. ASSUME NEW j \in 0..n
      PROVE  p[j] \in SUBSET Squares /\ o[j] \in SUBSET Squares /\ p[j] \cap o[j] = {}
  <2>1. /\ Disjoint(positions[i + j])
        /\ \/ p[j] = positions[i + j].player /\ o[j] = positions[i + j].opponent
           \/ p[j] = positions[i + j].opponent /\ o[j] = positions[i + j].player
    BY SidesAre
  <2> QED
    BY <2>1 DEF Disjoint, Position
<1>3. ASSUME NEW j \in 0..n, j < n
      PROVE  BoardStep(p[j], o[j], p[j + 1], o[j + 1]) /\ BoardStep(o[j], p[j], o[j + 1], p[j + 1])
  <2> DEFINE k == i + j
             b == positions[k]
             c == positions[k + 1]
             mv == moves[k]
  <2>1. j + 1 \in 0..n /\ k \in 1..Len(moves) /\ i + (j + 1) = k + 1
    BY <1>1, <1>3
  <2>2. IsValidMove(b, mv) /\ c = DoMove(b, mv)
    BY <2>1 DEF GameInv, Recorded, RecordMoves
  <2>3. /\ Disjoint(b)
        /\ \/ /\ j % 2 = 0 /\ (j + 1) % 2 = 1 /\ p[j] = b.player /\ o[j] = b.opponent
           \/ /\ j % 2 = 1 /\ (j + 1) % 2 = 0 /\ p[j] = b.opponent /\ o[j] = b.player
    BY SidesAre
  <2>4. \/ (j + 1) % 2 = 0 /\ p[j + 1] = c.player /\ o[j + 1] = c.opponent
        \/ (j + 1) % 2 = 1 /\ p[j + 1] = c.opponent /\ o[j + 1] = c.player
    <3>1. j + 1 \in 0..Len(positions) - i
      BY <2>1
    <3>2. \/ /\ (j + 1) % 2 = 0
             /\ p[j + 1] = positions[i + (j + 1)].player /\ o[j + 1] = positions[i + (j + 1)].opponent
          \/ /\ (j + 1) % 2 = 1
             /\ p[j + 1] = positions[i + (j + 1)].opponent /\ o[j + 1] = positions[i + (j + 1)].player
      BY <3>1, SidesAre, Zenon
    <3> QED
      BY <2>1, <3>2, Zenon
  <2>5. \/ p[j] = b.player /\ o[j] = b.opponent /\ p[j + 1] = c.opponent /\ o[j + 1] = c.player
        \/ p[j] = b.opponent /\ o[j] = b.player /\ p[j + 1] = c.player /\ o[j + 1] = c.opponent
    BY <2>3, <2>4
  <2> HIDE DEF p, o, b, c, mv
  <2>6. CASE mv = PassMove
    <3>1. c.player = b.opponent /\ c.opponent = b.player
      BY <2>2, <2>6 DEF DoMove, Passed
    <3> QED
      BY <2>5, <3>1 DEF BoardStep
  <2>7. CASE mv # PassMove
    <3> DEFINE f == flippedDiscs(b, mv)
    <3>1. mv \in legalMoves(b) /\ c = applyMove(b, mv)
      BY <2>2, <2>7 DEF DoMove, IsValidMove
    <3>2. c = [player |-> b.opponent \ f, opponent |-> b.player \cup f \cup {mv}]
      BY <2>3, <3>1, SameBoards
    <3>3. mv \in Squares /\ mv \notin b.player \cup b.opponent
      BY <2>3, <3>1, NextIs DEF Discs
    <3>4. b = [player |-> b.player, opponent |-> b.opponent]
      BY <2>3 DEF Disjoint, Position
    <3>5. Turn(b.player, b.opponent, mv, c.opponent, c.player)
      <4>1. flippedDiscs([player |-> b.player, opponent |-> b.opponent], mv) = f
        BY <3>4
      <4> HIDE DEF f
      <4> QED
        BY <3>2, <3>3, <4>1 DEF Turn
    <3> QED
      BY <2>5, <3>5 DEF BoardStep
  <2> QED
    BY <2>6, <2>7
<1>4. \A j \in 0..n : o[j] \cap p[j] = {}
  BY <1>2
<1> HIDE DEF n, p, o
<1> QED
  BY <1>2, <1>3, <1>4 DEF Trace, n, p, o

LEMMA StableInGame ==
  ASSUME GameInv, NEW i \in DOMAIN positions
  PROVE  LET b == positions[i] n == Len(positions) IN
         /\ StableDiscs(b.player, b.opponent) \subseteq Own(i, n)
         /\ StableDiscs(b.opponent, b.player) \subseteq Own(i + 1, n)
<1> DEFINE n == Len(positions) - i
           p == Side(i)
           o == OtherSide(i)
<1>1. i \in 1..Len(positions) /\ Len(positions) \in Nat /\ n \in Nat /\ 0 \in 0..n /\ n \in 0..n /\ i + 0 = i /\ i + n = Len(positions)
  BY DEF GameInv, Recorded, RecordTypes
<1>2. p[0] = positions[i].player /\ o[0] = positions[i].opponent
  <2>1. 0 % 2 # 1
    OBVIOUS
  <2>2. \/ p[0] = positions[i + 0].player /\ o[0] = positions[i + 0].opponent
        \/ 0 % 2 = 1
    BY <1>1, SidesAre
  <2> QED
    BY <1>1, <2>1, <2>2
<1>3. p[n] = Own(i, Len(positions)) /\ o[n] = Own(i + 1, Len(positions))
  BY <1>1 DEF Side, OtherSide
<1>4. Trace(p, o, n) /\ Trace(o, p, n)
  BY GameTrace
<1> HIDE DEF n, p, o
<1>5. StableDiscs(p[0], o[0]) \subseteq p[n] /\ StableDiscs(o[0], p[0]) \subseteq o[n]
  BY <1>1, <1>4, StableStays DEF Kept
<1> QED
  BY <1>2, <1>3, <1>5

(* "Stable discs (never flippable again)": what the local evaluator takes   *)
(* for stable stays with its owner whatever is played and passed later.     *)
THEOREM StableDiscsStay == GameSpec => []StableForever
<1>1. GameInv => StableForever
  BY StableInGame DEF StableForever
<1> QED
  BY <1>1, GameInvHolds, PTL

LEMMA ScoreBound ==
  ASSUME NEW b, Disjoint(b), NEW s, s \in SUBSET Squares
  PROVE  /\ s \subseteq b.opponent => FinalScore(b) <= 64 - 2 * Cardinality(s)
         /\ s \subseteq b.player => -FinalScore(b) <= 64 - 2 * Cardinality(s)
<1> DEFINE x == Cardinality(b.player)
           y == Cardinality(b.opponent)
           k == Cardinality(s)
<1>1. /\ IsFiniteSet(b.player) /\ IsFiniteSet(b.opponent)
      /\ x \in Nat /\ y \in Nat /\ Cardinality(Discs(b)) = x + y
  BY DiscCounts
<1>2. x + y <= 64
  <2>1. Discs(b) \in SUBSET Squares
    BY DEF Disjoint, Position, Discs
  <2>2. 64 - Cardinality(Discs(b)) \in 0..64
    BY <2>1, SquaresLeft
  <2> QED
    BY <1>1, <2>2
<1>3. (s \subseteq b.opponent => k \in Nat /\ k <= y) /\ (s \subseteq b.player => k \in Nat /\ k <= x)
  BY <1>1, FS_Subset, FS_CardinalityType
<1>4. FinalScore(b) = CASE x > y -> 64 - 2 * y [] y > x -> 2 * x - 64 [] OTHER -> 0
  BY DEF FinalScore
<1> HIDE DEF x, y, k
<1>5. CASE x > y
  BY <1>1, <1>2, <1>3, <1>4, <1>5 DEF k
<1>6. CASE y > x
  BY <1>1, <1>2, <1>3, <1>4, <1>6 DEF k
<1>7. CASE x = y
  BY <1>1, <1>2, <1>3, <1>4, <1>7 DEF k
<1> QED
  BY <1>1, <1>5, <1>6, <1>7

(* What the exact search takes for granted: no game ends better for a       *)
(* player than the opponent's stable discs allowed on any position before.  *)
THEOREM CapsHold == GameSpec => []CapHolds
<1>1. ASSUME GameInv, NEW i \in DOMAIN positions
      PROVE  LET n == Len(positions) end == positions[n]
             IN  (IF (n - i) % 2 = 0 THEN FinalScore(end) ELSE -FinalScore(end)) <= StabilityCap(positions[i])
  <2> DEFINE n == Len(positions)
             end == positions[n]
             b == positions[i]
             s == StableDiscs(b.opponent, b.player)
             j == n - i
  <2>1. n \in Nat /\ i \in 1..n /\ j \in 0..n - i /\ i + j = n
    BY <1>1 DEF GameInv, Recorded, RecordTypes
  <2>2. /\ Disjoint(end)
        /\ \/ j % 2 = 0 /\ OtherSide(i)[j] = end.opponent
           \/ j % 2 = 1 /\ OtherSide(i)[j] = end.player
    BY <1>1, <2>1, SidesAre
  <2>3. OtherSide(i)[j] = Own(i + 1, n)
    BY <2>1 DEF OtherSide
  <2>4. s \subseteq OtherSide(i)[j]
    BY <1>1, <2>3, StableInGame
  <2>5. StabilityCap(b) = 64 - 2 * Cardinality(s)
    BY DEF StabilityCap, get_stability
  <2>6. s \in SUBSET Squares
    BY <2>2, <2>4 DEF Disjoint, Position
  <2> HIDE DEF end, s, b, j
  <2>7. /\ s \subseteq end.opponent => FinalScore(end) <= 64 - 2 * Cardinality(s)
        /\ s \subseteq end.player => -FinalScore(end) <= 64 - 2 * Cardinality(s)
    BY <2>2, <2>6, ScoreBound
  <2>8. (IF j % 2 = 0 THEN FinalScore(end) ELSE -FinalScore(end)) <= StabilityCap(b)
    <3>1. CASE j % 2 = 0 /\ OtherSide(i)[j] = end.opponent
      BY <2>4, <2>5, <2>7, <3>1
    <3>2. CASE j % 2 = 1 /\ OtherSide(i)[j] = end.player
      BY <2>4, <2>5, <2>7, <3>2
    <3> QED
      BY <2>2, <3>1, <3>2
  <2> QED
    BY <2>8 DEF end, b, j
<1>2. GameInv => CapHolds
  BY <1>1 DEF CapHolds
<1> QED
  BY <1>2, GameInvHolds, PTL

-----------------------------------------------------------------------------
(* Numbers in base 3: a pattern's number is linear in its digits.           *)

IsSum(x, d) ==
  /\ x \in [0..Len(d) -> Int] /\ x[0] = 0
  /\ \A n \in 1..Len(d) : x[n] = 3 * x[n - 1] + d[n]

LEMMA SumExists ==
  ASSUME NEW d \in Seq(Int)
  PROVE  \E x : IsSum(x, d)
<1> DEFINE P(n) == \E x : x \in [0..n -> Int] /\ x[0] = 0 /\ \A m \in 1..n : x[m] = 3 * x[m - 1] + d[m]
           S == {n \in Nat : n <= Len(d) => P(n)}
<1> HIDE DEF P
<1>0. Len(d) \in Nat /\ \A n \in 1..Len(d) : d[n] \in Int
  BY LenProperties, ElementOfSeq
<1>1. 0 \in S
  <2> DEFINE x == [m \in 0..0 |-> 0]
  <2>1. x \in [0..0 -> Int] /\ x[0] = 0 /\ \A m \in 1..0 : x[m] = 3 * x[m - 1] + d[m]
    OBVIOUS
  <2> HIDE DEF x
  <2>2. P(0)
    BY <2>1 DEF P
  <2> QED
    BY <2>2
<1>2. ASSUME NEW n \in S
      PROVE  n + 1 \in S
  <2> SUFFICES ASSUME n + 1 <= Len(d)
               PROVE  P(n + 1)
    BY <1>2
  <2>0. n \in Nat /\ P(n)
    BY <1>0, <1>2
  <2>1. PICK x : x \in [0..n -> Int] /\ x[0] = 0 /\ \A m \in 1..n : x[m] = 3 * x[m - 1] + d[m]
    BY <2>0, Zenon DEF P
  <2> DEFINE y == [m \in 0..n + 1 |-> IF m <= n THEN x[m] ELSE 3 * x[n] + d[n + 1]]
  <2>2. y \in [0..n + 1 -> Int] /\ y[0] = 0
    BY <2>1, <1>0
  <2>3. ASSUME NEW m \in 1..n + 1
        PROVE  y[m] = 3 * y[m - 1] + d[m]
    <3>1. m - 1 \in 0..n /\ y[m - 1] = x[m - 1]
      BY <1>2
    <3>2. CASE m = n + 1
      BY <1>2, <3>1, <3>2
    <3>3. CASE m <= n
      <4>1. m \in 1..n /\ y[m] = x[m]
        BY <1>2, <3>3
      <4> QED
        BY <2>1, <3>1, <4>1
    <3> QED
      BY <1>2, <3>2, <3>3
  <2> HIDE DEF y
  <2> QED
    BY <2>2, <2>3 DEF P
<1> HIDE DEF S
<1>3. Len(d) \in S
  BY <1>0, <1>1, <1>2, SetInduction DEF S
<1>4. P(Len(d))
  BY <1>0, <1>3 DEF S
<1> QED
  BY <1>4 DEF IsSum, P

LEMMA SumUnique ==
  ASSUME NEW d \in Seq(Int), NEW x, NEW y, IsSum(x, d), IsSum(y, d)
  PROVE  x = y
<1> DEFINE S == {n \in Nat : n <= Len(d) => x[n] = y[n]}
<1>0. Len(d) \in Nat
  BY LenProperties
<1>1. 0 \in S
  BY DEF IsSum
<1>2. \A n \in S : n + 1 \in S
  BY <1>0 DEF IsSum
<1> HIDE DEF S
<1>3. \A n \in Nat : n \in S
  BY <1>1, <1>2, SetInduction DEF S
<1> QED
  BY <1>0, <1>3 DEF S, IsSum

(* Horner's recursive function is that sum. *)
LEMMA HornerIs ==
  ASSUME NEW d \in Seq(Int)
  PROVE  \E x : IsSum(x, d) /\ Horner(d) = x[Len(d)]
<1> DEFINE F(x) == x = [n \in 0..Len(d) |-> IF n = 0 THEN 0 ELSE 3 * x[n - 1] + d[n]]
<1>0. Len(d) \in Nat /\ \A n \in 1..Len(d) : d[n] \in Int
  BY LenProperties, ElementOfSeq
<1>1. PICK x : IsSum(x, d)
  BY SumExists
<1>2. F(x)
  BY <1>0, <1>1 DEF IsSum
<1>3. F(CHOOSE y : F(y))
  BY <1>2
<1> DEFINE y == CHOOSE y : F(y)
<1>4. Horner(d) = y[Len(d)]
  BY DEF Horner
<1> HIDE DEF y
<1>5. IsSum(y, d)
  <2>1. F(y)
    BY <1>3 DEF y
  <2>2. DOMAIN y = 0..Len(d) /\ y[0] = 0 /\ \A n \in 1..Len(d) : y[n] = 3 * y[n - 1] + d[n]
    <3>1. DOMAIN y = 0..Len(d) /\ \A n \in 0..Len(d) : y[n] = IF n = 0 THEN 0 ELSE 3 * y[n - 1] + d[n]
      BY <2>1
    <3> QED
      BY <1>0, <3>1
  <2> DEFINE S == {n \in Nat : n <= Len(d) => y[n] \in Int}
  <2>3. 0 \in S
    BY <2>2
  <2>4. ASSUME NEW n \in S, n + 1 <= Len(d) PROVE y[n + 1] \in Int
    <3>1. n \in Nat /\ n <= Len(d) /\ y[n] \in Int
      BY <1>0, <2>4
    <3>2. n + 1 \in 1..Len(d) /\ (n + 1) - 1 = n
      BY <1>0, <2>4, <3>1
    <3>3. y[n + 1] = 3 * y[n] + d[n + 1] /\ d[n + 1] \in Int
      BY <1>0, <2>2, <3>2
    <3> QED
      BY <3>1, <3>3
  <2>9. \A n \in S : n + 1 \in S
    BY <2>4
  <2> HIDE DEF S
  <2>5. \A n \in Nat : n \in S
    BY <2>3, <2>9, SetInduction DEF S
  <2>6. \A n \in 0..Len(d) : y[n] \in Int
    BY <1>0, <2>5 DEF S
  <2>7. y = [n \in 0..Len(d) |-> y[n]]
    BY <2>1
  <2>8. y \in [0..Len(d) -> Int]
    BY <2>6, <2>7
  <2> QED
    BY <2>2, <2>8 DEF IsSum
<1> QED
  BY <1>4, <1>5

LEMMA HornerOf ==
  ASSUME NEW d \in Seq(Int), NEW x, IsSum(x, d)
  PROVE  Horner(d) = x[Len(d)] /\ Horner(d) \in Int
<1>1. Len(d) \in Nat
  BY LenProperties
<1>2. PICK y : IsSum(y, d) /\ Horner(d) = y[Len(d)]
  BY HornerIs
<1>3. x = y
  BY <1>2, SumUnique
<1> QED
  BY <1>1, <1>2, <1>3 DEF IsSum

LEMMA AsSequence ==
  ASSUME NEW S, NEW n \in Nat, NEW f \in [1..n -> S]
  PROVE  f \in Seq(S) /\ Len(f) = n
<1>1. f \in Seq(S)
  BY SeqDef
<1> QED
  BY <1>1, LenProperties

(* The digits of a pattern, a function on its places *)
LEMMA Digits ==
  ASSUME NEW n \in Nat, NEW d \in [1..n -> Int]
  PROVE  d \in Seq(Int) /\ Len(d) = n
  BY AsSequence

LEMMA HornerLinear ==
  ASSUME NEW n \in Nat, NEW d \in [1..n -> Int], NEW e \in [1..n -> Int], NEW k \in Int
  PROVE  /\ Horner(d) \in Int /\ Horner(e) \in Int
         /\ Horner([j \in 1..n |-> d[j] + k * e[j]]) = Horner(d) + k * Horner(e)
<1> DEFINE f == [j \in 1..n |-> d[j] + k * e[j]]
<1>1. f \in [1..n -> Int]
  OBVIOUS
<1>2. d \in Seq(Int) /\ Len(d) = n /\ e \in Seq(Int) /\ Len(e) = n /\ f \in Seq(Int) /\ Len(f) = n
  BY <1>1, Digits
<1>3. PICK x : IsSum(x, d)
  BY <1>2, SumExists
<1>4. PICK y : IsSum(y, e)
  BY <1>2, SumExists
<1> DEFINE z == [m \in 0..n |-> x[m] + k * y[m]]
<1>5. IsSum(z, f)
  <2>1. x \in [0..n -> Int] /\ y \in [0..n -> Int] /\ x[0] = 0 /\ y[0] = 0
    BY <1>2, <1>3, <1>4 DEF IsSum
  <2>2. z \in [0..n -> Int] /\ z[0] = 0
    BY <2>1
  <2>3. ASSUME NEW m \in 1..n
        PROVE  z[m] = 3 * z[m - 1] + f[m]
    <3>1. x[m] = 3 * x[m - 1] + d[m] /\ y[m] = 3 * y[m - 1] + e[m]
      BY <1>2, <1>3, <1>4 DEF IsSum
    <3>2. x[m - 1] \in Int /\ y[m - 1] \in Int /\ d[m] \in Int /\ e[m] \in Int
      BY <2>1
    <3>3. z[m] = x[m] + k * y[m] /\ z[m - 1] = x[m - 1] + k * y[m - 1] /\ f[m] = d[m] + k * e[m]
      BY DEF z
    <3> DEFINE a == x[m - 1]
               b == d[m]
               c == y[m - 1]
               g == e[m]
    <3>4. z[m] = (3 * a + b) + k * (3 * c + g)
      BY <3>1, <3>3
    <3>5. a \in Int /\ b \in Int /\ c \in Int /\ g \in Int
      BY <3>2
    <3> HIDE DEF a, b, c, g, z, f
    <3>6. k * (3 * c + g) = 3 * (k * c) + k * g
      BY <3>5
    <3>7. k * c \in Int /\ k * g \in Int
      BY <3>5
    <3>8. (3 * a + b) + (3 * (k * c) + k * g) = 3 * (a + k * c) + (b + k * g)
      BY <3>5, <3>7
    <3>9. z[m] = 3 * (a + k * c) + (b + k * g)
      BY <3>4, <3>6, <3>8, Zenon
    <3> QED
      BY <3>3, <3>9, Zenon DEF a, b, c, g
  <2> QED
    BY <1>2, <2>2, <2>3 DEF IsSum
<1> HIDE DEF f
<1>6. Horner(d) = x[n] /\ Horner(e) = y[n] /\ Horner(f) = z[n] /\ Horner(d) \in Int /\ Horner(e) \in Int
  BY <1>2, <1>3, <1>4, <1>5, HornerOf
<1> QED
  BY <1>6 DEF f

-----------------------------------------------------------------------------
(* The digits of a number in base 3, up to ten of them                     *)

LEMMA Thirds ==
  ASSUME NEW l \in Nat, NEW j \in 0..9
  PROVE  l \div 3^(j + 1) = (l \div 3^j) \div 3
<1> DEFINE k == j + 1
           p == 3^j
           q == 3^k
<1>1. (j = 0 /\ k = 1) \/ (j = 1 /\ k = 2) \/ (j = 2 /\ k = 3) \/ (j = 3 /\ k = 4) \/ (j = 4 /\ k = 5)
      \/ (j = 5 /\ k = 6) \/ (j = 6 /\ k = 7) \/ (j = 7 /\ k = 8) \/ (j = 8 /\ k = 9) \/ (j = 9 /\ k = 10)
  OBVIOUS
<1> HIDE DEF k
<1>2. (p = 3^0 /\ q = 3^1) \/ (p = 3^1 /\ q = 3^2) \/ (p = 3^2 /\ q = 3^3) \/ (p = 3^3 /\ q = 3^4) \/ (p = 3^4
      /\ q = 3^5)
      \/ (p = 3^5 /\ q = 3^6) \/ (p = 3^6 /\ q = 3^7) \/ (p = 3^7 /\ q = 3^8) \/ (p = 3^8
          /\ q = 3^9) \/ (p = 3^9 /\ q = 3^10)
  BY <1>1, Zenon
<1> HIDE DEF p, q
<1>3. l \div q = (l \div p) \div 3
  BY <1>2
<1> QED
  BY <1>3 DEF p, q, k

LEMMA DigitsOf ==
  ASSUME NEW n \in 1..10, NEW d \in [1..n -> 0..2]
  PROVE  /\ Horner(d) \in Nat /\ Horner(d) \div 3^n = 0
         /\ \A j \in 0..n - 1 : Digit(Horner(d), j) = d[n - j]
<1>1. d \in [1..n -> Int] /\ n \in Nat
  OBVIOUS
<1>2. d \in Seq(Int) /\ Len(d) = n
  BY <1>1, Digits
<1>3. PICK x : IsSum(x, d)
  BY <1>2, SumExists
<1>4. x[0] = 0 /\ \A m \in 1..n : x[m] = 3 * x[m - 1] + d[m] /\ d[m] \in 0..2
  BY <1>2, <1>3 DEF IsSum
<1>5. Horner(d) = x[n]
  BY <1>2, <1>3, HornerOf
<1> DEFINE A == {m \in Nat : m <= n => x[m] \in Nat}
           B == {j \in Nat : j <= n => x[n] \div 3^j = x[n - j]}
<1>6. 0 \in A
  BY <1>4
<1>7. \A m \in A : m + 1 \in A
  <2> TAKE m \in A
  <2> SUFFICES ASSUME m + 1 <= n PROVE x[m + 1] \in Nat
    OBVIOUS
  <2>1. m + 1 \in 1..n /\ m + 1 - 1 = m /\ x[m] \in Nat
    OBVIOUS
  <2> QED
    BY <1>4, <2>1
<1> HIDE DEF A
<1>8. \A m \in Nat : m \in A
  BY <1>6, <1>7, SetInduction DEF A
<1>9. \A m \in 0..n : x[m] \in Nat
  BY <1>8 DEF A
<1>10. \A m \in 1..n : x[m - 1] = x[m] \div 3 /\ d[m] = x[m] % 3
  <2> TAKE m \in 1..n
  <2>1. m - 1 \in 0..n /\ x[m - 1] \in Nat /\ x[m] = 3 * x[m - 1] + d[m] /\ d[m] \in 0..2
    BY <1>4, <1>9
  <2> QED
    BY <2>1
<1>11. 0 \in B
  <2>1. x[n] \in Nat /\ n - 0 = n
    BY <1>9
  <2>2. x[n] \div 3^0 = x[n]
    BY <2>1
  <2> QED
    BY <2>1, <2>2
<1>12. \A j \in B : j + 1 \in B
  <2> TAKE j \in B
  <2> SUFFICES ASSUME j + 1 <= n PROVE x[n] \div 3^(j + 1) = x[n - (j + 1)]
    OBVIOUS
  <2>1. j \in 0..9 /\ x[n] \in Nat /\ n - j \in 1..n /\ n - (j + 1) = (n - j) - 1 /\ x[n] \div 3^j = x[n - j]
    BY <1>9
  <2> HIDE DEF B
  <2>2. x[n] \div 3^(j + 1) = (x[n] \div 3^j) \div 3
    BY <2>1, Thirds
  <2> QED
    BY <1>10, <2>1, <2>2
<1> HIDE DEF B
<1>13. \A j \in Nat : j \in B
  BY <1>11, <1>12, SetInduction DEF B
<1>14. \A j \in 0..n : x[n] \div 3^j = x[n - j]
  BY <1>13 DEF B
<1>15. \A j \in 0..n - 1 : Digit(x[n], j) = d[n - j]
  <2> TAKE j \in 0..n - 1
  <2>1. x[n] \div 3^j = x[n - j] /\ n - j \in 1..n
    BY <1>14
  <2> QED
    BY <1>10, <2>1 DEF Digit
<1>16. x[n] \in Nat /\ x[n] \div 3^n = 0
  <2>1. n - n = 0 /\ n \in 0..n
    OBVIOUS
  <2> QED
    BY <1>4, <1>9, <1>14, <2>1
<1> QED
  BY <1>5, <1>15, <1>16

-----------------------------------------------------------------------------
(* Sums of a sequence of numbers, from a first term                        *)

IsTotal(x, n, c, t) ==
  x \in [0..n -> Int] /\ x[0] = c /\ \A i \in 1..n : x[i] = x[i - 1] + t[i]

LEMMA TotalExists ==
  ASSUME NEW n \in Nat, NEW c \in Int, NEW t \in [1..n -> Int]
  PROVE  \E x : IsTotal(x, n, c, t) /\ x = [i \in 0..n |-> IF i = 0 THEN c ELSE x[i - 1] + t[i]]
<1> DEFINE P(m) == \E x : x \in [0..m -> Int] /\ x[0] = c /\ \A i \in 1..m : x[i] = x[i - 1] + t[i]
           S == {m \in Nat : m <= n => P(m)}
<1> HIDE DEF P
<1>1. 0 \in S
  <2> DEFINE x == [m \in 0..0 |-> c]
  <2>1. x \in [0..0 -> Int] /\ x[0] = c /\ \A i \in 1..0 : x[i] = x[i - 1] + t[i]
    OBVIOUS
  <2> HIDE DEF x
  <2>2. P(0)
    BY <2>1 DEF P
  <2> QED
    BY <2>2
<1>2. ASSUME NEW m \in S
      PROVE  m + 1 \in S
  <2> SUFFICES ASSUME m + 1 <= n
               PROVE  P(m + 1)
    BY <1>2
  <2>0. m \in Nat /\ P(m)
    BY <1>2
  <2>1. PICK x : x \in [0..m -> Int] /\ x[0] = c /\ \A i \in 1..m : x[i] = x[i - 1] + t[i]
    BY <2>0 DEF P
  <2> DEFINE y == [i \in 0..m + 1 |-> IF i <= m THEN x[i] ELSE x[m] + t[m + 1]]
  <2>2. m \in Nat /\ t[m + 1] \in Int /\ x[m] \in Int
    BY <2>1
  <2>3. y \in [0..m + 1 -> Int] /\ y[0] = c
    BY <2>1, <2>2
  <2>4. ASSUME NEW i \in 1..m + 1
        PROVE  y[i] = y[i - 1] + t[i]
    <3>1. i - 1 \in 0..m /\ y[i - 1] = x[i - 1]
      BY <2>2
    <3>2. CASE i = m + 1
      BY <2>2, <3>1, <3>2
    <3>3. CASE i <= m
      BY <2>1, <2>2, <3>1, <3>3
    <3> QED
      BY <2>2, <3>2, <3>3
  <2> HIDE DEF y
  <2> QED
    BY <2>3, <2>4 DEF P
<1> HIDE DEF S
<1>3. n \in S
  BY <1>1, <1>2, SetInduction DEF S
<1>4. P(n)
  BY <1>3 DEF S
<1>5. PICK x : x \in [0..n -> Int] /\ x[0] = c /\ \A i \in 1..n : x[i] = x[i - 1] + t[i]
  BY <1>4 DEF P
<1>6. \A i \in 0..n : x[i] = IF i = 0 THEN c ELSE x[i - 1] + t[i]
  BY <1>5
<1> QED
  BY <1>5, <1>6 DEF IsTotal

LEMMA TotalIs ==
  ASSUME NEW n \in Nat, NEW c \in Int, NEW t \in [1..n -> Int], NEW x,
         x = [i \in 0..n |-> IF i = 0 THEN c ELSE x[i - 1] + t[i]]
  PROVE  IsTotal(x, n, c, t)
<1>1. \A i \in 0..n : x[i] = IF i = 0 THEN c ELSE x[i - 1] + t[i]
  OBVIOUS
<1>2. x[0] = c /\ \A i \in 1..n : x[i] = x[i - 1] + t[i]
  BY <1>1
<1> DEFINE S == {i \in Nat : i <= n => x[i] \in Int}
<1>3. 0 \in S
  BY <1>2
<1>4. \A i \in S : i + 1 \in S
  <2> TAKE i \in S
  <2> SUFFICES ASSUME i + 1 <= n PROVE x[i + 1] \in Int
    OBVIOUS
  <2>1. i + 1 \in 1..n /\ (i + 1) - 1 = i /\ x[i] \in Int
    OBVIOUS
  <2> QED
    BY <1>2, <2>1
<1> HIDE DEF S
<1>5. \A i \in Nat : i \in S
  BY <1>3, <1>4, SetInduction DEF S
<1>6. \A i \in 0..n : x[i] \in Int
  <2> TAKE i \in 0..n
  <2>1. i \in S /\ i <= n
    BY <1>5
  <2> QED
    BY <2>1 DEF S
<1>7. x = [i \in 0..n |-> x[i]]
  OBVIOUS
<1> QED
  BY <1>2, <1>6, <1>7 DEF IsTotal

-----------------------------------------------------------------------------
(* The 46 patterns *)

Pattern == {p \in [region : 1..12, squares : Seq(Squares)] : Len(p.squares) = Regions[p.region].digits}

LEMMA RegionTypes ==
  /\ DOMAIN Regions = 1..12
  /\ \A r \in 1..12 : Regions[r].digits \in 4..10 /\ Regions[r].offset \in Nat
  BY DEF Regions

LEMMA InRegionTypes ==
  ASSUME NEW r \in 1..12, NEW ps \in Seq(Seq(Squares)),
         \A i \in 1..Len(ps) : Len(ps[i]) = Regions[r].digits
  PROVE  InRegion(r, ps) \in Seq(Pattern)
<1>1. Len(ps) \in Nat /\ DOMAIN ps = 1..Len(ps) /\ \A i \in 1..Len(ps) : ps[i] \in Seq(Squares)
  BY LenProperties, ElementOfSeq
<1>2. \A i \in 1..Len(ps) : [region |-> r, squares |-> ps[i]] \in Pattern
  BY <1>1 DEF Pattern
<1>3. InRegion(r, ps) \in [1..Len(ps) -> Pattern]
  BY <1>1, <1>2 DEF InRegion
<1> QED
  BY <1>1, <1>3, AsSequence

(* Between two squares of a line *)
LEMMA OnLine ==
  ASSUME NEW n \in 4..8, NEW a \in 0..63, NEW d \in Int, a + d * (n - 1) \in 0..63, NEW k \in 0..n - 1
  PROVE  a + d * k \in 0..63
<1>1. n = 4 \/ n = 5 \/ n = 6 \/ n = 7 \/ n = 8
  OBVIOUS
<1>2. k = 0 \/ k = 1 \/ k = 2 \/ k = 3 \/ k = 4 \/ k = 5 \/ k = 6 \/ k = 7
  OBVIOUS
<1> QED
  BY <1>1, <1>2

LEMMA LinesTypes ==
  ASSUME NEW n \in 4..8, NEW starts \in Seq(Squares), NEW steps \in Seq(Int), Len(steps) = Len(starts),
         \A i \in 1..Len(starts) : starts[i] + steps[i] * (n - 1) \in Squares
  PROVE  /\ Lines(n, starts, steps) \in Seq(Seq(Squares))
         /\ \A i \in 1..Len(Lines(n, starts, steps)) : Len(Lines(n, starts, steps)[i]) = n
<1>1. Len(starts) \in Nat /\ DOMAIN starts = 1..Len(starts) /\ \A i \in 1..Len(starts) : starts[i] \in Squares /\ steps[i] \in Int
  BY LenProperties, ElementOfSeq
<1>2. ASSUME NEW i \in 1..Len(starts)
      PROVE  Line(starts[i], steps[i], n) \in Seq(Squares) /\ Len(Line(starts[i], steps[i], n)) = n
  <2> DEFINE a == starts[i]
             d == steps[i]
             q == Line(a, d, n)
  <2>1. a \in 0..63 /\ d \in Int /\ a + d * (n - 1) \in 0..63
    BY <1>1 DEF Squares
  <2> HIDE DEF a, d
  <2>2. \A j \in 1..n : a + d * (j - 1) \in Squares
    <3> TAKE j \in 1..n
    <3>1. n \in 4..8 /\ j - 1 \in 0..n - 1
      OBVIOUS
    <3> QED
      BY <2>1, <3>1, OnLine DEF Squares
  <2>3. q \in [1..n -> Squares] /\ n \in Nat
    BY <2>2 DEF Line
  <2> HIDE DEF q
  <2>4. q \in Seq(Squares) /\ Len(q) = n
    BY <2>3, AsSequence
  <2> QED
    BY <2>4 DEF q, a, d
<1> DEFINE ls == Lines(n, starts, steps)
<1>3. ls \in [1..Len(starts) -> Seq(Squares)] /\ \A i \in 1..Len(starts) : Len(ls[i]) = n
  BY <1>1, <1>2 DEF Lines
<1> HIDE DEF ls
<1>4. ls \in Seq(Seq(Squares)) /\ Len(ls) = Len(starts)
  BY <1>1, <1>3, AsSequence
<1> QED
  BY <1>3, <1>4 DEF ls

LEMMA RegionDigits ==
  /\ Regions[1].digits = 9 /\ Regions[2].digits = 10 /\ Regions[3].digits = 10 /\ Regions[4].digits = 10
  /\ Regions[5].digits = 8 /\ Regions[6].digits = 8 /\ Regions[7].digits = 8 /\ Regions[8].digits = 8
  /\ Regions[9].digits = 7 /\ Regions[10].digits = 6 /\ Regions[11].digits = 5 /\ Regions[12].digits = 4
  BY DEF Regions

-----------------------------------------------------------------------------
(* The squares of each pattern, in the order of its digits                *)

Block1 == InRegion(1, << <<0, 1, 8, 9, 2, 16, 10, 17, 18>>,
            <<7, 6, 15, 14, 5, 23, 13, 22, 21>>,
            <<56, 48, 57, 49, 40, 58, 41, 50, 42>>,
            <<63, 55, 62, 54, 47, 61, 46, 53, 45>> >>)
Block2 == InRegion(2, << <<32, 24, 16, 8, 0, 9, 1, 2, 3, 4>>,
            <<39, 31, 23, 15, 7, 14, 6, 5, 4, 3>>,
            <<24, 32, 40, 48, 56, 49, 57, 58, 59, 60>>,
            <<31, 39, 47, 55, 63, 54, 62, 61, 60, 59>> >>)
Block3 == InRegion(3, << <<9, 0, 1, 2, 3, 4, 5, 6, 7, 14>>,
            <<49, 56, 57, 58, 59, 60, 61, 62, 63, 54>>,
            <<9, 0, 8, 16, 24, 32, 40, 48, 56, 49>>,
            <<14, 7, 15, 23, 31, 39, 47, 55, 63, 54>> >>)
Block4 == InRegion(4, << <<0, 2, 3, 10, 11, 12, 13, 4, 5, 7>>,
            <<56, 58, 59, 50, 51, 52, 53, 60, 61, 63>>,
            <<0, 16, 24, 17, 25, 33, 41, 32, 40, 56>>,
            <<7, 23, 31, 22, 30, 38, 46, 39, 47, 63>> >>)
Block5 == InRegion(5, Lines(8, <<8, 48, 1, 6>>, <<1, 1, 8, 8>>))
Block6 == InRegion(6, Lines(8, <<16, 40, 2, 5>>, <<1, 1, 8, 8>>))
Block7 == InRegion(7, Lines(8, <<24, 32, 3, 4>>, <<1, 1, 8, 8>>))
Block8 == InRegion(8, Lines(8, <<0, 56>>, <<9, -7>>))
Block9 == InRegion(9, Lines(7, <<1, 15, 8, 6>>, <<9, 7, 9, 7>>))
Block10 == InRegion(10, Lines(6, <<2, 16, 5, 23>>, <<9, 9, 7, 7>>))
Block11 == InRegion(11, Lines(5, <<3, 24, 4, 31>>, <<9, 9, 7, 7>>))
Block12 == InRegion(12, Lines(4, <<3, 32, 4, 39>>, <<7, 9, 9, 7>>))

LEMMA Blocks ==
  /\ Block1 \in Seq(Pattern)
  /\ Block2 \in Seq(Pattern)
  /\ Block3 \in Seq(Pattern)
  /\ Block4 \in Seq(Pattern)
  /\ Block5 \in Seq(Pattern)
  /\ Block6 \in Seq(Pattern)
  /\ Block7 \in Seq(Pattern)
  /\ Block8 \in Seq(Pattern)
  /\ Block9 \in Seq(Pattern)
  /\ Block10 \in Seq(Pattern)
  /\ Block11 \in Seq(Pattern)
  /\ Block12 \in Seq(Pattern)
  /\ Len(Block1) = 4
  /\ Len(Block2) = 4
  /\ Len(Block3) = 4
  /\ Len(Block4) = 4
  /\ Len(Block5) = 4
  /\ Len(Block6) = 4
  /\ Len(Block7) = 4
  /\ Len(Block8) = 2
  /\ Len(Block9) = 4
  /\ Len(Block10) = 4
  /\ Len(Block11) = 4
  /\ Len(Block12) = 4
<1>1. Block1 \in Seq(Pattern)
  <2> DEFINE a == <<0, 1, 8, 9, 2, 16, 10, 17, 18>>
             b == <<7, 6, 15, 14, 5, 23, 13, 22, 21>>
             c == <<56, 48, 57, 49, 40, 58, 41, 50, 42>>
             d == <<63, 55, 62, 54, 47, 61, 46, 53, 45>>
             ps == <<a, b, c, d>>
  <2>1. /\ a \in Seq(Squares) /\ Len(a) = 9 /\ b \in Seq(Squares) /\ Len(b) = 9
        /\ c \in Seq(Squares) /\ Len(c) = 9 /\ d \in Seq(Squares) /\ Len(d) = 9
    BY DEF Squares
  <2> HIDE DEF a, b, c, d
  <2>2. ps \in Seq(Seq(Squares)) /\ \A i \in 1..Len(ps) : Len(ps[i]) = 9
    BY <2>1
  <2> HIDE DEF ps
  <2>3. InRegion(1, ps) \in Seq(Pattern)
    <3>1. 1 \in 1..12 /\ \A i \in 1..Len(ps) : Len(ps[i]) = Regions[1].digits
      BY <2>2, RegionDigits
    <3> QED
      BY <2>2, <3>1, InRegionTypes
  <2> QED
    BY <2>3 DEF Block1, ps, a, b, c, d
<1>2. Block2 \in Seq(Pattern)
  <2> DEFINE a == <<32, 24, 16, 8, 0, 9, 1, 2, 3, 4>>
             b == <<39, 31, 23, 15, 7, 14, 6, 5, 4, 3>>
             c == <<24, 32, 40, 48, 56, 49, 57, 58, 59, 60>>
             d == <<31, 39, 47, 55, 63, 54, 62, 61, 60, 59>>
             ps == <<a, b, c, d>>
  <2>1. /\ a \in Seq(Squares) /\ Len(a) = 10 /\ b \in Seq(Squares) /\ Len(b) = 10
        /\ c \in Seq(Squares) /\ Len(c) = 10 /\ d \in Seq(Squares) /\ Len(d) = 10
    BY DEF Squares
  <2> HIDE DEF a, b, c, d
  <2>2. ps \in Seq(Seq(Squares)) /\ \A i \in 1..Len(ps) : Len(ps[i]) = 10
    BY <2>1
  <2> HIDE DEF ps
  <2>3. InRegion(2, ps) \in Seq(Pattern)
    <3>1. 2 \in 1..12 /\ \A i \in 1..Len(ps) : Len(ps[i]) = Regions[2].digits
      BY <2>2, RegionDigits
    <3> QED
      BY <2>2, <3>1, InRegionTypes
  <2> QED
    BY <2>3 DEF Block2, ps, a, b, c, d
<1>3. Block3 \in Seq(Pattern)
  <2> DEFINE a == <<9, 0, 1, 2, 3, 4, 5, 6, 7, 14>>
             b == <<49, 56, 57, 58, 59, 60, 61, 62, 63, 54>>
             c == <<9, 0, 8, 16, 24, 32, 40, 48, 56, 49>>
             d == <<14, 7, 15, 23, 31, 39, 47, 55, 63, 54>>
             ps == <<a, b, c, d>>
  <2>1. /\ a \in Seq(Squares) /\ Len(a) = 10 /\ b \in Seq(Squares) /\ Len(b) = 10
        /\ c \in Seq(Squares) /\ Len(c) = 10 /\ d \in Seq(Squares) /\ Len(d) = 10
    BY DEF Squares
  <2> HIDE DEF a, b, c, d
  <2>2. ps \in Seq(Seq(Squares)) /\ \A i \in 1..Len(ps) : Len(ps[i]) = 10
    BY <2>1
  <2> HIDE DEF ps
  <2>3. InRegion(3, ps) \in Seq(Pattern)
    <3>1. 3 \in 1..12 /\ \A i \in 1..Len(ps) : Len(ps[i]) = Regions[3].digits
      BY <2>2, RegionDigits
    <3> QED
      BY <2>2, <3>1, InRegionTypes
  <2> QED
    BY <2>3 DEF Block3, ps, a, b, c, d
<1>4. Block4 \in Seq(Pattern)
  <2> DEFINE a == <<0, 2, 3, 10, 11, 12, 13, 4, 5, 7>>
             b == <<56, 58, 59, 50, 51, 52, 53, 60, 61, 63>>
             c == <<0, 16, 24, 17, 25, 33, 41, 32, 40, 56>>
             d == <<7, 23, 31, 22, 30, 38, 46, 39, 47, 63>>
             ps == <<a, b, c, d>>
  <2>1. /\ a \in Seq(Squares) /\ Len(a) = 10 /\ b \in Seq(Squares) /\ Len(b) = 10
        /\ c \in Seq(Squares) /\ Len(c) = 10 /\ d \in Seq(Squares) /\ Len(d) = 10
    BY DEF Squares
  <2> HIDE DEF a, b, c, d
  <2>2. ps \in Seq(Seq(Squares)) /\ \A i \in 1..Len(ps) : Len(ps[i]) = 10
    BY <2>1
  <2> HIDE DEF ps
  <2>3. InRegion(4, ps) \in Seq(Pattern)
    <3>1. 4 \in 1..12 /\ \A i \in 1..Len(ps) : Len(ps[i]) = Regions[4].digits
      BY <2>2, RegionDigits
    <3> QED
      BY <2>2, <3>1, InRegionTypes
  <2> QED
    BY <2>3 DEF Block4, ps, a, b, c, d
<1>5. Block5 \in Seq(Pattern)
  <2> DEFINE starts == <<8, 48, 1, 6>>
             steps == <<1, 1, 8, 8>>
             ps == Lines(8, starts, steps)
  <2>1. starts \in Seq(Squares) /\ steps \in Seq(Int) /\ Len(starts) = 4 /\ Len(steps) = 4
    BY DEF Squares
  <2>2. \A i \in 1..4 : starts[i] + steps[i] * (8 - 1) \in Squares
    BY DEF Squares
  <2> HIDE DEF starts, steps
  <2>3. ps \in Seq(Seq(Squares)) /\ \A i \in 1..Len(ps) : Len(ps[i]) = 8
    <3>1. 8 \in 4..8 /\ Len(steps) = Len(starts)
          /\ \A i \in 1..Len(starts) : starts[i] + steps[i] * (8 - 1) \in Squares
      BY <2>1, <2>2
    <3> QED
      BY <2>1, <3>1, LinesTypes
  <2> HIDE DEF ps
  <2>4. InRegion(5, ps) \in Seq(Pattern)
    <3>1. 5 \in 1..12 /\ \A i \in 1..Len(ps) : Len(ps[i]) = Regions[5].digits
      BY <2>3, RegionDigits
    <3> QED
      BY <2>3, <3>1, InRegionTypes
  <2> QED
    BY <2>4 DEF Block5, ps, starts, steps
<1>6. Block6 \in Seq(Pattern)
  <2> DEFINE starts == <<16, 40, 2, 5>>
             steps == <<1, 1, 8, 8>>
             ps == Lines(8, starts, steps)
  <2>1. starts \in Seq(Squares) /\ steps \in Seq(Int) /\ Len(starts) = 4 /\ Len(steps) = 4
    BY DEF Squares
  <2>2. \A i \in 1..4 : starts[i] + steps[i] * (8 - 1) \in Squares
    BY DEF Squares
  <2> HIDE DEF starts, steps
  <2>3. ps \in Seq(Seq(Squares)) /\ \A i \in 1..Len(ps) : Len(ps[i]) = 8
    <3>1. 8 \in 4..8 /\ Len(steps) = Len(starts)
          /\ \A i \in 1..Len(starts) : starts[i] + steps[i] * (8 - 1) \in Squares
      BY <2>1, <2>2
    <3> QED
      BY <2>1, <3>1, LinesTypes
  <2> HIDE DEF ps
  <2>4. InRegion(6, ps) \in Seq(Pattern)
    <3>1. 6 \in 1..12 /\ \A i \in 1..Len(ps) : Len(ps[i]) = Regions[6].digits
      BY <2>3, RegionDigits
    <3> QED
      BY <2>3, <3>1, InRegionTypes
  <2> QED
    BY <2>4 DEF Block6, ps, starts, steps
<1>7. Block7 \in Seq(Pattern)
  <2> DEFINE starts == <<24, 32, 3, 4>>
             steps == <<1, 1, 8, 8>>
             ps == Lines(8, starts, steps)
  <2>1. starts \in Seq(Squares) /\ steps \in Seq(Int) /\ Len(starts) = 4 /\ Len(steps) = 4
    BY DEF Squares
  <2>2. \A i \in 1..4 : starts[i] + steps[i] * (8 - 1) \in Squares
    BY DEF Squares
  <2> HIDE DEF starts, steps
  <2>3. ps \in Seq(Seq(Squares)) /\ \A i \in 1..Len(ps) : Len(ps[i]) = 8
    <3>1. 8 \in 4..8 /\ Len(steps) = Len(starts)
          /\ \A i \in 1..Len(starts) : starts[i] + steps[i] * (8 - 1) \in Squares
      BY <2>1, <2>2
    <3> QED
      BY <2>1, <3>1, LinesTypes
  <2> HIDE DEF ps
  <2>4. InRegion(7, ps) \in Seq(Pattern)
    <3>1. 7 \in 1..12 /\ \A i \in 1..Len(ps) : Len(ps[i]) = Regions[7].digits
      BY <2>3, RegionDigits
    <3> QED
      BY <2>3, <3>1, InRegionTypes
  <2> QED
    BY <2>4 DEF Block7, ps, starts, steps
<1>8. Block8 \in Seq(Pattern)
  <2> DEFINE starts == <<0, 56>>
             steps == <<9, -7>>
             ps == Lines(8, starts, steps)
  <2>1. starts \in Seq(Squares) /\ steps \in Seq(Int) /\ Len(starts) = 2 /\ Len(steps) = 2
    BY DEF Squares
  <2>2. \A i \in 1..2 : starts[i] + steps[i] * (8 - 1) \in Squares
    BY DEF Squares
  <2> HIDE DEF starts, steps
  <2>3. ps \in Seq(Seq(Squares)) /\ \A i \in 1..Len(ps) : Len(ps[i]) = 8
    <3>1. 8 \in 4..8 /\ Len(steps) = Len(starts)
          /\ \A i \in 1..Len(starts) : starts[i] + steps[i] * (8 - 1) \in Squares
      BY <2>1, <2>2
    <3> QED
      BY <2>1, <3>1, LinesTypes
  <2> HIDE DEF ps
  <2>4. InRegion(8, ps) \in Seq(Pattern)
    <3>1. 8 \in 1..12 /\ \A i \in 1..Len(ps) : Len(ps[i]) = Regions[8].digits
      BY <2>3, RegionDigits
    <3> QED
      BY <2>3, <3>1, InRegionTypes
  <2> QED
    BY <2>4 DEF Block8, ps, starts, steps
<1>9. Block9 \in Seq(Pattern)
  <2> DEFINE starts == <<1, 15, 8, 6>>
             steps == <<9, 7, 9, 7>>
             ps == Lines(7, starts, steps)
  <2>1. starts \in Seq(Squares) /\ steps \in Seq(Int) /\ Len(starts) = 4 /\ Len(steps) = 4
    BY DEF Squares
  <2>2. \A i \in 1..4 : starts[i] + steps[i] * (7 - 1) \in Squares
    BY DEF Squares
  <2> HIDE DEF starts, steps
  <2>3. ps \in Seq(Seq(Squares)) /\ \A i \in 1..Len(ps) : Len(ps[i]) = 7
    <3>1. 7 \in 4..8 /\ Len(steps) = Len(starts)
          /\ \A i \in 1..Len(starts) : starts[i] + steps[i] * (7 - 1) \in Squares
      BY <2>1, <2>2
    <3> QED
      BY <2>1, <3>1, LinesTypes
  <2> HIDE DEF ps
  <2>4. InRegion(9, ps) \in Seq(Pattern)
    <3>1. 9 \in 1..12 /\ \A i \in 1..Len(ps) : Len(ps[i]) = Regions[9].digits
      BY <2>3, RegionDigits
    <3> QED
      BY <2>3, <3>1, InRegionTypes
  <2> QED
    BY <2>4 DEF Block9, ps, starts, steps
<1>10. Block10 \in Seq(Pattern)
  <2> DEFINE starts == <<2, 16, 5, 23>>
             steps == <<9, 9, 7, 7>>
             ps == Lines(6, starts, steps)
  <2>1. starts \in Seq(Squares) /\ steps \in Seq(Int) /\ Len(starts) = 4 /\ Len(steps) = 4
    BY DEF Squares
  <2>2. \A i \in 1..4 : starts[i] + steps[i] * (6 - 1) \in Squares
    BY DEF Squares
  <2> HIDE DEF starts, steps
  <2>3. ps \in Seq(Seq(Squares)) /\ \A i \in 1..Len(ps) : Len(ps[i]) = 6
    <3>1. 6 \in 4..8 /\ Len(steps) = Len(starts)
          /\ \A i \in 1..Len(starts) : starts[i] + steps[i] * (6 - 1) \in Squares
      BY <2>1, <2>2
    <3> QED
      BY <2>1, <3>1, LinesTypes
  <2> HIDE DEF ps
  <2>4. InRegion(10, ps) \in Seq(Pattern)
    <3>1. 10 \in 1..12 /\ \A i \in 1..Len(ps) : Len(ps[i]) = Regions[10].digits
      BY <2>3, RegionDigits
    <3> QED
      BY <2>3, <3>1, InRegionTypes
  <2> QED
    BY <2>4 DEF Block10, ps, starts, steps
<1>11. Block11 \in Seq(Pattern)
  <2> DEFINE starts == <<3, 24, 4, 31>>
             steps == <<9, 9, 7, 7>>
             ps == Lines(5, starts, steps)
  <2>1. starts \in Seq(Squares) /\ steps \in Seq(Int) /\ Len(starts) = 4 /\ Len(steps) = 4
    BY DEF Squares
  <2>2. \A i \in 1..4 : starts[i] + steps[i] * (5 - 1) \in Squares
    BY DEF Squares
  <2> HIDE DEF starts, steps
  <2>3. ps \in Seq(Seq(Squares)) /\ \A i \in 1..Len(ps) : Len(ps[i]) = 5
    <3>1. 5 \in 4..8 /\ Len(steps) = Len(starts)
          /\ \A i \in 1..Len(starts) : starts[i] + steps[i] * (5 - 1) \in Squares
      BY <2>1, <2>2
    <3> QED
      BY <2>1, <3>1, LinesTypes
  <2> HIDE DEF ps
  <2>4. InRegion(11, ps) \in Seq(Pattern)
    <3>1. 11 \in 1..12 /\ \A i \in 1..Len(ps) : Len(ps[i]) = Regions[11].digits
      BY <2>3, RegionDigits
    <3> QED
      BY <2>3, <3>1, InRegionTypes
  <2> QED
    BY <2>4 DEF Block11, ps, starts, steps
<1>12. Block12 \in Seq(Pattern)
  <2> DEFINE starts == <<3, 32, 4, 39>>
             steps == <<7, 9, 9, 7>>
             ps == Lines(4, starts, steps)
  <2>1. starts \in Seq(Squares) /\ steps \in Seq(Int) /\ Len(starts) = 4 /\ Len(steps) = 4
    BY DEF Squares
  <2>2. \A i \in 1..4 : starts[i] + steps[i] * (4 - 1) \in Squares
    BY DEF Squares
  <2> HIDE DEF starts, steps
  <2>3. ps \in Seq(Seq(Squares)) /\ \A i \in 1..Len(ps) : Len(ps[i]) = 4
    <3>1. 4 \in 4..8 /\ Len(steps) = Len(starts)
          /\ \A i \in 1..Len(starts) : starts[i] + steps[i] * (4 - 1) \in Squares
      BY <2>1, <2>2
    <3> QED
      BY <2>1, <3>1, LinesTypes
  <2> HIDE DEF ps
  <2>4. InRegion(12, ps) \in Seq(Pattern)
    <3>1. 12 \in 1..12 /\ \A i \in 1..Len(ps) : Len(ps[i]) = Regions[12].digits
      BY <2>3, RegionDigits
    <3> QED
      BY <2>3, <3>1, InRegionTypes
  <2> QED
    BY <2>4 DEF Block12, ps, starts, steps
<1>13. DOMAIN Block1 = 1..4 /\ DOMAIN Block2 = 1..4 /\ DOMAIN Block3 = 1..4 /\ DOMAIN Block4 = 1..4
       /\ DOMAIN Block5 = 1..4 /\ DOMAIN Block6 = 1..4 /\ DOMAIN Block7 = 1..4 /\ DOMAIN Block8 = 1..2
       /\ DOMAIN Block9 = 1..4 /\ DOMAIN Block10 = 1..4 /\ DOMAIN Block11 = 1..4 /\ DOMAIN Block12 = 1..4
  BY DEF Block1, Block2, Block3, Block4, Block5, Block6, Block7, Block8, Block9, Block10, Block11, Block12,
     InRegion, Lines
<1>14. \A s \in Seq(Pattern), m \in Nat : DOMAIN s = 1..m => Len(s) = m
  BY LenProperties
<1> QED
  BY <1>1, <1>2, <1>3, <1>4, <1>5, <1>6, <1>7, <1>8, <1>9, <1>10, <1>11, <1>12, <1>13, <1>14

LEMMA Joined ==
  ASSUME NEW s \in Seq(Pattern), NEW t \in Seq(Pattern)
  PROVE  /\ s \o t \in Seq(Pattern) /\ Len(s \o t) = Len(s) + Len(t)
         /\ \A k \in 1..Len(s) : (s \o t)[k] = s[k]
         /\ \A k \in 1..Len(t) : (s \o t)[Len(s) + k] = t[k]
  BY ConcatProperties

LEMMA FeatureBlocks ==
  /\ FEATURES \in Seq(Pattern) /\ Len(FEATURES) = 46
  /\ \A k \in 1..4 : FEATURES[0 + k] = Block1[k]
  /\ \A k \in 1..4 : FEATURES[4 + k] = Block2[k]
  /\ \A k \in 1..4 : FEATURES[8 + k] = Block3[k]
  /\ \A k \in 1..4 : FEATURES[12 + k] = Block4[k]
  /\ \A k \in 1..4 : FEATURES[16 + k] = Block5[k]
  /\ \A k \in 1..4 : FEATURES[20 + k] = Block6[k]
  /\ \A k \in 1..4 : FEATURES[24 + k] = Block7[k]
  /\ \A k \in 1..2 : FEATURES[28 + k] = Block8[k]
  /\ \A k \in 1..4 : FEATURES[30 + k] = Block9[k]
  /\ \A k \in 1..4 : FEATURES[34 + k] = Block10[k]
  /\ \A k \in 1..4 : FEATURES[38 + k] = Block11[k]
  /\ \A k \in 1..4 : FEATURES[42 + k] = Block12[k]
<1> DEFINE f1 == Block1
           f2 == f1 \o Block2
           f3 == f2 \o Block3
           f4 == f3 \o Block4
           f5 == f4 \o Block5
           f6 == f5 \o Block6
           f7 == f6 \o Block7
           f8 == f7 \o Block8
           f9 == f8 \o Block9
           f10 == f9 \o Block10
           f11 == f10 \o Block11
           f12 == f11 \o Block12
<1>1. FEATURES = f12
  BY DEF FEATURES, Block1, Block2, Block3, Block4, Block5, Block6, Block7, Block8, Block9, Block10, Block11, Block12
<1> HIDE DEF f1, f2, f3, f4, f5, f6, f7, f8, f9, f10, f11, f12
<1>2. f1 \in Seq(Pattern) /\ Len(f1) = 4 /\ (\A k \in 1..4 : f1[k] = Block1[k])
  BY Blocks DEF f1
<1>3. /\ f2 \in Seq(Pattern) /\ Len(f2) = 8
      /\ \A k \in 1..4 : f2[k] = f1[k]
      /\ \A k \in 1..4 : f2[4 + k] = Block2[k]
  <2>1. Block2 \in Seq(Pattern) /\ Len(Block2) = 4
    BY Blocks
  <2>0. f1 \in Seq(Pattern) /\ Block2 \in Seq(Pattern)
    BY <1>2, <2>1
  <2>2. /\ f2 \in Seq(Pattern) /\ Len(f2) = Len(f1) + Len(Block2)
        /\ \A k \in 1..Len(f1) : f2[k] = f1[k]
        /\ \A k \in 1..Len(Block2) : f2[Len(f1) + k] = Block2[k]
    BY <2>0, Joined, Zenon DEF f2
  <2>3. Len(f1) = 4
    BY <1>2
  <2>4. Len(f2) = 8
    BY <2>1, <2>2, <2>3
  <2>5. \A k \in 1..4 : f2[k] = f1[k]
    BY <2>2, <2>3, Zenon
  <2>6. \A k \in 1..4 : f2[4 + k] = Block2[k]
    BY <2>1, <2>2, <2>3
  <2> QED
    BY <2>2, <2>4, <2>5, <2>6, Zenon
<1>4. /\ f3 \in Seq(Pattern) /\ Len(f3) = 12
      /\ \A k \in 1..8 : f3[k] = f2[k]
      /\ \A k \in 1..4 : f3[8 + k] = Block3[k]
  <2>1. Block3 \in Seq(Pattern) /\ Len(Block3) = 4
    BY Blocks
  <2>0. f2 \in Seq(Pattern) /\ Block3 \in Seq(Pattern)
    BY <1>3, <2>1
  <2>2. /\ f3 \in Seq(Pattern) /\ Len(f3) = Len(f2) + Len(Block3)
        /\ \A k \in 1..Len(f2) : f3[k] = f2[k]
        /\ \A k \in 1..Len(Block3) : f3[Len(f2) + k] = Block3[k]
    BY <2>0, Joined, Zenon DEF f3
  <2>3. Len(f2) = 8
    BY <1>3
  <2>4. Len(f3) = 12
    BY <2>1, <2>2, <2>3
  <2>5. \A k \in 1..8 : f3[k] = f2[k]
    BY <2>2, <2>3, Zenon
  <2>6. \A k \in 1..4 : f3[8 + k] = Block3[k]
    BY <2>1, <2>2, <2>3
  <2> QED
    BY <2>2, <2>4, <2>5, <2>6, Zenon
<1>5. /\ f4 \in Seq(Pattern) /\ Len(f4) = 16
      /\ \A k \in 1..12 : f4[k] = f3[k]
      /\ \A k \in 1..4 : f4[12 + k] = Block4[k]
  <2>1. Block4 \in Seq(Pattern) /\ Len(Block4) = 4
    BY Blocks
  <2>0. f3 \in Seq(Pattern) /\ Block4 \in Seq(Pattern)
    BY <1>4, <2>1
  <2>2. /\ f4 \in Seq(Pattern) /\ Len(f4) = Len(f3) + Len(Block4)
        /\ \A k \in 1..Len(f3) : f4[k] = f3[k]
        /\ \A k \in 1..Len(Block4) : f4[Len(f3) + k] = Block4[k]
    BY <2>0, Joined, Zenon DEF f4
  <2>3. Len(f3) = 12
    BY <1>4
  <2>4. Len(f4) = 16
    BY <2>1, <2>2, <2>3
  <2>5. \A k \in 1..12 : f4[k] = f3[k]
    BY <2>2, <2>3, Zenon
  <2>6. \A k \in 1..4 : f4[12 + k] = Block4[k]
    BY <2>1, <2>2, <2>3
  <2> QED
    BY <2>2, <2>4, <2>5, <2>6, Zenon
<1>6. /\ f5 \in Seq(Pattern) /\ Len(f5) = 20
      /\ \A k \in 1..16 : f5[k] = f4[k]
      /\ \A k \in 1..4 : f5[16 + k] = Block5[k]
  <2>1. Block5 \in Seq(Pattern) /\ Len(Block5) = 4
    BY Blocks
  <2>0. f4 \in Seq(Pattern) /\ Block5 \in Seq(Pattern)
    BY <1>5, <2>1
  <2>2. /\ f5 \in Seq(Pattern) /\ Len(f5) = Len(f4) + Len(Block5)
        /\ \A k \in 1..Len(f4) : f5[k] = f4[k]
        /\ \A k \in 1..Len(Block5) : f5[Len(f4) + k] = Block5[k]
    BY <2>0, Joined, Zenon DEF f5
  <2>3. Len(f4) = 16
    BY <1>5
  <2>4. Len(f5) = 20
    BY <2>1, <2>2, <2>3
  <2>5. \A k \in 1..16 : f5[k] = f4[k]
    BY <2>2, <2>3, Zenon
  <2>6. \A k \in 1..4 : f5[16 + k] = Block5[k]
    BY <2>1, <2>2, <2>3
  <2> QED
    BY <2>2, <2>4, <2>5, <2>6, Zenon
<1>7. /\ f6 \in Seq(Pattern) /\ Len(f6) = 24
      /\ \A k \in 1..20 : f6[k] = f5[k]
      /\ \A k \in 1..4 : f6[20 + k] = Block6[k]
  <2>1. Block6 \in Seq(Pattern) /\ Len(Block6) = 4
    BY Blocks
  <2>0. f5 \in Seq(Pattern) /\ Block6 \in Seq(Pattern)
    BY <1>6, <2>1
  <2>2. /\ f6 \in Seq(Pattern) /\ Len(f6) = Len(f5) + Len(Block6)
        /\ \A k \in 1..Len(f5) : f6[k] = f5[k]
        /\ \A k \in 1..Len(Block6) : f6[Len(f5) + k] = Block6[k]
    BY <2>0, Joined, Zenon DEF f6
  <2>3. Len(f5) = 20
    BY <1>6
  <2>4. Len(f6) = 24
    BY <2>1, <2>2, <2>3
  <2>5. \A k \in 1..20 : f6[k] = f5[k]
    BY <2>2, <2>3, Zenon
  <2>6. \A k \in 1..4 : f6[20 + k] = Block6[k]
    BY <2>1, <2>2, <2>3
  <2> QED
    BY <2>2, <2>4, <2>5, <2>6, Zenon
<1>8. /\ f7 \in Seq(Pattern) /\ Len(f7) = 28
      /\ \A k \in 1..24 : f7[k] = f6[k]
      /\ \A k \in 1..4 : f7[24 + k] = Block7[k]
  <2>1. Block7 \in Seq(Pattern) /\ Len(Block7) = 4
    BY Blocks
  <2>0. f6 \in Seq(Pattern) /\ Block7 \in Seq(Pattern)
    BY <1>7, <2>1
  <2>2. /\ f7 \in Seq(Pattern) /\ Len(f7) = Len(f6) + Len(Block7)
        /\ \A k \in 1..Len(f6) : f7[k] = f6[k]
        /\ \A k \in 1..Len(Block7) : f7[Len(f6) + k] = Block7[k]
    BY <2>0, Joined, Zenon DEF f7
  <2>3. Len(f6) = 24
    BY <1>7
  <2>4. Len(f7) = 28
    BY <2>1, <2>2, <2>3
  <2>5. \A k \in 1..24 : f7[k] = f6[k]
    BY <2>2, <2>3, Zenon
  <2>6. \A k \in 1..4 : f7[24 + k] = Block7[k]
    BY <2>1, <2>2, <2>3
  <2> QED
    BY <2>2, <2>4, <2>5, <2>6, Zenon
<1>9. /\ f8 \in Seq(Pattern) /\ Len(f8) = 30
      /\ \A k \in 1..28 : f8[k] = f7[k]
      /\ \A k \in 1..2 : f8[28 + k] = Block8[k]
  <2>1. Block8 \in Seq(Pattern) /\ Len(Block8) = 2
    BY Blocks
  <2>0. f7 \in Seq(Pattern) /\ Block8 \in Seq(Pattern)
    BY <1>8, <2>1
  <2>2. /\ f8 \in Seq(Pattern) /\ Len(f8) = Len(f7) + Len(Block8)
        /\ \A k \in 1..Len(f7) : f8[k] = f7[k]
        /\ \A k \in 1..Len(Block8) : f8[Len(f7) + k] = Block8[k]
    BY <2>0, Joined, Zenon DEF f8
  <2>3. Len(f7) = 28
    BY <1>8
  <2>4. Len(f8) = 30
    BY <2>1, <2>2, <2>3
  <2>5. \A k \in 1..28 : f8[k] = f7[k]
    BY <2>2, <2>3, Zenon
  <2>6. \A k \in 1..2 : f8[28 + k] = Block8[k]
    BY <2>1, <2>2, <2>3
  <2> QED
    BY <2>2, <2>4, <2>5, <2>6, Zenon
<1>10. /\ f9 \in Seq(Pattern) /\ Len(f9) = 34
       /\ \A k \in 1..30 : f9[k] = f8[k]
       /\ \A k \in 1..4 : f9[30 + k] = Block9[k]
  <2>1. Block9 \in Seq(Pattern) /\ Len(Block9) = 4
    BY Blocks
  <2>0. f8 \in Seq(Pattern) /\ Block9 \in Seq(Pattern)
    BY <1>9, <2>1
  <2>2. /\ f9 \in Seq(Pattern) /\ Len(f9) = Len(f8) + Len(Block9)
        /\ \A k \in 1..Len(f8) : f9[k] = f8[k]
        /\ \A k \in 1..Len(Block9) : f9[Len(f8) + k] = Block9[k]
    BY <2>0, Joined, Zenon DEF f9
  <2>3. Len(f8) = 30
    BY <1>9
  <2> QED
    BY <2>1, <2>2, <2>3
<1>11. /\ f10 \in Seq(Pattern) /\ Len(f10) = 38
       /\ \A k \in 1..34 : f10[k] = f9[k]
       /\ \A k \in 1..4 : f10[34 + k] = Block10[k]
  <2>1. Block10 \in Seq(Pattern) /\ Len(Block10) = 4
    BY Blocks
  <2>0. f9 \in Seq(Pattern) /\ Block10 \in Seq(Pattern)
    BY <1>10, <2>1
  <2>2. /\ f10 \in Seq(Pattern) /\ Len(f10) = Len(f9) + Len(Block10)
        /\ \A k \in 1..Len(f9) : f10[k] = f9[k]
        /\ \A k \in 1..Len(Block10) : f10[Len(f9) + k] = Block10[k]
    BY <2>0, Joined, Zenon DEF f10
  <2>3. Len(f9) = 34
    BY <1>10
  <2> QED
    BY <2>1, <2>2, <2>3
<1>12. /\ f11 \in Seq(Pattern) /\ Len(f11) = 42
       /\ \A k \in 1..38 : f11[k] = f10[k]
       /\ \A k \in 1..4 : f11[38 + k] = Block11[k]
  <2>1. Block11 \in Seq(Pattern) /\ Len(Block11) = 4
    BY Blocks
  <2>0. f10 \in Seq(Pattern) /\ Block11 \in Seq(Pattern)
    BY <1>11, <2>1
  <2>2. /\ f11 \in Seq(Pattern) /\ Len(f11) = Len(f10) + Len(Block11)
        /\ \A k \in 1..Len(f10) : f11[k] = f10[k]
        /\ \A k \in 1..Len(Block11) : f11[Len(f10) + k] = Block11[k]
    BY <2>0, Joined, Zenon DEF f11
  <2>3. Len(f10) = 38
    BY <1>11
  <2> QED
    BY <2>1, <2>2, <2>3
<1>13. /\ f12 \in Seq(Pattern) /\ Len(f12) = 46
       /\ \A k \in 1..42 : f12[k] = f11[k]
       /\ \A k \in 1..4 : f12[42 + k] = Block12[k]
  <2>1. Block12 \in Seq(Pattern) /\ Len(Block12) = 4
    BY Blocks
  <2>0. f11 \in Seq(Pattern) /\ Block12 \in Seq(Pattern)
    BY <1>12, <2>1
  <2>2. /\ f12 \in Seq(Pattern) /\ Len(f12) = Len(f11) + Len(Block12)
        /\ \A k \in 1..Len(f11) : f12[k] = f11[k]
        /\ \A k \in 1..Len(Block12) : f12[Len(f11) + k] = Block12[k]
    BY <2>0, Joined, Zenon DEF f12
  <2>3. Len(f11) = 42
    BY <1>12
  <2> QED
    BY <2>1, <2>2, <2>3
<1>21. \A k \in 1..4 : FEATURES[0 + k] = Block1[k]
  <2> SUFFICES ASSUME NEW k \in 1..4 PROVE FEATURES[0 + k] = Block1[k]
    OBVIOUS
  <2> DEFINE i == 0 + k
  <2>1. i \in Nat /\ i \in 1..4 /\ i \in 1..8 /\ i \in 1..12 /\ i \in 1..16 /\ i \in 1..20 /\ i \in 1..24
        /\ i \in 1..28 /\ i \in 1..30 /\ i \in 1..34 /\ i \in 1..38 /\ i \in 1..42
    OBVIOUS
  <2>2. f1[i] = Block1[k]
    BY <1>2
  <2> HIDE DEF i
  <2>3. f2[i] = f1[i] /\ f3[i] = f2[i] /\ f4[i] = f3[i] /\ f5[i] = f4[i] /\ f6[i] = f5[i] /\ f7[i] = f6[i]
        /\ f8[i] = f7[i] /\ f9[i] = f8[i] /\ f10[i] = f9[i] /\ f11[i] = f10[i] /\ f12[i] = f11[i]
    BY <2>1, <1>3, <1>4, <1>5, <1>6, <1>7, <1>8, <1>9, <1>10, <1>11, <1>12, <1>13
  <2> QED
    BY <1>1, <2>2, <2>3 DEF i
<1>22. \A k \in 1..4 : FEATURES[4 + k] = Block2[k]
  <2> SUFFICES ASSUME NEW k \in 1..4 PROVE FEATURES[4 + k] = Block2[k]
    OBVIOUS
  <2> DEFINE i == 4 + k
  <2>1. i \in Nat /\ i \in 1..8 /\ i \in 1..12 /\ i \in 1..16 /\ i \in 1..20 /\ i \in 1..24 /\ i \in 1..28
        /\ i \in 1..30 /\ i \in 1..34 /\ i \in 1..38 /\ i \in 1..42
    OBVIOUS
  <2>2. f2[i] = Block2[k]
    BY <1>3
  <2> HIDE DEF i
  <2>3. f3[i] = f2[i] /\ f4[i] = f3[i] /\ f5[i] = f4[i] /\ f6[i] = f5[i] /\ f7[i] = f6[i] /\ f8[i] = f7[i]
        /\ f9[i] = f8[i] /\ f10[i] = f9[i] /\ f11[i] = f10[i] /\ f12[i] = f11[i]
    BY <2>1, <1>4, <1>5, <1>6, <1>7, <1>8, <1>9, <1>10, <1>11, <1>12, <1>13
  <2> QED
    BY <1>1, <2>2, <2>3 DEF i
<1>23. \A k \in 1..4 : FEATURES[8 + k] = Block3[k]
  <2> SUFFICES ASSUME NEW k \in 1..4 PROVE FEATURES[8 + k] = Block3[k]
    OBVIOUS
  <2> DEFINE i == 8 + k
  <2>1. i \in Nat /\ i \in 1..12 /\ i \in 1..16 /\ i \in 1..20 /\ i \in 1..24 /\ i \in 1..28 /\ i \in 1..30
        /\ i \in 1..34 /\ i \in 1..38 /\ i \in 1..42
    OBVIOUS
  <2>2. f3[i] = Block3[k]
    BY <1>4
  <2> HIDE DEF i
  <2>3. f4[i] = f3[i] /\ f5[i] = f4[i] /\ f6[i] = f5[i] /\ f7[i] = f6[i] /\ f8[i] = f7[i] /\ f9[i] = f8[i]
        /\ f10[i] = f9[i] /\ f11[i] = f10[i] /\ f12[i] = f11[i]
    BY <2>1, <1>5, <1>6, <1>7, <1>8, <1>9, <1>10, <1>11, <1>12, <1>13
  <2> QED
    BY <1>1, <2>2, <2>3 DEF i
<1>24. \A k \in 1..4 : FEATURES[12 + k] = Block4[k]
  <2> SUFFICES ASSUME NEW k \in 1..4 PROVE FEATURES[12 + k] = Block4[k]
    OBVIOUS
  <2> DEFINE i == 12 + k
  <2>1. i \in Nat /\ i \in 1..16 /\ i \in 1..20 /\ i \in 1..24 /\ i \in 1..28 /\ i \in 1..30 /\ i \in 1..34
        /\ i \in 1..38 /\ i \in 1..42
    OBVIOUS
  <2>2. f4[i] = Block4[k]
    BY <1>5
  <2> HIDE DEF i
  <2>3. f5[i] = f4[i] /\ f6[i] = f5[i] /\ f7[i] = f6[i] /\ f8[i] = f7[i] /\ f9[i] = f8[i] /\ f10[i] = f9[i]
        /\ f11[i] = f10[i] /\ f12[i] = f11[i]
    BY <2>1, <1>6, <1>7, <1>8, <1>9, <1>10, <1>11, <1>12, <1>13
  <2> QED
    BY <1>1, <2>2, <2>3 DEF i
<1>25. \A k \in 1..4 : FEATURES[16 + k] = Block5[k]
  <2> SUFFICES ASSUME NEW k \in 1..4 PROVE FEATURES[16 + k] = Block5[k]
    OBVIOUS
  <2> DEFINE i == 16 + k
  <2>1. i \in Nat /\ i \in 1..20 /\ i \in 1..24 /\ i \in 1..28 /\ i \in 1..30 /\ i \in 1..34 /\ i \in 1..38
        /\ i \in 1..42
    OBVIOUS
  <2>2. f5[i] = Block5[k]
    BY <1>6
  <2> HIDE DEF i
  <2>3. f6[i] = f5[i] /\ f7[i] = f6[i] /\ f8[i] = f7[i] /\ f9[i] = f8[i] /\ f10[i] = f9[i] /\ f11[i] = f10[i]
        /\ f12[i] = f11[i]
    BY <2>1, <1>7, <1>8, <1>9, <1>10, <1>11, <1>12, <1>13
  <2> QED
    BY <1>1, <2>2, <2>3 DEF i
<1>26. \A k \in 1..4 : FEATURES[20 + k] = Block6[k]
  <2> SUFFICES ASSUME NEW k \in 1..4 PROVE FEATURES[20 + k] = Block6[k]
    OBVIOUS
  <2> DEFINE i == 20 + k
  <2>1. i \in Nat /\ i \in 1..24 /\ i \in 1..28 /\ i \in 1..30 /\ i \in 1..34 /\ i \in 1..38 /\ i \in 1..42
    OBVIOUS
  <2>2. f6[i] = Block6[k]
    BY <1>7
  <2> HIDE DEF i
  <2>3. f7[i] = f6[i] /\ f8[i] = f7[i] /\ f9[i] = f8[i] /\ f10[i] = f9[i] /\ f11[i] = f10[i] /\ f12[i] = f11[i]
    BY <2>1, <1>8, <1>9, <1>10, <1>11, <1>12, <1>13
  <2> QED
    BY <1>1, <2>2, <2>3 DEF i
<1>27. \A k \in 1..4 : FEATURES[24 + k] = Block7[k]
  <2> SUFFICES ASSUME NEW k \in 1..4 PROVE FEATURES[24 + k] = Block7[k]
    OBVIOUS
  <2> DEFINE i == 24 + k
  <2>1. i \in Nat /\ i \in 1..28 /\ i \in 1..30 /\ i \in 1..34 /\ i \in 1..38 /\ i \in 1..42
    OBVIOUS
  <2>2. f7[i] = Block7[k]
    BY <1>8
  <2> HIDE DEF i
  <2>3. f8[i] = f7[i] /\ f9[i] = f8[i] /\ f10[i] = f9[i] /\ f11[i] = f10[i] /\ f12[i] = f11[i]
    BY <2>1, <1>9, <1>10, <1>11, <1>12, <1>13
  <2> QED
    BY <1>1, <2>2, <2>3 DEF i
<1>28. \A k \in 1..2 : FEATURES[28 + k] = Block8[k]
  <2> SUFFICES ASSUME NEW k \in 1..2 PROVE FEATURES[28 + k] = Block8[k]
    OBVIOUS
  <2> DEFINE i == 28 + k
  <2>1. i \in Nat /\ i \in 1..30 /\ i \in 1..34 /\ i \in 1..38 /\ i \in 1..42
    OBVIOUS
  <2>2. f8[i] = Block8[k]
    BY <1>9
  <2> HIDE DEF i
  <2>3. f9[i] = f8[i] /\ f10[i] = f9[i] /\ f11[i] = f10[i] /\ f12[i] = f11[i]
    BY <2>1, <1>10, <1>11, <1>12, <1>13
  <2> QED
    BY <1>1, <2>2, <2>3 DEF i
<1>29. \A k \in 1..4 : FEATURES[30 + k] = Block9[k]
  <2> SUFFICES ASSUME NEW k \in 1..4 PROVE FEATURES[30 + k] = Block9[k]
    OBVIOUS
  <2> DEFINE i == 30 + k
  <2>1. i \in Nat /\ i \in 1..34 /\ i \in 1..38 /\ i \in 1..42
    OBVIOUS
  <2>2. f9[i] = Block9[k]
    BY <1>10
  <2> HIDE DEF i
  <2>3. f10[i] = f9[i] /\ f11[i] = f10[i] /\ f12[i] = f11[i]
    BY <2>1, <1>11, <1>12, <1>13
  <2> QED
    BY <1>1, <2>2, <2>3 DEF i
<1>30. \A k \in 1..4 : FEATURES[34 + k] = Block10[k]
  <2> SUFFICES ASSUME NEW k \in 1..4 PROVE FEATURES[34 + k] = Block10[k]
    OBVIOUS
  <2> DEFINE i == 34 + k
  <2>1. i \in Nat /\ i \in 1..38 /\ i \in 1..42
    OBVIOUS
  <2>2. f10[i] = Block10[k]
    BY <1>11
  <2> HIDE DEF i
  <2>3. f11[i] = f10[i] /\ f12[i] = f11[i]
    BY <2>1, <1>12, <1>13
  <2> QED
    BY <1>1, <2>2, <2>3 DEF i
<1>31. \A k \in 1..4 : FEATURES[38 + k] = Block11[k]
  <2> SUFFICES ASSUME NEW k \in 1..4 PROVE FEATURES[38 + k] = Block11[k]
    OBVIOUS
  <2> DEFINE i == 38 + k
  <2>1. i \in Nat /\ i \in 1..42
    OBVIOUS
  <2>2. f11[i] = Block11[k]
    BY <1>12
  <2> HIDE DEF i
  <2>3. f12[i] = f11[i]
    BY <2>1, <1>13
  <2> QED
    BY <1>1, <2>2, <2>3 DEF i
<1>32. \A k \in 1..4 : FEATURES[42 + k] = Block12[k]
  <2> SUFFICES ASSUME NEW k \in 1..4 PROVE FEATURES[42 + k] = Block12[k]
    OBVIOUS
  <2> DEFINE i == 42 + k
  <2>1. i \in Nat /\ i \in 1..46
    OBVIOUS
  <2>2. f12[i] = Block12[k]
    BY <1>13
  <2> HIDE DEF i
  <2> QED
    BY <1>1, <2>2 DEF i
<1> QED
  BY <1>1, <1>13, <1>21, <1>22, <1>23, <1>24, <1>25, <1>26, <1>27, <1>28, <1>29, <1>30, <1>31, <1>32

LEMMA FeatureTypes ==
  /\ FEATURES \in Seq(Pattern) /\ Features = 1..Len(FEATURES) /\ Len(FEATURES) \in Nat
  /\ \A i \in Features : FEATURES[i] \in Pattern
<1>1. FEATURES \in Seq(Pattern)
  BY FeatureBlocks
<1>2. DOMAIN FEATURES = 1..Len(FEATURES) /\ Len(FEATURES) \in Nat
  BY <1>1, LenProperties
<1>3. \A i \in 1..Len(FEATURES) : FEATURES[i] \in Pattern
  BY <1>1, ElementOfSeq
<1> QED
  BY <1>1, <1>2, <1>3 DEF Features

(* Square j of pattern i *)
Sq(i, j) == FEATURES[i].squares[j]

LEMMA SquaresOf1 ==
  /\ FEATURES[1].region = 1 /\ Sq(1, 1) = 0 /\ Sq(1, 2) = 1 /\ Sq(1, 3) = 8 /\ Sq(1, 4) = 9 /\ Sq(1, 5) = 2
     /\ Sq(1, 6) = 16 /\ Sq(1, 7) = 10 /\ Sq(1, 8) = 17 /\ Sq(1, 9) = 18
  /\ FEATURES[2].region = 1 /\ Sq(2, 1) = 7 /\ Sq(2, 2) = 6 /\ Sq(2, 3) = 15 /\ Sq(2, 4) = 14 /\ Sq(2, 5) = 5
     /\ Sq(2, 6) = 23 /\ Sq(2, 7) = 13 /\ Sq(2, 8) = 22 /\ Sq(2, 9) = 21
  /\ FEATURES[3].region = 1 /\ Sq(3, 1) = 56 /\ Sq(3, 2) = 48 /\ Sq(3, 3) = 57 /\ Sq(3, 4) = 49
     /\ Sq(3, 5) = 40 /\ Sq(3, 6) = 58 /\ Sq(3, 7) = 41 /\ Sq(3, 8) = 50 /\ Sq(3, 9) = 42
  /\ FEATURES[4].region = 1 /\ Sq(4, 1) = 63 /\ Sq(4, 2) = 55 /\ Sq(4, 3) = 62 /\ Sq(4, 4) = 54
     /\ Sq(4, 5) = 47 /\ Sq(4, 6) = 61 /\ Sq(4, 7) = 46 /\ Sq(4, 8) = 53 /\ Sq(4, 9) = 45
<1>1. FEATURES[1] = Block1[1] /\ FEATURES[2] = Block1[2] /\ FEATURES[3] = Block1[3] /\ FEATURES[4] = Block1[4]
  <2>1. \A k \in 1..4 : FEATURES[0 + k] = Block1[k]
    BY FeatureBlocks
  <2>2. FEATURES[0 + 1] = Block1[1] /\ FEATURES[0 + 2] = Block1[2] /\ FEATURES[0 + 3] = Block1[3]
        /\ FEATURES[0 + 4] = Block1[4]
    BY <2>1
  <2> QED
    BY <2>2
<1> QED
  BY <1>1 DEF Sq, Block1, InRegion

LEMMA SquaresOf2 ==
  /\ FEATURES[5].region = 2 /\ Sq(5, 1) = 32 /\ Sq(5, 2) = 24 /\ Sq(5, 3) = 16 /\ Sq(5, 4) = 8 /\ Sq(5, 5) = 0
     /\ Sq(5, 6) = 9 /\ Sq(5, 7) = 1 /\ Sq(5, 8) = 2 /\ Sq(5, 9) = 3 /\ Sq(5, 10) = 4
  /\ FEATURES[6].region = 2 /\ Sq(6, 1) = 39 /\ Sq(6, 2) = 31 /\ Sq(6, 3) = 23 /\ Sq(6, 4) = 15 /\ Sq(6, 5) = 7
     /\ Sq(6, 6) = 14 /\ Sq(6, 7) = 6 /\ Sq(6, 8) = 5 /\ Sq(6, 9) = 4 /\ Sq(6, 10) = 3
  /\ FEATURES[7].region = 2 /\ Sq(7, 1) = 24 /\ Sq(7, 2) = 32 /\ Sq(7, 3) = 40 /\ Sq(7, 4) = 48
     /\ Sq(7, 5) = 56 /\ Sq(7, 6) = 49 /\ Sq(7, 7) = 57 /\ Sq(7, 8) = 58 /\ Sq(7, 9) = 59 /\ Sq(7, 10) = 60
  /\ FEATURES[8].region = 2 /\ Sq(8, 1) = 31 /\ Sq(8, 2) = 39 /\ Sq(8, 3) = 47 /\ Sq(8, 4) = 55
     /\ Sq(8, 5) = 63 /\ Sq(8, 6) = 54 /\ Sq(8, 7) = 62 /\ Sq(8, 8) = 61 /\ Sq(8, 9) = 60 /\ Sq(8, 10) = 59
<1>1. FEATURES[5] = Block2[1] /\ FEATURES[6] = Block2[2] /\ FEATURES[7] = Block2[3] /\ FEATURES[8] = Block2[4]
  <2>1. \A k \in 1..4 : FEATURES[4 + k] = Block2[k]
    BY FeatureBlocks
  <2>2. FEATURES[4 + 1] = Block2[1] /\ FEATURES[4 + 2] = Block2[2] /\ FEATURES[4 + 3] = Block2[3]
        /\ FEATURES[4 + 4] = Block2[4]
    BY <2>1
  <2> QED
    BY <2>2
<1> QED
  BY <1>1 DEF Sq, Block2, InRegion

LEMMA SquaresOf3 ==
  /\ FEATURES[9].region = 3 /\ Sq(9, 1) = 9 /\ Sq(9, 2) = 0 /\ Sq(9, 3) = 1 /\ Sq(9, 4) = 2 /\ Sq(9, 5) = 3
     /\ Sq(9, 6) = 4 /\ Sq(9, 7) = 5 /\ Sq(9, 8) = 6 /\ Sq(9, 9) = 7 /\ Sq(9, 10) = 14
  /\ FEATURES[10].region = 3 /\ Sq(10, 1) = 49 /\ Sq(10, 2) = 56 /\ Sq(10, 3) = 57 /\ Sq(10, 4) = 58
     /\ Sq(10, 5) = 59 /\ Sq(10, 6) = 60 /\ Sq(10, 7) = 61 /\ Sq(10, 8) = 62 /\ Sq(10, 9) = 63 /\ Sq(10, 10) = 54
  /\ FEATURES[11].region = 3 /\ Sq(11, 1) = 9 /\ Sq(11, 2) = 0 /\ Sq(11, 3) = 8 /\ Sq(11, 4) = 16
     /\ Sq(11, 5) = 24 /\ Sq(11, 6) = 32 /\ Sq(11, 7) = 40 /\ Sq(11, 8) = 48 /\ Sq(11, 9) = 56 /\ Sq(11, 10) = 49
  /\ FEATURES[12].region = 3 /\ Sq(12, 1) = 14 /\ Sq(12, 2) = 7 /\ Sq(12, 3) = 15 /\ Sq(12, 4) = 23
     /\ Sq(12, 5) = 31 /\ Sq(12, 6) = 39 /\ Sq(12, 7) = 47 /\ Sq(12, 8) = 55 /\ Sq(12, 9) = 63 /\ Sq(12, 10) = 54
<1>1. FEATURES[9] = Block3[1] /\ FEATURES[10] = Block3[2] /\ FEATURES[11] = Block3[3] /\ FEATURES[12] = Block3[4]
  <2>1. \A k \in 1..4 : FEATURES[8 + k] = Block3[k]
    BY FeatureBlocks
  <2>2. FEATURES[8 + 1] = Block3[1] /\ FEATURES[8 + 2] = Block3[2] /\ FEATURES[8 + 3] = Block3[3]
        /\ FEATURES[8 + 4] = Block3[4]
    BY <2>1
  <2> QED
    BY <2>2
<1> QED
  BY <1>1 DEF Sq, Block3, InRegion

LEMMA SquaresOf4 ==
  /\ FEATURES[13].region = 4 /\ Sq(13, 1) = 0 /\ Sq(13, 2) = 2 /\ Sq(13, 3) = 3 /\ Sq(13, 4) = 10
     /\ Sq(13, 5) = 11 /\ Sq(13, 6) = 12 /\ Sq(13, 7) = 13 /\ Sq(13, 8) = 4 /\ Sq(13, 9) = 5 /\ Sq(13, 10) = 7
  /\ FEATURES[14].region = 4 /\ Sq(14, 1) = 56 /\ Sq(14, 2) = 58 /\ Sq(14, 3) = 59 /\ Sq(14, 4) = 50
     /\ Sq(14, 5) = 51 /\ Sq(14, 6) = 52 /\ Sq(14, 7) = 53 /\ Sq(14, 8) = 60 /\ Sq(14, 9) = 61 /\ Sq(14, 10) = 63
  /\ FEATURES[15].region = 4 /\ Sq(15, 1) = 0 /\ Sq(15, 2) = 16 /\ Sq(15, 3) = 24 /\ Sq(15, 4) = 17
     /\ Sq(15, 5) = 25 /\ Sq(15, 6) = 33 /\ Sq(15, 7) = 41 /\ Sq(15, 8) = 32 /\ Sq(15, 9) = 40 /\ Sq(15, 10) = 56
  /\ FEATURES[16].region = 4 /\ Sq(16, 1) = 7 /\ Sq(16, 2) = 23 /\ Sq(16, 3) = 31 /\ Sq(16, 4) = 22
     /\ Sq(16, 5) = 30 /\ Sq(16, 6) = 38 /\ Sq(16, 7) = 46 /\ Sq(16, 8) = 39 /\ Sq(16, 9) = 47 /\ Sq(16, 10) = 63
<1>1. FEATURES[13] = Block4[1] /\ FEATURES[14] = Block4[2] /\ FEATURES[15] = Block4[3] /\ FEATURES[16] = Block4[4]
  <2>1. \A k \in 1..4 : FEATURES[12 + k] = Block4[k]
    BY FeatureBlocks
  <2>2. FEATURES[12 + 1] = Block4[1] /\ FEATURES[12 + 2] = Block4[2] /\ FEATURES[12 + 3] = Block4[3]
        /\ FEATURES[12 + 4] = Block4[4]
    BY <2>1
  <2> QED
    BY <2>2
<1> QED
  BY <1>1 DEF Sq, Block4, InRegion

LEMMA SquaresOf5 ==
  /\ FEATURES[17].region = 5 /\ Sq(17, 1) = 8 /\ Sq(17, 2) = 9 /\ Sq(17, 3) = 10 /\ Sq(17, 4) = 11
     /\ Sq(17, 5) = 12 /\ Sq(17, 6) = 13 /\ Sq(17, 7) = 14 /\ Sq(17, 8) = 15
  /\ FEATURES[18].region = 5 /\ Sq(18, 1) = 48 /\ Sq(18, 2) = 49 /\ Sq(18, 3) = 50 /\ Sq(18, 4) = 51
     /\ Sq(18, 5) = 52 /\ Sq(18, 6) = 53 /\ Sq(18, 7) = 54 /\ Sq(18, 8) = 55
  /\ FEATURES[19].region = 5 /\ Sq(19, 1) = 1 /\ Sq(19, 2) = 9 /\ Sq(19, 3) = 17 /\ Sq(19, 4) = 25
     /\ Sq(19, 5) = 33 /\ Sq(19, 6) = 41 /\ Sq(19, 7) = 49 /\ Sq(19, 8) = 57
  /\ FEATURES[20].region = 5 /\ Sq(20, 1) = 6 /\ Sq(20, 2) = 14 /\ Sq(20, 3) = 22 /\ Sq(20, 4) = 30
     /\ Sq(20, 5) = 38 /\ Sq(20, 6) = 46 /\ Sq(20, 7) = 54 /\ Sq(20, 8) = 62
<1>1. FEATURES[17] = Block5[1] /\ FEATURES[18] = Block5[2] /\ FEATURES[19] = Block5[3] /\ FEATURES[20] = Block5[4]
  <2>1. \A k \in 1..4 : FEATURES[16 + k] = Block5[k]
    BY FeatureBlocks
  <2>2. FEATURES[16 + 1] = Block5[1] /\ FEATURES[16 + 2] = Block5[2] /\ FEATURES[16 + 3] = Block5[3]
        /\ FEATURES[16 + 4] = Block5[4]
    BY <2>1
  <2> QED
    BY <2>2
<1> QED
  BY <1>1 DEF Sq, Block5, InRegion, Lines, Line

LEMMA SquaresOf6 ==
  /\ FEATURES[21].region = 6 /\ Sq(21, 1) = 16 /\ Sq(21, 2) = 17 /\ Sq(21, 3) = 18 /\ Sq(21, 4) = 19
     /\ Sq(21, 5) = 20 /\ Sq(21, 6) = 21 /\ Sq(21, 7) = 22 /\ Sq(21, 8) = 23
  /\ FEATURES[22].region = 6 /\ Sq(22, 1) = 40 /\ Sq(22, 2) = 41 /\ Sq(22, 3) = 42 /\ Sq(22, 4) = 43
     /\ Sq(22, 5) = 44 /\ Sq(22, 6) = 45 /\ Sq(22, 7) = 46 /\ Sq(22, 8) = 47
  /\ FEATURES[23].region = 6 /\ Sq(23, 1) = 2 /\ Sq(23, 2) = 10 /\ Sq(23, 3) = 18 /\ Sq(23, 4) = 26
     /\ Sq(23, 5) = 34 /\ Sq(23, 6) = 42 /\ Sq(23, 7) = 50 /\ Sq(23, 8) = 58
  /\ FEATURES[24].region = 6 /\ Sq(24, 1) = 5 /\ Sq(24, 2) = 13 /\ Sq(24, 3) = 21 /\ Sq(24, 4) = 29
     /\ Sq(24, 5) = 37 /\ Sq(24, 6) = 45 /\ Sq(24, 7) = 53 /\ Sq(24, 8) = 61
<1>1. FEATURES[21] = Block6[1] /\ FEATURES[22] = Block6[2] /\ FEATURES[23] = Block6[3] /\ FEATURES[24] = Block6[4]
  <2>1. \A k \in 1..4 : FEATURES[20 + k] = Block6[k]
    BY FeatureBlocks
  <2>2. FEATURES[20 + 1] = Block6[1] /\ FEATURES[20 + 2] = Block6[2] /\ FEATURES[20 + 3] = Block6[3]
        /\ FEATURES[20 + 4] = Block6[4]
    BY <2>1
  <2> QED
    BY <2>2
<1> QED
  BY <1>1 DEF Sq, Block6, InRegion, Lines, Line

LEMMA SquaresOf7 ==
  /\ FEATURES[25].region = 7 /\ Sq(25, 1) = 24 /\ Sq(25, 2) = 25 /\ Sq(25, 3) = 26 /\ Sq(25, 4) = 27
     /\ Sq(25, 5) = 28 /\ Sq(25, 6) = 29 /\ Sq(25, 7) = 30 /\ Sq(25, 8) = 31
  /\ FEATURES[26].region = 7 /\ Sq(26, 1) = 32 /\ Sq(26, 2) = 33 /\ Sq(26, 3) = 34 /\ Sq(26, 4) = 35
     /\ Sq(26, 5) = 36 /\ Sq(26, 6) = 37 /\ Sq(26, 7) = 38 /\ Sq(26, 8) = 39
  /\ FEATURES[27].region = 7 /\ Sq(27, 1) = 3 /\ Sq(27, 2) = 11 /\ Sq(27, 3) = 19 /\ Sq(27, 4) = 27
     /\ Sq(27, 5) = 35 /\ Sq(27, 6) = 43 /\ Sq(27, 7) = 51 /\ Sq(27, 8) = 59
  /\ FEATURES[28].region = 7 /\ Sq(28, 1) = 4 /\ Sq(28, 2) = 12 /\ Sq(28, 3) = 20 /\ Sq(28, 4) = 28
     /\ Sq(28, 5) = 36 /\ Sq(28, 6) = 44 /\ Sq(28, 7) = 52 /\ Sq(28, 8) = 60
<1>1. FEATURES[25] = Block7[1] /\ FEATURES[26] = Block7[2] /\ FEATURES[27] = Block7[3] /\ FEATURES[28] = Block7[4]
  <2>1. \A k \in 1..4 : FEATURES[24 + k] = Block7[k]
    BY FeatureBlocks
  <2>2. FEATURES[24 + 1] = Block7[1] /\ FEATURES[24 + 2] = Block7[2] /\ FEATURES[24 + 3] = Block7[3]
        /\ FEATURES[24 + 4] = Block7[4]
    BY <2>1
  <2> QED
    BY <2>2
<1> QED
  BY <1>1 DEF Sq, Block7, InRegion, Lines, Line

LEMMA SquaresOf8 ==
  /\ FEATURES[29].region = 8 /\ Sq(29, 1) = 0 /\ Sq(29, 2) = 9 /\ Sq(29, 3) = 18 /\ Sq(29, 4) = 27
     /\ Sq(29, 5) = 36 /\ Sq(29, 6) = 45 /\ Sq(29, 7) = 54 /\ Sq(29, 8) = 63
  /\ FEATURES[30].region = 8 /\ Sq(30, 1) = 56 /\ Sq(30, 2) = 49 /\ Sq(30, 3) = 42 /\ Sq(30, 4) = 35
     /\ Sq(30, 5) = 28 /\ Sq(30, 6) = 21 /\ Sq(30, 7) = 14 /\ Sq(30, 8) = 7
<1>1. FEATURES[29] = Block8[1] /\ FEATURES[30] = Block8[2]
  <2>1. \A k \in 1..2 : FEATURES[28 + k] = Block8[k]
    BY FeatureBlocks
  <2>2. FEATURES[28 + 1] = Block8[1] /\ FEATURES[28 + 2] = Block8[2]
    BY <2>1
  <2> QED
    BY <2>2
<1> QED
  BY <1>1 DEF Sq, Block8, InRegion, Lines, Line

LEMMA SquaresOf9 ==
  /\ FEATURES[31].region = 9 /\ Sq(31, 1) = 1 /\ Sq(31, 2) = 10 /\ Sq(31, 3) = 19 /\ Sq(31, 4) = 28
     /\ Sq(31, 5) = 37 /\ Sq(31, 6) = 46 /\ Sq(31, 7) = 55
  /\ FEATURES[32].region = 9 /\ Sq(32, 1) = 15 /\ Sq(32, 2) = 22 /\ Sq(32, 3) = 29 /\ Sq(32, 4) = 36
     /\ Sq(32, 5) = 43 /\ Sq(32, 6) = 50 /\ Sq(32, 7) = 57
  /\ FEATURES[33].region = 9 /\ Sq(33, 1) = 8 /\ Sq(33, 2) = 17 /\ Sq(33, 3) = 26 /\ Sq(33, 4) = 35
     /\ Sq(33, 5) = 44 /\ Sq(33, 6) = 53 /\ Sq(33, 7) = 62
  /\ FEATURES[34].region = 9 /\ Sq(34, 1) = 6 /\ Sq(34, 2) = 13 /\ Sq(34, 3) = 20 /\ Sq(34, 4) = 27
     /\ Sq(34, 5) = 34 /\ Sq(34, 6) = 41 /\ Sq(34, 7) = 48
<1>1. FEATURES[31] = Block9[1] /\ FEATURES[32] = Block9[2] /\ FEATURES[33] = Block9[3] /\ FEATURES[34] = Block9[4]
  <2>1. \A k \in 1..4 : FEATURES[30 + k] = Block9[k]
    BY FeatureBlocks
  <2>2. FEATURES[30 + 1] = Block9[1] /\ FEATURES[30 + 2] = Block9[2] /\ FEATURES[30 + 3] = Block9[3]
        /\ FEATURES[30 + 4] = Block9[4]
    BY <2>1
  <2> QED
    BY <2>2
<1> QED
  BY <1>1 DEF Sq, Block9, InRegion, Lines, Line

LEMMA SquaresOf10 ==
  /\ FEATURES[35].region = 10 /\ Sq(35, 1) = 2 /\ Sq(35, 2) = 11 /\ Sq(35, 3) = 20 /\ Sq(35, 4) = 29
     /\ Sq(35, 5) = 38 /\ Sq(35, 6) = 47
  /\ FEATURES[36].region = 10 /\ Sq(36, 1) = 16 /\ Sq(36, 2) = 25 /\ Sq(36, 3) = 34 /\ Sq(36, 4) = 43
     /\ Sq(36, 5) = 52 /\ Sq(36, 6) = 61
  /\ FEATURES[37].region = 10 /\ Sq(37, 1) = 5 /\ Sq(37, 2) = 12 /\ Sq(37, 3) = 19 /\ Sq(37, 4) = 26
     /\ Sq(37, 5) = 33 /\ Sq(37, 6) = 40
  /\ FEATURES[38].region = 10 /\ Sq(38, 1) = 23 /\ Sq(38, 2) = 30 /\ Sq(38, 3) = 37 /\ Sq(38, 4) = 44
     /\ Sq(38, 5) = 51 /\ Sq(38, 6) = 58
<1>1. FEATURES[35] = Block10[1] /\ FEATURES[36] = Block10[2] /\ FEATURES[37] = Block10[3] /\ FEATURES[38] = Block10[4]
  <2>1. \A k \in 1..4 : FEATURES[34 + k] = Block10[k]
    BY FeatureBlocks
  <2>2. FEATURES[34 + 1] = Block10[1] /\ FEATURES[34 + 2] = Block10[2] /\ FEATURES[34 + 3] = Block10[3]
        /\ FEATURES[34 + 4] = Block10[4]
    BY <2>1
  <2> QED
    BY <2>2
<1> QED
  BY <1>1 DEF Sq, Block10, InRegion, Lines, Line

LEMMA SquaresOf11 ==
  /\ FEATURES[39].region = 11 /\ Sq(39, 1) = 3 /\ Sq(39, 2) = 12 /\ Sq(39, 3) = 21 /\ Sq(39, 4) = 30 /\ Sq(39, 5) = 39
  /\ FEATURES[40].region = 11 /\ Sq(40, 1) = 24 /\ Sq(40, 2) = 33 /\ Sq(40, 3) = 42 /\ Sq(40, 4) = 51
     /\ Sq(40, 5) = 60
  /\ FEATURES[41].region = 11 /\ Sq(41, 1) = 4 /\ Sq(41, 2) = 11 /\ Sq(41, 3) = 18 /\ Sq(41, 4) = 25 /\ Sq(41, 5) = 32
  /\ FEATURES[42].region = 11 /\ Sq(42, 1) = 31 /\ Sq(42, 2) = 38 /\ Sq(42, 3) = 45 /\ Sq(42, 4) = 52
     /\ Sq(42, 5) = 59
<1>1. FEATURES[39] = Block11[1] /\ FEATURES[40] = Block11[2] /\ FEATURES[41] = Block11[3] /\ FEATURES[42] = Block11[4]
  <2>1. \A k \in 1..4 : FEATURES[38 + k] = Block11[k]
    BY FeatureBlocks
  <2>2. FEATURES[38 + 1] = Block11[1] /\ FEATURES[38 + 2] = Block11[2] /\ FEATURES[38 + 3] = Block11[3]
        /\ FEATURES[38 + 4] = Block11[4]
    BY <2>1
  <2> QED
    BY <2>2
<1> QED
  BY <1>1 DEF Sq, Block11, InRegion, Lines, Line

LEMMA SquaresOf12 ==
  /\ FEATURES[43].region = 12 /\ Sq(43, 1) = 3 /\ Sq(43, 2) = 10 /\ Sq(43, 3) = 17 /\ Sq(43, 4) = 24
  /\ FEATURES[44].region = 12 /\ Sq(44, 1) = 32 /\ Sq(44, 2) = 41 /\ Sq(44, 3) = 50 /\ Sq(44, 4) = 59
  /\ FEATURES[45].region = 12 /\ Sq(45, 1) = 4 /\ Sq(45, 2) = 13 /\ Sq(45, 3) = 22 /\ Sq(45, 4) = 31
  /\ FEATURES[46].region = 12 /\ Sq(46, 1) = 39 /\ Sq(46, 2) = 46 /\ Sq(46, 3) = 53 /\ Sq(46, 4) = 60
<1>1. FEATURES[43] = Block12[1] /\ FEATURES[44] = Block12[2] /\ FEATURES[45] = Block12[3] /\ FEATURES[46] = Block12[4]
  <2>1. \A k \in 1..4 : FEATURES[42 + k] = Block12[k]
    BY FeatureBlocks
  <2>2. FEATURES[42 + 1] = Block12[1] /\ FEATURES[42 + 2] = Block12[2] /\ FEATURES[42 + 3] = Block12[3]
        /\ FEATURES[42 + 4] = Block12[4]
    BY <2>1
  <2> QED
    BY <2>2
<1> QED
  BY <1>1 DEF Sq, Block12, InRegion, Lines, Line

-----------------------------------------------------------------------------
(* The numbers of a region's patterns, and their mirror images             *)

Colours(r) == [1..Regions[r].digits -> 0..2]

LEMMA NumberIn ==
  ASSUME NEW r \in 1..12, NEW d \in Colours(r)
  PROVE  Horner(d) \in States(r) /\ Horner(d) \in Nat
<1> DEFINE n == Regions[r].digits
           p == 3^n
           l == Horner(d)
<1>1. n = 4 \/ n = 5 \/ n = 6 \/ n = 7 \/ n = 8 \/ n = 9 \/ n = 10
  BY RegionTypes
<1>2. d \in [1..n -> 0..2]
  BY DEF Colours
<1> HIDE DEF n
<1>3. l \in Nat /\ l \div p = 0
  <2>1. n \in 1..10
    BY <1>1
  <2> QED
    BY <1>2, <2>1, DigitsOf
<1>4. p = 3^4 \/ p = 3^5 \/ p = 3^6 \/ p = 3^7 \/ p = 3^8 \/ p = 3^9 \/ p = 3^10
  BY <1>1, Zenon
<1> HIDE DEF l, p
<1>5. l \in 0..p - 1
  BY <1>3, <1>4
<1> QED
  BY <1>3, <1>5 DEF l, p, n, States

Swapped(v) == <<1, 0, 2>>[v + 1]

LEMMA OpponentIs ==
  ASSUME NEW n \in 1..10, NEW d \in [1..n -> 0..2]
  PROVE  opponent_feature(n, Horner(d)) = Horner([j \in 1..n |-> Swapped(d[j])])
<1>1. ASSUME NEW j \in 1..n
      PROVE  Digit(Horner(d), n - j) = d[j]
  <2>1. n - j \in 0..n - 1 /\ n - (n - j) = j
    OBVIOUS
  <2> QED
    BY <2>1, DigitsOf
<1>2. [j \in 1..n |-> <<1, 0, 2>>[Digit(Horner(d), n - j) + 1]] = [j \in 1..n |-> Swapped(d[j])]
  BY <1>1 DEF Swapped
<1> QED
  BY <1>2 DEF opponent_feature

LEMMA HornerOf4 ==
  ASSUME NEW d \in [1..4 -> Int]
  PROVE  Horner(d) = 27 * d[1] + 9 * d[2] + 3 * d[3] + d[4]
<1>1. d \in Seq(Int) /\ Len(d) = 4
  <2>1. 4 \in Nat
    OBVIOUS
  <2> QED
    BY <2>1, Digits
<1>2. PICK x : IsSum(x, d)
  BY <1>1, SumExists
<1>3. x[0] = 0 /\ x \in [0..4 -> Int] /\ \A m \in 1..4 : x[m] = 3 * x[m - 1] + d[m]
  BY <1>1, <1>2 DEF IsSum
<1>4. x[1] = 3 * x[0] + d[1] /\ x[2] = 3 * x[1] + d[2] /\ x[3] = 3 * x[2] + d[3] /\ x[4] = 3 * x[3] + d[4]
  BY <1>3
<1>5. x[1] \in Int /\ d[1] \in Int /\ x[2] \in Int /\ d[2] \in Int /\ x[3] \in Int /\ d[3] \in Int
      /\ x[4] \in Int /\ d[4] \in Int
  BY <1>3
<1>6. Horner(d) = x[4]
  BY <1>1, <1>2, HornerOf
<1>7. x[0] = 0
  BY <1>3
<1> QED
  BY <1>4, <1>5, <1>6, <1>7

LEMMA TotalOf4 ==
  ASSUME NEW t \in [1..4 -> Int], NEW x, IsTotal(x, 4, 0, t)
  PROVE  x[4] = t[1] + t[2] + t[3] + t[4]
<1>1. x[0] = 0 /\ \A m \in 1..4 : x[m] = x[m - 1] + t[m]
  BY DEF IsTotal
<1>2. t[1] \in Int /\ t[2] \in Int /\ t[3] \in Int /\ t[4] \in Int
  OBVIOUS
<1>3. x[1] = x[0] + t[1] /\ x[2] = x[1] + t[2] /\ x[3] = x[2] + t[3] /\ x[4] = x[3] + t[4]
  BY <1>1
<1> QED
  BY <1>1, <1>2, <1>3

LEMMA HornerOf5 ==
  ASSUME NEW d \in [1..5 -> Int]
  PROVE  Horner(d) = 81 * d[1] + 27 * d[2] + 9 * d[3] + 3 * d[4] + d[5]
<1>1. d \in Seq(Int) /\ Len(d) = 5
  <2>1. 5 \in Nat
    OBVIOUS
  <2> QED
    BY <2>1, Digits
<1>2. PICK x : IsSum(x, d)
  BY <1>1, SumExists
<1>3. x[0] = 0 /\ x \in [0..5 -> Int] /\ \A m \in 1..5 : x[m] = 3 * x[m - 1] + d[m]
  BY <1>1, <1>2 DEF IsSum
<1>4. x[1] = 3 * x[0] + d[1] /\ x[2] = 3 * x[1] + d[2] /\ x[3] = 3 * x[2] + d[3] /\ x[4] = 3 * x[3] + d[4]
      /\ x[5] = 3 * x[4] + d[5]
  BY <1>3
<1>5. x[1] \in Int /\ d[1] \in Int /\ x[2] \in Int /\ d[2] \in Int /\ x[3] \in Int /\ d[3] \in Int
      /\ x[4] \in Int /\ d[4] \in Int /\ x[5] \in Int /\ d[5] \in Int
  BY <1>3
<1>6. Horner(d) = x[5]
  BY <1>1, <1>2, HornerOf
<1>7. x[0] = 0
  BY <1>3
<1> QED
  BY <1>4, <1>5, <1>6, <1>7

LEMMA TotalOf5 ==
  ASSUME NEW t \in [1..5 -> Int], NEW x, IsTotal(x, 5, 0, t)
  PROVE  x[5] = t[1] + t[2] + t[3] + t[4] + t[5]
<1>1. x[0] = 0 /\ \A m \in 1..5 : x[m] = x[m - 1] + t[m]
  BY DEF IsTotal
<1>2. t[1] \in Int /\ t[2] \in Int /\ t[3] \in Int /\ t[4] \in Int /\ t[5] \in Int
  OBVIOUS
<1>3. x[1] = x[0] + t[1] /\ x[2] = x[1] + t[2] /\ x[3] = x[2] + t[3] /\ x[4] = x[3] + t[4] /\ x[5] = x[4] + t[5]
  BY <1>1
<1> QED
  BY <1>1, <1>2, <1>3

LEMMA HornerOf6 ==
  ASSUME NEW d \in [1..6 -> Int]
  PROVE  Horner(d) = 243 * d[1] + 81 * d[2] + 27 * d[3] + 9 * d[4] + 3 * d[5] + d[6]
<1>1. d \in Seq(Int) /\ Len(d) = 6
  <2>1. 6 \in Nat
    OBVIOUS
  <2> QED
    BY <2>1, Digits
<1>2. PICK x : IsSum(x, d)
  BY <1>1, SumExists
<1>3. x[0] = 0 /\ x \in [0..6 -> Int] /\ \A m \in 1..6 : x[m] = 3 * x[m - 1] + d[m]
  BY <1>1, <1>2 DEF IsSum
<1>4. x[1] = 3 * x[0] + d[1] /\ x[2] = 3 * x[1] + d[2] /\ x[3] = 3 * x[2] + d[3] /\ x[4] = 3 * x[3] + d[4]
      /\ x[5] = 3 * x[4] + d[5] /\ x[6] = 3 * x[5] + d[6]
  BY <1>3
<1>5. x[1] \in Int /\ d[1] \in Int /\ x[2] \in Int /\ d[2] \in Int /\ x[3] \in Int /\ d[3] \in Int
      /\ x[4] \in Int /\ d[4] \in Int /\ x[5] \in Int /\ d[5] \in Int /\ x[6] \in Int /\ d[6] \in Int
  BY <1>3
<1>6. Horner(d) = x[6]
  BY <1>1, <1>2, HornerOf
<1>7. x[0] = 0
  BY <1>3
<1> QED
  BY <1>4, <1>5, <1>6, <1>7

LEMMA TotalOf6 ==
  ASSUME NEW t \in [1..6 -> Int], NEW x, IsTotal(x, 6, 0, t)
  PROVE  x[6] = t[1] + t[2] + t[3] + t[4] + t[5] + t[6]
<1>1. x[0] = 0 /\ \A m \in 1..6 : x[m] = x[m - 1] + t[m]
  BY DEF IsTotal
<1>2. t[1] \in Int /\ t[2] \in Int /\ t[3] \in Int /\ t[4] \in Int /\ t[5] \in Int /\ t[6] \in Int
  OBVIOUS
<1>3. x[1] = x[0] + t[1] /\ x[2] = x[1] + t[2] /\ x[3] = x[2] + t[3] /\ x[4] = x[3] + t[4]
      /\ x[5] = x[4] + t[5] /\ x[6] = x[5] + t[6]
  BY <1>1
<1> QED
  BY <1>1, <1>2, <1>3

LEMMA HornerOf7 ==
  ASSUME NEW d \in [1..7 -> Int]
  PROVE  Horner(d) = 729 * d[1] + 243 * d[2] + 81 * d[3] + 27 * d[4] + 9 * d[5] + 3 * d[6] + d[7]
<1>1. d \in Seq(Int) /\ Len(d) = 7
  <2>1. 7 \in Nat
    OBVIOUS
  <2> QED
    BY <2>1, Digits
<1>2. PICK x : IsSum(x, d)
  BY <1>1, SumExists
<1>3. x[0] = 0 /\ x \in [0..7 -> Int] /\ \A m \in 1..7 : x[m] = 3 * x[m - 1] + d[m]
  BY <1>1, <1>2 DEF IsSum
<1>4. x[1] = 3 * x[0] + d[1] /\ x[2] = 3 * x[1] + d[2] /\ x[3] = 3 * x[2] + d[3] /\ x[4] = 3 * x[3] + d[4]
      /\ x[5] = 3 * x[4] + d[5] /\ x[6] = 3 * x[5] + d[6] /\ x[7] = 3 * x[6] + d[7]
  BY <1>3
<1>5. x[1] \in Int /\ d[1] \in Int /\ x[2] \in Int /\ d[2] \in Int /\ x[3] \in Int /\ d[3] \in Int
      /\ x[4] \in Int /\ d[4] \in Int /\ x[5] \in Int /\ d[5] \in Int /\ x[6] \in Int /\ d[6] \in Int
      /\ x[7] \in Int /\ d[7] \in Int
  BY <1>3
<1>6. Horner(d) = x[7]
  BY <1>1, <1>2, HornerOf
<1>7. x[0] = 0
  BY <1>3
<1> QED
  BY <1>4, <1>5, <1>6, <1>7

LEMMA TotalOf7 ==
  ASSUME NEW t \in [1..7 -> Int], NEW x, IsTotal(x, 7, 0, t)
  PROVE  x[7] = t[1] + t[2] + t[3] + t[4] + t[5] + t[6] + t[7]
<1>1. x[0] = 0 /\ \A m \in 1..7 : x[m] = x[m - 1] + t[m]
  BY DEF IsTotal
<1>2. t[1] \in Int /\ t[2] \in Int /\ t[3] \in Int /\ t[4] \in Int /\ t[5] \in Int /\ t[6] \in Int /\ t[7] \in Int
  OBVIOUS
<1>3. x[1] = x[0] + t[1] /\ x[2] = x[1] + t[2] /\ x[3] = x[2] + t[3] /\ x[4] = x[3] + t[4]
      /\ x[5] = x[4] + t[5] /\ x[6] = x[5] + t[6] /\ x[7] = x[6] + t[7]
  BY <1>1
<1> QED
  BY <1>1, <1>2, <1>3

LEMMA HornerOf8 ==
  ASSUME NEW d \in [1..8 -> Int]
  PROVE  Horner(d) = 2187 * d[1] + 729 * d[2] + 243 * d[3] + 81 * d[4] + 27 * d[5] + 9 * d[6] + 3 * d[7] + d[8]
<1>1. d \in Seq(Int) /\ Len(d) = 8
  <2>1. 8 \in Nat
    OBVIOUS
  <2> QED
    BY <2>1, Digits
<1>2. PICK x : IsSum(x, d)
  BY <1>1, SumExists
<1>3. x[0] = 0 /\ x \in [0..8 -> Int] /\ \A m \in 1..8 : x[m] = 3 * x[m - 1] + d[m]
  BY <1>1, <1>2 DEF IsSum
<1>4. x[1] = 3 * x[0] + d[1] /\ x[2] = 3 * x[1] + d[2] /\ x[3] = 3 * x[2] + d[3] /\ x[4] = 3 * x[3] + d[4]
      /\ x[5] = 3 * x[4] + d[5] /\ x[6] = 3 * x[5] + d[6] /\ x[7] = 3 * x[6] + d[7] /\ x[8] = 3 * x[7] + d[8]
  BY <1>3
<1>5. x[1] \in Int /\ d[1] \in Int /\ x[2] \in Int /\ d[2] \in Int /\ x[3] \in Int /\ d[3] \in Int
      /\ x[4] \in Int /\ d[4] \in Int /\ x[5] \in Int /\ d[5] \in Int /\ x[6] \in Int /\ d[6] \in Int
      /\ x[7] \in Int /\ d[7] \in Int /\ x[8] \in Int /\ d[8] \in Int
  BY <1>3
<1>6. Horner(d) = x[8]
  BY <1>1, <1>2, HornerOf
<1>7. x[0] = 0
  BY <1>3
<1> QED
  BY <1>4, <1>5, <1>6, <1>7

LEMMA TotalOf8 ==
  ASSUME NEW t \in [1..8 -> Int], NEW x, IsTotal(x, 8, 0, t)
  PROVE  x[8] = t[1] + t[2] + t[3] + t[4] + t[5] + t[6] + t[7] + t[8]
<1>1. x[0] = 0 /\ \A m \in 1..8 : x[m] = x[m - 1] + t[m]
  BY DEF IsTotal
<1>2. t[1] \in Int /\ t[2] \in Int /\ t[3] \in Int /\ t[4] \in Int /\ t[5] \in Int /\ t[6] \in Int
      /\ t[7] \in Int /\ t[8] \in Int
  OBVIOUS
<1>3. x[1] = x[0] + t[1] /\ x[2] = x[1] + t[2] /\ x[3] = x[2] + t[3] /\ x[4] = x[3] + t[4]
      /\ x[5] = x[4] + t[5] /\ x[6] = x[5] + t[6] /\ x[7] = x[6] + t[7] /\ x[8] = x[7] + t[8]
  BY <1>1
<1> QED
  BY <1>1, <1>2, <1>3

LEMMA HornerOf9 ==
  ASSUME NEW d \in [1..9 -> Int]
  PROVE  Horner(d) = 6561 * d[1] + 2187 * d[2] + 729 * d[3] + 243 * d[4] + 81 * d[5] + 27 * d[6] + 9 * d[7]
     + 3 * d[8] + d[9]
<1>1. d \in Seq(Int) /\ Len(d) = 9
  <2>1. 9 \in Nat
    OBVIOUS
  <2> QED
    BY <2>1, Digits
<1>2. PICK x : IsSum(x, d)
  BY <1>1, SumExists
<1>3. x[0] = 0 /\ x \in [0..9 -> Int] /\ \A m \in 1..9 : x[m] = 3 * x[m - 1] + d[m]
  BY <1>1, <1>2 DEF IsSum
<1>4. x[1] = 3 * x[0] + d[1] /\ x[2] = 3 * x[1] + d[2] /\ x[3] = 3 * x[2] + d[3] /\ x[4] = 3 * x[3] + d[4]
      /\ x[5] = 3 * x[4] + d[5] /\ x[6] = 3 * x[5] + d[6] /\ x[7] = 3 * x[6] + d[7] /\ x[8] = 3 * x[7] + d[8]
      /\ x[9] = 3 * x[8] + d[9]
  BY <1>3
<1>5. x[1] \in Int /\ d[1] \in Int /\ x[2] \in Int /\ d[2] \in Int /\ x[3] \in Int /\ d[3] \in Int
      /\ x[4] \in Int /\ d[4] \in Int /\ x[5] \in Int /\ d[5] \in Int /\ x[6] \in Int /\ d[6] \in Int
      /\ x[7] \in Int /\ d[7] \in Int /\ x[8] \in Int /\ d[8] \in Int /\ x[9] \in Int /\ d[9] \in Int
  BY <1>3
<1>6. Horner(d) = x[9]
  BY <1>1, <1>2, HornerOf
<1>7. x[0] = 0
  BY <1>3
<1> QED
  BY <1>4, <1>5, <1>6, <1>7

LEMMA TotalOf9 ==
  ASSUME NEW t \in [1..9 -> Int], NEW x, IsTotal(x, 9, 0, t)
  PROVE  x[9] = t[1] + t[2] + t[3] + t[4] + t[5] + t[6] + t[7] + t[8] + t[9]
<1>1. x[0] = 0 /\ \A m \in 1..9 : x[m] = x[m - 1] + t[m]
  BY DEF IsTotal
<1>2. t[1] \in Int /\ t[2] \in Int /\ t[3] \in Int /\ t[4] \in Int /\ t[5] \in Int /\ t[6] \in Int
      /\ t[7] \in Int /\ t[8] \in Int /\ t[9] \in Int
  OBVIOUS
<1>3. x[1] = x[0] + t[1] /\ x[2] = x[1] + t[2] /\ x[3] = x[2] + t[3] /\ x[4] = x[3] + t[4]
      /\ x[5] = x[4] + t[5] /\ x[6] = x[5] + t[6] /\ x[7] = x[6] + t[7] /\ x[8] = x[7] + t[8] /\ x[9] = x[8] + t[9]
  BY <1>1
<1> QED
  BY <1>1, <1>2, <1>3

LEMMA HornerOf10 ==
  ASSUME NEW d \in [1..10 -> Int]
  PROVE  Horner(d) = 19683 * d[1] + 6561 * d[2] + 2187 * d[3] + 729 * d[4] + 243 * d[5] + 81 * d[6] + 27 * d[7]
     + 9 * d[8] + 3 * d[9] + d[10]
<1>1. d \in Seq(Int) /\ Len(d) = 10
  <2>1. 10 \in Nat
    OBVIOUS
  <2> QED
    BY <2>1, Digits
<1>2. PICK x : IsSum(x, d)
  BY <1>1, SumExists
<1>3. x[0] = 0 /\ x \in [0..10 -> Int] /\ \A m \in 1..10 : x[m] = 3 * x[m - 1] + d[m]
  BY <1>1, <1>2 DEF IsSum
<1>4. x[1] = 3 * x[0] + d[1] /\ x[2] = 3 * x[1] + d[2] /\ x[3] = 3 * x[2] + d[3] /\ x[4] = 3 * x[3] + d[4]
      /\ x[5] = 3 * x[4] + d[5] /\ x[6] = 3 * x[5] + d[6] /\ x[7] = 3 * x[6] + d[7] /\ x[8] = 3 * x[7] + d[8]
      /\ x[9] = 3 * x[8] + d[9] /\ x[10] = 3 * x[9] + d[10]
  BY <1>3
<1>5. x[1] \in Int /\ d[1] \in Int /\ x[2] \in Int /\ d[2] \in Int /\ x[3] \in Int /\ d[3] \in Int
      /\ x[4] \in Int /\ d[4] \in Int /\ x[5] \in Int /\ d[5] \in Int /\ x[6] \in Int /\ d[6] \in Int
      /\ x[7] \in Int /\ d[7] \in Int /\ x[8] \in Int /\ d[8] \in Int /\ x[9] \in Int /\ d[9] \in Int
      /\ x[10] \in Int /\ d[10] \in Int
  BY <1>3
<1>6. Horner(d) = x[10]
  BY <1>1, <1>2, HornerOf
<1>7. x[0] = 0
  BY <1>3
<1> QED
  BY <1>4, <1>5, <1>6, <1>7

LEMMA TotalOf10 ==
  ASSUME NEW t \in [1..10 -> Int], NEW x, IsTotal(x, 10, 0, t)
  PROVE  x[10] = t[1] + t[2] + t[3] + t[4] + t[5] + t[6] + t[7] + t[8] + t[9] + t[10]
<1>1. x[0] = 0 /\ \A m \in 1..10 : x[m] = x[m - 1] + t[m]
  BY DEF IsTotal
<1>2. t[1] \in Int /\ t[2] \in Int /\ t[3] \in Int /\ t[4] \in Int /\ t[5] \in Int /\ t[6] \in Int
      /\ t[7] \in Int /\ t[8] \in Int /\ t[9] \in Int /\ t[10] \in Int
  OBVIOUS
<1>3. x[1] = x[0] + t[1] /\ x[2] = x[1] + t[2] /\ x[3] = x[2] + t[3] /\ x[4] = x[3] + t[4]
      /\ x[5] = x[4] + t[5] /\ x[6] = x[5] + t[6] /\ x[7] = x[6] + t[7] /\ x[8] = x[7] + t[8]
      /\ x[9] = x[8] + t[9] /\ x[10] = x[9] + t[10]
  BY <1>1
<1> QED
  BY <1>1, <1>2, <1>3

(* The terms that Mirror adds up *)
Terms(r, l) == [m \in 1..Regions[r].digits |-> Digit(l, m - 1) * 3^MirrorPlace(r, m - 1)]

LEMMA MirrorTotal ==
  ASSUME NEW r \in 1..12, NEW l, Terms(r, l) \in [1..Regions[r].digits -> Int]
  PROVE  \E x : IsTotal(x, Regions[r].digits, 0, Terms(r, l)) /\ Mirror(r, l) = x[Regions[r].digits]
<1> DEFINE n == Regions[r].digits
           t == Terms(r, l)
<1>0. n \in Nat /\ t \in [1..n -> Int]
  <2>1. n \in 4..10
    BY RegionTypes
  <2> QED
    BY <2>1
<1> DEFINE w(j) == 3^MirrorPlace(r, j)
           F(x) == x = [m \in 0..n |-> IF m = 0 THEN 0 ELSE x[m - 1] + Digit(l, m - 1) * w(m - 1)]
           y == CHOOSE x : F(x)
<1>1. Mirror(r, l) = y[n]
  BY DEF Mirror
<1>2. \A m \in 0..n : m # 0 => t[m] = Digit(l, m - 1) * w(m - 1)
  BY <1>0 DEF Terms
<1> HIDE DEF w, t, n
<1>3. \A x : F(x) <=> x = [m \in 0..n |-> IF m = 0 THEN 0 ELSE x[m - 1] + t[m]]
  BY <1>2
<1> HIDE DEF F
<1>4. \E x : F(x)
  <2>1. 0 \in Int
    OBVIOUS
  <2> QED
    <3>1. PICK x : IsTotal(x, n, 0, t) /\ x = [m \in 0..n |-> IF m = 0 THEN 0 ELSE x[m - 1] + t[m]]
      BY <1>0, <2>1, TotalExists
    <3> QED
      BY <1>3, <3>1
<1>5. F(y)
  BY <1>4
<1> HIDE DEF y
<1>6. IsTotal(y, n, 0, t)
  <2>1. 0 \in Int
    OBVIOUS
  <2> QED
    BY <1>0, <1>3, <1>5, <2>1, TotalIs
<1> QED
  BY <1>1, <1>6 DEF n, t

(* The digits of a pattern's mirror image *)
Reflected(r, d) ==
  LET n == Regions[r].digits IN [j \in 1..n |-> d[n - MirrorPlace(r, n - j)]]

LEMMA MirrorOf1 ==
  ASSUME NEW r, r = 1, NEW d \in Colours(r)
  PROVE  Mirror(r, Horner(d)) = Horner(Reflected(r, d)) /\ Reflected(r, d) \in Colours(r)
         /\ Reflected(r, Reflected(r, d)) = d
<1> DEFINE e == Reflected(r, d)
           w(j) == 3^MirrorPlace(r, j)
           l == Horner(d)
           t == Terms(r, l)
<1>1. Regions[r].digits = 9 /\ d \in [1..9 -> 0..2] /\ d \in [1..9 -> Int] /\ r \in 1..12
  <2>1. Regions[r].digits = 9 /\ r \in 1..12
    BY RegionDigits
  <2> QED
    BY <2>1 DEF Colours
<1>2. MirrorPlace(r, 0) = 0 /\ MirrorPlace(r, 1) = 2 /\ MirrorPlace(r, 2) = 1 /\ MirrorPlace(r, 3) = 4
      /\ MirrorPlace(r, 4) = 3 /\ MirrorPlace(r, 5) = 5 /\ MirrorPlace(r, 6) = 7 /\ MirrorPlace(r, 7) = 6
      /\ MirrorPlace(r, 8) = 8
  BY <1>1 DEF MirrorPlace
<1>3. e = [j \in 1..9 |-> d[9 - MirrorPlace(r, 9 - j)]]
  BY <1>1 DEF Reflected
<1>4. e[1] = d[1] /\ e[2] = d[3] /\ e[3] = d[2] /\ e[4] = d[4] /\ e[5] = d[6] /\ e[6] = d[5] /\ e[7] = d[8]
      /\ e[8] = d[7] /\ e[9] = d[9]
  BY <1>2, <1>3
<1>5. e \in [1..9 -> 0..2] /\ e \in [1..9 -> Int]
  <2>1. \A j \in 1..9 : j = 1 \/ j = 2 \/ j = 3 \/ j = 4 \/ j = 5 \/ j = 6 \/ j = 7 \/ j = 8 \/ j = 9
    OBVIOUS
  <2>2. \A j \in 1..9 : e[j] \in 0..2
    BY <1>1, <1>4, <2>1
  <2> QED
    BY <1>3, <2>2
<1>6. w(0) = 3^0 /\ w(1) = 3^2 /\ w(2) = 3^1 /\ w(3) = 3^4 /\ w(4) = 3^3 /\ w(5) = 3^5 /\ w(6) = 3^7
      /\ w(7) = 3^6 /\ w(8) = 3^8
  BY <1>2, Zenon
<1> HIDE DEF w
<1>7. Digit(l, 0) = d[9] /\ Digit(l, 1) = d[8] /\ Digit(l, 2) = d[7] /\ Digit(l, 3) = d[6]
      /\ Digit(l, 4) = d[5] /\ Digit(l, 5) = d[4] /\ Digit(l, 6) = d[3] /\ Digit(l, 7) = d[2] /\ Digit(l, 8) = d[1]
  <2>1. \A j \in 0..9 - 1 : Digit(l, j) = d[9 - j]
    BY <1>1, DigitsOf
  <2> QED
    BY <2>1
<1> HIDE DEF l, e
<1>8. t[1] = 3^0 * d[9] /\ t[2] = 3^2 * d[8] /\ t[3] = 3^1 * d[7] /\ t[4] = 3^4 * d[6] /\ t[5] = 3^3 * d[5]
      /\ t[6] = 3^5 * d[4] /\ t[7] = 3^7 * d[3] /\ t[8] = 3^6 * d[2] /\ t[9] = 3^8 * d[1]
  <2>1. t = [m \in 1..9 |-> Digit(l, m - 1) * w(m - 1)]
    BY <1>1 DEF w, Terms
  <2> QED
    BY <1>1, <1>6, <1>7, <2>1
<1>9. t \in [1..9 -> Int]
  <2>1. \A m \in 1..9 : m = 1 \/ m = 2 \/ m = 3 \/ m = 4 \/ m = 5 \/ m = 6 \/ m = 7 \/ m = 8 \/ m = 9
    OBVIOUS
  <2>2. d[1] \in Int /\ d[2] \in Int /\ d[3] \in Int /\ d[4] \in Int /\ d[5] \in Int /\ d[6] \in Int
        /\ d[7] \in Int /\ d[8] \in Int /\ d[9] \in Int
    BY <1>1
  <2>3. t[1] \in Int /\ t[2] \in Int /\ t[3] \in Int /\ t[4] \in Int /\ t[5] \in Int /\ t[6] \in Int
        /\ t[7] \in Int /\ t[8] \in Int /\ t[9] \in Int
    BY <1>8, <2>2
  <2>5. t = [m \in 1..9 |-> t[m]]
    BY <1>1 DEF Terms
  <2>4. \A m \in 1..9 : t[m] \in Int
    BY <2>1, <2>3
  <2> QED
    BY <2>4, <2>5
<1> HIDE DEF t
<1>10. PICK x : IsTotal(x, 9, 0, t) /\ Mirror(r, l) = x[9]
  <2>1. t \in [1..Regions[r].digits -> Int]
    BY <1>1, <1>9, Zenon
  <2>2. \E x : IsTotal(x, Regions[r].digits, 0, t) /\ Mirror(r, l) = x[Regions[r].digits]
    BY <1>1, <2>1, MirrorTotal, Zenon DEF t
  <2> QED
    BY <1>1, <2>2, Zenon
<1>11. x[9] = t[1] + t[2] + t[3] + t[4] + t[5] + t[6] + t[7] + t[8] + t[9]
  BY <1>9, <1>10, TotalOf9
<1>12. Horner(e) = x[9]
  <2>1. d[1] \in Int /\ d[2] \in Int /\ d[3] \in Int /\ d[4] \in Int /\ d[5] \in Int /\ d[6] \in Int
        /\ d[7] \in Int /\ d[8] \in Int /\ d[9] \in Int
    BY <1>1
  <2>2. Horner(e) = 6561 * e[1] + 2187 * e[2] + 729 * e[3] + 243 * e[4] + 81 * e[5] + 27 * e[6] + 9 * e[7]
        + 3 * e[8] + e[9]
    BY <1>5, HornerOf9
  <2> QED
    BY <1>4, <1>8, <1>11, <2>1, <2>2
<1>13. Reflected(r, e) = d
  <2>1. Reflected(r, e) = [j \in 1..9 |-> e[9 - MirrorPlace(r, 9 - j)]]
    BY <1>1 DEF Reflected
  <2>2. Reflected(r, e)[1] = d[1] /\ Reflected(r, e)[2] = d[2] /\ Reflected(r, e)[3] = d[3]
        /\ Reflected(r, e)[4] = d[4] /\ Reflected(r, e)[5] = d[5] /\ Reflected(r, e)[6] = d[6]
        /\ Reflected(r, e)[7] = d[7] /\ Reflected(r, e)[8] = d[8] /\ Reflected(r, e)[9] = d[9]
    BY <1>2, <1>4, <2>1
  <2>3. \A j \in 1..9 : j = 1 \/ j = 2 \/ j = 3 \/ j = 4 \/ j = 5 \/ j = 6 \/ j = 7 \/ j = 8 \/ j = 9
    OBVIOUS
  <2>4. \A j \in 1..9 : Reflected(r, e)[j] = d[j]
    BY <2>2, <2>3
  <2> QED
    BY <1>1, <2>1, <2>4
<1> QED
  BY <1>1, <1>5, <1>10, <1>12, <1>13 DEF e, l, Colours

LEMMA MirrorOf2 ==
  ASSUME NEW r, r = 2, NEW d \in Colours(r)
  PROVE  Mirror(r, Horner(d)) = Horner(Reflected(r, d)) /\ Reflected(r, d) \in Colours(r)
         /\ Reflected(r, Reflected(r, d)) = d
<1> DEFINE e == Reflected(r, d)
           w(j) == 3^MirrorPlace(r, j)
           l == Horner(d)
           t == Terms(r, l)
<1>1. Regions[r].digits = 10 /\ d \in [1..10 -> 0..2] /\ d \in [1..10 -> Int] /\ r \in 1..12
  <2>1. Regions[r].digits = 10 /\ r \in 1..12
    BY RegionDigits
  <2> QED
    BY <2>1 DEF Colours
<1>2. MirrorPlace(r, 0) = 9 /\ MirrorPlace(r, 1) = 8 /\ MirrorPlace(r, 2) = 7 /\ MirrorPlace(r, 3) = 6
      /\ MirrorPlace(r, 4) = 4 /\ MirrorPlace(r, 5) = 5 /\ MirrorPlace(r, 6) = 3 /\ MirrorPlace(r, 7) = 2
      /\ MirrorPlace(r, 8) = 1 /\ MirrorPlace(r, 9) = 0
  BY <1>1 DEF MirrorPlace
<1>3. e = [j \in 1..10 |-> d[10 - MirrorPlace(r, 10 - j)]]
  BY <1>1 DEF Reflected
<1>4. e[1] = d[10] /\ e[2] = d[9] /\ e[3] = d[8] /\ e[4] = d[7] /\ e[5] = d[5] /\ e[6] = d[6] /\ e[7] = d[4]
      /\ e[8] = d[3] /\ e[9] = d[2] /\ e[10] = d[1]
  BY <1>2, <1>3
<1>5. e \in [1..10 -> 0..2] /\ e \in [1..10 -> Int]
  <2>1. \A j \in 1..10 : j = 1 \/ j = 2 \/ j = 3 \/ j = 4 \/ j = 5 \/ j = 6 \/ j = 7 \/ j = 8 \/ j = 9 \/ j = 10
    OBVIOUS
  <2>2. \A j \in 1..10 : e[j] \in 0..2
    BY <1>1, <1>4, <2>1
  <2> QED
    BY <1>3, <2>2
<1>6. w(0) = 3^9 /\ w(1) = 3^8 /\ w(2) = 3^7 /\ w(3) = 3^6 /\ w(4) = 3^4 /\ w(5) = 3^5 /\ w(6) = 3^3
      /\ w(7) = 3^2 /\ w(8) = 3^1 /\ w(9) = 3^0
  BY <1>2, Zenon
<1> HIDE DEF w
<1>7. Digit(l, 0) = d[10] /\ Digit(l, 1) = d[9] /\ Digit(l, 2) = d[8] /\ Digit(l, 3) = d[7]
      /\ Digit(l, 4) = d[6] /\ Digit(l, 5) = d[5] /\ Digit(l, 6) = d[4] /\ Digit(l, 7) = d[3]
      /\ Digit(l, 8) = d[2] /\ Digit(l, 9) = d[1]
  <2>1. \A j \in 0..10 - 1 : Digit(l, j) = d[10 - j]
    BY <1>1, DigitsOf
  <2> QED
    BY <2>1
<1> HIDE DEF l, e
<1>8. t[1] = 3^9 * d[10] /\ t[2] = 3^8 * d[9] /\ t[3] = 3^7 * d[8] /\ t[4] = 3^6 * d[7] /\ t[5] = 3^4 * d[6]
      /\ t[6] = 3^5 * d[5] /\ t[7] = 3^3 * d[4] /\ t[8] = 3^2 * d[3] /\ t[9] = 3^1 * d[2] /\ t[10] = 3^0 * d[1]
  <2>1. t = [m \in 1..10 |-> Digit(l, m - 1) * w(m - 1)]
    BY <1>1 DEF w, Terms
  <2> QED
    BY <1>1, <1>6, <1>7, <2>1
<1>9. t \in [1..10 -> Int]
  <2>1. \A m \in 1..10 : m = 1 \/ m = 2 \/ m = 3 \/ m = 4 \/ m = 5 \/ m = 6 \/ m = 7 \/ m = 8 \/ m = 9 \/ m = 10
    OBVIOUS
  <2>2. d[1] \in Int /\ d[2] \in Int /\ d[3] \in Int /\ d[4] \in Int /\ d[5] \in Int /\ d[6] \in Int
        /\ d[7] \in Int /\ d[8] \in Int /\ d[9] \in Int /\ d[10] \in Int
    BY <1>1
  <2>3. t[1] \in Int /\ t[2] \in Int /\ t[3] \in Int /\ t[4] \in Int /\ t[5] \in Int /\ t[6] \in Int
        /\ t[7] \in Int /\ t[8] \in Int /\ t[9] \in Int /\ t[10] \in Int
    BY <1>8, <2>2
  <2>5. t = [m \in 1..10 |-> t[m]]
    BY <1>1 DEF Terms
  <2>4. \A m \in 1..10 : t[m] \in Int
    BY <2>1, <2>3
  <2> QED
    BY <2>4, <2>5
<1> HIDE DEF t
<1>10. PICK x : IsTotal(x, 10, 0, t) /\ Mirror(r, l) = x[10]
  <2>1. t \in [1..Regions[r].digits -> Int]
    BY <1>1, <1>9, Zenon
  <2>2. \E x : IsTotal(x, Regions[r].digits, 0, t) /\ Mirror(r, l) = x[Regions[r].digits]
    BY <1>1, <2>1, MirrorTotal, Zenon DEF t
  <2> QED
    BY <1>1, <2>2, Zenon
<1>11. x[10] = t[1] + t[2] + t[3] + t[4] + t[5] + t[6] + t[7] + t[8] + t[9] + t[10]
  BY <1>9, <1>10, TotalOf10
<1>12. Horner(e) = x[10]
  <2>1. d[1] \in Int /\ d[2] \in Int /\ d[3] \in Int /\ d[4] \in Int /\ d[5] \in Int /\ d[6] \in Int
        /\ d[7] \in Int /\ d[8] \in Int /\ d[9] \in Int /\ d[10] \in Int
    BY <1>1
  <2>2. Horner(e) = 19683 * e[1] + 6561 * e[2] + 2187 * e[3] + 729 * e[4] + 243 * e[5] + 81 * e[6] + 27 * e[7]
        + 9 * e[8] + 3 * e[9] + e[10]
    BY <1>5, HornerOf10
  <2> QED
    BY <1>4, <1>8, <1>11, <2>1, <2>2
<1>13. Reflected(r, e) = d
  <2>1. Reflected(r, e) = [j \in 1..10 |-> e[10 - MirrorPlace(r, 10 - j)]]
    BY <1>1 DEF Reflected
  <2>2. Reflected(r, e)[1] = d[1] /\ Reflected(r, e)[2] = d[2] /\ Reflected(r, e)[3] = d[3]
        /\ Reflected(r, e)[4] = d[4] /\ Reflected(r, e)[5] = d[5] /\ Reflected(r, e)[6] = d[6]
        /\ Reflected(r, e)[7] = d[7] /\ Reflected(r, e)[8] = d[8] /\ Reflected(r, e)[9] = d[9]
        /\ Reflected(r, e)[10] = d[10]
    BY <1>2, <1>4, <2>1
  <2>3. \A j \in 1..10 : j = 1 \/ j = 2 \/ j = 3 \/ j = 4 \/ j = 5 \/ j = 6 \/ j = 7 \/ j = 8 \/ j = 9 \/ j = 10
    OBVIOUS
  <2>4. \A j \in 1..10 : Reflected(r, e)[j] = d[j]
    BY <2>2, <2>3
  <2> QED
    BY <1>1, <2>1, <2>4
<1> QED
  BY <1>1, <1>5, <1>10, <1>12, <1>13 DEF e, l, Colours

LEMMA MirrorOf3 ==
  ASSUME NEW r, r = 3 \/ r = 4, NEW d \in Colours(r)
  PROVE  Mirror(r, Horner(d)) = Horner(Reflected(r, d)) /\ Reflected(r, d) \in Colours(r)
         /\ Reflected(r, Reflected(r, d)) = d
<1> DEFINE e == Reflected(r, d)
           w(j) == 3^MirrorPlace(r, j)
           l == Horner(d)
           t == Terms(r, l)
<1>1. Regions[r].digits = 10 /\ d \in [1..10 -> 0..2] /\ d \in [1..10 -> Int] /\ r \in 1..12
  <2>1. Regions[r].digits = 10 /\ r \in 1..12
    BY RegionDigits
  <2> QED
    BY <2>1 DEF Colours
<1>2. MirrorPlace(r, 0) = 9 /\ MirrorPlace(r, 1) = 8 /\ MirrorPlace(r, 2) = 7 /\ MirrorPlace(r, 3) = 6
      /\ MirrorPlace(r, 4) = 5 /\ MirrorPlace(r, 5) = 4 /\ MirrorPlace(r, 6) = 3 /\ MirrorPlace(r, 7) = 2
      /\ MirrorPlace(r, 8) = 1 /\ MirrorPlace(r, 9) = 0
  BY <1>1 DEF MirrorPlace
<1>3. e = [j \in 1..10 |-> d[10 - MirrorPlace(r, 10 - j)]]
  BY <1>1 DEF Reflected
<1>4. e[1] = d[10] /\ e[2] = d[9] /\ e[3] = d[8] /\ e[4] = d[7] /\ e[5] = d[6] /\ e[6] = d[5] /\ e[7] = d[4]
      /\ e[8] = d[3] /\ e[9] = d[2] /\ e[10] = d[1]
  BY <1>2, <1>3
<1>5. e \in [1..10 -> 0..2] /\ e \in [1..10 -> Int]
  <2>1. \A j \in 1..10 : j = 1 \/ j = 2 \/ j = 3 \/ j = 4 \/ j = 5 \/ j = 6 \/ j = 7 \/ j = 8 \/ j = 9 \/ j = 10
    OBVIOUS
  <2>2. \A j \in 1..10 : e[j] \in 0..2
    BY <1>1, <1>4, <2>1
  <2> QED
    BY <1>3, <2>2
<1>6. w(0) = 3^9 /\ w(1) = 3^8 /\ w(2) = 3^7 /\ w(3) = 3^6 /\ w(4) = 3^5 /\ w(5) = 3^4 /\ w(6) = 3^3
      /\ w(7) = 3^2 /\ w(8) = 3^1 /\ w(9) = 3^0
  BY <1>2, Zenon
<1> HIDE DEF w
<1>7. Digit(l, 0) = d[10] /\ Digit(l, 1) = d[9] /\ Digit(l, 2) = d[8] /\ Digit(l, 3) = d[7]
      /\ Digit(l, 4) = d[6] /\ Digit(l, 5) = d[5] /\ Digit(l, 6) = d[4] /\ Digit(l, 7) = d[3]
      /\ Digit(l, 8) = d[2] /\ Digit(l, 9) = d[1]
  <2>1. \A j \in 0..10 - 1 : Digit(l, j) = d[10 - j]
    BY <1>1, DigitsOf
  <2> QED
    BY <2>1
<1> HIDE DEF l, e
<1>8. t[1] = 3^9 * d[10] /\ t[2] = 3^8 * d[9] /\ t[3] = 3^7 * d[8] /\ t[4] = 3^6 * d[7] /\ t[5] = 3^5 * d[6]
      /\ t[6] = 3^4 * d[5] /\ t[7] = 3^3 * d[4] /\ t[8] = 3^2 * d[3] /\ t[9] = 3^1 * d[2] /\ t[10] = 3^0 * d[1]
  <2>1. t = [m \in 1..10 |-> Digit(l, m - 1) * w(m - 1)]
    BY <1>1 DEF w, Terms
  <2> QED
    BY <1>1, <1>6, <1>7, <2>1
<1>9. t \in [1..10 -> Int]
  <2>1. \A m \in 1..10 : m = 1 \/ m = 2 \/ m = 3 \/ m = 4 \/ m = 5 \/ m = 6 \/ m = 7 \/ m = 8 \/ m = 9 \/ m = 10
    OBVIOUS
  <2>2. d[1] \in Int /\ d[2] \in Int /\ d[3] \in Int /\ d[4] \in Int /\ d[5] \in Int /\ d[6] \in Int
        /\ d[7] \in Int /\ d[8] \in Int /\ d[9] \in Int /\ d[10] \in Int
    BY <1>1
  <2>3. t[1] \in Int /\ t[2] \in Int /\ t[3] \in Int /\ t[4] \in Int /\ t[5] \in Int /\ t[6] \in Int
        /\ t[7] \in Int /\ t[8] \in Int /\ t[9] \in Int /\ t[10] \in Int
    BY <1>8, <2>2
  <2>5. t = [m \in 1..10 |-> t[m]]
    BY <1>1 DEF Terms
  <2>4. \A m \in 1..10 : t[m] \in Int
    BY <2>1, <2>3
  <2> QED
    BY <2>4, <2>5
<1> HIDE DEF t
<1>10. PICK x : IsTotal(x, 10, 0, t) /\ Mirror(r, l) = x[10]
  <2>1. t \in [1..Regions[r].digits -> Int]
    BY <1>1, <1>9, Zenon
  <2>2. \E x : IsTotal(x, Regions[r].digits, 0, t) /\ Mirror(r, l) = x[Regions[r].digits]
    BY <1>1, <2>1, MirrorTotal, Zenon DEF t
  <2> QED
    BY <1>1, <2>2, Zenon
<1>11. x[10] = t[1] + t[2] + t[3] + t[4] + t[5] + t[6] + t[7] + t[8] + t[9] + t[10]
  BY <1>9, <1>10, TotalOf10
<1>12. Horner(e) = x[10]
  <2>1. d[1] \in Int /\ d[2] \in Int /\ d[3] \in Int /\ d[4] \in Int /\ d[5] \in Int /\ d[6] \in Int
        /\ d[7] \in Int /\ d[8] \in Int /\ d[9] \in Int /\ d[10] \in Int
    BY <1>1
  <2>2. Horner(e) = 19683 * e[1] + 6561 * e[2] + 2187 * e[3] + 729 * e[4] + 243 * e[5] + 81 * e[6] + 27 * e[7]
        + 9 * e[8] + 3 * e[9] + e[10]
    BY <1>5, HornerOf10
  <2> QED
    BY <1>4, <1>8, <1>11, <2>1, <2>2
<1>13. Reflected(r, e) = d
  <2>1. Reflected(r, e) = [j \in 1..10 |-> e[10 - MirrorPlace(r, 10 - j)]]
    BY <1>1 DEF Reflected
  <2>2. Reflected(r, e)[1] = d[1] /\ Reflected(r, e)[2] = d[2] /\ Reflected(r, e)[3] = d[3]
        /\ Reflected(r, e)[4] = d[4] /\ Reflected(r, e)[5] = d[5] /\ Reflected(r, e)[6] = d[6]
        /\ Reflected(r, e)[7] = d[7] /\ Reflected(r, e)[8] = d[8] /\ Reflected(r, e)[9] = d[9]
        /\ Reflected(r, e)[10] = d[10]
    BY <1>2, <1>4, <2>1
  <2>3. \A j \in 1..10 : j = 1 \/ j = 2 \/ j = 3 \/ j = 4 \/ j = 5 \/ j = 6 \/ j = 7 \/ j = 8 \/ j = 9 \/ j = 10
    OBVIOUS
  <2>4. \A j \in 1..10 : Reflected(r, e)[j] = d[j]
    BY <2>2, <2>3
  <2> QED
    BY <1>1, <2>1, <2>4
<1> QED
  BY <1>1, <1>5, <1>10, <1>12, <1>13 DEF e, l, Colours

LEMMA MirrorOf5 ==
  ASSUME NEW r, r = 5 \/ r = 6 \/ r = 7 \/ r = 8, NEW d \in Colours(r)
  PROVE  Mirror(r, Horner(d)) = Horner(Reflected(r, d)) /\ Reflected(r, d) \in Colours(r)
         /\ Reflected(r, Reflected(r, d)) = d
<1> DEFINE e == Reflected(r, d)
           w(j) == 3^MirrorPlace(r, j)
           l == Horner(d)
           t == Terms(r, l)
<1>1. Regions[r].digits = 8 /\ d \in [1..8 -> 0..2] /\ d \in [1..8 -> Int] /\ r \in 1..12
  <2>1. Regions[r].digits = 8 /\ r \in 1..12
    BY RegionDigits
  <2> QED
    BY <2>1 DEF Colours
<1>2. MirrorPlace(r, 0) = 7 /\ MirrorPlace(r, 1) = 6 /\ MirrorPlace(r, 2) = 5 /\ MirrorPlace(r, 3) = 4
      /\ MirrorPlace(r, 4) = 3 /\ MirrorPlace(r, 5) = 2 /\ MirrorPlace(r, 6) = 1 /\ MirrorPlace(r, 7) = 0
  BY <1>1 DEF MirrorPlace
<1>3. e = [j \in 1..8 |-> d[8 - MirrorPlace(r, 8 - j)]]
  BY <1>1 DEF Reflected
<1>4. e[1] = d[8] /\ e[2] = d[7] /\ e[3] = d[6] /\ e[4] = d[5] /\ e[5] = d[4] /\ e[6] = d[3] /\ e[7] = d[2]
      /\ e[8] = d[1]
  BY <1>2, <1>3
<1>5. e \in [1..8 -> 0..2] /\ e \in [1..8 -> Int]
  <2>1. \A j \in 1..8 : j = 1 \/ j = 2 \/ j = 3 \/ j = 4 \/ j = 5 \/ j = 6 \/ j = 7 \/ j = 8
    OBVIOUS
  <2>2. \A j \in 1..8 : e[j] \in 0..2
    BY <1>1, <1>4, <2>1
  <2> QED
    BY <1>3, <2>2
<1>6. w(0) = 3^7 /\ w(1) = 3^6 /\ w(2) = 3^5 /\ w(3) = 3^4 /\ w(4) = 3^3 /\ w(5) = 3^2 /\ w(6) = 3^1 /\ w(7) = 3^0
  BY <1>2, Zenon
<1> HIDE DEF w
<1>7. Digit(l, 0) = d[8] /\ Digit(l, 1) = d[7] /\ Digit(l, 2) = d[6] /\ Digit(l, 3) = d[5]
      /\ Digit(l, 4) = d[4] /\ Digit(l, 5) = d[3] /\ Digit(l, 6) = d[2] /\ Digit(l, 7) = d[1]
  <2>1. \A j \in 0..8 - 1 : Digit(l, j) = d[8 - j]
    BY <1>1, DigitsOf
  <2> QED
    BY <2>1
<1> HIDE DEF l, e
<1>8. t[1] = 3^7 * d[8] /\ t[2] = 3^6 * d[7] /\ t[3] = 3^5 * d[6] /\ t[4] = 3^4 * d[5] /\ t[5] = 3^3 * d[4]
      /\ t[6] = 3^2 * d[3] /\ t[7] = 3^1 * d[2] /\ t[8] = 3^0 * d[1]
  <2>1. t = [m \in 1..8 |-> Digit(l, m - 1) * w(m - 1)]
    BY <1>1 DEF w, Terms
  <2> QED
    BY <1>1, <1>6, <1>7, <2>1
<1>9. t \in [1..8 -> Int]
  <2>1. \A m \in 1..8 : m = 1 \/ m = 2 \/ m = 3 \/ m = 4 \/ m = 5 \/ m = 6 \/ m = 7 \/ m = 8
    OBVIOUS
  <2>2. d[1] \in Int /\ d[2] \in Int /\ d[3] \in Int /\ d[4] \in Int /\ d[5] \in Int /\ d[6] \in Int
        /\ d[7] \in Int /\ d[8] \in Int
    BY <1>1
  <2>3. t[1] \in Int /\ t[2] \in Int /\ t[3] \in Int /\ t[4] \in Int /\ t[5] \in Int /\ t[6] \in Int
        /\ t[7] \in Int /\ t[8] \in Int
    BY <1>8, <2>2
  <2>5. t = [m \in 1..8 |-> t[m]]
    BY <1>1 DEF Terms
  <2>4. \A m \in 1..8 : t[m] \in Int
    BY <2>1, <2>3
  <2> QED
    BY <2>4, <2>5
<1> HIDE DEF t
<1>10. PICK x : IsTotal(x, 8, 0, t) /\ Mirror(r, l) = x[8]
  <2>1. t \in [1..Regions[r].digits -> Int]
    BY <1>1, <1>9, Zenon
  <2>2. \E x : IsTotal(x, Regions[r].digits, 0, t) /\ Mirror(r, l) = x[Regions[r].digits]
    BY <1>1, <2>1, MirrorTotal, Zenon DEF t
  <2> QED
    BY <1>1, <2>2, Zenon
<1>11. x[8] = t[1] + t[2] + t[3] + t[4] + t[5] + t[6] + t[7] + t[8]
  BY <1>9, <1>10, TotalOf8
<1>12. Horner(e) = x[8]
  <2>1. d[1] \in Int /\ d[2] \in Int /\ d[3] \in Int /\ d[4] \in Int /\ d[5] \in Int /\ d[6] \in Int
        /\ d[7] \in Int /\ d[8] \in Int
    BY <1>1
  <2>2. Horner(e) = 2187 * e[1] + 729 * e[2] + 243 * e[3] + 81 * e[4] + 27 * e[5] + 9 * e[6] + 3 * e[7] + e[8]
    BY <1>5, HornerOf8
  <2> QED
    BY <1>4, <1>8, <1>11, <2>1, <2>2
<1>13. Reflected(r, e) = d
  <2>1. Reflected(r, e) = [j \in 1..8 |-> e[8 - MirrorPlace(r, 8 - j)]]
    BY <1>1 DEF Reflected
  <2>2. Reflected(r, e)[1] = d[1] /\ Reflected(r, e)[2] = d[2] /\ Reflected(r, e)[3] = d[3]
        /\ Reflected(r, e)[4] = d[4] /\ Reflected(r, e)[5] = d[5] /\ Reflected(r, e)[6] = d[6]
        /\ Reflected(r, e)[7] = d[7] /\ Reflected(r, e)[8] = d[8]
    BY <1>2, <1>4, <2>1
  <2>3. \A j \in 1..8 : j = 1 \/ j = 2 \/ j = 3 \/ j = 4 \/ j = 5 \/ j = 6 \/ j = 7 \/ j = 8
    OBVIOUS
  <2>4. \A j \in 1..8 : Reflected(r, e)[j] = d[j]
    BY <2>2, <2>3
  <2> QED
    BY <1>1, <2>1, <2>4
<1> QED
  BY <1>1, <1>5, <1>10, <1>12, <1>13 DEF e, l, Colours

LEMMA MirrorOf9 ==
  ASSUME NEW r, r = 9, NEW d \in Colours(r)
  PROVE  Mirror(r, Horner(d)) = Horner(Reflected(r, d)) /\ Reflected(r, d) \in Colours(r)
         /\ Reflected(r, Reflected(r, d)) = d
<1> DEFINE e == Reflected(r, d)
           w(j) == 3^MirrorPlace(r, j)
           l == Horner(d)
           t == Terms(r, l)
<1>1. Regions[r].digits = 7 /\ d \in [1..7 -> 0..2] /\ d \in [1..7 -> Int] /\ r \in 1..12
  <2>1. Regions[r].digits = 7 /\ r \in 1..12
    BY RegionDigits
  <2> QED
    BY <2>1 DEF Colours
<1>2. MirrorPlace(r, 0) = 6 /\ MirrorPlace(r, 1) = 5 /\ MirrorPlace(r, 2) = 4 /\ MirrorPlace(r, 3) = 3
      /\ MirrorPlace(r, 4) = 2 /\ MirrorPlace(r, 5) = 1 /\ MirrorPlace(r, 6) = 0
  BY <1>1 DEF MirrorPlace
<1>3. e = [j \in 1..7 |-> d[7 - MirrorPlace(r, 7 - j)]]
  BY <1>1 DEF Reflected
<1>4. e[1] = d[7] /\ e[2] = d[6] /\ e[3] = d[5] /\ e[4] = d[4] /\ e[5] = d[3] /\ e[6] = d[2] /\ e[7] = d[1]
  BY <1>2, <1>3
<1>5. e \in [1..7 -> 0..2] /\ e \in [1..7 -> Int]
  <2>1. \A j \in 1..7 : j = 1 \/ j = 2 \/ j = 3 \/ j = 4 \/ j = 5 \/ j = 6 \/ j = 7
    OBVIOUS
  <2>2. \A j \in 1..7 : e[j] \in 0..2
    BY <1>1, <1>4, <2>1
  <2> QED
    BY <1>3, <2>2
<1>6. w(0) = 3^6 /\ w(1) = 3^5 /\ w(2) = 3^4 /\ w(3) = 3^3 /\ w(4) = 3^2 /\ w(5) = 3^1 /\ w(6) = 3^0
  BY <1>2, Zenon
<1> HIDE DEF w
<1>7. Digit(l, 0) = d[7] /\ Digit(l, 1) = d[6] /\ Digit(l, 2) = d[5] /\ Digit(l, 3) = d[4]
      /\ Digit(l, 4) = d[3] /\ Digit(l, 5) = d[2] /\ Digit(l, 6) = d[1]
  <2>1. \A j \in 0..7 - 1 : Digit(l, j) = d[7 - j]
    BY <1>1, DigitsOf
  <2> QED
    BY <2>1
<1> HIDE DEF l, e
<1>8. t[1] = 3^6 * d[7] /\ t[2] = 3^5 * d[6] /\ t[3] = 3^4 * d[5] /\ t[4] = 3^3 * d[4] /\ t[5] = 3^2 * d[3]
      /\ t[6] = 3^1 * d[2] /\ t[7] = 3^0 * d[1]
  <2>1. t = [m \in 1..7 |-> Digit(l, m - 1) * w(m - 1)]
    BY <1>1 DEF w, Terms
  <2> QED
    BY <1>1, <1>6, <1>7, <2>1
<1>9. t \in [1..7 -> Int]
  <2>1. \A m \in 1..7 : m = 1 \/ m = 2 \/ m = 3 \/ m = 4 \/ m = 5 \/ m = 6 \/ m = 7
    OBVIOUS
  <2>2. d[1] \in Int /\ d[2] \in Int /\ d[3] \in Int /\ d[4] \in Int /\ d[5] \in Int /\ d[6] \in Int /\ d[7] \in Int
    BY <1>1
  <2>3. t[1] \in Int /\ t[2] \in Int /\ t[3] \in Int /\ t[4] \in Int /\ t[5] \in Int /\ t[6] \in Int /\ t[7] \in Int
    BY <1>8, <2>2
  <2>5. t = [m \in 1..7 |-> t[m]]
    BY <1>1 DEF Terms
  <2>4. \A m \in 1..7 : t[m] \in Int
    BY <2>1, <2>3
  <2> QED
    BY <2>4, <2>5
<1> HIDE DEF t
<1>10. PICK x : IsTotal(x, 7, 0, t) /\ Mirror(r, l) = x[7]
  <2>1. t \in [1..Regions[r].digits -> Int]
    BY <1>1, <1>9, Zenon
  <2>2. \E x : IsTotal(x, Regions[r].digits, 0, t) /\ Mirror(r, l) = x[Regions[r].digits]
    BY <1>1, <2>1, MirrorTotal, Zenon DEF t
  <2> QED
    BY <1>1, <2>2, Zenon
<1>11. x[7] = t[1] + t[2] + t[3] + t[4] + t[5] + t[6] + t[7]
  BY <1>9, <1>10, TotalOf7
<1>12. Horner(e) = x[7]
  <2>1. d[1] \in Int /\ d[2] \in Int /\ d[3] \in Int /\ d[4] \in Int /\ d[5] \in Int /\ d[6] \in Int /\ d[7] \in Int
    BY <1>1
  <2>2. Horner(e) = 729 * e[1] + 243 * e[2] + 81 * e[3] + 27 * e[4] + 9 * e[5] + 3 * e[6] + e[7]
    BY <1>5, HornerOf7
  <2> QED
    BY <1>4, <1>8, <1>11, <2>1, <2>2
<1>13. Reflected(r, e) = d
  <2>1. Reflected(r, e) = [j \in 1..7 |-> e[7 - MirrorPlace(r, 7 - j)]]
    BY <1>1 DEF Reflected
  <2>2. Reflected(r, e)[1] = d[1] /\ Reflected(r, e)[2] = d[2] /\ Reflected(r, e)[3] = d[3]
        /\ Reflected(r, e)[4] = d[4] /\ Reflected(r, e)[5] = d[5] /\ Reflected(r, e)[6] = d[6]
        /\ Reflected(r, e)[7] = d[7]
    BY <1>2, <1>4, <2>1
  <2>3. \A j \in 1..7 : j = 1 \/ j = 2 \/ j = 3 \/ j = 4 \/ j = 5 \/ j = 6 \/ j = 7
    OBVIOUS
  <2>4. \A j \in 1..7 : Reflected(r, e)[j] = d[j]
    BY <2>2, <2>3
  <2> QED
    BY <1>1, <2>1, <2>4
<1> QED
  BY <1>1, <1>5, <1>10, <1>12, <1>13 DEF e, l, Colours

LEMMA MirrorOf10 ==
  ASSUME NEW r, r = 10, NEW d \in Colours(r)
  PROVE  Mirror(r, Horner(d)) = Horner(Reflected(r, d)) /\ Reflected(r, d) \in Colours(r)
         /\ Reflected(r, Reflected(r, d)) = d
<1> DEFINE e == Reflected(r, d)
           w(j) == 3^MirrorPlace(r, j)
           l == Horner(d)
           t == Terms(r, l)
<1>1. Regions[r].digits = 6 /\ d \in [1..6 -> 0..2] /\ d \in [1..6 -> Int] /\ r \in 1..12
  <2>1. Regions[r].digits = 6 /\ r \in 1..12
    BY RegionDigits
  <2> QED
    BY <2>1 DEF Colours
<1>2. MirrorPlace(r, 0) = 5 /\ MirrorPlace(r, 1) = 4 /\ MirrorPlace(r, 2) = 3 /\ MirrorPlace(r, 3) = 2
      /\ MirrorPlace(r, 4) = 1 /\ MirrorPlace(r, 5) = 0
  BY <1>1 DEF MirrorPlace
<1>3. e = [j \in 1..6 |-> d[6 - MirrorPlace(r, 6 - j)]]
  BY <1>1 DEF Reflected
<1>4. e[1] = d[6] /\ e[2] = d[5] /\ e[3] = d[4] /\ e[4] = d[3] /\ e[5] = d[2] /\ e[6] = d[1]
  BY <1>2, <1>3
<1>5. e \in [1..6 -> 0..2] /\ e \in [1..6 -> Int]
  <2>1. \A j \in 1..6 : j = 1 \/ j = 2 \/ j = 3 \/ j = 4 \/ j = 5 \/ j = 6
    OBVIOUS
  <2>2. \A j \in 1..6 : e[j] \in 0..2
    BY <1>1, <1>4, <2>1
  <2> QED
    BY <1>3, <2>2
<1>6. w(0) = 3^5 /\ w(1) = 3^4 /\ w(2) = 3^3 /\ w(3) = 3^2 /\ w(4) = 3^1 /\ w(5) = 3^0
  BY <1>2, Zenon
<1> HIDE DEF w
<1>7. Digit(l, 0) = d[6] /\ Digit(l, 1) = d[5] /\ Digit(l, 2) = d[4] /\ Digit(l, 3) = d[3]
      /\ Digit(l, 4) = d[2] /\ Digit(l, 5) = d[1]
  <2>1. \A j \in 0..6 - 1 : Digit(l, j) = d[6 - j]
    BY <1>1, DigitsOf
  <2> QED
    BY <2>1
<1> HIDE DEF l, e
<1>8. t[1] = 3^5 * d[6] /\ t[2] = 3^4 * d[5] /\ t[3] = 3^3 * d[4] /\ t[4] = 3^2 * d[3] /\ t[5] = 3^1 * d[2]
      /\ t[6] = 3^0 * d[1]
  <2>1. t = [m \in 1..6 |-> Digit(l, m - 1) * w(m - 1)]
    BY <1>1 DEF w, Terms
  <2> QED
    BY <1>1, <1>6, <1>7, <2>1
<1>9. t \in [1..6 -> Int]
  <2>1. \A m \in 1..6 : m = 1 \/ m = 2 \/ m = 3 \/ m = 4 \/ m = 5 \/ m = 6
    OBVIOUS
  <2>2. d[1] \in Int /\ d[2] \in Int /\ d[3] \in Int /\ d[4] \in Int /\ d[5] \in Int /\ d[6] \in Int
    BY <1>1
  <2>3. t[1] \in Int /\ t[2] \in Int /\ t[3] \in Int /\ t[4] \in Int /\ t[5] \in Int /\ t[6] \in Int
    BY <1>8, <2>2
  <2>5. t = [m \in 1..6 |-> t[m]]
    BY <1>1 DEF Terms
  <2>4. \A m \in 1..6 : t[m] \in Int
    BY <2>1, <2>3
  <2> QED
    BY <2>4, <2>5
<1> HIDE DEF t
<1>10. PICK x : IsTotal(x, 6, 0, t) /\ Mirror(r, l) = x[6]
  <2>1. t \in [1..Regions[r].digits -> Int]
    BY <1>1, <1>9, Zenon
  <2>2. \E x : IsTotal(x, Regions[r].digits, 0, t) /\ Mirror(r, l) = x[Regions[r].digits]
    BY <1>1, <2>1, MirrorTotal, Zenon DEF t
  <2> QED
    BY <1>1, <2>2, Zenon
<1>11. x[6] = t[1] + t[2] + t[3] + t[4] + t[5] + t[6]
  BY <1>9, <1>10, TotalOf6
<1>12. Horner(e) = x[6]
  <2>1. d[1] \in Int /\ d[2] \in Int /\ d[3] \in Int /\ d[4] \in Int /\ d[5] \in Int /\ d[6] \in Int
    BY <1>1
  <2>2. Horner(e) = 243 * e[1] + 81 * e[2] + 27 * e[3] + 9 * e[4] + 3 * e[5] + e[6]
    BY <1>5, HornerOf6
  <2> QED
    BY <1>4, <1>8, <1>11, <2>1, <2>2
<1>13. Reflected(r, e) = d
  <2>1. Reflected(r, e) = [j \in 1..6 |-> e[6 - MirrorPlace(r, 6 - j)]]
    BY <1>1 DEF Reflected
  <2>2. Reflected(r, e)[1] = d[1] /\ Reflected(r, e)[2] = d[2] /\ Reflected(r, e)[3] = d[3]
        /\ Reflected(r, e)[4] = d[4] /\ Reflected(r, e)[5] = d[5] /\ Reflected(r, e)[6] = d[6]
    BY <1>2, <1>4, <2>1
  <2>3. \A j \in 1..6 : j = 1 \/ j = 2 \/ j = 3 \/ j = 4 \/ j = 5 \/ j = 6
    OBVIOUS
  <2>4. \A j \in 1..6 : Reflected(r, e)[j] = d[j]
    BY <2>2, <2>3
  <2> QED
    BY <1>1, <2>1, <2>4
<1> QED
  BY <1>1, <1>5, <1>10, <1>12, <1>13 DEF e, l, Colours

LEMMA MirrorOf11 ==
  ASSUME NEW r, r = 11, NEW d \in Colours(r)
  PROVE  Mirror(r, Horner(d)) = Horner(Reflected(r, d)) /\ Reflected(r, d) \in Colours(r)
         /\ Reflected(r, Reflected(r, d)) = d
<1> DEFINE e == Reflected(r, d)
           w(j) == 3^MirrorPlace(r, j)
           l == Horner(d)
           t == Terms(r, l)
<1>1. Regions[r].digits = 5 /\ d \in [1..5 -> 0..2] /\ d \in [1..5 -> Int] /\ r \in 1..12
  <2>1. Regions[r].digits = 5 /\ r \in 1..12
    BY RegionDigits
  <2> QED
    BY <2>1 DEF Colours
<1>2. MirrorPlace(r, 0) = 4 /\ MirrorPlace(r, 1) = 3 /\ MirrorPlace(r, 2) = 2 /\ MirrorPlace(r, 3) = 1
      /\ MirrorPlace(r, 4) = 0
  BY <1>1 DEF MirrorPlace
<1>3. e = [j \in 1..5 |-> d[5 - MirrorPlace(r, 5 - j)]]
  BY <1>1 DEF Reflected
<1>4. e[1] = d[5] /\ e[2] = d[4] /\ e[3] = d[3] /\ e[4] = d[2] /\ e[5] = d[1]
  BY <1>2, <1>3
<1>5. e \in [1..5 -> 0..2] /\ e \in [1..5 -> Int]
  <2>1. \A j \in 1..5 : j = 1 \/ j = 2 \/ j = 3 \/ j = 4 \/ j = 5
    OBVIOUS
  <2>2. \A j \in 1..5 : e[j] \in 0..2
    BY <1>1, <1>4, <2>1
  <2> QED
    BY <1>3, <2>2
<1>6. w(0) = 3^4 /\ w(1) = 3^3 /\ w(2) = 3^2 /\ w(3) = 3^1 /\ w(4) = 3^0
  BY <1>2, Zenon
<1> HIDE DEF w
<1>7. Digit(l, 0) = d[5] /\ Digit(l, 1) = d[4] /\ Digit(l, 2) = d[3] /\ Digit(l, 3) = d[2] /\ Digit(l, 4) = d[1]
  <2>1. \A j \in 0..5 - 1 : Digit(l, j) = d[5 - j]
    BY <1>1, DigitsOf
  <2> QED
    BY <2>1
<1> HIDE DEF l, e
<1>8. t[1] = 3^4 * d[5] /\ t[2] = 3^3 * d[4] /\ t[3] = 3^2 * d[3] /\ t[4] = 3^1 * d[2] /\ t[5] = 3^0 * d[1]
  <2>1. t = [m \in 1..5 |-> Digit(l, m - 1) * w(m - 1)]
    BY <1>1 DEF w, Terms
  <2> QED
    BY <1>1, <1>6, <1>7, <2>1
<1>9. t \in [1..5 -> Int]
  <2>1. \A m \in 1..5 : m = 1 \/ m = 2 \/ m = 3 \/ m = 4 \/ m = 5
    OBVIOUS
  <2>2. d[1] \in Int /\ d[2] \in Int /\ d[3] \in Int /\ d[4] \in Int /\ d[5] \in Int
    BY <1>1
  <2>3. t[1] \in Int /\ t[2] \in Int /\ t[3] \in Int /\ t[4] \in Int /\ t[5] \in Int
    BY <1>8, <2>2
  <2>5. t = [m \in 1..5 |-> t[m]]
    BY <1>1 DEF Terms
  <2>4. \A m \in 1..5 : t[m] \in Int
    BY <2>1, <2>3
  <2> QED
    BY <2>4, <2>5
<1> HIDE DEF t
<1>10. PICK x : IsTotal(x, 5, 0, t) /\ Mirror(r, l) = x[5]
  <2>1. t \in [1..Regions[r].digits -> Int]
    BY <1>1, <1>9, Zenon
  <2>2. \E x : IsTotal(x, Regions[r].digits, 0, t) /\ Mirror(r, l) = x[Regions[r].digits]
    BY <1>1, <2>1, MirrorTotal, Zenon DEF t
  <2> QED
    BY <1>1, <2>2, Zenon
<1>11. x[5] = t[1] + t[2] + t[3] + t[4] + t[5]
  BY <1>9, <1>10, TotalOf5
<1>12. Horner(e) = x[5]
  <2>1. d[1] \in Int /\ d[2] \in Int /\ d[3] \in Int /\ d[4] \in Int /\ d[5] \in Int
    BY <1>1
  <2>2. Horner(e) = 81 * e[1] + 27 * e[2] + 9 * e[3] + 3 * e[4] + e[5]
    BY <1>5, HornerOf5
  <2> QED
    BY <1>4, <1>8, <1>11, <2>1, <2>2
<1>13. Reflected(r, e) = d
  <2>1. Reflected(r, e) = [j \in 1..5 |-> e[5 - MirrorPlace(r, 5 - j)]]
    BY <1>1 DEF Reflected
  <2>2. Reflected(r, e)[1] = d[1] /\ Reflected(r, e)[2] = d[2] /\ Reflected(r, e)[3] = d[3]
        /\ Reflected(r, e)[4] = d[4] /\ Reflected(r, e)[5] = d[5]
    BY <1>2, <1>4, <2>1
  <2>3. \A j \in 1..5 : j = 1 \/ j = 2 \/ j = 3 \/ j = 4 \/ j = 5
    OBVIOUS
  <2>4. \A j \in 1..5 : Reflected(r, e)[j] = d[j]
    BY <2>2, <2>3
  <2> QED
    BY <1>1, <2>1, <2>4
<1> QED
  BY <1>1, <1>5, <1>10, <1>12, <1>13 DEF e, l, Colours

LEMMA MirrorOf12 ==
  ASSUME NEW r, r = 12, NEW d \in Colours(r)
  PROVE  Mirror(r, Horner(d)) = Horner(Reflected(r, d)) /\ Reflected(r, d) \in Colours(r)
         /\ Reflected(r, Reflected(r, d)) = d
<1> DEFINE e == Reflected(r, d)
           w(j) == 3^MirrorPlace(r, j)
           l == Horner(d)
           t == Terms(r, l)
<1>1. Regions[r].digits = 4 /\ d \in [1..4 -> 0..2] /\ d \in [1..4 -> Int] /\ r \in 1..12
  <2>1. Regions[r].digits = 4 /\ r \in 1..12
    BY RegionDigits
  <2> QED
    BY <2>1 DEF Colours
<1>2. MirrorPlace(r, 0) = 3 /\ MirrorPlace(r, 1) = 2 /\ MirrorPlace(r, 2) = 1 /\ MirrorPlace(r, 3) = 0
  BY <1>1 DEF MirrorPlace
<1>3. e = [j \in 1..4 |-> d[4 - MirrorPlace(r, 4 - j)]]
  BY <1>1 DEF Reflected
<1>4. e[1] = d[4] /\ e[2] = d[3] /\ e[3] = d[2] /\ e[4] = d[1]
  BY <1>2, <1>3
<1>5. e \in [1..4 -> 0..2] /\ e \in [1..4 -> Int]
  <2>1. \A j \in 1..4 : j = 1 \/ j = 2 \/ j = 3 \/ j = 4
    OBVIOUS
  <2>2. \A j \in 1..4 : e[j] \in 0..2
    BY <1>1, <1>4, <2>1
  <2> QED
    BY <1>3, <2>2
<1>6. w(0) = 3^3 /\ w(1) = 3^2 /\ w(2) = 3^1 /\ w(3) = 3^0
  BY <1>2, Zenon
<1> HIDE DEF w
<1>7. Digit(l, 0) = d[4] /\ Digit(l, 1) = d[3] /\ Digit(l, 2) = d[2] /\ Digit(l, 3) = d[1]
  <2>1. \A j \in 0..4 - 1 : Digit(l, j) = d[4 - j]
    BY <1>1, DigitsOf
  <2> QED
    BY <2>1
<1> HIDE DEF l, e
<1>8. t[1] = 3^3 * d[4] /\ t[2] = 3^2 * d[3] /\ t[3] = 3^1 * d[2] /\ t[4] = 3^0 * d[1]
  <2>1. t = [m \in 1..4 |-> Digit(l, m - 1) * w(m - 1)]
    BY <1>1 DEF w, Terms
  <2> QED
    BY <1>1, <1>6, <1>7, <2>1
<1>9. t \in [1..4 -> Int]
  <2>1. \A m \in 1..4 : m = 1 \/ m = 2 \/ m = 3 \/ m = 4
    OBVIOUS
  <2>2. d[1] \in Int /\ d[2] \in Int /\ d[3] \in Int /\ d[4] \in Int
    BY <1>1
  <2>3. t[1] \in Int /\ t[2] \in Int /\ t[3] \in Int /\ t[4] \in Int
    BY <1>8, <2>2
  <2>5. t = [m \in 1..4 |-> t[m]]
    BY <1>1 DEF Terms
  <2>4. \A m \in 1..4 : t[m] \in Int
    BY <2>1, <2>3
  <2> QED
    BY <2>4, <2>5
<1> HIDE DEF t
<1>10. PICK x : IsTotal(x, 4, 0, t) /\ Mirror(r, l) = x[4]
  <2>1. t \in [1..Regions[r].digits -> Int]
    BY <1>1, <1>9, Zenon
  <2>2. \E x : IsTotal(x, Regions[r].digits, 0, t) /\ Mirror(r, l) = x[Regions[r].digits]
    BY <1>1, <2>1, MirrorTotal, Zenon DEF t
  <2> QED
    BY <1>1, <2>2, Zenon
<1>11. x[4] = t[1] + t[2] + t[3] + t[4]
  BY <1>9, <1>10, TotalOf4
<1>12. Horner(e) = x[4]
  <2>1. d[1] \in Int /\ d[2] \in Int /\ d[3] \in Int /\ d[4] \in Int
    BY <1>1
  <2>2. Horner(e) = 27 * e[1] + 9 * e[2] + 3 * e[3] + e[4]
    BY <1>5, HornerOf4
  <2> QED
    BY <1>4, <1>8, <1>11, <2>1, <2>2
<1>13. Reflected(r, e) = d
  <2>1. Reflected(r, e) = [j \in 1..4 |-> e[4 - MirrorPlace(r, 4 - j)]]
    BY <1>1 DEF Reflected
  <2>2. Reflected(r, e)[1] = d[1] /\ Reflected(r, e)[2] = d[2] /\ Reflected(r, e)[3] = d[3]
        /\ Reflected(r, e)[4] = d[4]
    BY <1>2, <1>4, <2>1
  <2>3. \A j \in 1..4 : j = 1 \/ j = 2 \/ j = 3 \/ j = 4
    OBVIOUS
  <2>4. \A j \in 1..4 : Reflected(r, e)[j] = d[j]
    BY <2>2, <2>3
  <2> QED
    BY <1>1, <2>1, <2>4
<1> QED
  BY <1>1, <1>5, <1>10, <1>12, <1>13 DEF e, l, Colours

LEMMA StateMirror ==
  ASSUME NEW r \in 1..12, NEW d \in Colours(r)
  PROVE  /\ Mirror(r, Horner(d)) = Horner(Reflected(r, d)) /\ Reflected(r, d) \in Colours(r)
         /\ Reflected(r, Reflected(r, d)) = d
<1>1. CASE r = 1
  BY <1>1, MirrorOf1
<1>2. CASE r = 2
  BY <1>2, MirrorOf2
<1>3. CASE r = 3 \/ r = 4
  BY <1>3, MirrorOf3
<1>4. CASE r = 5 \/ r = 6 \/ r = 7 \/ r = 8
  BY <1>4, MirrorOf5
<1>5. CASE r = 9
  BY <1>5, MirrorOf9
<1>6. CASE r = 10
  BY <1>6, MirrorOf10
<1>7. CASE r = 11
  BY <1>7, MirrorOf11
<1>8. CASE r = 12
  BY <1>8, MirrorOf12
<1> QED
  BY <1>1, <1>2, <1>3, <1>4, <1>5, <1>6, <1>7, <1>8

(* A state and its mirror image have one packed index. *)
LEMMA PackedAlike ==
  ASSUME NEW r \in 1..12, NEW d \in Colours(r)
  PROVE  /\ Packed(r, Horner(Reflected(r, d))) = Packed(r, Horner(d))
         /\ Packed(r, Horner(d)) \in Nat
<1> DEFINE e == Reflected(r, d)
<1>1. e \in Colours(r) /\ Reflected(r, e) = d /\ Mirror(r, Horner(d)) = Horner(e)
  BY StateMirror, Zenon
<1> HIDE DEF e
<1>2. Mirror(r, Horner(e)) = Horner(d)
  BY <1>1, StateMirror, Zenon
<1>3. Horner(d) \in Nat /\ Horner(e) \in Nat
  BY <1>1, NumberIn
<1> QED
  BY <1>1, <1>2, <1>3 DEF Packed, e

-----------------------------------------------------------------------------
(* A symmetry of the board carries the patterns of a region to each other. *)

(* What a colouring of the board shows on pattern i, and its packed index  *)
Seen(i, c) == [j \in 1..Regions[FEATURES[i].region].digits |-> c[Sq(i, j)]]
Index(i, c) == Packed(FEATURES[i].region, Horner(Seen(i, c)))
Moved(c, g) == [s \in Squares |-> c[g[s]]]

(* g carries pattern i to pattern k, or to its mirror image. *)
Carries(g, i, k) ==
  LET r == FEATURES[i].region
      n == Regions[r].digits
  IN  /\ FEATURES[k].region = r
      /\ \/ \A j \in 1..n : g[Sq(i, j)] = Sq(k, j)
         \/ \A j \in 1..n : g[Sq(i, j)] = Sq(k, n - MirrorPlace(r, n - j))

LEMMA PatternSquares ==
  ASSUME NEW i \in Features
  PROVE  /\ FEATURES[i].region \in 1..12
         /\ \A j \in 1..Regions[FEATURES[i].region].digits : Sq(i, j) \in Squares
<1> DEFINE r == FEATURES[i].region
           q == FEATURES[i].squares
           n == Regions[r].digits
<1>1. r \in 1..12 /\ q \in Seq(Squares) /\ Len(q) = n
  BY FeatureTypes DEF Pattern
<1>2. DOMAIN q = 1..n /\ \A j \in 1..n : q[j] \in Squares
  BY <1>1, LenProperties, ElementOfSeq
<1> QED
  BY <1>1, <1>2 DEF Sq

LEMMA MirrorPlaceIn ==
  ASSUME NEW r \in 1..12, NEW j \in 1..Regions[r].digits
  PROVE  Regions[r].digits - MirrorPlace(r, Regions[r].digits - j) \in 1..Regions[r].digits
<1> DEFINE n == Regions[r].digits
           k == n - j
<1>1. n \in 4..10 /\ k \in 0..n - 1
  BY RegionTypes
<1>2. MirrorPlace(r, k) \in 0..n - 1
  <2>1. CASE r = 1
    <3>1. n = 9
      BY <2>1, RegionDigits
    <3>2. k = 0 \/ k = 1 \/ k = 2 \/ k = 3 \/ k = 4 \/ k = 5 \/ k = 6 \/ k = 7 \/ k = 8
      BY <1>1, <3>1
    <3> HIDE DEF n, k
    <3> QED
      BY <2>1, <3>1, <3>2 DEF MirrorPlace
  <2>2. CASE r = 2
    <3>1. n = 10
      BY <2>2, RegionDigits
    <3> HIDE DEF n, k
    <3> QED
      BY <1>1, <2>2, <3>1 DEF MirrorPlace
  <2>3. CASE r \notin {1, 2}
    <3>1. MirrorPlace(r, k) = n - 1 - k
      BY <2>3 DEF MirrorPlace
    <3> HIDE DEF n, k
    <3> QED
      BY <1>1, <3>1
  <2> QED
    BY <2>1, <2>2, <2>3
<1> HIDE DEF n, k
<1>3. n - MirrorPlace(r, k) \in 1..n
  BY <1>1, <1>2
<1> QED
  BY <1>3 DEF n, k

LEMMA CarriedIndex ==
  ASSUME NEW g \in [Squares -> Squares], NEW c \in [Squares -> 0..2], NEW i \in Features, NEW k \in Features,
         Carries(g, i, k)
  PROVE  Index(i, Moved(c, g)) = Index(k, c)
<1> DEFINE r == FEATURES[i].region
           n == Regions[r].digits
           d == Seen(k, c)
<1>1. r \in 1..12 /\ FEATURES[k].region = r
  BY PatternSquares DEF Carries
<1>2. /\ \A j \in 1..n : Sq(i, j) \in Squares
      /\ \A j \in 1..n : Sq(k, j) \in Squares
  BY <1>1, PatternSquares
<1>3. d = [j \in 1..n |-> c[Sq(k, j)]] /\ d \in Colours(r)
  BY <1>1, <1>2 DEF Seen, Colours
<1>4. Seen(i, Moved(c, g)) = [j \in 1..n |-> c[g[Sq(i, j)]]]
  BY <1>2 DEF Seen, Moved
<1>5. Packed(r, Horner(Reflected(r, d))) = Packed(r, Horner(d))
  BY <1>1, <1>3, PackedAlike
<1>6. CASE \A j \in 1..n : g[Sq(i, j)] = Sq(k, j)
  <2>1. Seen(i, Moved(c, g)) = d
    BY <1>3, <1>4, <1>6
  <2> QED
    BY <1>1, <2>1 DEF Index
<1>7. CASE \A j \in 1..n : g[Sq(i, j)] = Sq(k, n - MirrorPlace(r, n - j))
  <2>1. Reflected(r, d) = [j \in 1..n |-> d[n - MirrorPlace(r, n - j)]]
    BY DEF Reflected
  <2>2. \A j \in 1..n : n - MirrorPlace(r, n - j) \in 1..n
    BY <1>1, MirrorPlaceIn
  <2>3. \A j \in 1..n : d[n - MirrorPlace(r, n - j)] = c[g[Sq(i, j)]]
    BY <1>3, <1>7, <2>2
  <2>4. Seen(i, Moved(c, g)) = Reflected(r, d)
    BY <1>4, <2>1, <2>3
  <2> QED
    BY <1>1, <1>5, <2>4 DEF Index
<1>8. \/ \A j \in 1..n : g[Sq(i, j)] = Sq(k, j)
      \/ \A j \in 1..n : g[Sq(i, j)] = Sq(k, n - MirrorPlace(r, n - j))
  BY DEF Carries
<1> QED
  BY <1>6, <1>7, <1>8

LEMMA CarriedBlock1 ==
  /\ Carries(HorizontalMap, 1, 2) /\ Carries(HorizontalMap, 2, 1) /\ Carries(HorizontalMap, 3, 4)
     /\ Carries(HorizontalMap, 4, 3)
  /\ Carries(DiagonalMap, 1, 1) /\ Carries(DiagonalMap, 2, 3) /\ Carries(DiagonalMap, 3, 2)
     /\ Carries(DiagonalMap, 4, 4)
<1>1. \A j \in 1..9 : j = 1 \/ j = 2 \/ j = 3 \/ j = 4 \/ j = 5 \/ j = 6 \/ j = 7 \/ j = 8 \/ j = 9
  OBVIOUS
<1>2. 9 - MirrorPlace(1, 9 - 1) = 1 /\ 9 - MirrorPlace(1, 9 - 2) = 3 /\ 9 - MirrorPlace(1, 9 - 3) = 2
      /\ 9 - MirrorPlace(1, 9 - 4) = 4 /\ 9 - MirrorPlace(1, 9 - 5) = 6 /\ 9 - MirrorPlace(1, 9 - 6) = 5
      /\ 9 - MirrorPlace(1, 9 - 7) = 8 /\ 9 - MirrorPlace(1, 9 - 8) = 7 /\ 9 - MirrorPlace(1, 9 - 9) = 9
  BY RegionDigits DEF MirrorPlace
<1>3. Carries(HorizontalMap, 1, 2)
  <2>1. \A j \in 1..9 : HorizontalMap[Sq(1, j)] = Sq(2, j)
    BY <1>1, <1>2, SquaresOf1 DEF HorizontalMap, Mirrored, Row, Col, Squares
  <2> QED
    BY <2>1, SquaresOf1, RegionDigits DEF Carries
<1>4. Carries(HorizontalMap, 2, 1)
  <2>1. \A j \in 1..9 : HorizontalMap[Sq(2, j)] = Sq(1, j)
    BY <1>1, <1>2, SquaresOf1 DEF HorizontalMap, Mirrored, Row, Col, Squares
  <2> QED
    BY <2>1, SquaresOf1, RegionDigits DEF Carries
<1>5. Carries(HorizontalMap, 3, 4)
  <2>1. \A j \in 1..9 : HorizontalMap[Sq(3, j)] = Sq(4, j)
    BY <1>1, <1>2, SquaresOf1 DEF HorizontalMap, Mirrored, Row, Col, Squares
  <2> QED
    BY <2>1, SquaresOf1, RegionDigits DEF Carries
<1>6. Carries(HorizontalMap, 4, 3)
  <2>1. \A j \in 1..9 : HorizontalMap[Sq(4, j)] = Sq(3, j)
    BY <1>1, <1>2, SquaresOf1 DEF HorizontalMap, Mirrored, Row, Col, Squares
  <2> QED
    BY <2>1, SquaresOf1, RegionDigits DEF Carries
<1>7. Carries(DiagonalMap, 1, 1)
  <2>1. \A j \in 1..9 : DiagonalMap[Sq(1, j)] = Sq(1, 9 - MirrorPlace(1, 9 - j))
    BY <1>1, <1>2, SquaresOf1 DEF DiagonalMap, Transposed, Row, Col, Squares
  <2> QED
    BY <2>1, SquaresOf1, RegionDigits DEF Carries
<1>8. Carries(DiagonalMap, 2, 3)
  <2>1. \A j \in 1..9 : DiagonalMap[Sq(2, j)] = Sq(3, j)
    BY <1>1, <1>2, SquaresOf1 DEF DiagonalMap, Transposed, Row, Col, Squares
  <2> QED
    BY <2>1, SquaresOf1, RegionDigits DEF Carries
<1>9. Carries(DiagonalMap, 3, 2)
  <2>1. \A j \in 1..9 : DiagonalMap[Sq(3, j)] = Sq(2, j)
    BY <1>1, <1>2, SquaresOf1 DEF DiagonalMap, Transposed, Row, Col, Squares
  <2> QED
    BY <2>1, SquaresOf1, RegionDigits DEF Carries
<1>10. Carries(DiagonalMap, 4, 4)
  <2>1. \A j \in 1..9 : DiagonalMap[Sq(4, j)] = Sq(4, 9 - MirrorPlace(1, 9 - j))
    BY <1>1, <1>2, SquaresOf1 DEF DiagonalMap, Transposed, Row, Col, Squares
  <2> QED
    BY <2>1, SquaresOf1, RegionDigits DEF Carries
<1> QED
  BY <1>3, <1>4, <1>5, <1>6, <1>7, <1>8, <1>9, <1>10

LEMMA CarriedBlock2 ==
  /\ Carries(HorizontalMap, 5, 6) /\ Carries(HorizontalMap, 6, 5) /\ Carries(HorizontalMap, 7, 8)
     /\ Carries(HorizontalMap, 8, 7)
  /\ Carries(DiagonalMap, 5, 5) /\ Carries(DiagonalMap, 6, 7) /\ Carries(DiagonalMap, 7, 6)
     /\ Carries(DiagonalMap, 8, 8)
<1>1. \A j \in 1..10 : j = 1 \/ j = 2 \/ j = 3 \/ j = 4 \/ j = 5 \/ j = 6 \/ j = 7 \/ j = 8 \/ j = 9 \/ j = 10
  OBVIOUS
<1>2. 10 - MirrorPlace(2, 10 - 1) = 10 /\ 10 - MirrorPlace(2, 10 - 2) = 9 /\ 10 - MirrorPlace(2, 10 - 3) = 8
      /\ 10 - MirrorPlace(2, 10 - 4) = 7 /\ 10 - MirrorPlace(2, 10 - 5) = 5 /\ 10 - MirrorPlace(2, 10 - 6) = 6
      /\ 10 - MirrorPlace(2, 10 - 7) = 4 /\ 10 - MirrorPlace(2, 10 - 8) = 3 /\ 10 - MirrorPlace(2, 10 - 9) = 2
      /\ 10 - MirrorPlace(2, 10 - 10) = 1
  BY RegionDigits DEF MirrorPlace
<1>3. Carries(HorizontalMap, 5, 6)
  <2>1. \A j \in 1..10 : HorizontalMap[Sq(5, j)] = Sq(6, j)
    BY <1>1, <1>2, SquaresOf2 DEF HorizontalMap, Mirrored, Row, Col, Squares
  <2> QED
    BY <2>1, SquaresOf2, RegionDigits DEF Carries
<1>4. Carries(HorizontalMap, 6, 5)
  <2>1. \A j \in 1..10 : HorizontalMap[Sq(6, j)] = Sq(5, j)
    BY <1>1, <1>2, SquaresOf2 DEF HorizontalMap, Mirrored, Row, Col, Squares
  <2> QED
    BY <2>1, SquaresOf2, RegionDigits DEF Carries
<1>5. Carries(HorizontalMap, 7, 8)
  <2>1. \A j \in 1..10 : HorizontalMap[Sq(7, j)] = Sq(8, j)
    BY <1>1, <1>2, SquaresOf2 DEF HorizontalMap, Mirrored, Row, Col, Squares
  <2> QED
    BY <2>1, SquaresOf2, RegionDigits DEF Carries
<1>6. Carries(HorizontalMap, 8, 7)
  <2>1. \A j \in 1..10 : HorizontalMap[Sq(8, j)] = Sq(7, j)
    BY <1>1, <1>2, SquaresOf2 DEF HorizontalMap, Mirrored, Row, Col, Squares
  <2> QED
    BY <2>1, SquaresOf2, RegionDigits DEF Carries
<1>7. Carries(DiagonalMap, 5, 5)
  <2>1. \A j \in 1..10 : DiagonalMap[Sq(5, j)] = Sq(5, 10 - MirrorPlace(2, 10 - j))
    BY <1>1, <1>2, SquaresOf2 DEF DiagonalMap, Transposed, Row, Col, Squares
  <2> QED
    BY <2>1, SquaresOf2, RegionDigits DEF Carries
<1>8. Carries(DiagonalMap, 6, 7)
  <2>1. \A j \in 1..10 : DiagonalMap[Sq(6, j)] = Sq(7, 10 - MirrorPlace(2, 10 - j))
    BY <1>1, <1>2, SquaresOf2 DEF DiagonalMap, Transposed, Row, Col, Squares
  <2> QED
    BY <2>1, SquaresOf2, RegionDigits DEF Carries
<1>9. Carries(DiagonalMap, 7, 6)
  <2>1. \A j \in 1..10 : DiagonalMap[Sq(7, j)] = Sq(6, 10 - MirrorPlace(2, 10 - j))
    BY <1>1, <1>2, SquaresOf2 DEF DiagonalMap, Transposed, Row, Col, Squares
  <2> QED
    BY <2>1, SquaresOf2, RegionDigits DEF Carries
<1>10. Carries(DiagonalMap, 8, 8)
  <2>1. \A j \in 1..10 : DiagonalMap[Sq(8, j)] = Sq(8, 10 - MirrorPlace(2, 10 - j))
    BY <1>1, <1>2, SquaresOf2 DEF DiagonalMap, Transposed, Row, Col, Squares
  <2> QED
    BY <2>1, SquaresOf2, RegionDigits DEF Carries
<1> QED
  BY <1>3, <1>4, <1>5, <1>6, <1>7, <1>8, <1>9, <1>10

LEMMA CarriedBlock3 ==
  /\ Carries(HorizontalMap, 9, 9) /\ Carries(HorizontalMap, 10, 10) /\ Carries(HorizontalMap, 11, 12)
     /\ Carries(HorizontalMap, 12, 11)
  /\ Carries(DiagonalMap, 9, 11) /\ Carries(DiagonalMap, 10, 12) /\ Carries(DiagonalMap, 11, 9)
     /\ Carries(DiagonalMap, 12, 10)
<1>1. \A j \in 1..10 : j = 1 \/ j = 2 \/ j = 3 \/ j = 4 \/ j = 5 \/ j = 6 \/ j = 7 \/ j = 8 \/ j = 9 \/ j = 10
  OBVIOUS
<1>2. 10 - MirrorPlace(3, 10 - 1) = 10 /\ 10 - MirrorPlace(3, 10 - 2) = 9 /\ 10 - MirrorPlace(3, 10 - 3) = 8
      /\ 10 - MirrorPlace(3, 10 - 4) = 7 /\ 10 - MirrorPlace(3, 10 - 5) = 6 /\ 10 - MirrorPlace(3, 10 - 6) = 5
      /\ 10 - MirrorPlace(3, 10 - 7) = 4 /\ 10 - MirrorPlace(3, 10 - 8) = 3 /\ 10 - MirrorPlace(3, 10 - 9) = 2
      /\ 10 - MirrorPlace(3, 10 - 10) = 1
  BY RegionDigits DEF MirrorPlace
<1>3. Carries(HorizontalMap, 9, 9)
  <2>1. \A j \in 1..10 : HorizontalMap[Sq(9, j)] = Sq(9, 10 - MirrorPlace(3, 10 - j))
    BY <1>1, <1>2, SquaresOf3 DEF HorizontalMap, Mirrored, Row, Col, Squares
  <2> QED
    BY <2>1, SquaresOf3, RegionDigits DEF Carries
<1>4. Carries(HorizontalMap, 10, 10)
  <2>1. \A j \in 1..10 : HorizontalMap[Sq(10, j)] = Sq(10, 10 - MirrorPlace(3, 10 - j))
    BY <1>1, <1>2, SquaresOf3 DEF HorizontalMap, Mirrored, Row, Col, Squares
  <2> QED
    BY <2>1, SquaresOf3, RegionDigits DEF Carries
<1>5. Carries(HorizontalMap, 11, 12)
  <2>1. \A j \in 1..10 : HorizontalMap[Sq(11, j)] = Sq(12, j)
    BY <1>1, <1>2, SquaresOf3 DEF HorizontalMap, Mirrored, Row, Col, Squares
  <2> QED
    BY <2>1, SquaresOf3, RegionDigits DEF Carries
<1>6. Carries(HorizontalMap, 12, 11)
  <2>1. \A j \in 1..10 : HorizontalMap[Sq(12, j)] = Sq(11, j)
    BY <1>1, <1>2, SquaresOf3 DEF HorizontalMap, Mirrored, Row, Col, Squares
  <2> QED
    BY <2>1, SquaresOf3, RegionDigits DEF Carries
<1>7. Carries(DiagonalMap, 9, 11)
  <2>1. \A j \in 1..10 : DiagonalMap[Sq(9, j)] = Sq(11, j)
    BY <1>1, <1>2, SquaresOf3 DEF DiagonalMap, Transposed, Row, Col, Squares
  <2> QED
    BY <2>1, SquaresOf3, RegionDigits DEF Carries
<1>8. Carries(DiagonalMap, 10, 12)
  <2>1. \A j \in 1..10 : DiagonalMap[Sq(10, j)] = Sq(12, j)
    BY <1>1, <1>2, SquaresOf3 DEF DiagonalMap, Transposed, Row, Col, Squares
  <2> QED
    BY <2>1, SquaresOf3, RegionDigits DEF Carries
<1>9. Carries(DiagonalMap, 11, 9)
  <2>1. \A j \in 1..10 : DiagonalMap[Sq(11, j)] = Sq(9, j)
    BY <1>1, <1>2, SquaresOf3 DEF DiagonalMap, Transposed, Row, Col, Squares
  <2> QED
    BY <2>1, SquaresOf3, RegionDigits DEF Carries
<1>10. Carries(DiagonalMap, 12, 10)
  <2>1. \A j \in 1..10 : DiagonalMap[Sq(12, j)] = Sq(10, j)
    BY <1>1, <1>2, SquaresOf3 DEF DiagonalMap, Transposed, Row, Col, Squares
  <2> QED
    BY <2>1, SquaresOf3, RegionDigits DEF Carries
<1> QED
  BY <1>3, <1>4, <1>5, <1>6, <1>7, <1>8, <1>9, <1>10

LEMMA CarriedBlock4 ==
  /\ Carries(HorizontalMap, 13, 13) /\ Carries(HorizontalMap, 14, 14) /\ Carries(HorizontalMap, 15, 16)
     /\ Carries(HorizontalMap, 16, 15)
  /\ Carries(DiagonalMap, 13, 15) /\ Carries(DiagonalMap, 14, 16) /\ Carries(DiagonalMap, 15, 13)
     /\ Carries(DiagonalMap, 16, 14)
<1>1. \A j \in 1..10 : j = 1 \/ j = 2 \/ j = 3 \/ j = 4 \/ j = 5 \/ j = 6 \/ j = 7 \/ j = 8 \/ j = 9 \/ j = 10
  OBVIOUS
<1>2. 10 - MirrorPlace(4, 10 - 1) = 10 /\ 10 - MirrorPlace(4, 10 - 2) = 9 /\ 10 - MirrorPlace(4, 10 - 3) = 8
      /\ 10 - MirrorPlace(4, 10 - 4) = 7 /\ 10 - MirrorPlace(4, 10 - 5) = 6 /\ 10 - MirrorPlace(4, 10 - 6) = 5
      /\ 10 - MirrorPlace(4, 10 - 7) = 4 /\ 10 - MirrorPlace(4, 10 - 8) = 3 /\ 10 - MirrorPlace(4, 10 - 9) = 2
      /\ 10 - MirrorPlace(4, 10 - 10) = 1
  BY RegionDigits DEF MirrorPlace
<1>3. Carries(HorizontalMap, 13, 13)
  <2>1. \A j \in 1..10 : HorizontalMap[Sq(13, j)] = Sq(13, 10 - MirrorPlace(4, 10 - j))
    BY <1>1, <1>2, SquaresOf4 DEF HorizontalMap, Mirrored, Row, Col, Squares
  <2> QED
    BY <2>1, SquaresOf4, RegionDigits DEF Carries
<1>4. Carries(HorizontalMap, 14, 14)
  <2>1. \A j \in 1..10 : HorizontalMap[Sq(14, j)] = Sq(14, 10 - MirrorPlace(4, 10 - j))
    BY <1>1, <1>2, SquaresOf4 DEF HorizontalMap, Mirrored, Row, Col, Squares
  <2> QED
    BY <2>1, SquaresOf4, RegionDigits DEF Carries
<1>5. Carries(HorizontalMap, 15, 16)
  <2>1. \A j \in 1..10 : HorizontalMap[Sq(15, j)] = Sq(16, j)
    BY <1>1, <1>2, SquaresOf4 DEF HorizontalMap, Mirrored, Row, Col, Squares
  <2> QED
    BY <2>1, SquaresOf4, RegionDigits DEF Carries
<1>6. Carries(HorizontalMap, 16, 15)
  <2>1. \A j \in 1..10 : HorizontalMap[Sq(16, j)] = Sq(15, j)
    BY <1>1, <1>2, SquaresOf4 DEF HorizontalMap, Mirrored, Row, Col, Squares
  <2> QED
    BY <2>1, SquaresOf4, RegionDigits DEF Carries
<1>7. Carries(DiagonalMap, 13, 15)
  <2>1. \A j \in 1..10 : DiagonalMap[Sq(13, j)] = Sq(15, j)
    BY <1>1, <1>2, SquaresOf4 DEF DiagonalMap, Transposed, Row, Col, Squares
  <2> QED
    BY <2>1, SquaresOf4, RegionDigits DEF Carries
<1>8. Carries(DiagonalMap, 14, 16)
  <2>1. \A j \in 1..10 : DiagonalMap[Sq(14, j)] = Sq(16, j)
    BY <1>1, <1>2, SquaresOf4 DEF DiagonalMap, Transposed, Row, Col, Squares
  <2> QED
    BY <2>1, SquaresOf4, RegionDigits DEF Carries
<1>9. Carries(DiagonalMap, 15, 13)
  <2>1. \A j \in 1..10 : DiagonalMap[Sq(15, j)] = Sq(13, j)
    BY <1>1, <1>2, SquaresOf4 DEF DiagonalMap, Transposed, Row, Col, Squares
  <2> QED
    BY <2>1, SquaresOf4, RegionDigits DEF Carries
<1>10. Carries(DiagonalMap, 16, 14)
  <2>1. \A j \in 1..10 : DiagonalMap[Sq(16, j)] = Sq(14, j)
    BY <1>1, <1>2, SquaresOf4 DEF DiagonalMap, Transposed, Row, Col, Squares
  <2> QED
    BY <2>1, SquaresOf4, RegionDigits DEF Carries
<1> QED
  BY <1>3, <1>4, <1>5, <1>6, <1>7, <1>8, <1>9, <1>10

LEMMA CarriedBlock5 ==
  /\ Carries(HorizontalMap, 17, 17) /\ Carries(HorizontalMap, 18, 18) /\ Carries(HorizontalMap, 19, 20)
     /\ Carries(HorizontalMap, 20, 19)
  /\ Carries(DiagonalMap, 17, 19) /\ Carries(DiagonalMap, 18, 20) /\ Carries(DiagonalMap, 19, 17)
     /\ Carries(DiagonalMap, 20, 18)
<1>1. \A j \in 1..8 : j = 1 \/ j = 2 \/ j = 3 \/ j = 4 \/ j = 5 \/ j = 6 \/ j = 7 \/ j = 8
  OBVIOUS
<1>2. 8 - MirrorPlace(5, 8 - 1) = 8 /\ 8 - MirrorPlace(5, 8 - 2) = 7 /\ 8 - MirrorPlace(5, 8 - 3) = 6
      /\ 8 - MirrorPlace(5, 8 - 4) = 5 /\ 8 - MirrorPlace(5, 8 - 5) = 4 /\ 8 - MirrorPlace(5, 8 - 6) = 3
      /\ 8 - MirrorPlace(5, 8 - 7) = 2 /\ 8 - MirrorPlace(5, 8 - 8) = 1
  BY RegionDigits DEF MirrorPlace
<1>3. Carries(HorizontalMap, 17, 17)
  <2>1. \A j \in 1..8 : HorizontalMap[Sq(17, j)] = Sq(17, 8 - MirrorPlace(5, 8 - j))
    BY <1>1, <1>2, SquaresOf5 DEF HorizontalMap, Mirrored, Row, Col, Squares
  <2> QED
    BY <2>1, SquaresOf5, RegionDigits DEF Carries
<1>4. Carries(HorizontalMap, 18, 18)
  <2>1. \A j \in 1..8 : HorizontalMap[Sq(18, j)] = Sq(18, 8 - MirrorPlace(5, 8 - j))
    BY <1>1, <1>2, SquaresOf5 DEF HorizontalMap, Mirrored, Row, Col, Squares
  <2> QED
    BY <2>1, SquaresOf5, RegionDigits DEF Carries
<1>5. Carries(HorizontalMap, 19, 20)
  <2>1. \A j \in 1..8 : HorizontalMap[Sq(19, j)] = Sq(20, j)
    BY <1>1, <1>2, SquaresOf5 DEF HorizontalMap, Mirrored, Row, Col, Squares
  <2> QED
    BY <2>1, SquaresOf5, RegionDigits DEF Carries
<1>6. Carries(HorizontalMap, 20, 19)
  <2>1. \A j \in 1..8 : HorizontalMap[Sq(20, j)] = Sq(19, j)
    BY <1>1, <1>2, SquaresOf5 DEF HorizontalMap, Mirrored, Row, Col, Squares
  <2> QED
    BY <2>1, SquaresOf5, RegionDigits DEF Carries
<1>7. Carries(DiagonalMap, 17, 19)
  <2>1. \A j \in 1..8 : DiagonalMap[Sq(17, j)] = Sq(19, j)
    BY <1>1, <1>2, SquaresOf5 DEF DiagonalMap, Transposed, Row, Col, Squares
  <2> QED
    BY <2>1, SquaresOf5, RegionDigits DEF Carries
<1>8. Carries(DiagonalMap, 18, 20)
  <2>1. \A j \in 1..8 : DiagonalMap[Sq(18, j)] = Sq(20, j)
    BY <1>1, <1>2, SquaresOf5 DEF DiagonalMap, Transposed, Row, Col, Squares
  <2> QED
    BY <2>1, SquaresOf5, RegionDigits DEF Carries
<1>9. Carries(DiagonalMap, 19, 17)
  <2>1. \A j \in 1..8 : DiagonalMap[Sq(19, j)] = Sq(17, j)
    BY <1>1, <1>2, SquaresOf5 DEF DiagonalMap, Transposed, Row, Col, Squares
  <2> QED
    BY <2>1, SquaresOf5, RegionDigits DEF Carries
<1>10. Carries(DiagonalMap, 20, 18)
  <2>1. \A j \in 1..8 : DiagonalMap[Sq(20, j)] = Sq(18, j)
    BY <1>1, <1>2, SquaresOf5 DEF DiagonalMap, Transposed, Row, Col, Squares
  <2> QED
    BY <2>1, SquaresOf5, RegionDigits DEF Carries
<1> QED
  BY <1>3, <1>4, <1>5, <1>6, <1>7, <1>8, <1>9, <1>10

LEMMA CarriedBlock6 ==
  /\ Carries(HorizontalMap, 21, 21) /\ Carries(HorizontalMap, 22, 22) /\ Carries(HorizontalMap, 23, 24)
     /\ Carries(HorizontalMap, 24, 23)
  /\ Carries(DiagonalMap, 21, 23) /\ Carries(DiagonalMap, 22, 24) /\ Carries(DiagonalMap, 23, 21)
     /\ Carries(DiagonalMap, 24, 22)
<1>1. \A j \in 1..8 : j = 1 \/ j = 2 \/ j = 3 \/ j = 4 \/ j = 5 \/ j = 6 \/ j = 7 \/ j = 8
  OBVIOUS
<1>2. 8 - MirrorPlace(6, 8 - 1) = 8 /\ 8 - MirrorPlace(6, 8 - 2) = 7 /\ 8 - MirrorPlace(6, 8 - 3) = 6
      /\ 8 - MirrorPlace(6, 8 - 4) = 5 /\ 8 - MirrorPlace(6, 8 - 5) = 4 /\ 8 - MirrorPlace(6, 8 - 6) = 3
      /\ 8 - MirrorPlace(6, 8 - 7) = 2 /\ 8 - MirrorPlace(6, 8 - 8) = 1
  BY RegionDigits DEF MirrorPlace
<1>3. Carries(HorizontalMap, 21, 21)
  <2>1. \A j \in 1..8 : HorizontalMap[Sq(21, j)] = Sq(21, 8 - MirrorPlace(6, 8 - j))
    BY <1>1, <1>2, SquaresOf6 DEF HorizontalMap, Mirrored, Row, Col, Squares
  <2> QED
    BY <2>1, SquaresOf6, RegionDigits DEF Carries
<1>4. Carries(HorizontalMap, 22, 22)
  <2>1. \A j \in 1..8 : HorizontalMap[Sq(22, j)] = Sq(22, 8 - MirrorPlace(6, 8 - j))
    BY <1>1, <1>2, SquaresOf6 DEF HorizontalMap, Mirrored, Row, Col, Squares
  <2> QED
    BY <2>1, SquaresOf6, RegionDigits DEF Carries
<1>5. Carries(HorizontalMap, 23, 24)
  <2>1. \A j \in 1..8 : HorizontalMap[Sq(23, j)] = Sq(24, j)
    BY <1>1, <1>2, SquaresOf6 DEF HorizontalMap, Mirrored, Row, Col, Squares
  <2> QED
    BY <2>1, SquaresOf6, RegionDigits DEF Carries
<1>6. Carries(HorizontalMap, 24, 23)
  <2>1. \A j \in 1..8 : HorizontalMap[Sq(24, j)] = Sq(23, j)
    BY <1>1, <1>2, SquaresOf6 DEF HorizontalMap, Mirrored, Row, Col, Squares
  <2> QED
    BY <2>1, SquaresOf6, RegionDigits DEF Carries
<1>7. Carries(DiagonalMap, 21, 23)
  <2>1. \A j \in 1..8 : DiagonalMap[Sq(21, j)] = Sq(23, j)
    BY <1>1, <1>2, SquaresOf6 DEF DiagonalMap, Transposed, Row, Col, Squares
  <2> QED
    BY <2>1, SquaresOf6, RegionDigits DEF Carries
<1>8. Carries(DiagonalMap, 22, 24)
  <2>1. \A j \in 1..8 : DiagonalMap[Sq(22, j)] = Sq(24, j)
    BY <1>1, <1>2, SquaresOf6 DEF DiagonalMap, Transposed, Row, Col, Squares
  <2> QED
    BY <2>1, SquaresOf6, RegionDigits DEF Carries
<1>9. Carries(DiagonalMap, 23, 21)
  <2>1. \A j \in 1..8 : DiagonalMap[Sq(23, j)] = Sq(21, j)
    BY <1>1, <1>2, SquaresOf6 DEF DiagonalMap, Transposed, Row, Col, Squares
  <2> QED
    BY <2>1, SquaresOf6, RegionDigits DEF Carries
<1>10. Carries(DiagonalMap, 24, 22)
  <2>1. \A j \in 1..8 : DiagonalMap[Sq(24, j)] = Sq(22, j)
    BY <1>1, <1>2, SquaresOf6 DEF DiagonalMap, Transposed, Row, Col, Squares
  <2> QED
    BY <2>1, SquaresOf6, RegionDigits DEF Carries
<1> QED
  BY <1>3, <1>4, <1>5, <1>6, <1>7, <1>8, <1>9, <1>10

LEMMA CarriedBlock7 ==
  /\ Carries(HorizontalMap, 25, 25) /\ Carries(HorizontalMap, 26, 26) /\ Carries(HorizontalMap, 27, 28)
     /\ Carries(HorizontalMap, 28, 27)
  /\ Carries(DiagonalMap, 25, 27) /\ Carries(DiagonalMap, 26, 28) /\ Carries(DiagonalMap, 27, 25)
     /\ Carries(DiagonalMap, 28, 26)
<1>1. \A j \in 1..8 : j = 1 \/ j = 2 \/ j = 3 \/ j = 4 \/ j = 5 \/ j = 6 \/ j = 7 \/ j = 8
  OBVIOUS
<1>2. 8 - MirrorPlace(7, 8 - 1) = 8 /\ 8 - MirrorPlace(7, 8 - 2) = 7 /\ 8 - MirrorPlace(7, 8 - 3) = 6
      /\ 8 - MirrorPlace(7, 8 - 4) = 5 /\ 8 - MirrorPlace(7, 8 - 5) = 4 /\ 8 - MirrorPlace(7, 8 - 6) = 3
      /\ 8 - MirrorPlace(7, 8 - 7) = 2 /\ 8 - MirrorPlace(7, 8 - 8) = 1
  BY RegionDigits DEF MirrorPlace
<1>3. Carries(HorizontalMap, 25, 25)
  <2>1. \A j \in 1..8 : HorizontalMap[Sq(25, j)] = Sq(25, 8 - MirrorPlace(7, 8 - j))
    BY <1>1, <1>2, SquaresOf7 DEF HorizontalMap, Mirrored, Row, Col, Squares
  <2> QED
    BY <2>1, SquaresOf7, RegionDigits DEF Carries
<1>4. Carries(HorizontalMap, 26, 26)
  <2>1. \A j \in 1..8 : HorizontalMap[Sq(26, j)] = Sq(26, 8 - MirrorPlace(7, 8 - j))
    BY <1>1, <1>2, SquaresOf7 DEF HorizontalMap, Mirrored, Row, Col, Squares
  <2> QED
    BY <2>1, SquaresOf7, RegionDigits DEF Carries
<1>5. Carries(HorizontalMap, 27, 28)
  <2>1. \A j \in 1..8 : HorizontalMap[Sq(27, j)] = Sq(28, j)
    BY <1>1, <1>2, SquaresOf7 DEF HorizontalMap, Mirrored, Row, Col, Squares
  <2> QED
    BY <2>1, SquaresOf7, RegionDigits DEF Carries
<1>6. Carries(HorizontalMap, 28, 27)
  <2>1. \A j \in 1..8 : HorizontalMap[Sq(28, j)] = Sq(27, j)
    BY <1>1, <1>2, SquaresOf7 DEF HorizontalMap, Mirrored, Row, Col, Squares
  <2> QED
    BY <2>1, SquaresOf7, RegionDigits DEF Carries
<1>7. Carries(DiagonalMap, 25, 27)
  <2>1. \A j \in 1..8 : DiagonalMap[Sq(25, j)] = Sq(27, j)
    BY <1>1, <1>2, SquaresOf7 DEF DiagonalMap, Transposed, Row, Col, Squares
  <2> QED
    BY <2>1, SquaresOf7, RegionDigits DEF Carries
<1>8. Carries(DiagonalMap, 26, 28)
  <2>1. \A j \in 1..8 : DiagonalMap[Sq(26, j)] = Sq(28, j)
    BY <1>1, <1>2, SquaresOf7 DEF DiagonalMap, Transposed, Row, Col, Squares
  <2> QED
    BY <2>1, SquaresOf7, RegionDigits DEF Carries
<1>9. Carries(DiagonalMap, 27, 25)
  <2>1. \A j \in 1..8 : DiagonalMap[Sq(27, j)] = Sq(25, j)
    BY <1>1, <1>2, SquaresOf7 DEF DiagonalMap, Transposed, Row, Col, Squares
  <2> QED
    BY <2>1, SquaresOf7, RegionDigits DEF Carries
<1>10. Carries(DiagonalMap, 28, 26)
  <2>1. \A j \in 1..8 : DiagonalMap[Sq(28, j)] = Sq(26, j)
    BY <1>1, <1>2, SquaresOf7 DEF DiagonalMap, Transposed, Row, Col, Squares
  <2> QED
    BY <2>1, SquaresOf7, RegionDigits DEF Carries
<1> QED
  BY <1>3, <1>4, <1>5, <1>6, <1>7, <1>8, <1>9, <1>10

LEMMA CarriedBlock8 ==
  /\ Carries(HorizontalMap, 29, 30) /\ Carries(HorizontalMap, 30, 29)
  /\ Carries(DiagonalMap, 29, 29) /\ Carries(DiagonalMap, 30, 30)
<1>1. \A j \in 1..8 : j = 1 \/ j = 2 \/ j = 3 \/ j = 4 \/ j = 5 \/ j = 6 \/ j = 7 \/ j = 8
  OBVIOUS
<1>2. 8 - MirrorPlace(8, 8 - 1) = 8 /\ 8 - MirrorPlace(8, 8 - 2) = 7 /\ 8 - MirrorPlace(8, 8 - 3) = 6
      /\ 8 - MirrorPlace(8, 8 - 4) = 5 /\ 8 - MirrorPlace(8, 8 - 5) = 4 /\ 8 - MirrorPlace(8, 8 - 6) = 3
      /\ 8 - MirrorPlace(8, 8 - 7) = 2 /\ 8 - MirrorPlace(8, 8 - 8) = 1
  BY RegionDigits DEF MirrorPlace
<1>3. Carries(HorizontalMap, 29, 30)
  <2>1. \A j \in 1..8 : HorizontalMap[Sq(29, j)] = Sq(30, 8 - MirrorPlace(8, 8 - j))
    BY <1>1, <1>2, SquaresOf8 DEF HorizontalMap, Mirrored, Row, Col, Squares
  <2> QED
    BY <2>1, SquaresOf8, RegionDigits DEF Carries
<1>4. Carries(HorizontalMap, 30, 29)
  <2>1. \A j \in 1..8 : HorizontalMap[Sq(30, j)] = Sq(29, 8 - MirrorPlace(8, 8 - j))
    BY <1>1, <1>2, SquaresOf8 DEF HorizontalMap, Mirrored, Row, Col, Squares
  <2> QED
    BY <2>1, SquaresOf8, RegionDigits DEF Carries
<1>5. Carries(DiagonalMap, 29, 29)
  <2>1. \A j \in 1..8 : DiagonalMap[Sq(29, j)] = Sq(29, j)
    BY <1>1, <1>2, SquaresOf8 DEF DiagonalMap, Transposed, Row, Col, Squares
  <2> QED
    BY <2>1, SquaresOf8, RegionDigits DEF Carries
<1>6. Carries(DiagonalMap, 30, 30)
  <2>1. \A j \in 1..8 : DiagonalMap[Sq(30, j)] = Sq(30, 8 - MirrorPlace(8, 8 - j))
    BY <1>1, <1>2, SquaresOf8 DEF DiagonalMap, Transposed, Row, Col, Squares
  <2> QED
    BY <2>1, SquaresOf8, RegionDigits DEF Carries
<1> QED
  BY <1>3, <1>4, <1>5, <1>6

LEMMA CarriedBlock9 ==
  /\ Carries(HorizontalMap, 31, 34) /\ Carries(HorizontalMap, 32, 33) /\ Carries(HorizontalMap, 33, 32)
     /\ Carries(HorizontalMap, 34, 31)
  /\ Carries(DiagonalMap, 31, 33) /\ Carries(DiagonalMap, 32, 32) /\ Carries(DiagonalMap, 33, 31)
     /\ Carries(DiagonalMap, 34, 34)
<1>1. \A j \in 1..7 : j = 1 \/ j = 2 \/ j = 3 \/ j = 4 \/ j = 5 \/ j = 6 \/ j = 7
  OBVIOUS
<1>2. 7 - MirrorPlace(9, 7 - 1) = 7 /\ 7 - MirrorPlace(9, 7 - 2) = 6 /\ 7 - MirrorPlace(9, 7 - 3) = 5
      /\ 7 - MirrorPlace(9, 7 - 4) = 4 /\ 7 - MirrorPlace(9, 7 - 5) = 3 /\ 7 - MirrorPlace(9, 7 - 6) = 2
      /\ 7 - MirrorPlace(9, 7 - 7) = 1
  BY RegionDigits DEF MirrorPlace
<1>3. Carries(HorizontalMap, 31, 34)
  <2>1. \A j \in 1..7 : HorizontalMap[Sq(31, j)] = Sq(34, j)
    BY <1>1, <1>2, SquaresOf9 DEF HorizontalMap, Mirrored, Row, Col, Squares
  <2> QED
    BY <2>1, SquaresOf9, RegionDigits DEF Carries
<1>4. Carries(HorizontalMap, 32, 33)
  <2>1. \A j \in 1..7 : HorizontalMap[Sq(32, j)] = Sq(33, j)
    BY <1>1, <1>2, SquaresOf9 DEF HorizontalMap, Mirrored, Row, Col, Squares
  <2> QED
    BY <2>1, SquaresOf9, RegionDigits DEF Carries
<1>5. Carries(HorizontalMap, 33, 32)
  <2>1. \A j \in 1..7 : HorizontalMap[Sq(33, j)] = Sq(32, j)
    BY <1>1, <1>2, SquaresOf9 DEF HorizontalMap, Mirrored, Row, Col, Squares
  <2> QED
    BY <2>1, SquaresOf9, RegionDigits DEF Carries
<1>6. Carries(HorizontalMap, 34, 31)
  <2>1. \A j \in 1..7 : HorizontalMap[Sq(34, j)] = Sq(31, j)
    BY <1>1, <1>2, SquaresOf9 DEF HorizontalMap, Mirrored, Row, Col, Squares
  <2> QED
    BY <2>1, SquaresOf9, RegionDigits DEF Carries
<1>7. Carries(DiagonalMap, 31, 33)
  <2>1. \A j \in 1..7 : DiagonalMap[Sq(31, j)] = Sq(33, j)
    BY <1>1, <1>2, SquaresOf9 DEF DiagonalMap, Transposed, Row, Col, Squares
  <2> QED
    BY <2>1, SquaresOf9, RegionDigits DEF Carries
<1>8. Carries(DiagonalMap, 32, 32)
  <2>1. \A j \in 1..7 : DiagonalMap[Sq(32, j)] = Sq(32, 7 - MirrorPlace(9, 7 - j))
    BY <1>1, <1>2, SquaresOf9 DEF DiagonalMap, Transposed, Row, Col, Squares
  <2> QED
    BY <2>1, SquaresOf9, RegionDigits DEF Carries
<1>9. Carries(DiagonalMap, 33, 31)
  <2>1. \A j \in 1..7 : DiagonalMap[Sq(33, j)] = Sq(31, j)
    BY <1>1, <1>2, SquaresOf9 DEF DiagonalMap, Transposed, Row, Col, Squares
  <2> QED
    BY <2>1, SquaresOf9, RegionDigits DEF Carries
<1>10. Carries(DiagonalMap, 34, 34)
  <2>1. \A j \in 1..7 : DiagonalMap[Sq(34, j)] = Sq(34, 7 - MirrorPlace(9, 7 - j))
    BY <1>1, <1>2, SquaresOf9 DEF DiagonalMap, Transposed, Row, Col, Squares
  <2> QED
    BY <2>1, SquaresOf9, RegionDigits DEF Carries
<1> QED
  BY <1>3, <1>4, <1>5, <1>6, <1>7, <1>8, <1>9, <1>10

LEMMA CarriedBlock10 ==
  /\ Carries(HorizontalMap, 35, 37) /\ Carries(HorizontalMap, 36, 38) /\ Carries(HorizontalMap, 37, 35)
     /\ Carries(HorizontalMap, 38, 36)
  /\ Carries(DiagonalMap, 35, 36) /\ Carries(DiagonalMap, 36, 35) /\ Carries(DiagonalMap, 37, 37)
     /\ Carries(DiagonalMap, 38, 38)
<1>1. \A j \in 1..6 : j = 1 \/ j = 2 \/ j = 3 \/ j = 4 \/ j = 5 \/ j = 6
  OBVIOUS
<1>2. 6 - MirrorPlace(10, 6 - 1) = 6 /\ 6 - MirrorPlace(10, 6 - 2) = 5 /\ 6 - MirrorPlace(10, 6 - 3) = 4
      /\ 6 - MirrorPlace(10, 6 - 4) = 3 /\ 6 - MirrorPlace(10, 6 - 5) = 2 /\ 6 - MirrorPlace(10, 6 - 6) = 1
  BY RegionDigits DEF MirrorPlace
<1>3. Carries(HorizontalMap, 35, 37)
  <2>1. \A j \in 1..6 : HorizontalMap[Sq(35, j)] = Sq(37, j)
    BY <1>1, <1>2, SquaresOf10 DEF HorizontalMap, Mirrored, Row, Col, Squares
  <2> QED
    BY <2>1, SquaresOf10, RegionDigits DEF Carries
<1>4. Carries(HorizontalMap, 36, 38)
  <2>1. \A j \in 1..6 : HorizontalMap[Sq(36, j)] = Sq(38, j)
    BY <1>1, <1>2, SquaresOf10 DEF HorizontalMap, Mirrored, Row, Col, Squares
  <2> QED
    BY <2>1, SquaresOf10, RegionDigits DEF Carries
<1>5. Carries(HorizontalMap, 37, 35)
  <2>1. \A j \in 1..6 : HorizontalMap[Sq(37, j)] = Sq(35, j)
    BY <1>1, <1>2, SquaresOf10 DEF HorizontalMap, Mirrored, Row, Col, Squares
  <2> QED
    BY <2>1, SquaresOf10, RegionDigits DEF Carries
<1>6. Carries(HorizontalMap, 38, 36)
  <2>1. \A j \in 1..6 : HorizontalMap[Sq(38, j)] = Sq(36, j)
    BY <1>1, <1>2, SquaresOf10 DEF HorizontalMap, Mirrored, Row, Col, Squares
  <2> QED
    BY <2>1, SquaresOf10, RegionDigits DEF Carries
<1>7. Carries(DiagonalMap, 35, 36)
  <2>1. \A j \in 1..6 : DiagonalMap[Sq(35, j)] = Sq(36, j)
    BY <1>1, <1>2, SquaresOf10 DEF DiagonalMap, Transposed, Row, Col, Squares
  <2> QED
    BY <2>1, SquaresOf10, RegionDigits DEF Carries
<1>8. Carries(DiagonalMap, 36, 35)
  <2>1. \A j \in 1..6 : DiagonalMap[Sq(36, j)] = Sq(35, j)
    BY <1>1, <1>2, SquaresOf10 DEF DiagonalMap, Transposed, Row, Col, Squares
  <2> QED
    BY <2>1, SquaresOf10, RegionDigits DEF Carries
<1>9. Carries(DiagonalMap, 37, 37)
  <2>1. \A j \in 1..6 : DiagonalMap[Sq(37, j)] = Sq(37, 6 - MirrorPlace(10, 6 - j))
    BY <1>1, <1>2, SquaresOf10 DEF DiagonalMap, Transposed, Row, Col, Squares
  <2> QED
    BY <2>1, SquaresOf10, RegionDigits DEF Carries
<1>10. Carries(DiagonalMap, 38, 38)
  <2>1. \A j \in 1..6 : DiagonalMap[Sq(38, j)] = Sq(38, 6 - MirrorPlace(10, 6 - j))
    BY <1>1, <1>2, SquaresOf10 DEF DiagonalMap, Transposed, Row, Col, Squares
  <2> QED
    BY <2>1, SquaresOf10, RegionDigits DEF Carries
<1> QED
  BY <1>3, <1>4, <1>5, <1>6, <1>7, <1>8, <1>9, <1>10

LEMMA CarriedBlock11 ==
  /\ Carries(HorizontalMap, 39, 41) /\ Carries(HorizontalMap, 40, 42) /\ Carries(HorizontalMap, 41, 39)
     /\ Carries(HorizontalMap, 42, 40)
  /\ Carries(DiagonalMap, 39, 40) /\ Carries(DiagonalMap, 40, 39) /\ Carries(DiagonalMap, 41, 41)
     /\ Carries(DiagonalMap, 42, 42)
<1>1. \A j \in 1..5 : j = 1 \/ j = 2 \/ j = 3 \/ j = 4 \/ j = 5
  OBVIOUS
<1>2. 5 - MirrorPlace(11, 5 - 1) = 5 /\ 5 - MirrorPlace(11, 5 - 2) = 4 /\ 5 - MirrorPlace(11, 5 - 3) = 3
      /\ 5 - MirrorPlace(11, 5 - 4) = 2 /\ 5 - MirrorPlace(11, 5 - 5) = 1
  BY RegionDigits DEF MirrorPlace
<1>3. Carries(HorizontalMap, 39, 41)
  <2>1. \A j \in 1..5 : HorizontalMap[Sq(39, j)] = Sq(41, j)
    BY <1>1, <1>2, SquaresOf11 DEF HorizontalMap, Mirrored, Row, Col, Squares
  <2> QED
    BY <2>1, SquaresOf11, RegionDigits DEF Carries
<1>4. Carries(HorizontalMap, 40, 42)
  <2>1. \A j \in 1..5 : HorizontalMap[Sq(40, j)] = Sq(42, j)
    BY <1>1, <1>2, SquaresOf11 DEF HorizontalMap, Mirrored, Row, Col, Squares
  <2> QED
    BY <2>1, SquaresOf11, RegionDigits DEF Carries
<1>5. Carries(HorizontalMap, 41, 39)
  <2>1. \A j \in 1..5 : HorizontalMap[Sq(41, j)] = Sq(39, j)
    BY <1>1, <1>2, SquaresOf11 DEF HorizontalMap, Mirrored, Row, Col, Squares
  <2> QED
    BY <2>1, SquaresOf11, RegionDigits DEF Carries
<1>6. Carries(HorizontalMap, 42, 40)
  <2>1. \A j \in 1..5 : HorizontalMap[Sq(42, j)] = Sq(40, j)
    BY <1>1, <1>2, SquaresOf11 DEF HorizontalMap, Mirrored, Row, Col, Squares
  <2> QED
    BY <2>1, SquaresOf11, RegionDigits DEF Carries
<1>7. Carries(DiagonalMap, 39, 40)
  <2>1. \A j \in 1..5 : DiagonalMap[Sq(39, j)] = Sq(40, j)
    BY <1>1, <1>2, SquaresOf11 DEF DiagonalMap, Transposed, Row, Col, Squares
  <2> QED
    BY <2>1, SquaresOf11, RegionDigits DEF Carries
<1>8. Carries(DiagonalMap, 40, 39)
  <2>1. \A j \in 1..5 : DiagonalMap[Sq(40, j)] = Sq(39, j)
    BY <1>1, <1>2, SquaresOf11 DEF DiagonalMap, Transposed, Row, Col, Squares
  <2> QED
    BY <2>1, SquaresOf11, RegionDigits DEF Carries
<1>9. Carries(DiagonalMap, 41, 41)
  <2>1. \A j \in 1..5 : DiagonalMap[Sq(41, j)] = Sq(41, 5 - MirrorPlace(11, 5 - j))
    BY <1>1, <1>2, SquaresOf11 DEF DiagonalMap, Transposed, Row, Col, Squares
  <2> QED
    BY <2>1, SquaresOf11, RegionDigits DEF Carries
<1>10. Carries(DiagonalMap, 42, 42)
  <2>1. \A j \in 1..5 : DiagonalMap[Sq(42, j)] = Sq(42, 5 - MirrorPlace(11, 5 - j))
    BY <1>1, <1>2, SquaresOf11 DEF DiagonalMap, Transposed, Row, Col, Squares
  <2> QED
    BY <2>1, SquaresOf11, RegionDigits DEF Carries
<1> QED
  BY <1>3, <1>4, <1>5, <1>6, <1>7, <1>8, <1>9, <1>10

LEMMA CarriedBlock12 ==
  /\ Carries(HorizontalMap, 43, 45) /\ Carries(HorizontalMap, 44, 46) /\ Carries(HorizontalMap, 45, 43)
     /\ Carries(HorizontalMap, 46, 44)
  /\ Carries(DiagonalMap, 43, 43) /\ Carries(DiagonalMap, 44, 45) /\ Carries(DiagonalMap, 45, 44)
     /\ Carries(DiagonalMap, 46, 46)
<1>1. \A j \in 1..4 : j = 1 \/ j = 2 \/ j = 3 \/ j = 4
  OBVIOUS
<1>2. 4 - MirrorPlace(12, 4 - 1) = 4 /\ 4 - MirrorPlace(12, 4 - 2) = 3 /\ 4 - MirrorPlace(12, 4 - 3) = 2
      /\ 4 - MirrorPlace(12, 4 - 4) = 1
  BY RegionDigits DEF MirrorPlace
<1>3. Carries(HorizontalMap, 43, 45)
  <2>1. \A j \in 1..4 : HorizontalMap[Sq(43, j)] = Sq(45, j)
    BY <1>1, <1>2, SquaresOf12 DEF HorizontalMap, Mirrored, Row, Col, Squares
  <2> QED
    BY <2>1, SquaresOf12, RegionDigits DEF Carries
<1>4. Carries(HorizontalMap, 44, 46)
  <2>1. \A j \in 1..4 : HorizontalMap[Sq(44, j)] = Sq(46, j)
    BY <1>1, <1>2, SquaresOf12 DEF HorizontalMap, Mirrored, Row, Col, Squares
  <2> QED
    BY <2>1, SquaresOf12, RegionDigits DEF Carries
<1>5. Carries(HorizontalMap, 45, 43)
  <2>1. \A j \in 1..4 : HorizontalMap[Sq(45, j)] = Sq(43, j)
    BY <1>1, <1>2, SquaresOf12 DEF HorizontalMap, Mirrored, Row, Col, Squares
  <2> QED
    BY <2>1, SquaresOf12, RegionDigits DEF Carries
<1>6. Carries(HorizontalMap, 46, 44)
  <2>1. \A j \in 1..4 : HorizontalMap[Sq(46, j)] = Sq(44, j)
    BY <1>1, <1>2, SquaresOf12 DEF HorizontalMap, Mirrored, Row, Col, Squares
  <2> QED
    BY <2>1, SquaresOf12, RegionDigits DEF Carries
<1>7. Carries(DiagonalMap, 43, 43)
  <2>1. \A j \in 1..4 : DiagonalMap[Sq(43, j)] = Sq(43, 4 - MirrorPlace(12, 4 - j))
    BY <1>1, <1>2, SquaresOf12 DEF DiagonalMap, Transposed, Row, Col, Squares
  <2> QED
    BY <2>1, SquaresOf12, RegionDigits DEF Carries
<1>8. Carries(DiagonalMap, 44, 45)
  <2>1. \A j \in 1..4 : DiagonalMap[Sq(44, j)] = Sq(45, j)
    BY <1>1, <1>2, SquaresOf12 DEF DiagonalMap, Transposed, Row, Col, Squares
  <2> QED
    BY <2>1, SquaresOf12, RegionDigits DEF Carries
<1>9. Carries(DiagonalMap, 45, 44)
  <2>1. \A j \in 1..4 : DiagonalMap[Sq(45, j)] = Sq(44, j)
    BY <1>1, <1>2, SquaresOf12 DEF DiagonalMap, Transposed, Row, Col, Squares
  <2> QED
    BY <2>1, SquaresOf12, RegionDigits DEF Carries
<1>10. Carries(DiagonalMap, 46, 46)
  <2>1. \A j \in 1..4 : DiagonalMap[Sq(46, j)] = Sq(46, 4 - MirrorPlace(12, 4 - j))
    BY <1>1, <1>2, SquaresOf12 DEF DiagonalMap, Transposed, Row, Col, Squares
  <2> QED
    BY <2>1, SquaresOf12, RegionDigits DEF Carries
<1> QED
  BY <1>3, <1>4, <1>5, <1>6, <1>7, <1>8, <1>9, <1>10

=============================================================================

------------------------ MODULE JobSelection_proof --------------------------
(* The lower bound of the scan for positions to learn, however stale, and  *)
(* the arithmetic of search levels that it rests on.                       *)
EXTENDS JobSelection, FiniteSetTheorems, WellFoundedInduction, TLAPS

-----------------------------------------------------------------------------
LEMMA MinIs == ASSUME NEW S \in SUBSET Nat, NEW m \in S, \A x \in S : m <= x PROVE Min(S) = m
<1>1. ASSUME NEW x \in S, \A y \in S : x <= y PROVE x = m
  BY <1>1
<1> QED
  BY <1>1 DEF Min

LEMMA MinIsLeast ==
  ASSUME NEW S \in SUBSET Nat, S # {}
  PROVE  Min(S) \in S /\ \A x \in S : Min(S) <= x
<1>1. PICK m \in S : \A y \in S : ~(<<y, m>> \in OpToRel(<, Nat))
  BY NatLessThanWellFounded, WFMin
<1>2. ASSUME NEW x \in S PROVE m <= x
  <2>1. <<x, m>> \notin OpToRel(<, Nat)
    BY <1>1
  <2>2. x \in Nat /\ m \in Nat
    OBVIOUS
  <2> QED
    BY <2>1, <2>2 DEF OpToRel
<1> QED
  BY <1>2, MinIs

-----------------------------------------------------------------------------
(* The first tier that covers a disc count is its target. *)
LEMMA TargetLevels ==
  ASSUME NEW d \in 0..BoardSquares
  PROVE  TargetLevel(d) = IF d <= 13 THEN 40 ELSE IF d <= 16 THEN 36 ELSE IF d <= 20 THEN 34 ELSE 32
<1> DEFINE covering == {i \in DOMAIN TargetLevelTiers : d <= TargetLevelTiers[i][1]}
           first == IF d <= 13 THEN 1 ELSE IF d <= 16 THEN 2 ELSE IF d <= 20 THEN 3 ELSE 4
<1>1. covering \in SUBSET Nat /\ first \in covering /\ \A i \in covering : first <= i
  BY DEF TargetLevelTiers, BoardSquares
<1>2. Min(covering) = first
  <2> HIDE DEF covering, first
  <2> QED
    BY <1>1, MinIs
<1>3. TargetLevel(d) = TargetLevelTiers[first][2]
  BY <1>2 DEF TargetLevel
<1> QED
  BY <1>3 DEF TargetLevelTiers

LEMMA TargetLevelRange == ASSUME NEW d \in 0..BoardSquares PROVE TargetLevel(d) \in 32..MaxLevel
  BY TargetLevels DEF MaxLevel

LEMMA EffectiveTargetRange ==
  ASSUME NEW d \in 0..BoardSquares
  PROVE  EffectiveTargetLevel(d) \in 32..MaxLevel
<1>1. Min({d, MaxSavableDiscs}) \in {d, MaxSavableDiscs}
  BY MinIsLeast DEF MaxSavableDiscs, BoardSquares
<1> QED
  BY <1>1, TargetLevelRange DEF EffectiveTargetLevel, MaxSavableDiscs, BoardSquares

-----------------------------------------------------------------------------
(* A position with more empty squares than every band is searched to the   *)
(* level's own depth; one within some band is played out.                  *)
LEMMA BandMidgame ==
  ASSUME NEW l \in 11..40, NEW e \in 0..BoardSquares,
         \A i \in DOMAIN Bands(l) : Bands(l)[i][1] < e
  PROVE  BandSearch(l, e) = [depth |-> l, selectivity |-> 0]
<1>1. \A i \in DOMAIN Bands(l) : Bands(l)[i][1] \in Nat
  BY DEF Bands
<1>2. {i \in DOMAIN Bands(l) : e <= Bands(l)[i][1]} = {}
  <2> HIDE DEF Bands
  <2> QED
    BY <1>1, SMT DEF BoardSquares
<1> QED
  BY <1>2 DEF BandSearch

LEMMA BandEndgame ==
  ASSUME NEW l \in 11..40, NEW e \in 0..BoardSquares, NEW k \in DOMAIN Bands(l) \cap Nat,
         e <= Bands(l)[k][1], \A i \in DOMAIN Bands(l) : i < k => Bands(l)[i][1] < e
  PROVE  BandSearch(l, e) = [depth |-> e, selectivity |-> Bands(l)[k][2]]
<1> DEFINE fits == {i \in DOMAIN Bands(l) : e <= Bands(l)[i][1]}
<1>1. DOMAIN Bands(l) \in SUBSET Nat /\ \A i \in DOMAIN Bands(l) : Bands(l)[i][1] \in Nat
  BY DEF Bands
<1>4. fits \in SUBSET Nat
  BY <1>1
<1>2. k \in fits /\ \A i \in fits : k <= i
  <2> HIDE DEF Bands
  <2> QED
    BY <1>1
<1>3. Min(fits) = k
  <2> HIDE DEF fits
  <2> QED
    BY <1>1, <1>2, <1>4, MinIs
<1> QED
  BY <1>2, <1>3 DEF BandSearch

(* The widest band of a level *)
LEMMA LastBands ==
  ASSUME NEW l \in 11..40, NEW i \in DOMAIN Bands(l)
  PROVE  /\ l <= 27 => Bands(l)[i][1] <= 33
         /\ l <= 31 => Bands(l)[i][1] <= 36
         /\ l <= 35 => Bands(l)[i][1] <= 39
         /\ l > 35 => Bands(l)[i][1] <= l + 9
  BY DEF Bands

-----------------------------------------------------------------------------
(* Below its target a savable position is searched to the depth of the     *)
(* level, or played out at a confidence of less than 95%.                  *)
LEMMA ParamsBelowTarget ==
  ASSUME NEW d \in LeafDiscs..MaxSavableDiscs, NEW l \in 1..(TargetLevel(d) - 1)
  PROVE  \/ SearchParams(d, l)[1] = l
         \/ d >= 28 /\ SearchParams(d, l)[1] = BoardSquares - d /\ SearchParams(d, l)[2] \in {73, 87}
<1> DEFINE e == BoardSquares - d
           s == DepthAndSelectivity(l, e)
<1>1. d \in 12..30 /\ e \in 34..52 /\ e = 64 - d /\ e \in 0..BoardSquares
  BY DEF LeafDiscs, MaxSavableDiscs, BoardSquares
<1>2. l \in 1..39 /\ (d > 13 => l < 36) /\ (d > 16 => l < 34) /\ (d > 20 => l < 32)
  BY <1>1, TargetLevels DEF BoardSquares
<1>3. SearchParams(d, l) = <<s.depth, SelectivityPercent[s.selectivity + 1]>>
  BY DEF SearchParams
<1>4. CASE l <= 10
  <2>1. s = [depth |-> l, selectivity |-> NoSelectivity]
    BY <1>1, <1>2, <1>4 DEF DepthAndSelectivity, MaxLevel
  <2> QED
    BY <1>3, <2>1
<1>5. ASSUME l > 10 PROVE s = BandSearch(l, e) /\ l \in 11..40
  BY <1>1, <1>2, <1>5 DEF DepthAndSelectivity, MaxLevel
<1> HIDE DEF e, s
<1>6. CASE l > 10 /\ ~(d >= 28 /\ l >= 28)
  <2>1. l \in 11..40
    BY <1>5, <1>6
  <2>2. ASSUME NEW i \in DOMAIN Bands(l) PROVE Bands(l)[i][1] < e
    <3>1. Bands(l)[i][1] \in Nat
      BY <2>1 DEF Bands
    <3>2. /\ l <= 27 => Bands(l)[i][1] <= 33
          /\ l <= 31 => Bands(l)[i][1] <= 36
          /\ l <= 35 => Bands(l)[i][1] <= 39
          /\ l > 35 => Bands(l)[i][1] <= l + 9
      BY <2>1, LastBands
    <3> HIDE DEF Bands
    <3> QED
      BY <1>1, <1>2, <1>6, <3>1, <3>2
  <2>3. s = [depth |-> l, selectivity |-> 0]
    BY <1>1, <1>5, <1>6, <2>1, <2>2, BandMidgame
  <2> QED
    BY <1>3, <2>3
<1>7. CASE d >= 28 /\ l >= 28
  <2>1. l \in 28..31 /\ e \in 34..36
    BY <1>1, <1>2, <1>7
  <2>2. CASE l <= 29
    <3>1. Bands(l) = << <<27, 5>>, <<30, 4>>, <<33, 2>>, <<36, 0>> >>
      BY <2>1, <2>2 DEF Bands
    <3>2. BandSearch(l, e) = [depth |-> e, selectivity |-> Bands(l)[4][2]]
      <4>1. /\ 4 \in DOMAIN Bands(l) \cap Nat /\ e <= Bands(l)[4][1]
            /\ \A i \in DOMAIN Bands(l) : i < 4 => Bands(l)[i][1] < e
        BY <1>1, <2>1, <3>1
      <4>2. l \in 11..40
        BY <2>1
      <4> QED
        BY <1>1, <4>1, <4>2, BandEndgame
    <3>3. s = [depth |-> e, selectivity |-> 0]
      BY <1>5, <2>1, <3>1, <3>2
    <3> QED
      BY <1>3, <1>7, <3>3 DEF SelectivityPercent, e
  <2>3. CASE l > 29
    <3>1. Bands(l) = << <<30, 5>>, <<33, 3>>, <<36, 1>> >>
      BY <2>1, <2>3 DEF Bands
    <3>2. BandSearch(l, e) = [depth |-> e, selectivity |-> Bands(l)[3][2]]
      <4>1. /\ 3 \in DOMAIN Bands(l) \cap Nat /\ e <= Bands(l)[3][1]
            /\ \A i \in DOMAIN Bands(l) : i < 3 => Bands(l)[i][1] < e
        BY <1>1, <2>1, <3>1
      <4>2. l \in 11..40
        BY <2>1
      <4> QED
        BY <1>1, <4>1, <4>2, BandEndgame
    <3>3. s = [depth |-> e, selectivity |-> 1]
      BY <1>5, <2>1, <3>1, <3>2
    <3> QED
      BY <1>3, <1>7, <3>3 DEF SelectivityPercent, e
  <2> QED
    BY <2>1, <2>2, <2>3
<1> QED
  BY <1>2, <1>4, <1>6, <1>7

(* At its target it is searched to the level's depth, or played out: at a  *)
(* confidence of 95% where levels below the target play it out as well.    *)
LEMMA ParamsAtTarget ==
  ASSUME NEW d \in LeafDiscs..MaxSavableDiscs
  PROVE  /\ d <= 24 => SearchParams(d, TargetLevel(d))[1] = TargetLevel(d)
         /\ d > 24 => SearchParams(d, TargetLevel(d))[1] = BoardSquares - d
         /\ d >= 28 => SearchParams(d, TargetLevel(d))[2] = 95
<1> DEFINE e == BoardSquares - d
           l == TargetLevel(d)
           s == DepthAndSelectivity(l, e)
<1>1. d \in 12..30 /\ e \in 34..52 /\ e = 64 - d /\ e \in 0..BoardSquares
  BY DEF LeafDiscs, MaxSavableDiscs, BoardSquares
<1>2. l = IF d <= 13 THEN 40 ELSE IF d <= 16 THEN 36 ELSE IF d <= 20 THEN 34 ELSE 32
  BY <1>1, TargetLevels DEF BoardSquares
<1>3. SearchParams(d, l) = <<s.depth, SelectivityPercent[s.selectivity + 1]>>
  BY DEF SearchParams
<1> HIDE DEF e, l
<1>4. l \in 11..40
  BY <1>1, <1>2
<1>5. s = BandSearch(l, e)
  BY <1>1, <1>4 DEF DepthAndSelectivity, MaxLevel
<1> HIDE DEF s
<1>6. CASE d <= 24
  <2>1. ASSUME NEW i \in DOMAIN Bands(l) PROVE Bands(l)[i][1] < e
    <3>1. Bands(l)[i][1] \in Nat
      BY <1>4 DEF Bands
    <3>2. /\ l <= 27 => Bands(l)[i][1] <= 33
          /\ l <= 31 => Bands(l)[i][1] <= 36
          /\ l <= 35 => Bands(l)[i][1] <= 39
          /\ l > 35 => Bands(l)[i][1] <= l + 9
      BY <1>4, LastBands
    <3> HIDE DEF Bands
    <3> QED
      BY <1>1, <1>2, <1>6, <3>1, <3>2
  <2>2. s = [depth |-> l, selectivity |-> 0]
    BY <1>1, <1>4, <1>5, <2>1, BandMidgame
  <2> QED
    BY <1>3, <1>6, <2>2 DEF l
<1>7. CASE d > 24
  <2>1. l = 32 /\ e \in 34..39
    BY <1>1, <1>2, <1>7
  <2>2. Bands(l) = << <<30, 5>>, <<33, 4>>, <<36, 2>>, <<39, 0>> >>
    BY <2>1 DEF Bands
  <2>3. CASE d >= 28
    <3>1. BandSearch(l, e) = [depth |-> e, selectivity |-> Bands(l)[3][2]]
      <4>1. /\ 3 \in DOMAIN Bands(l) \cap Nat /\ e <= Bands(l)[3][1]
            /\ \A i \in DOMAIN Bands(l) : i < 3 => Bands(l)[i][1] < e
        BY <1>1, <1>4, <2>1, <2>2, <2>3
      <4>2. l \in 11..40
        BY <1>4
      <4> QED
        BY <1>1, <4>1, <4>2, BandEndgame
    <3>2. s = [depth |-> e, selectivity |-> 2]
      BY <1>5, <2>2, <3>1
    <3> QED
      BY <1>3, <1>7, <2>3, <3>2 DEF SelectivityPercent, e, l
  <2>4. CASE d < 28
    <3>1. BandSearch(l, e) = [depth |-> e, selectivity |-> Bands(l)[4][2]]
      <4>1. /\ 4 \in DOMAIN Bands(l) \cap Nat /\ e <= Bands(l)[4][1]
            /\ \A i \in DOMAIN Bands(l) : i < 4 => Bands(l)[i][1] < e
        BY <1>1, <1>4, <2>1, <2>2, <2>4
      <4>2. l \in 11..40
        BY <1>4
      <4> QED
        BY <1>1, <4>1, <4>2, BandEndgame
    <3>2. s = [depth |-> e, selectivity |-> 0]
      BY <1>5, <2>2, <3>1
    <3> QED
      BY <1>3, <1>7, <2>4, <3>2 DEF e, l
  <2> QED
    BY <1>1, <2>3, <2>4
<1> QED
  BY <1>1, <1>6, <1>7

(* jobFloor compares what the levels stand for, not the levels: it takes   *)
(* every savable position below its target level for learnable, at every   *)
(* disc count and level of the book.                                       *)
THEOREM LearnableBelowTarget ==
  ASSUME NEW d \in LeafDiscs..MaxSavableDiscs, NEW l \in 1..(TargetLevel(d) - 1)
  PROVE  LearnableStats(d, SearchParams(d, l)[1], SearchParams(d, l)[2])
<1>1. d \in 12..30 /\ BoardSquares = 64
  BY DEF LeafDiscs, MaxSavableDiscs, BoardSquares
<1>2. TargetLevel(d) \in 32..40 /\ (d > 20 => TargetLevel(d) = 32)
  BY <1>1, TargetLevels
<1> QED
  BY <1>1, <1>2, ParamsBelowTarget, ParamsAtTarget DEF LearnableStats

-----------------------------------------------------------------------------
RowLevels == 0..MaxLevel

TypeInv ==
  /\ level \in [Rows -> RowLevels \cup {NoRow}]
  /\ candidates \in [Workers -> Seq(Rows \X RowLevels)]
  /\ job \in [Workers -> Rows \cup {NoRow}]
  /\ pc \in [Workers -> {"idle", "listing", "claiming", "none", "searching"}]

(* Handlers and workers name rows that exist. *)
PresentInv ==
  \A w \in Workers :
    /\ \A i \in DOMAIN candidates[w] : candidates[w][i][1] \in Present(level)
    /\ pc[w] = "searching" => job[w] \in Present(level)

(* An entry of a hash stands for each row it counts, with the level the    *)
(* row had then: no higher than the level it has since.                    *)
Covered(levels, rows, hash) ==
  hash # NoStats =>
    /\ \A r \in rows : levels[r] \in RowLevels /\ \E l \in 0..levels[r] : StatsKey(r, l) \in hash
    /\ \A k \in hash : k[2] \in Nat

StatsInv ==
  /\ counted \subseteq Rows /\ Covered(level, counted, stats)
  /\ rebuilding # NoStats =>
       rebuilding.rows \subseteq Rows /\ Covered(level, rebuilding.rows, rebuilding.hash)

IInv == TypeInv /\ PresentInv /\ StatsInv

-----------------------------------------------------------------------------
(* Rows are not removed and their levels do not fall. *)
Rising(levels, later) ==
  \A r \in Rows : levels[r] \in RowLevels => later[r] \in RowLevels /\ later[r] >= levels[r]

LEMMA CoverGrows ==
  ASSUME NEW levels, NEW later, NEW rows \in SUBSET Rows, NEW hash,
         Rising(levels, later), Covered(levels, rows, hash)
  PROVE  Covered(later, rows, hash)
<1> SUFFICES ASSUME hash # NoStats, NEW r \in rows
             PROVE  later[r] \in RowLevels /\ \E l \in 0..later[r] : StatsKey(r, l) \in hash
  BY DEF Covered
<1>1. levels[r] \in RowLevels /\ later[r] \in RowLevels /\ later[r] >= levels[r]
  BY DEF Covered, Rising
<1>2. PICK l \in 0..levels[r] : StatsKey(r, l) \in hash
  BY DEF Covered
<1>3. l \in 0..later[r]
  BY <1>1, <1>2 DEF RowLevels
<1> QED
  BY <1>1, <1>2, <1>3

(* What rebuildBookStats queries covers every row there is. *)
LEMMA FreshCover ==
  ASSUME NEW levels \in [Rows -> RowLevels \cup {NoRow}]
  PROVE  Present(levels) \subseteq Rows /\ Covered(levels, Present(levels), Hash(levels))
<1>1. CASE Present(levels) = {}
  BY <1>1 DEF Covered, Hash
<1>2. CASE Present(levels) # {}
  <2>1. Hash(levels) = StatsKeys(levels)
    BY <1>2 DEF Hash
  <2>2. ASSUME NEW r \in Present(levels)
        PROVE  levels[r] \in RowLevels /\ levels[r] \in 0..levels[r] /\ StatsKey(r, levels[r]) \in StatsKeys(levels)
    BY DEF Present, StatsKeys, RowLevels
  <2>3. ASSUME NEW k \in StatsKeys(levels) PROVE k[2] \in Nat
    <3>1. PICK r \in Rows : k = StatsKey(r, levels[r])
      BY DEF StatsKeys, Present
    <3>2. k[2] = Discs[r]
      BY <3>1 DEF StatsKey
    <3> QED
      BY <3>2, SelectionAssumption DEF LeafDiscs
  <2> QED
    BY <2>1, <2>2, <2>3 DEF Covered, Present
<1> QED
  BY <1>1, <1>2

LEMMA Listed ==
  ASSUME NEW m, NEW s \in Listings(m)
  PROVE  \E n \in Nat : s \in [1..n -> Present(level)]
<1> DEFINE S == {r \in Present(level) : Discs[r] >= m /\ BelowQueriedLevel(r)}
<1>1. PICK t \in SetToSeqs(S) : s = SubSeq(t, 1, Min({Len(t), Batch}))
  BY DEF Listings
<1>2. Cardinality(S) \in Nat
  BY SelectionAssumption, FS_Subset, FS_CardinalityType DEF Present
<1>3. t \in [1..Cardinality(S) -> S]
  BY <1>1 DEF SetToSeqs
<1> HIDE DEF S
<1>4. t \in Seq(S) /\ Len(t) = Cardinality(S)
  BY <1>2, <1>3
<1> DEFINE n == Min({Len(t), Batch})
<1>5. n \in Nat /\ n <= Len(t)
  <2>1. {Len(t), Batch} \in SUBSET Nat /\ {Len(t), Batch} # {}
    BY <1>2, <1>4, SelectionAssumption
  <2>2. n \in {Len(t), Batch} /\ \A x \in {Len(t), Batch} : n <= x
    BY <2>1, MinIsLeast
  <2> QED
    BY <2>1, <2>2
<1> HIDE DEF n
<1>6. s \in [1..n -> S]
  <2>1. s = SubSeq(t, 1, n)
    BY <1>1 DEF n
  <2>2. s \in Seq(S) /\ Len(s) = n
    BY <1>2, <1>4, <1>5, <2>1
  <2> QED
    BY <2>2
<1>7. S \subseteq Present(level)
  BY DEF S
<1> QED
  BY <1>5, <1>6, <1>7

LEMMA MaxOfTwo ==
  ASSUME NEW a \in Nat, NEW b \in Nat
  PROVE  Max({a, b}) \in {a, b} /\ Max({a, b}) >= a
<1>1. \E x \in {a, b} : \A y \in {a, b} : x >= y
  OBVIOUS
<1> QED
  BY <1>1 DEF Max

LEMMA TailProperty ==
  ASSUME NEW S, NEW s \in Seq(S), s # <<>>
  PROVE  /\ Head(s) = s[1] /\ Head(s) \in S /\ 1 \in DOMAIN s
         /\ Tail(s) \in Seq(S)
         /\ \A i \in DOMAIN Tail(s) : i + 1 \in DOMAIN s /\ Tail(s)[i] = s[i + 1]
  OBVIOUS

-----------------------------------------------------------------------------
LEMMA SelectionInit == Init => IInv
<1> SUFFICES ASSUME Init PROVE IInv
  OBVIOUS
<1>1. TypeInv
  <2>1. level \in [Rows -> RowLevels \cup {NoRow}]
    BY SelectionAssumption DEF Init, RowLevels
  <2>2. candidates \in [Workers -> Seq(Rows \X RowLevels)]
    <3>1. <<>> \in Seq(Rows \X RowLevels)
      OBVIOUS
    <3> QED
      BY <3>1, Zenon DEF Init
  <2> QED
    BY <2>1, <2>2 DEF Init, TypeInv
<1>2. PresentInv
  BY DEF Init, PresentInv
<1>3. StatsInv
  BY <1>1, FreshCover DEF Init, TypeInv, StatsInv
<1> QED
  BY <1>1, <1>2, <1>3 DEF IInv

-----------------------------------------------------------------------------
(* A new row has level 0; a result is saved only where it is higher. *)
LEMMA LevelsRise ==
  IInv /\ [Next]_vars => level' \in [Rows -> RowLevels \cup {NoRow}] /\ Rising(level, level')
<1> SUFFICES ASSUME IInv, [Next]_vars
             PROVE  level' \in [Rows -> RowLevels \cup {NoRow}] /\ Rising(level, level')
  OBVIOUS
<1> USE SelectionAssumption DEF IInv, TypeInv, RowLevels, Rising
<1>1. CASE UNCHANGED level
  BY <1>1
<1>2. ASSUME NEW r \in Rows, AddRow(r)
      PROVE  level' \in [Rows -> RowLevels \cup {NoRow}] /\ Rising(level, level')
  <2>1. 0 \in RowLevels /\ NoRow \notin RowLevels
    BY SelectionAssumption DEF MaxLevel
  <2>2. level' = [level EXCEPT ![r] = 0] /\ level[r] = NoRow
    BY <1>2 DEF AddRow
  <2>3. level' \in [Rows -> RowLevels \cup {NoRow}]
    BY <2>1, <2>2
  <2>4. ASSUME NEW q \in Rows, level[q] \in RowLevels PROVE level'[q] = level[q] /\ level[q] >= level[q]
    BY <2>1, <2>2, <2>4
  <2> QED
    BY <2>3, <2>4
<1>3. ASSUME NEW w \in Workers, Submit(w)
      PROVE  level' \in [Rows -> RowLevels \cup {NoRow}] /\ Rising(level, level')
  <2> DEFINE r == job[w]
             saved == Max({level[r], TargetLevel(Discs[r])})
  <2>1. r \in Rows /\ level[r] \in RowLevels
    BY <1>3 DEF Submit, PresentInv, Present
  <2>2. TargetLevel(Discs[r]) \in RowLevels
    <3>1. Discs[r] \in 0..BoardSquares
      BY <2>1 DEF LeafDiscs, MaxSavableDiscs, BoardSquares
    <3> HIDE DEF r
    <3>2. TargetLevel(Discs[r]) \in 32..MaxLevel
      BY <3>1, TargetLevelRange
    <3> QED
      BY <3>2 DEF MaxLevel
  <2>3. saved \in RowLevels /\ saved >= level[r]
    <3> HIDE DEF r
    <3>1. RowLevels \subseteq Nat
      BY DEF MaxLevel
    <3> HIDE DEF RowLevels
    <3>2. level[r] \in Nat /\ TargetLevel(Discs[r]) \in Nat
      BY <2>1, <2>2, <3>1
    <3> QED
      BY <2>1, <2>2, <3>2, MaxOfTwo
  <2>4. level' = [level EXCEPT ![r] = saved]
    BY <1>3 DEF Submit
  <2> HIDE DEF saved, r
  <2> QED
    BY <2>1, <2>3, <2>4
<1>4. ASSUME NEW w \in Workers, WorkerStep(w), ~Submit(w) PROVE UNCHANGED level
  BY <1>4 DEF WorkerStep, ReadFloor, List, SkipCandidate, ClaimCandidate, NoJob, Sleep, SearchFails
<1> QED
  BY <1>1, <1>2, <1>3, <1>4 DEF Next, ClaimExpires, QueryStats, SwapStats, vars

LEMMA TypeStep == IInv /\ [Next]_vars => TypeInv'
<1> SUFFICES ASSUME IInv, [Next]_vars PROVE TypeInv'
  OBVIOUS
<1>1. level' \in [Rows -> RowLevels \cup {NoRow}]
  BY LevelsRise
<1> USE <1>1 DEF IInv, TypeInv
<1>2. CASE UNCHANGED callVars
  BY <1>2 DEF callVars
<1>3. ASSUME NEW w \in Workers, ReadFloor(w) \/ NoJob(w) \/ Sleep(w) PROVE TypeInv'
  BY <1>3 DEF ReadFloor, NoJob, Sleep
<1>4. ASSUME NEW w \in Workers, List(w) PROVE TypeInv'
  <2>1. PICK s \in Listings(floor[w]) :
          candidates' = [candidates EXCEPT ![w] = [i \in DOMAIN s |-> <<s[i], level[s[i]]>>]]
    BY <1>4 DEF List
  <2>2. PICK n \in Nat : s \in [1..n -> Present(level)]
    BY Listed
  <2>3. [i \in DOMAIN s |-> <<s[i], level[s[i]]>>] \in Seq(Rows \X RowLevels)
    <3>1. \A i \in 1..n : <<s[i], level[s[i]]>> \in Rows \X RowLevels
      BY <2>2 DEF Present
    <3>2. [i \in 1..n |-> <<s[i], level[s[i]]>>] \in Seq(Rows \X RowLevels)
      BY <3>1
    <3> QED
      BY <2>2, <3>2
  <2>4. candidates' \in [Workers -> Seq(Rows \X RowLevels)]
    BY <2>1, <2>3
  <2> QED
    BY <1>4, <2>4 DEF List
<1>5. ASSUME NEW w \in Workers, SkipCandidate(w) PROVE TypeInv'
  <2>1. candidates[w] \in Seq(Rows \X RowLevels) /\ Tail(candidates[w]) \in Seq(Rows \X RowLevels)
    BY <1>5, TailProperty DEF SkipCandidate
  <2> QED
    BY <1>5, <2>1 DEF SkipCandidate
<1>6. ASSUME NEW w \in Workers, ClaimCandidate(w) PROVE TypeInv'
  <2>1. Head(candidates[w])[1] \in Rows
    BY <1>6, TailProperty DEF ClaimCandidate
  <2>2. <<>> \in Seq(Rows \X RowLevels)
    OBVIOUS
  <2> QED
    BY <1>6, <2>1, <2>2 DEF ClaimCandidate
<1>7. ASSUME NEW w \in Workers, Submit(w) \/ SearchFails(w) PROVE TypeInv'
  BY <1>7 DEF Submit, SearchFails
<1> QED
  BY <1>2, <1>3, <1>4, <1>5, <1>6, <1>7
     DEF Next, WorkerStep, AddRow, ClaimExpires, QueryStats, SwapStats, vars

LEMMA PresentStep == IInv /\ [Next]_vars => PresentInv'
<1> SUFFICES ASSUME IInv, [Next]_vars PROVE PresentInv'
  OBVIOUS
<1>1. Present(level) \subseteq Present(level')
  BY LevelsRise, SelectionAssumption DEF IInv, TypeInv, Rising, Present, RowLevels
<1> USE <1>1 DEF IInv, TypeInv, PresentInv
<1>2. CASE UNCHANGED callVars
  BY <1>2 DEF callVars
<1>3. ASSUME NEW w \in Workers, ReadFloor(w) \/ NoJob(w) \/ Sleep(w) PROVE PresentInv'
  BY <1>3 DEF ReadFloor, NoJob, Sleep
<1>4. ASSUME NEW w \in Workers, List(w) PROVE PresentInv'
  <2>1. PICK s \in Listings(floor[w]) :
          candidates' = [candidates EXCEPT ![w] = [i \in DOMAIN s |-> <<s[i], level[s[i]]>>]]
    BY <1>4 DEF List
  <2>2. PICK n \in Nat : s \in [1..n -> Present(level)]
    BY Listed
  <2> QED
    BY <1>4, <2>1, <2>2 DEF List
<1>5. ASSUME NEW w \in Workers, SkipCandidate(w) PROVE PresentInv'
  <2>1. candidates[w] \in Seq(Rows \X RowLevels) /\ candidates[w] # <<>>
    BY <1>5 DEF SkipCandidate
  <2>2. \A i \in DOMAIN Tail(candidates[w]) : Tail(candidates[w])[i][1] \in Present(level)
    BY <2>1, TailProperty
  <2> QED
    BY <1>5, <2>2 DEF SkipCandidate
<1>6. ASSUME NEW w \in Workers, ClaimCandidate(w) PROVE PresentInv'
  <2>1. candidates[w] \in Seq(Rows \X RowLevels) /\ candidates[w] # <<>>
    BY <1>6 DEF ClaimCandidate
  <2>2. Head(candidates[w])[1] \in Present(level)
    BY <2>1, TailProperty
  <2> QED
    BY <1>6, <2>2 DEF ClaimCandidate
<1>7. ASSUME NEW w \in Workers, Submit(w) \/ SearchFails(w) PROVE PresentInv'
  BY <1>7 DEF Submit, SearchFails
<1> QED
  BY <1>2, <1>3, <1>4, <1>5, <1>6, <1>7
     DEF Next, WorkerStep, AddRow, ClaimExpires, QueryStats, SwapStats, vars

LEMMA StatsStep == IInv /\ [Next]_vars => StatsInv'
<1> SUFFICES ASSUME IInv, [Next]_vars PROVE StatsInv'
  OBVIOUS
<1> USE DEF IInv, StatsInv
<1>1. Covered(level', counted, stats)
  BY LevelsRise, CoverGrows
<1>2. rebuilding # NoStats => Covered(level', rebuilding.rows, rebuilding.hash)
  BY LevelsRise, CoverGrows
<1>3. CASE UNCHANGED statsVars
  BY <1>1, <1>2, <1>3 DEF statsVars
<1>4. CASE QueryStats
  BY <1>1, <1>4, FreshCover DEF QueryStats, TypeInv
<1>5. CASE SwapStats
  BY <1>2, <1>5 DEF SwapStats
<1> QED
  BY <1>3, <1>4, <1>5 DEF Next, WorkerStep, AddRow, ClaimExpires, ReadFloor, List, SkipCandidate,
     ClaimCandidate, NoJob, Sleep, Submit, SearchFails, vars

(* Handlers and workers name rows of the book, and the hash, old as it is, *)
(* has an entry for each row it counts.                                    *)
THEOREM SelectionInvariant == Spec => []IInv
<1>1. IInv /\ [Next]_vars => IInv'
  BY TypeStep, PresentStep, StatsStep DEF IInv
<1> QED
  BY SelectionInit, <1>1, PTL DEF Spec

(* The floor a handler computes from the hash lies under every row that    *)
(* the hash counts and that is still below its target, for any rows,       *)
(* workers and batch, and however many results were saved since the hash   *)
(* was built.                                                              *)
THEOREM FloorIsALowerBound == Spec => []FloorIsLowerBound
<1>1. IInv => FloorIsLowerBound
  <2> SUFFICES ASSUME IInv, NEW r \in Learnable(level) \cap counted PROVE JobFloor <= Discs[r]
    BY DEF FloorIsLowerBound
  <2>1. r \in Rows /\ level[r] < TargetLevel(Discs[r]) /\ Discs[r] \in LeafDiscs..MaxSavableDiscs
    BY SelectionAssumption DEF Learnable, Present
  <2>2. CASE stats = NoStats
    BY <2>1, <2>2 DEF JobFloor, LeafDiscs
  <2>3. CASE stats # NoStats
    <3> DEFINE learnable == {k[2] : k \in LearnableKeys(stats)} \cup {MaxSavableDiscs}
    <3>1. level[r] \in RowLevels
      BY <2>3 DEF IInv, StatsInv, Covered
    <3>2. PICK l \in 0..level[r] : StatsKey(r, l) \in stats
      BY <2>3 DEF IInv, StatsInv, Covered
    <3>3. StatsKey(r, l) \in LearnableKeys(stats)
      <4>1. CASE l = 0
        BY <3>2, <4>1 DEF StatsKey, LearnableKeys, LearnableStats
      <4>2. CASE l # 0
        <5>1. TargetLevel(Discs[r]) \in Nat
          BY <2>1, TargetLevelRange DEF LeafDiscs, MaxSavableDiscs, BoardSquares
        <5>2. l \in 1..(TargetLevel(Discs[r]) - 1)
          BY <2>1, <3>1, <4>2, <5>1 DEF RowLevels
        <5>3. LearnableStats(Discs[r], SearchParams(Discs[r], l)[1], SearchParams(Discs[r], l)[2])
          BY <2>1, <5>2, LearnableBelowTarget
        <5> QED
          BY <3>2, <4>2, <5>3 DEF StatsKey, LearnableKeys
      <4> QED
        BY <4>1, <4>2
    <3>4. Discs[r] \in learnable
      BY <3>3 DEF StatsKey
    <3>5. learnable \in SUBSET Nat /\ learnable # {}
      BY <2>3 DEF IInv, StatsInv, Covered, LearnableKeys, MaxSavableDiscs
    <3>6. Min(learnable) <= Discs[r]
      <4> HIDE DEF learnable
      <4> QED
        BY <3>4, <3>5, MinIsLeast
    <3> QED
      BY <2>3, <3>6 DEF JobFloor
  <2> QED
    BY <2>2, <2>3
<1> QED
  BY SelectionInvariant, <1>1, PTL
=============================================================================

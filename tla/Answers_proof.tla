---------------------------- MODULE Answers_proof ---------------------------
(***************************************************************************)
(* Proofs about what the server answers: BookCache, for every game graph,  *)
(* all learned leaves and any interleaving of rebuilds, and AnalysisLadder, *)
(* for every position, stored row and number of losses.                    *)
(***************************************************************************)
EXTENDS BookCache, AnalysisLadder, SequenceTheorems, FiniteSetTheorems, WellFoundedInduction, TLAPS

-----------------------------------------------------------------------------
(***************************************************************************)
(* BookCache                                                               *)
(***************************************************************************)

-----------------------------------------------------------------------------
(* The latest leaves are in the cache or on their way into it: if nothing  *)
(* failed since the server started and no two rebuilds overlapped, whoever *)
(* builds has them all, or somebody else is about to load.                 *)
Loading == \E h \in Handlers : pc[h] = "loading"

PendingInv ==
  errors = 0 /\ ~raced =>
    /\ \A g, h \in Handlers : pc[g] = "building" /\ pc[h] = "building" => g = h
    /\ \A h \in Handlers : pc[h] = "building" => leaves[h] = LearnedLeaves \/ Loading
    /\ source = LearnedLeaves \/ ~Quiet

StaleInv ==
  /\ DOMAIN pc = Handlers /\ DOMAIN leaves = Handlers
  /\ errors \in Nat /\ raced \in BOOLEAN
  /\ PendingInv

LEMMA StaleInit == Init => StaleInv
<1> SUFFICES ASSUME Init PROVE StaleInv
  OBVIOUS
<1>1. source = LearnedLeaves
  BY Zenon DEF Init, CacheAtStart
<1> QED
  BY <1>1 DEF Init, StaleInv, PendingInv

LEMMA LearnedStay == ASSUME UNCHANGED boards PROVE LearnedLeaves' = LearnedLeaves
  BY DEF LearnedLeaves

LEMMA StaleStep == StaleInv /\ [Next]_vars => StaleInv'
<1> SUFFICES ASSUME StaleInv, [Next]_vars PROVE StaleInv'
  OBVIOUS
<1> USE DEF StaleInv, Loading, Quiet
<1>1. ASSUME NEW h \in Handlers, NEW s \in Submissions, Save(h, s) PROVE StaleInv'
  <2>1. pc' = [pc EXCEPT ![h] = "loading"]
    BY <1>1 DEF Save, RebuildAfter
  <2>2. pc'[h] = "loading" /\ \A g \in Handlers : pc'[g] = "building" => pc[g] = "building"
    BY <2>1
  <2>3. errors' = errors /\ raced' = raced /\ leaves' = leaves
    BY <1>1 DEF Save
  <2>4. PendingInv'
    BY <2>2, <2>3 DEF PendingInv
  <2> QED
    BY <2>1, <2>3, <2>4
<1>2. ASSUME NEW h \in Handlers, Load(h) PROVE StaleInv'
  <2>1. LearnedLeaves' = LearnedLeaves
    BY <1>2, LearnedStay DEF Load
  <2>2. /\ pc' = [pc EXCEPT ![h] = "building"] /\ leaves' = [leaves EXCEPT ![h] = LearnedLeaves]
        /\ errors' = errors /\ source' = source /\ raced' \in BOOLEAN
    BY <1>2, Zenon DEF Load
  <2>3. raced' \/ \A g \in Handlers \ {h} : pc'[g] # "building"
    BY <1>2 DEF Load
  <2>4. pc'[h] = "building" /\ leaves'[h] = LearnedLeaves
    BY <2>2
  <2>5. PendingInv'
    BY <2>1, <2>3, <2>4 DEF PendingInv
  <2> QED
    BY <2>2, <2>5
<1>3. ASSUME NEW h \in Handlers, LoadFails(h) PROVE StaleInv'
  <2>1. errors' = errors + 1 /\ DOMAIN pc' = Handlers /\ leaves' = leaves /\ raced' = raced
    BY <1>3 DEF LoadFails
  <2> QED
    BY <2>1 DEF PendingInv
<1>4. ASSUME NEW h \in Handlers, Install(h) PROVE StaleInv'
  <2>1. LearnedLeaves' = LearnedLeaves
    BY <1>4, LearnedStay DEF Install
  <2>2. /\ pc[h] = "building" /\ source' = leaves[h]
        /\ pc' = [pc EXCEPT ![h] = "idle"] /\ leaves' = [leaves EXCEPT ![h] = <<>>]
        /\ errors' = errors /\ raced' = raced
    BY <1>4 DEF Install
  <2>3. /\ pc'[h] = "idle"
        /\ \A g \in Handlers \ {h} : pc'[g] = pc[g] /\ leaves'[g] = leaves[g]
    BY <2>2
  <2>4. PendingInv'
    BY <2>1, <2>2, <2>3 DEF PendingInv
  <2> QED
    BY <2>2, <2>4
<1>5. ASSUME Restart PROVE StaleInv'
  <2>1. source' = LearnedLeaves /\ LearnedLeaves' = LearnedLeaves
    BY <1>5, LearnedStay, Zenon DEF Restart, CacheAtStart
  <2>2. \A h \in Handlers : pc'[h] = "idle"
    BY <1>5 DEF Restart
  <2>3. errors' = 0 /\ raced' = FALSE /\ DOMAIN pc' = Handlers /\ DOMAIN leaves' = Handlers
    BY <1>5 DEF Restart
  <2> QED
    BY <2>1, <2>2, <2>3 DEF PendingInv
<1>6. ASSUME UNCHANGED vars PROVE StaleInv'
  <2>1. LearnedLeaves' = LearnedLeaves
    BY <1>6, LearnedStay DEF vars, codeVars
  <2> QED
    BY <1>6, <2>1 DEF vars, codeVars, PendingInv
<1> QED
  BY <1>1, <1>2, <1>3, <1>4, <1>5, <1>6 DEF Next

(* "Rebuild recomputes the cache from the LeafDiscs-disc evaluations       *)
(* currently in the DB" (cache.go): whenever no rebuild is under way, the  *)
(* cache was computed from all leaves stored, unless a query had failed or *)
(* rebuilds had overlapped since the server started.                       *)
THEOREM CacheIsFresh == Spec => []StaleOnlyByFaults
<1>1. StaleInv => StaleOnlyByFaults
  BY DEF StaleInv, PendingInv, StaleOnlyByFaults
<1> QED
  BY <1>1, StaleInit, StaleStep, PTL DEF Spec

-----------------------------------------------------------------------------
(* Induction over data, by least counterexamples *)

LEMMA LeastElement ==
  ASSUME NEW S \in SUBSET Nat, S # {}
  PROVE  \E m \in S : \A x \in S : m <= x
<1>1. PICK m \in S : \A y \in S : ~(<<y, m>> \in OpToRel(<, Nat))
  BY NatLessThanWellFounded, WFMin
<1>2. ASSUME NEW x \in S PROVE m <= x
  <2>1. <<x, m>> \notin OpToRel(<, Nat)
    BY <1>1
  <2>2. x \in Nat /\ m \in Nat
    OBVIOUS
  <2> QED
    BY <2>1, <2>2 DEF OpToRel
<1> QED
  BY <1>2

LEMMA SetInduction ==
  ASSUME NEW S \in SUBSET Nat, 0 \in S, \A n \in S : n + 1 \in S
  PROVE  \A n \in Nat : n \in S
<1> SUFFICES ASSUME Nat \ S # {} PROVE FALSE
  OBVIOUS
<1>1. PICK m \in Nat \ S : \A x \in Nat \ S : m <= x
  BY LeastElement
<1>2. m - 1 \in Nat /\ m - 1 \notin Nat \ S
  BY <1>1
<1> QED
  BY <1>2

Iterates(f, A, a, G, N) == f \in [0..N -> A] /\ f[0] = a /\ \A n \in 1..N : f[n] = G[f[n - 1]]

LEMMA Iteration ==
  ASSUME NEW A, NEW a \in A, NEW G \in [A -> A], NEW N \in Nat
  PROVE  \E f : Iterates(f, A, a, G, N)
<1> DEFINE Upto(n) == {f \in [0..n -> A] : f[0] = a /\ \A i \in 1..n : f[i] = G[f[i - 1]]}
           S == {n \in Nat : Upto(n) # {}}
<1>1. 0 \in S
  <2>1. [i \in 0..0 |-> a] \in Upto(0)
    OBVIOUS
  <2> QED
    BY <2>1
<1>2. ASSUME NEW n \in S PROVE n + 1 \in S
  <2>1. PICK f \in [0..n -> A] : f[0] = a /\ \A i \in 1..n : f[i] = G[f[i - 1]]
    OBVIOUS
  <2> DEFINE g == [i \in 0..(n + 1) |-> IF i <= n THEN f[i] ELSE G[f[n]]]
  <2>2. g \in [0..(n + 1) -> A]
    BY <2>1
  <2>3. g[0] = a /\ \A i \in 1..(n + 1) : g[i] = G[g[i - 1]]
    BY <2>1
  <2>4. Upto(n + 1) # {} /\ n + 1 \in Nat
    <3> HIDE DEF g
    <3> QED
      BY <2>2, <2>3
  <2> QED
    BY <2>4
<1>3. N \in S
  <2> HIDE DEF S
  <2>1. S \in SUBSET Nat
    BY DEF S
  <2> QED
    BY <1>1, <1>2, <2>1, SetInduction
<1> QED
  BY <1>3 DEF Iterates

-----------------------------------------------------------------------------
(* Every play ends: each ply takes at least one off the plies left.        *)
PliesLeft(p) ==
  (IF Discs[p] < LeafDiscs THEN 2 * (LeafDiscs - Discs[p]) ELSE 0) + (IF HasMoves(p) THEN 0 ELSE 1)

LEMMA PliesLeftType == \A p \in Positions : PliesLeft(p) \in 0..(MaxPlies - 1)
  BY CacheAssumption DEF PliesLeft, MaxPlies, LeafDiscs, BoardSquares

LEMMA SuccessorCloser ==
  ASSUME NEW p \in Positions, NEW q \in Successors(p)
  PROVE  q \in Positions /\ PliesLeft(q) < PliesLeft(p) /\ (Discs[p] <= LeafDiscs => Discs[q] <= LeafDiscs)
<1> USE CacheAssumption
<1>1. CASE HasMoves(p)
  <2>1. q \in Moves[p] /\ Discs[p] < LeafDiscs
    BY <1>1 DEF Successors, LeafDiscs
  <2>2. q \in Positions /\ Discs[q] = Discs[p] + 1
    BY <2>1
  <2> QED
    BY <1>1, <2>1, <2>2 DEF PliesLeft, LeafDiscs, BoardSquares
<1>2. CASE ~HasMoves(p)
  <2>1. q = Passed[p] /\ HasMoves(q)
    BY <1>2 DEF Successors, GameOver
  <2>2. q \in Positions /\ Discs[q] = Discs[p]
    BY <2>1
  <2> QED
    BY <1>2, <2>1, <2>2 DEF PliesLeft, LeafDiscs, BoardSquares
<1> QED
  BY <1>1, <1>2

-----------------------------------------------------------------------------
(* The positions reached are the least set that is closed under plies.     *)
Within(p, f) ==
  /\ f \in [0..MaxPlies -> SUBSET Positions]
  /\ f[0] = {p} /\ \A n \in 1..MaxPlies : f[n] = Nearby(f[n - 1])

LEMMA ReachedWithin ==
  ASSUME NEW p \in Positions
  PROVE  \E f : Within(p, f) /\ ReachedFrom(p) = f[MaxPlies]
<1> DEFINE IsWithin(w) == w = [n \in 0..MaxPlies |-> IF n = 0 THEN {p} ELSE Nearby(w[n - 1])]
           G == [near \in SUBSET Positions |-> Nearby(near)]
           w == CHOOSE w : IsWithin(w)
<1>1. \A near \in SUBSET Positions : Nearby(near) \in SUBSET Positions
  BY SuccessorCloser DEF Nearby
<1>2. MaxPlies \in Nat
  BY DEF MaxPlies, LeafDiscs
<1>3. PICK f \in [0..MaxPlies -> SUBSET Positions] : f[0] = {p} /\ \A n \in 1..MaxPlies : f[n] = G[f[n - 1]]
  <2> DEFINE A == SUBSET Positions
             a == {p}
  <2>1. G \in [A -> A] /\ a \in A
    BY <1>1
  <2> HIDE DEF G, A, a
  <2>2. PICK f : Iterates(f, A, a, G, MaxPlies)
    BY <1>2, <2>1, Iteration
  <2> QED
    BY <2>2 DEF A, a, Iterates
<1>4. ASSUME NEW n \in 1..MaxPlies PROVE f[n] = Nearby(f[n - 1])
  <2>1. n - 1 \in 0..MaxPlies
    BY <1>2
  <2>2. f[n] = G[f[n - 1]] /\ f[n - 1] \in SUBSET Positions
    <3> HIDE DEF G
    <3> QED
      BY <1>3, <2>1
  <2> QED
    BY <2>2
<1>5. IsWithin(f)
  BY <1>2, <1>3, <1>4
<1>6. IsWithin(w)
  <2> HIDE DEF IsWithin
  <2> QED
    BY <1>5
<1>7. ReachedFrom(p) = w[MaxPlies]
  BY DEF ReachedFrom
<1> HIDE DEF w
<1>8. w[0] = {p} /\ \A n \in 1..MaxPlies : w[n] = Nearby(w[n - 1])
  <2>1. \A n \in 0..MaxPlies : w[n] = IF n = 0 THEN {p} ELSE Nearby(w[n - 1])
    BY <1>6, Zenon
  <2> QED
    BY <1>2, <2>1
<1>9. \A n \in Nat : n \in {i \in Nat : i <= MaxPlies => w[i] \subseteq Positions}
  <2> DEFINE S == {i \in Nat : i <= MaxPlies => w[i] \subseteq Positions}
  <2>1. 0 \in S
    BY <1>8
  <2>2. ASSUME NEW n \in S PROVE n + 1 \in S
    BY <1>1, <1>2, <1>8
  <2>3. S \in SUBSET Nat
    OBVIOUS
  <2> HIDE DEF S
  <2>4. \A n \in Nat : n \in S
    BY <2>1, <2>2, <2>3, SetInduction
  <2> QED
    BY <2>4 DEF S
<1>10. w \in [0..MaxPlies -> SUBSET Positions]
  <2>1. w = [n \in 0..MaxPlies |-> w[n]]
    BY <1>6, Zenon
  <2>2. \A n \in 0..MaxPlies : w[n] \in SUBSET Positions
    BY <1>2, <1>9
  <2> QED
    BY <2>1, <2>2, Zenon
<1> QED
  BY <1>7, <1>8, <1>10 DEF Within

(* No ply leads out of it: after MaxPlies every play has ended. *)
LEMMA ReachedIsClosed ==
  ASSUME NEW p \in Positions
  PROVE  /\ p \in ReachedFrom(p) /\ ReachedFrom(p) \subseteq Positions
         /\ \A q \in ReachedFrom(p) : Successors(q) \subseteq ReachedFrom(p)
<1>1. PICK f : Within(p, f) /\ ReachedFrom(p) = f[MaxPlies]
  BY ReachedWithin
<1> USE DEF Within
<1>2. MaxPlies \in Nat \ {0}
  BY DEF MaxPlies, LeafDiscs
<1> DEFINE S == {n \in Nat : n <= MaxPlies =>
                   /\ p \in f[n]
                   /\ \A q \in f[n] : (n > 0 /\ q \in f[n - 1]) \/ PliesLeft(q) <= MaxPlies - 1 - n}
<1>3. 0 \in S
  BY <1>1, <1>2, PliesLeftType
<1>4. ASSUME NEW n \in S PROVE n + 1 \in S
  <2> SUFFICES ASSUME n + 1 <= MaxPlies
               PROVE  /\ p \in f[n + 1]
                      /\ \A q \in f[n + 1] : q \in f[n] \/ PliesLeft(q) <= MaxPlies - 1 - (n + 1)
    BY <1>2
  <2>1. n \in 0..MaxPlies /\ f[n + 1] = Nearby(f[n]) /\ f[n] \subseteq Positions
    BY <1>1, <1>2
  <2>2. n > 0 => f[n] = Nearby(f[n - 1])
    BY <1>1, <1>2, <2>1
  <2>3. ASSUME NEW q \in f[n + 1], q \notin f[n] PROVE PliesLeft(q) <= MaxPlies - 1 - (n + 1)
    <3>1. PICK r \in f[n] : q \in Successors(r)
      BY <2>1, <2>3 DEF Nearby
    <3>2. ~(n > 0 /\ r \in f[n - 1])
      BY <2>2, <2>3, <3>1 DEF Nearby
    <3>3. PliesLeft(r) <= MaxPlies - 1 - n
      BY <1>2, <3>1, <3>2
    <3>4. r \in Positions /\ q \in Positions /\ PliesLeft(q) < PliesLeft(r)
      BY <2>1, <3>1, SuccessorCloser
    <3> QED
      BY <1>2, <3>3, <3>4, PliesLeftType
  <2> QED
    BY <1>2, <2>1, <2>3 DEF Nearby
<1>5. MaxPlies \in S
  <2>1. S \in SUBSET Nat
    OBVIOUS
  <2> HIDE DEF S
  <2> QED
    BY <1>2, <1>3, <1>4, <2>1, SetInduction
<1>6. p \in f[MaxPlies] /\ f[MaxPlies] \subseteq Positions /\ f[MaxPlies] \subseteq f[MaxPlies - 1]
  BY <1>1, <1>2, <1>5, PliesLeftType
<1>7. f[MaxPlies] = Nearby(f[MaxPlies - 1])
  BY <1>1, <1>2
<1> QED
  BY <1>1, <1>6, <1>7 DEF Nearby

LEMMA ReachedIsLeast ==
  ASSUME NEW p \in Positions, NEW C \in SUBSET Positions, p \in C, \A q \in C : Successors(q) \subseteq C
  PROVE  ReachedFrom(p) \subseteq C
<1>1. PICK f : Within(p, f) /\ ReachedFrom(p) = f[MaxPlies]
  BY ReachedWithin
<1> USE DEF Within
<1>2. MaxPlies \in Nat
  BY DEF MaxPlies, LeafDiscs
<1> DEFINE S == {n \in Nat : n <= MaxPlies => f[n] \subseteq C}
<1>3. 0 \in S
  BY <1>1
<1>4. ASSUME NEW n \in S PROVE n + 1 \in S
  <2> SUFFICES ASSUME n + 1 <= MaxPlies PROVE f[n + 1] \subseteq C
    OBVIOUS
  <2>1. f[n + 1] = Nearby(f[n]) /\ f[n] \subseteq C
    BY <1>1, <1>2
  <2> QED
    BY <2>1 DEF Nearby
<1>5. MaxPlies \in S
  <2>1. S \in SUBSET Nat
    OBVIOUS
  <2> HIDE DEF S
  <2> QED
    BY <1>2, <1>3, <1>4, <2>1, SetInduction
<1> QED
  BY <1>1, <1>5

LEMMA ReachedOnward ==
  ASSUME NEW p \in Positions
  PROVE  /\ \A q \in ReachedFrom(p) : ReachedFrom(q) \subseteq ReachedFrom(p)
         /\ ReachedFrom(p) = {p} \cup UNION {ReachedFrom(q) : q \in Successors(p)}
<1> DEFINE C == {p} \cup UNION {ReachedFrom(q) : q \in Successors(p)}
<1>1. \A q \in ReachedFrom(p) : q \in Positions /\ ReachedFrom(q) \subseteq ReachedFrom(p)
  BY ReachedIsClosed, ReachedIsLeast
<1>2. \A q \in Successors(p) : q \in Positions /\ q \in ReachedFrom(p)
  BY ReachedIsClosed
<1>3. C \subseteq ReachedFrom(p)
  BY <1>1, <1>2, ReachedIsClosed
<1>4. C \in SUBSET Positions /\ p \in C
  BY <1>2, ReachedIsClosed
<1>5. \A q \in C : Successors(q) \subseteq C
  BY <1>2, ReachedIsClosed
<1> HIDE DEF C
<1>6. ReachedFrom(p) \subseteq C
  BY <1>4, <1>5, ReachedIsLeast
<1> QED
  BY <1>1, <1>3, <1>6 DEF C

LEMMA PliesInduction ==
  ASSUME NEW S \in SUBSET Positions, \A p \in Positions : Successors(p) \subseteq S => p \in S
  PROVE  \A p \in Positions : p \in S
<1> SUFFICES ASSUME NEW c \in Positions, c \notin S PROVE FALSE
  OBVIOUS
<1> DEFINE Left == {PliesLeft(p) : p \in Positions \ S}
<1>1. Left \in SUBSET Nat /\ Left # {}
  BY PliesLeftType DEF MaxPlies, LeafDiscs
<1>2. PICK m \in Left : \A x \in Left : m <= x
  <2> HIDE DEF Left
  <2> QED
    BY <1>1, LeastElement
<1>3. PICK p \in Positions \ S : PliesLeft(p) = m
  BY <1>2
<1>4. ASSUME NEW q \in Successors(p) PROVE q \in S
  <2>1. q \in Positions /\ PliesLeft(q) < m
    BY <1>3, <1>4, SuccessorCloser
  <2>2. q \notin S => m <= PliesLeft(q)
    BY <1>2, <2>1
  <2>3. m \in Nat /\ PliesLeft(q) \in Nat
    BY <1>1, <1>2, <2>1, PliesLeftType DEF MaxPlies, LeafDiscs
  <2> QED
    BY <2>1, <2>2, <2>3
<1> QED
  BY <1>3, <1>4

-----------------------------------------------------------------------------
(* Greatest and least scores *)
Scores == -BoardSquares..BoardSquares

LEMMA MaxIs == ASSUME NEW S \in SUBSET Int, NEW m \in S, \A x \in S : x <= m PROVE Max(S) = m
<1>1. ASSUME NEW x \in S, \A y \in S : y <= x PROVE x = m
  BY <1>1
<1> QED
  BY <1>1 DEF Max

LEMMA LeastIs == ASSUME NEW S \in SUBSET Int, NEW m \in S, \A x \in S : m <= x PROVE Min(S) = m
<1>1. ASSUME NEW x \in S, \A y \in S : x <= y PROVE x = m
  BY <1>1
<1> QED
  BY <1>1 DEF Min

LEMMA GreatestScore ==
  ASSUME NEW S \in SUBSET Scores, S # {}
  PROVE  \E m \in S : \A x \in S : x <= m
<1> DEFINE Gaps == {BoardSquares - x : x \in S}
<1>1. Gaps \in SUBSET Nat /\ Gaps # {}
  <2>1. \A x \in S : BoardSquares - x \in Nat
    BY DEF Scores, BoardSquares
  <2> QED
    BY <2>1
<1>2. PICK g \in Gaps : \A x \in Gaps : g <= x
  <2> HIDE DEF Gaps
  <2> QED
    BY <1>1, LeastElement
<1>3. PICK m \in S : g = BoardSquares - m
  BY <1>2
<1>4. ASSUME NEW x \in S PROVE x <= m
  <2>1. g <= BoardSquares - x
    BY <1>2
  <2> QED
    BY <1>3, <2>1 DEF Scores, BoardSquares
<1> QED
  BY <1>4

LEMMA LeastScore ==
  ASSUME NEW S \in SUBSET Scores, S # {}
  PROVE  \E m \in S : \A x \in S : m <= x
<1> DEFINE Mirror == {-x : x \in S}
<1>1. Mirror \in SUBSET Scores /\ Mirror # {}
  <2>1. \A x \in S : -x \in Scores
    BY DEF Scores, BoardSquares
  <2> QED
    BY <2>1
<1>2. PICK g \in Mirror : \A x \in Mirror : x <= g
  <2> HIDE DEF Mirror
  <2> QED
    BY <1>1, GreatestScore
<1>3. PICK m \in S : g = -m
  BY <1>2
<1>4. ASSUME NEW x \in S PROVE m <= x
  <2>1. -x <= g
    BY <1>2
  <2> QED
    BY <1>3, <2>1 DEF Scores, BoardSquares
<1> QED
  BY <1>4

LEMMA BestIs ==
  ASSUME NEW S \in SUBSET (Scores \cup {Undetermined}), S # {}
  PROVE  IF Undetermined \in S THEN Best(S) = Undetermined
         ELSE Best(S) \in S /\ \A x \in S : x <= Best(S)
<1>1. CASE Undetermined \in S
  BY <1>1 DEF Best
<1>2. CASE Undetermined \notin S
  <2>1. PICK m \in S : \A x \in S : x <= m
    BY <1>2, GreatestScore
  <2>2. S \cup {NoValue} \in SUBSET Int /\ m \in S \cup {NoValue} /\ \A x \in S \cup {NoValue} : x <= m
    BY <1>2, <2>1 DEF Scores, BoardSquares, NoValue
  <2>3. Max(S \cup {NoValue}) = m
    BY <2>2, MaxIs
  <2> QED
    BY <1>2, <2>1, <2>3 DEF Best
<1> QED
  BY <1>1, <1>2

-----------------------------------------------------------------------------
(* The memo of minimaxValue: one value per position satisfies its equation. *)
ValueFrom(value, leafScores, p) ==
  CASE GameOver(p)               -> FinalScore[p]
    [] ~HasMoves(p) /\ ~GameOver(p) -> Negated(value[Passed[p]])
    [] Discs[p] >= LeafDiscs /\ HasMoves(p) ->
         IF p \in DOMAIN leafScores THEN leafScores[p] ELSE Undetermined
    [] OTHER                     -> Best({Negated(value[q]) : q \in Moves[p]})

LEMMA SuccessorsAre ==
  ASSUME NEW p \in Positions
  PROVE  /\ GameOver(p) => Successors(p) = {} /\ ~HasMoves(p)
         /\ ~HasMoves(p) /\ ~GameOver(p) => Successors(p) = {Passed[p]}
         /\ Discs[p] >= LeafDiscs /\ HasMoves(p) => Successors(p) = {}
         /\ HasMoves(p) /\ Discs[p] < LeafDiscs => Successors(p) = Moves[p] /\ Moves[p] # {}
<1>1. Discs[p] \in Nat /\ LeafDiscs \in Nat
  BY CacheAssumption DEF LeafDiscs, BoardSquares
<1>2. Discs[p] >= LeafDiscs <=> ~(Discs[p] < LeafDiscs)
  BY <1>1
<1>3. /\ HasMoves(p) /\ Discs[p] < LeafDiscs => Successors(p) = Moves[p]
      /\ Discs[p] >= LeafDiscs /\ HasMoves(p) => Successors(p) = {}
  BY <1>2, Zenon DEF Successors
<1> QED
  BY <1>3 DEF Successors, GameOver, HasMoves

LEMMA ValueDepends ==
  ASSUME NEW u, NEW v, NEW ls, NEW p \in Positions, \A q \in Successors(p) : u[q] = v[q]
  PROVE  ValueFrom(u, ls, p) = ValueFrom(v, ls, p)
<1>1. Discs[p] \in Nat /\ LeafDiscs \in Nat
  BY CacheAssumption DEF LeafDiscs, BoardSquares
<1>2. CASE GameOver(p) \/ (Discs[p] >= LeafDiscs /\ HasMoves(p))
  BY <1>2 DEF ValueFrom, GameOver
<1>3. CASE ~HasMoves(p) /\ ~GameOver(p)
  <2>1. u[Passed[p]] = v[Passed[p]]
    BY <1>3, SuccessorsAre
  <2> QED
    BY <1>3, <2>1 DEF ValueFrom
<1>4. CASE HasMoves(p) /\ Discs[p] < LeafDiscs
  <2>1. \A q \in Moves[p] : u[q] = v[q]
    BY <1>4, SuccessorsAre
  <2>2. {Negated(u[q]) : q \in Moves[p]} = {Negated(v[q]) : q \in Moves[p]}
    BY <2>1
  <2>3. \A w : ValueFrom(w, ls, p) = Best({Negated(w[q]) : q \in Moves[p]})
    BY <1>1, <1>4 DEF ValueFrom, GameOver
  <2> QED
    BY <2>2, <2>3
<1> QED
  BY <1>1, <1>2, <1>3, <1>4

LEMMA ValueUnfolds ==
  ASSUME NEW ls, NEW p \in Positions
  PROVE  MinimaxValue(ls)[p] = ValueFrom(MinimaxValue(ls), ls, p)
<1> DEFINE IsValue(v) == v = [q \in Positions |-> ValueFrom(v, ls, q)]
           Solved(v, n) == \A q \in Positions : PliesLeft(q) < n => v[q] = ValueFrom(v, ls, q)
           S == {n \in Nat : \E v : Solved(v, n)}
<1>1. 0 \in S
  <2>1. Solved([q \in Positions |-> 0], 0)
    BY PliesLeftType DEF MaxPlies, LeafDiscs
  <2> HIDE DEF Solved
  <2> QED
    BY <2>1
<1>2. ASSUME NEW n \in S PROVE n + 1 \in S
  <2>1. PICK v : Solved(v, n)
    OBVIOUS
  <2> DEFINE next == [q \in Positions |-> ValueFrom(v, ls, q)]
  <2>2. ASSUME NEW q \in Positions, PliesLeft(q) < n + 1 PROVE next[q] = ValueFrom(next, ls, q)
    <3>1. ASSUME NEW r \in Successors(q) PROVE next[r] = v[r]
      <4>1. r \in Positions /\ PliesLeft(r) < PliesLeft(q)
        BY <3>1, SuccessorCloser
      <4>2. PliesLeft(r) < n
        BY <2>2, <4>1, PliesLeftType DEF MaxPlies, LeafDiscs
      <4> QED
        BY <2>1, <4>1, <4>2
    <3> QED
      BY <3>1, ValueDepends
  <2>3. Solved(next, n + 1)
    BY <2>2
  <2> HIDE DEF Solved, next
  <2> QED
    BY <2>3
<1>3. MaxPlies \in S
  <2>1. S \in SUBSET Nat /\ MaxPlies \in Nat
    BY DEF MaxPlies, LeafDiscs
  <2> HIDE DEF S
  <2> QED
    BY <1>1, <1>2, <2>1, SetInduction
<1>4. PICK v : Solved(v, MaxPlies)
  BY <1>3
<1> DEFINE u == [q \in Positions |-> v[q]]
<1>5. IsValue(u)
  <2>1. \A q \in Positions : v[q] = ValueFrom(v, ls, q)
    BY <1>4, PliesLeftType DEF MaxPlies, LeafDiscs
  <2>2. \A q \in Positions : ValueFrom(u, ls, q) = ValueFrom(v, ls, q)
    BY ValueDepends, SuccessorCloser
  <2> QED
    BY <2>1, <2>2
<1>6. IsValue(CHOOSE w : IsValue(w))
  <2> HIDE DEF IsValue
  <2> QED
    BY <1>5
<1>7. MinimaxValue(ls) = CHOOSE w : IsValue(w)
  BY DEF MinimaxValue, ValueFrom
<1>8. IsValue(MinimaxValue(ls))
  <2> HIDE DEF IsValue
  <2> QED
    BY <1>6, <1>7
<1> QED
  BY <1>8, Zenon

(* Scores of leaves, as the book has them *)
LeafScoresOf(ls) == DOMAIN ls \subseteq Leaves /\ \A q \in DOMAIN ls : ls[q] \in Scores

LEMMA ScoresNegate ==
  /\ \A x \in Scores : x # Undetermined /\ -x \in Scores /\ Negated(x) = -x
  /\ Negated(Undetermined) = Undetermined
<1>1. Undetermined \notin Scores
  BY CacheAssumption DEF Scores
<1>2. \A x \in Scores : -x \in Scores
  BY DEF Scores, BoardSquares
<1> QED
  BY <1>1, <1>2 DEF Negated

(* A position has a value once all its children have, the best of theirs. *)
LEMMA ValueCases ==
  ASSUME NEW ls, LeafScoresOf(ls), NEW p \in Positions,
         \A q \in Successors(p) : MinimaxValue(ls)[q] \in Scores \cup {Undetermined}
  PROVE  LET v == MinimaxValue(ls) IN
         /\ v[p] \in Scores \cup {Undetermined}
         /\ Successors(p) = {} =>
              v[p] = IF GameOver(p) THEN FinalScore[p] ELSE IF p \in DOMAIN ls THEN ls[p] ELSE Undetermined
         /\ Successors(p) # {} =>
              IF \E q \in Successors(p) : v[q] = Undetermined THEN v[p] = Undetermined
              ELSE /\ v[p] \in Scores
                   /\ \A q \in Successors(p) : -v[q] <= v[p]
                   /\ \E q \in Successors(p) : v[p] = -v[q]
<1> DEFINE v == MinimaxValue(ls)
<1>1. v[p] = ValueFrom(v, ls, p)
  BY ValueUnfolds
<1>2. Discs[p] \in Nat /\ LeafDiscs \in Nat /\ FinalScore[p] \in Scores
  BY CacheAssumption DEF LeafDiscs, BoardSquares, Scores
<1>s. \A q \in Successors(p) : v[q] \in Scores \cup {Undetermined}
  OBVIOUS
<1> HIDE DEF v
<1>3. CASE GameOver(p)
  <2>1. v[p] = FinalScore[p]
    BY <1>1, <1>3 DEF ValueFrom, GameOver
  <2> QED
    BY <1>2, <1>3, <2>1, SuccessorsAre DEF v
<1>4. CASE Discs[p] >= LeafDiscs /\ HasMoves(p)
  <2>1. v[p] = IF p \in DOMAIN ls THEN ls[p] ELSE Undetermined
    BY <1>1, <1>4 DEF ValueFrom, GameOver
  <2> QED
    BY <1>4, <2>1, SuccessorsAre DEF v, LeafScoresOf, GameOver
<1>5. CASE ~HasMoves(p) /\ ~GameOver(p)
  <2>1. v[p] = Negated(v[Passed[p]]) /\ Successors(p) = {Passed[p]}
    BY <1>1, <1>5, SuccessorsAre DEF ValueFrom
  <2>2. v[Passed[p]] \in Scores \cup {Undetermined}
    BY <1>s, <2>1
  <2>3. CASE v[Passed[p]] = Undetermined
    BY <2>1, <2>3, ScoresNegate DEF v
  <2>4. CASE v[Passed[p]] \in Scores
    <3>1. v[p] = -v[Passed[p]] /\ v[p] \in Scores /\ v[Passed[p]] # Undetermined
      BY <2>1, <2>4, ScoresNegate
    <3> QED
      BY <2>1, <3>1 DEF v, Scores
  <2> QED
    BY <2>2, <2>3, <2>4
<1>6. CASE HasMoves(p) /\ Discs[p] < LeafDiscs
  <2> DEFINE children == {Negated(v[q]) : q \in Moves[p]}
  <2>1. v[p] = Best(children) /\ Successors(p) = Moves[p] /\ Moves[p] # {}
    BY <1>1, <1>2, <1>6, SuccessorsAre DEF ValueFrom, GameOver
  <2>2. \A q \in Moves[p] : /\ Negated(v[q]) \in Scores \cup {Undetermined}
                            /\ Negated(v[q]) = Undetermined <=> v[q] = Undetermined
                            /\ v[q] # Undetermined => v[q] \in Scores /\ Negated(v[q]) = -v[q]
    BY <1>s, <2>1, ScoresNegate
  <2>3. children \in SUBSET (Scores \cup {Undetermined}) /\ children # {}
    BY <2>1, <2>2
  <2>4. IF Undetermined \in children THEN Best(children) = Undetermined
        ELSE Best(children) \in children /\ \A x \in children : x <= Best(children)
    <3> HIDE DEF children
    <3> QED
      BY <2>3, BestIs
  <2>5. Undetermined \in children <=> \E q \in Moves[p] : v[q] = Undetermined
    BY <2>2
  <2>6. CASE \E q \in Moves[p] : v[q] = Undetermined
    BY <2>1, <2>4, <2>5, <2>6 DEF v
  <2>7. CASE ~\E q \in Moves[p] : v[q] = Undetermined
    <3>1. \A q \in Moves[p] : -v[q] \in children
      BY <2>2, <2>7
    <3>2. \A q \in Moves[p] : -v[q] <= v[p]
      <4> HIDE DEF children
      <4> QED
        BY <2>1, <2>4, <2>5, <2>7, <3>1
    <3>3. v[p] \in children
      <4> HIDE DEF children
      <4> QED
        BY <2>1, <2>4, <2>5, <2>7
    <3>4. PICK q \in Moves[p] : v[p] = -v[q]
      BY <2>2, <2>7, <3>3
    <3>5. v[p] \in Scores
      BY <2>2, <2>7, <3>4, ScoresNegate
    <3> QED
      BY <2>1, <2>7, <3>2, <3>4, <3>5 DEF v
  <2> QED
    BY <2>6, <2>7
<1> QED
  BY <1>2, <1>3, <1>4, <1>5, <1>6

LEMMA ValueType ==
  ASSUME NEW ls, LeafScoresOf(ls)
  PROVE  \A p \in Positions : MinimaxValue(ls)[p] \in Scores \cup {Undetermined}
<1> DEFINE S == {p \in Positions : MinimaxValue(ls)[p] \in Scores \cup {Undetermined}}
<1>1. ASSUME NEW p \in Positions, Successors(p) \subseteq S PROVE p \in S
  BY <1>1, ValueCases
<1>2. S \in SUBSET Positions
  OBVIOUS
<1>3. \A p \in Positions : p \in S
  <2> HIDE DEF S
  <2> QED
    BY <1>1, <1>2, PliesInduction
<1> QED
  BY <1>3

(* The cache covers a position exactly if all leaves under it are known. *)
LEMMA ValueIffCovered ==
  ASSUME NEW ls, LeafScoresOf(ls)
  PROVE  \A p \in Positions : MinimaxValue(ls)[p] # Undetermined <=> Covered(p, ls)
<1> DEFINE v == MinimaxValue(ls)
           S == {p \in Positions : v[p] # Undetermined <=> Covered(p, ls)}
<1>1. ASSUME NEW p \in Positions, Successors(p) \subseteq S PROVE p \in S
  <2>1. ReachedFrom(p) = {p} \cup UNION {ReachedFrom(q) : q \in Successors(p)}
    BY ReachedOnward
  <2>2. CASE Successors(p) = {}
    <3>1. v[p] = IF GameOver(p) THEN FinalScore[p] ELSE IF p \in DOMAIN ls THEN ls[p] ELSE Undetermined
      BY <2>2, ValueCases
    <3>2. FinalScore[p] \in Scores
      BY CacheAssumption DEF Scores
    <3>3. Covered(p, ls) <=> GameOver(p) \/ p \in DOMAIN ls
      BY <2>1, <2>2 DEF Covered, Ends
    <3> QED
      BY <3>1, <3>2, <3>3, ScoresNegate DEF LeafScoresOf
  <2>3. CASE Successors(p) # {}
    <3>1. Covered(p, ls) <=> \A q \in Successors(p) : Covered(q, ls)
      BY <2>1, <2>3 DEF Covered, Ends
    <3>2. \A q \in Successors(p) : v[q] # Undetermined <=> Covered(q, ls)
      BY <1>1
    <3>3. v[p] # Undetermined <=> \A q \in Successors(p) : v[q] # Undetermined
      <4>1. \A q \in Successors(p) : MinimaxValue(ls)[q] \in Scores \cup {Undetermined}
        BY ValueType, SuccessorCloser
      <4> QED
        BY <2>3, <4>1, ValueCases, ScoresNegate
    <3> HIDE DEF v
    <3> QED
      BY <3>1, <3>2, <3>3
  <2> QED
    BY <2>2, <2>3
<1>2. S \in SUBSET Positions
  OBVIOUS
<1>3. \A p \in Positions : p \in S
  <2> HIDE DEF S
  <2> QED
    BY <1>1, <1>2, PliesInduction
<1> QED
  BY <1>3

-----------------------------------------------------------------------------
(* Plays between two strategies *)
PlayState == [at : ReachedFrom(Root), mover : Strategies, waiter : Strategies, sign : {1, -1}]
PlayStart(p, own, other) == [at |-> p, mover |-> own, waiter |-> other, sign |-> 1]

LEMMA RootReaches == ReachedFrom(Root) \subseteq Positions
  BY ReachedIsClosed, CacheAssumption

LEMMA PlyMoves ==
  ASSUME NEW s \in PlayState
  PROVE  /\ Ply(s) \in PlayState
         /\ Ends(s.at) => Ply(s) = s
         /\ ~Ends(s.at) =>
              /\ Ply(s).at \in Successors(s.at)
              /\ HasMoves(s.at) => s.at \in Deciding /\ Ply(s).at = s.mover[s.at]
              /\ Ply(s).mover = s.waiter /\ Ply(s).waiter = s.mover /\ Ply(s).sign = -s.sign
<1>1. /\ s.at \in ReachedFrom(Root) /\ s.at \in Positions
      /\ s.mover \in Strategies /\ s.waiter \in Strategies /\ s.sign \in {1, -1}
  BY RootReaches DEF PlayState
<1>2. CASE Ends(s.at)
  BY <1>2 DEF Ply
<1>3. CASE ~Ends(s.at)
  <2> DEFINE next == IF HasMoves(s.at) THEN s.mover[s.at] ELSE Passed[s.at]
  <2>1. Ply(s) = [at |-> next, mover |-> s.waiter, waiter |-> s.mover, sign |-> -s.sign]
    BY <1>3 DEF Ply
  <2>2. HasMoves(s.at) => s.at \in Deciding /\ s.mover[s.at] \in Moves[s.at]
    BY <1>1, <1>3 DEF Deciding, Strategies
  <2>3. Discs[s.at] \in Nat /\ LeafDiscs \in Nat
    BY <1>1, CacheAssumption DEF LeafDiscs, BoardSquares
  <2>4. next \in Successors(s.at)
    BY <1>1, <1>3, <2>2, <2>3, SuccessorsAre DEF Ends
  <2>5. next \in ReachedFrom(Root)
    BY <1>1, <2>4, ReachedIsClosed, CacheAssumption
  <2> HIDE DEF next
  <2>6. Ply(s) \in PlayState /\ Ply(s).at = next
    BY <1>1, <2>1, <2>5 DEF PlayState
  <2> QED
    BY <1>3, <2>1, <2>2, <2>4, <2>6 DEF next
<1> QED
  BY <1>2, <1>3

LEMMA PlayIterates ==
  ASSUME NEW start \in PlayState
  PROVE  \E f \in [0..MaxPlies -> PlayState] : f[0] = start /\ \A n \in 1..MaxPlies : f[n] = Ply(f[n - 1])
<1> DEFINE A == PlayState
           G == [s \in A |-> Ply(s)]
<1>1. MaxPlies \in Nat
  BY DEF MaxPlies, LeafDiscs
<1>2. G \in [A -> A]
  BY PlyMoves
<1>3. PICK f \in [0..MaxPlies -> A] : f[0] = start /\ \A n \in 1..MaxPlies : f[n] = G[f[n - 1]]
  <2> HIDE DEF G, A
  <2>1. start \in A
    BY DEF A
  <2>2. PICK f : Iterates(f, A, start, G, MaxPlies)
    BY <1>1, <1>2, <2>1, Iteration
  <2> QED
    BY <2>2 DEF Iterates
<1>4. ASSUME NEW n \in 1..MaxPlies PROVE f[n] = Ply(f[n - 1])
  <2>1. n - 1 \in 0..MaxPlies
    BY <1>1
  <2>2. f[n] = G[f[n - 1]] /\ f[n - 1] \in A
    <3> HIDE DEF G
    <3> QED
      BY <1>3, <2>1
  <2> HIDE DEF A
  <2> QED
    BY <2>2
<1> QED
  BY <1>3, <1>4

LEMMA PlayRuns ==
  ASSUME NEW p \in ReachedFrom(Root), NEW own \in Strategies, NEW other \in Strategies
  PROVE  \E w : /\ w[0] = PlayStart(p, own, other) /\ \A n \in 1..MaxPlies : w[n] = Ply(w[n - 1])
               /\ EndOfPlay(p, own, other) = w[MaxPlies]
<1> DEFINE start == PlayStart(p, own, other)
           IsPlay(w) == w = [n \in 0..MaxPlies |-> IF n = 0 THEN start ELSE Ply(w[n - 1])]
           w == CHOOSE w : IsPlay(w)
<1>1. start \in PlayState
  BY DEF PlayState, PlayStart
<1>2. MaxPlies \in Nat
  BY DEF MaxPlies, LeafDiscs
<1>3. EndOfPlay(p, own, other) = w[MaxPlies]
  BY DEF EndOfPlay, PlayStart
<1>4. PICK f \in [0..MaxPlies -> PlayState] : f[0] = start /\ \A n \in 1..MaxPlies : f[n] = Ply(f[n - 1])
  BY <1>1, PlayIterates
<1> HIDE DEF start
<1>6. IsPlay(f)
  BY <1>2, <1>4
<1>7. IsPlay(w)
  <2> HIDE DEF IsPlay
  <2> QED
    BY <1>6
<1> HIDE DEF w
<1>8. \A n \in 0..MaxPlies : w[n] = IF n = 0 THEN start ELSE Ply(w[n - 1])
  BY <1>7, Zenon
<1>9. w[0] = start /\ \A n \in 1..MaxPlies : w[n] = Ply(w[n - 1])
  BY <1>2, <1>8
<1> QED
  BY <1>3, <1>9 DEF start

LEMMA PlayKeeps ==
  ASSUME NEW p \in ReachedFrom(Root), NEW own \in Strategies, NEW other \in Strategies,
         NEW J, PlayStart(p, own, other) \in J, \A s \in J : Ply(s) \in J
  PROVE  EndOfPlay(p, own, other) \in J
<1>1. PICK w : /\ w[0] = PlayStart(p, own, other) /\ \A n \in 1..MaxPlies : w[n] = Ply(w[n - 1])
               /\ EndOfPlay(p, own, other) = w[MaxPlies]
  BY PlayRuns
<1>2. MaxPlies \in Nat
  BY DEF MaxPlies, LeafDiscs
<1> DEFINE S == {n \in Nat : n <= MaxPlies => w[n] \in J}
<1>3. 0 \in S
  BY <1>1
<1>4. ASSUME NEW n \in S PROVE n + 1 \in S
  <2> SUFFICES ASSUME n + 1 <= MaxPlies PROVE w[n + 1] \in J
    OBVIOUS
  <2>1. w[n + 1] = Ply(w[n]) /\ w[n] \in J
    BY <1>1, <1>2
  <2> QED
    BY <2>1
<1>5. MaxPlies \in S
  <2>1. S \in SUBSET Nat
    OBVIOUS
  <2> HIDE DEF S
  <2> QED
    BY <1>2, <1>3, <1>4, <2>1, SetInduction
<1> QED
  BY <1>1, <1>5

LEMMA PlayEnds ==
  ASSUME NEW p \in ReachedFrom(Root), NEW own \in Strategies, NEW other \in Strategies
  PROVE  EndOfPlay(p, own, other) \in PlayState /\ Ends(EndOfPlay(p, own, other).at)
<1>1. PICK w : /\ w[0] = PlayStart(p, own, other) /\ \A n \in 1..MaxPlies : w[n] = Ply(w[n - 1])
               /\ EndOfPlay(p, own, other) = w[MaxPlies]
  BY PlayRuns
<1>2. MaxPlies \in Nat
  BY DEF MaxPlies, LeafDiscs
<1> DEFINE S == {n \in Nat : n <= MaxPlies =>
                   w[n] \in PlayState /\ (Ends(w[n].at) \/ PliesLeft(w[n].at) <= MaxPlies - 1 - n)}
<1>3. 0 \in S
  <2>1. w[0] \in PlayState /\ w[0].at = p /\ p \in Positions
    BY <1>1, RootReaches DEF PlayState, PlayStart
  <2> QED
    BY <1>2, <2>1, PliesLeftType
<1>4. ASSUME NEW n \in S PROVE n + 1 \in S
  <2> SUFFICES ASSUME n + 1 <= MaxPlies
               PROVE  /\ w[n + 1] \in PlayState
                      /\ Ends(w[n + 1].at) \/ PliesLeft(w[n + 1].at) <= MaxPlies - 1 - (n + 1)
    OBVIOUS
  <2>1. /\ w[n + 1] = Ply(w[n]) /\ w[n] \in PlayState
        /\ Ends(w[n].at) \/ PliesLeft(w[n].at) <= MaxPlies - 1 - n
    BY <1>1, <1>2
  <2>2. w[n + 1] \in PlayState
    BY <2>1, PlyMoves
  <2>3. CASE Ends(w[n].at)
    BY <2>1, <2>2, <2>3, PlyMoves
  <2>4. CASE ~Ends(w[n].at)
    <3>1. w[n].at \in Positions /\ w[n + 1].at \in Successors(w[n].at)
      BY <2>1, <2>4, PlyMoves, RootReaches DEF PlayState
    <3>2. w[n + 1].at \in Positions /\ PliesLeft(w[n + 1].at) < PliesLeft(w[n].at)
      BY <3>1, SuccessorCloser
    <3>3. PliesLeft(w[n + 1].at) \in Int /\ PliesLeft(w[n].at) \in Int
      BY <1>2, <3>1, <3>2, PliesLeftType
    <3> QED
      BY <1>2, <2>1, <2>2, <2>4, <3>2, <3>3
  <2> QED
    BY <2>3, <2>4
<1>5. MaxPlies \in S
  <2>1. S \in SUBSET Nat
    OBVIOUS
  <2> HIDE DEF S
  <2> QED
    BY <1>2, <1>3, <1>4, <2>1, SetInduction
<1>6. w[MaxPlies] \in PlayState /\ (Ends(w[MaxPlies].at) \/ PliesLeft(w[MaxPlies].at) < 0)
  BY <1>2, <1>5, PliesLeftType, RootReaches DEF PlayState
<1>7. w[MaxPlies].at \in Positions
  BY <1>6, RootReaches DEF PlayState
<1> QED
  BY <1>1, <1>2, <1>6, <1>7, PliesLeftType

-----------------------------------------------------------------------------
(* Best play: a strategy that always moves to a child of the position's    *)
(* value gets its player that value at least, whatever the other does.     *)
Optimal(ls, strategy) ==
  \A q \in Deciding :
    MinimaxValue(ls)[q] \in Scores => MinimaxValue(ls)[q] = -MinimaxValue(ls)[strategy[q]]

LEMMA DecidingMoves ==
  ASSUME NEW q \in Deciding
  PROVE  q \in Positions /\ Successors(q) = Moves[q] /\ Moves[q] # {}
<1>1. q \in Positions /\ Discs[q] \in Nat /\ LeafDiscs \in Nat /\ HasMoves(q) /\ Successors(q) # {}
  BY RootReaches, CacheAssumption DEF Deciding, Ends, LeafDiscs, BoardSquares
<1> QED
  BY <1>1, SuccessorsAre

LEMMA OptimalExists ==
  ASSUME NEW ls, LeafScoresOf(ls)
  PROVE  \E strategy \in Strategies : Optimal(ls, strategy)
<1> DEFINE v == MinimaxValue(ls)
           Good(q, m) == v[q] \in Scores => v[q] = -v[m]
           best == [q \in Deciding |-> CHOOSE m \in Moves[q] : Good(q, m)]
<1>1. ASSUME NEW q \in Deciding PROVE \E m \in Moves[q] : Good(q, m)
  <2>1. q \in Positions /\ Successors(q) = Moves[q] /\ Moves[q] # {}
    BY DecidingMoves
  <2>2. \A m \in Successors(q) : v[m] \in Scores \cup {Undetermined}
    BY <2>1, SuccessorCloser, ValueType
  <2>3. v[q] \in Scores => \E m \in Successors(q) : v[q] = -v[m]
    BY <2>1, <2>2, ValueCases, ScoresNegate
  <2> HIDE DEF v
  <2> QED
    BY <2>1, <2>3
<1>2. \A q \in Deciding : best[q] \in Moves[q] /\ Good(q, best[q])
  <2> HIDE DEF Good
  <2> QED
    BY <1>1
<1>3. best \in Strategies
  <2>1. best \in [Deciding -> UNION {Moves[q] : q \in Deciding}]
    <3> HIDE DEF Good
    <3> QED
      BY <1>2
  <2> HIDE DEF best
  <2> QED
    BY <1>2, <2>1 DEF Strategies
<1>4. Optimal(ls, best)
  <2> HIDE DEF best
  <2> QED
    BY <1>2 DEF Optimal
<1> QED
  BY <1>3, <1>4

LEMMA OutcomeBounds ==
  ASSUME NEW ls, LeafScoresOf(ls), NEW p \in ReachedFrom(Root), MinimaxValue(ls)[p] \in Scores,
         NEW own \in Strategies, NEW other \in Strategies
  PROVE  /\ Outcome(p, own, other, ls) \in Scores
         /\ Optimal(ls, own) => MinimaxValue(ls)[p] <= Outcome(p, own, other, ls)
         /\ Optimal(ls, other) => Outcome(p, own, other, ls) <= MinimaxValue(ls)[p]
<1> DEFINE v == MinimaxValue(ls)
           J == {s \in PlayState :
                   /\ v[s.at] \in Scores
                   /\ s.sign = 1 => s.mover = own /\ s.waiter = other
                   /\ s.sign = -1 => s.mover = other /\ s.waiter = own
                   /\ Optimal(ls, own) => v[p] <= s.sign * v[s.at]
                   /\ Optimal(ls, other) => s.sign * v[s.at] <= v[p]}
<1>1. PlayStart(p, own, other) \in J
  <2>1. PlayStart(p, own, other) \in PlayState
    BY DEF PlayStart, PlayState
  <2>2. v[p] \in Int /\ v[p] \in Scores
    BY DEF Scores, BoardSquares
  <2> HIDE DEF v
  <2>3. 1 * v[p] = v[p]
    BY <2>2
  <2> QED
    BY <2>1, <2>2, <2>3 DEF PlayStart
<1>2. ASSUME NEW s \in J PROVE Ply(s) \in J
  <2>1. s \in PlayState /\ s.at \in Positions /\ s.sign \in {1, -1} /\ v[s.at] \in Scores
    BY RootReaches DEF PlayState
  <2>2. CASE Ends(s.at)
    BY <2>1, <2>2, PlyMoves
  <2>3. CASE ~Ends(s.at)
    <3> DEFINE q == Ply(s).at
    <3>1. /\ Ply(s) \in PlayState /\ q \in Successors(s.at)
          /\ HasMoves(s.at) => s.at \in Deciding /\ q = s.mover[s.at]
          /\ Ply(s).mover = s.waiter /\ Ply(s).waiter = s.mover /\ Ply(s).sign = -s.sign
      BY <2>1, <2>3, PlyMoves
    <3>2. \A r \in Successors(s.at) : MinimaxValue(ls)[r] \in Scores \cup {Undetermined}
      BY <2>1, SuccessorCloser, ValueType
    <3>3. v[q] \in Scores /\ -v[q] <= v[s.at]
      BY <2>1, <3>1, <3>2, ValueCases, ScoresNegate
    <3>4. ~HasMoves(s.at) => v[s.at] = -v[q]
      <4>1. ASSUME ~HasMoves(s.at) PROVE Successors(s.at) = {q}
        BY <2>1, <3>1, <4>1, SuccessorsAre
      <4> QED
        BY <2>1, <3>1, <3>2, <4>1, ValueCases, ScoresNegate
    <3>5. Optimal(ls, s.mover) => v[s.at] = -v[q]
      BY <2>1, <3>1, <3>4 DEF Optimal
    <3>6. v[q] \in Int /\ v[s.at] \in Int /\ v[p] \in Int
      BY <2>1, <3>3 DEF Scores, BoardSquares
    <3>9. /\ s.sign = 1 => s.mover = own /\ s.waiter = other
          /\ s.sign = -1 => s.mover = other /\ s.waiter = own
          /\ Optimal(ls, own) => v[p] <= s.sign * v[s.at]
          /\ Optimal(ls, other) => s.sign * v[s.at] <= v[p]
      OBVIOUS
    <3> HIDE DEF v, q
    <3>10. Ply(s) \in J <=>
             /\ Ply(s).sign = 1 => Ply(s).mover = own /\ Ply(s).waiter = other
             /\ Ply(s).sign = -1 => Ply(s).mover = other /\ Ply(s).waiter = own
             /\ Optimal(ls, own) => v[p] <= Ply(s).sign * v[q]
             /\ Optimal(ls, other) => Ply(s).sign * v[q] <= v[p]
      BY <3>1, <3>3 DEF q
    <3> HIDE DEF J
    <3>7. CASE s.sign = 1
      <4>1. s.mover = own /\ s.waiter = other /\ Ply(s).sign = -1
        BY <3>1, <3>7, <3>9
      <4>2. Optimal(ls, own) => v[p] <= (-1) * v[q]
        BY <3>5, <3>6, <3>7, <3>9, <4>1
      <4>3. Optimal(ls, other) => (-1) * v[q] <= v[p]
        BY <3>3, <3>6, <3>7, <3>9
      <4> QED
        BY <3>1, <3>10, <4>1, <4>2, <4>3
    <3>8. CASE s.sign = -1
      <4>0. Ply(s).sign = 1
        <5>1. Ply(s).sign = -s.sign /\ \A x \in Int : x = -1 => -x = 1
          BY <3>1
        <5>2. s.sign \in Int
          BY <3>8
        <5> QED
          BY <3>8, <5>1, <5>2
      <4>1. s.mover = other /\ s.waiter = own /\ Ply(s).sign = 1
        BY <3>8, <3>9, <4>0
      <4>2. Optimal(ls, own) => v[p] <= 1 * v[q]
        BY <3>3, <3>6, <3>8, <3>9
      <4>3. Optimal(ls, other) => 1 * v[q] <= v[p]
        BY <3>5, <3>6, <3>8, <3>9, <4>1
      <4> QED
        BY <3>1, <3>10, <4>1, <4>2, <4>3
    <3> QED
      BY <2>1, <3>7, <3>8
  <2> QED
    BY <2>2, <2>3
<1> DEFINE end == EndOfPlay(p, own, other)
<1>3. end \in J
  <2> HIDE DEF J
  <2> QED
    BY <1>1, <1>2, PlayKeeps
<1>4. Ends(end.at) /\ end.sign \in {1, -1} /\ end.at \in Positions
  BY PlayEnds, RootReaches DEF PlayState
<1>5. v[end.at] = IF GameOver(end.at) THEN FinalScore[end.at] ELSE ls[end.at]
  <2>1. v[end.at] # Undetermined
    BY <1>3, ScoresNegate
  <2> QED
    BY <1>4, <2>1, ValueCases DEF Ends
<1>6. Outcome(p, own, other, ls) = end.sign * v[end.at]
  BY <1>5 DEF Outcome
<1>7. end.sign * v[end.at] \in Scores
  <2>1. v[end.at] \in Scores
    BY <1>3
  <2> HIDE DEF v, end
  <2> QED
    BY <1>4, <2>1 DEF Scores, BoardSquares
<1> QED
  BY <1>3, <1>6, <1>7

LEMMA ValueIsBestPlay ==
  ASSUME NEW ls, LeafScoresOf(ls), NEW p \in ReachedFrom(Root), MinimaxValue(ls)[p] \in Scores
  PROVE  MinimaxValue(ls)[p] =
           Max({Min({Outcome(p, own, other, ls) : other \in Strategies}) : own \in Strategies})
<1> DEFINE v == MinimaxValue(ls)[p]
           Results(own) == {Outcome(p, own, other, ls) : other \in Strategies}
           Mins == {Min(Results(own)) : own \in Strategies}
<1>1. PICK best \in Strategies : Optimal(ls, best)
  BY OptimalExists
<1>2. ASSUME NEW own \in Strategies
      PROVE  /\ Min(Results(own)) \in Results(own) /\ Min(Results(own)) \in Scores
             /\ \A x \in Results(own) : Min(Results(own)) <= x
  <2>1. Results(own) \in SUBSET Scores /\ Results(own) # {}
    BY <1>1, OutcomeBounds
  <2>2. PICK m \in Results(own) : \A x \in Results(own) : m <= x
    <3> HIDE DEF Results
    <3> QED
      BY <2>1, LeastScore
  <2>3. Results(own) \in SUBSET Int /\ Scores \subseteq Int
    <3>1. Scores \subseteq Int
      BY DEF Scores, BoardSquares
    <3> QED
      BY <2>1, <3>1
  <2>4. Min(Results(own)) = m
    <3> HIDE DEF Results
    <3> QED
      BY <2>2, <2>3, LeastIs
  <2> HIDE DEF Results
  <2> QED
    BY <2>1, <2>2, <2>4
<1>3. \A own \in Strategies : Min(Results(own)) <= v
  <2>1. ASSUME NEW own \in Strategies PROVE Min(Results(own)) <= v
    <3>1. Outcome(p, own, best, ls) \in Results(own) /\ Outcome(p, own, best, ls) \in Scores
      BY <1>1, OutcomeBounds
    <3>2. Outcome(p, own, best, ls) <= v
      BY <1>1, OutcomeBounds
    <3>3. Min(Results(own)) <= Outcome(p, own, best, ls) /\ Min(Results(own)) \in Scores
      BY <1>2, <3>1
    <3> HIDE DEF Results, v
    <3>4. v \in Scores
      BY DEF v
    <3> QED
      BY <3>1, <3>2, <3>3, <3>4 DEF Scores, BoardSquares
  <2> QED
    BY <2>1
<1>4. v <= Min(Results(best))
  <2>1. \A x \in Results(best) : v <= x
    BY <1>1, OutcomeBounds
  <2> HIDE DEF Results
  <2> QED
    BY <1>1, <1>2, <2>1
<1>5. Min(Results(best)) = v
  <2>1. Min(Results(best)) \in Scores /\ v \in Scores /\ Min(Results(best)) <= v
    BY <1>1, <1>2, <1>3
  <2> HIDE DEF Results, v
  <2> QED
    BY <1>4, <2>1 DEF Scores, BoardSquares
<1>6. Mins \in SUBSET Int /\ v \in Mins /\ \A x \in Mins : x <= v
  <2>1. Scores \subseteq Int
    BY DEF Scores, BoardSquares
  <2> HIDE DEF Results, v
  <2> QED
    BY <1>1, <1>2, <1>3, <1>5, <2>1
<1>7. Max(Mins) = v
  <2> HIDE DEF Mins, v
  <2> QED
    BY <1>6, MaxIs
<1> QED
  BY <1>7

-----------------------------------------------------------------------------
(* The cache is what buildCache makes of scores that leaves had.           *)
CacheInv ==
  /\ boards \in [Leaves -> [level : Nat, score : Scores]]
  /\ DOMAIN leaves = Handlers
  /\ \A h \in Handlers : pc[h] = "building" => LeafScoresOf(leaves[h])
  /\ DOMAIN pc = Handlers
  /\ LeafScoresOf(source) /\ cache = BuildCache(source)

LEMMA LearnedAreScores ==
  ASSUME boards \in [Leaves -> [level : Nat, score : Scores]]
  PROVE  LeafScoresOf(LearnedLeaves)
  BY DEF LeafScoresOf, LearnedLeaves

LEMMA CacheInit == Init => CacheInv
<1> SUFFICES ASSUME Init PROVE CacheInv
  OBVIOUS
<1>1. boards \in [Leaves -> [level : Nat, score : Scores]]
  BY DEF Init, Scores, BoardSquares
<1>2. source = LearnedLeaves /\ cache = BuildCache(LearnedLeaves)
  BY Zenon DEF Init, CacheAtStart
<1> QED
  BY <1>1, <1>2, LearnedAreScores DEF Init, CacheInv

LEMMA CacheStep == CacheInv /\ [Next]_vars => CacheInv'
<1> SUFFICES ASSUME CacheInv, [Next]_vars PROVE CacheInv'
  OBVIOUS
<1> USE DEF CacheInv
<1>1. ASSUME NEW h \in Handlers, NEW s \in Submissions, Save(h, s) PROVE CacheInv'
  <2>1. /\ boards' = [boards EXCEPT ![s.leaf] =
             IF s.level > @.level THEN [level |-> s.level, score |-> s.score] ELSE @]
        /\ pc' = [pc EXCEPT ![h] = "loading"]
        /\ leaves' = leaves /\ source' = source /\ cache' = cache
    BY <1>1, Zenon DEF Save, RebuildAfter
  <2>2. s.leaf \in Leaves /\ s.level \in Nat /\ s.score \in Scores
    BY CacheAssumption DEF Scores, MaxLevel
  <2>3. boards' \in [Leaves -> [level : Nat, score : Scores]]
    BY <2>1, <2>2
  <2> QED
    BY <2>1, <2>3
<1>2. ASSUME NEW h \in Handlers, Load(h) PROVE CacheInv'
  <2>1. /\ pc' = [pc EXCEPT ![h] = "building"] /\ leaves' = [leaves EXCEPT ![h] = LearnedLeaves]
        /\ boards' = boards /\ source' = source /\ cache' = cache
    BY <1>2 DEF Load
  <2>2. leaves'[h] = LearnedLeaves /\ LeafScoresOf(LearnedLeaves)
    BY <2>1, LearnedAreScores
  <2> QED
    BY <2>1, <2>2
<1>3. ASSUME NEW h \in Handlers, LoadFails(h) PROVE CacheInv'
  BY <1>3 DEF LoadFails
<1>4. ASSUME NEW h \in Handlers, Install(h) PROVE CacheInv'
  <2>1. /\ pc[h] = "building" /\ cache' = BuildCache(leaves[h]) /\ source' = leaves[h]
        /\ pc' = [pc EXCEPT ![h] = "idle"] /\ leaves' = [leaves EXCEPT ![h] = <<>>]
        /\ boards' = boards
    BY <1>4 DEF Install
  <2> QED
    BY <2>1
<1>5. ASSUME Restart PROVE CacheInv'
  <2>1. source' = LearnedLeaves /\ cache' = BuildCache(LearnedLeaves) /\ boards' = boards
    BY <1>5, Zenon DEF Restart, CacheAtStart
  <2>2. \A h \in Handlers : pc'[h] = "idle"
    BY <1>5 DEF Restart
  <2>3. DOMAIN pc' = Handlers /\ DOMAIN leaves' = Handlers
    BY <1>5 DEF Restart
  <2> QED
    BY <2>1, <2>2, <2>3, LearnedAreScores
<1>6. ASSUME UNCHANGED vars PROVE CacheInv'
  BY <1>6 DEF vars, codeVars
<1> QED
  BY <1>1, <1>2, <1>3, <1>4, <1>5, <1>6 DEF Next

LEMMA BestPlayCached == CacheInv => CacheIsBestPlay
<1> SUFFICES ASSUME CacheInv PROVE CacheIsBestPlay
  OBVIOUS
<1> DEFINE v == MinimaxValue(source)
           covered == {q \in ReachedFrom(Root) : Discs[q] < LeafDiscs /\ v[q] # Undetermined}
<1>1. LeafScoresOf(source) /\ cache = [p \in covered |-> v[p]]
  BY DEF CacheInv, BuildCache
<1>2. \A q \in ReachedFrom(Root) : v[q] # Undetermined <=> Covered(q, source)
  BY <1>1, ValueIffCovered, RootReaches
<1>3. DOMAIN cache = {p \in ReachedFrom(Root) : Discs[p] < LeafDiscs /\ Covered(p, source)}
  BY <1>1, <1>2
<1>4. ASSUME NEW p \in DOMAIN cache
      PROVE  cache[p] = Max({Min({Outcome(p, own, other, source) : other \in Strategies}) : own \in Strategies})
  <2>1. p \in covered /\ cache[p] = v[p]
    BY <1>1
  <2>2. v[p] \in Scores
    BY <1>1, <2>1, ValueType, RootReaches
  <2> QED
    BY <1>1, <2>1, <2>2, ValueIsBestPlay
<1> QED
  BY <1>3, <1>4 DEF CacheIsBestPlay

(* Whatever the game graph, the leaves learned and the order of the        *)
(* rebuilds: the cache serves exactly the positions all whose leaves were  *)
(* learned together, each with the score that best play leads to from the  *)
(* leaves (buildCache, "omitting any position with an unlearned            *)
(* leafDiscs-disc descendant rather than guessing at it", minimax.go).     *)
THEOREM CacheServesBestPlay == Spec => []CacheIsBestPlay
  BY CacheInit, CacheStep, BestPlayCached, PTL DEF Spec

-----------------------------------------------------------------------------
(***************************************************************************)
(* AnalysisLadder                                                          *)
(***************************************************************************)

LEMMA LesserOf == ASSUME NEW a \in Int, NEW b \in Int PROVE Min({a, b}) = IF a <= b THEN a ELSE b
<1> DEFINE m == IF a <= b THEN a ELSE b
<1>1. {a, b} \in SUBSET Int /\ m \in {a, b} /\ \A x \in {a, b} : m <= x
  OBVIOUS
<1> HIDE DEF m
<1>2. Min({a, b}) = m
  BY <1>1, LeastIs
<1> QED
  BY <1>2 DEF m

LEMMA GreaterOf == ASSUME NEW a \in Int, NEW b \in Int PROVE Max({a, b}) = IF a <= b THEN b ELSE a
<1> DEFINE m == IF a <= b THEN b ELSE a
<1>1. {a, b} \in SUBSET Int /\ m \in {a, b} /\ \A x \in {a, b} : x <= m
  OBVIOUS
<1> HIDE DEF m
<1>2. Max({a, b}) = m
  BY <1>1, MaxIs
<1> QED
  BY <1>2 DEF m

(* The first tier that covers a disc count is its target. *)
LEMMA TargetLevels ==
  ASSUME NEW d \in 0..BoardSquares
  PROVE  TargetLevel(d) = IF d <= 13 THEN 40 ELSE IF d <= 16 THEN 36 ELSE IF d <= 20 THEN 34 ELSE 32
<1> DEFINE covering == {i \in DOMAIN TargetLevelTiers : d <= TargetLevelTiers[i][1]}
           first == IF d <= 13 THEN 1 ELSE IF d <= 16 THEN 2 ELSE IF d <= 20 THEN 3 ELSE 4
<1>1. covering \in SUBSET Int /\ first \in covering /\ \A i \in covering : first <= i
  BY DEF TargetLevelTiers, BoardSquares
<1>2. Min(covering) = first
  <2> HIDE DEF covering, first
  <2> QED
    BY <1>1, LeastIs
<1>3. TargetLevel(d) = TargetLevelTiers[first][2]
  BY <1>2 DEF TargetLevel
<1> QED
  BY <1>3 DEF TargetLevelTiers

LEMMA TargetLevelRange == ASSUME NEW d \in 0..BoardSquares PROVE TargetLevel(d) \in 32..MaxLevel
  BY TargetLevels DEF MaxLevel

LEMMA EffectiveTargetRange ==
  ASSUME NEW d \in 0..BoardSquares
  PROVE  EffectiveTargetLevel(d) \in 32..MaxLevel
<1>1. Min({d, MaxSavableDiscs}) \in 0..BoardSquares
  <2>1. d \in Int /\ MaxSavableDiscs \in Int /\ MaxSavableDiscs \in 0..BoardSquares
    BY DEF MaxSavableDiscs, BoardSquares
  <2> QED
    BY <2>1, LesserOf
<1> QED
  BY <1>1, TargetLevelRange DEF EffectiveTargetLevel


-----------------------------------------------------------------------------
(* The messages on their way to the server that ask for a level, and the   *)
(* levels they ask for *)
Rungs == {i \in DOMAIN inbox : inbox[i].event = "analyze_request"}
Requested == {inbox[i].level : i \in Rungs}

Messages(target) == {Evaluation} \cup {Analyze(l) : l \in 1..target}

Live == search # None /\ ~search.leaked

(* The search gives the row its first level, whatever rungs are waiting. *)
Settling == row = 0 /\ search.level = Target

LadderTypes ==
  /\ discs \in ReviewedDiscs
  /\ row \in Levels \cup {NoRow, 0}
  /\ row # NoRow => discs <= MaxSavableDiscs
  /\ analysis \in 0..Target
  /\ queued \in {None} \cup [level : 1..Target, conn : Nat]
  /\ search \in {None} \cup [level : 1..Target, marked : BOOLEAN, leaked : BOOLEAN]
  /\ conn \in Nat
  /\ inbox \in Seq(Messages(Target))
  /\ outbox \in Seq(Levels)
  /\ shown \in Levels \cup {0}
  /\ asked \in 0..Target
  /\ polling = "idle" => asked = 0

(* Rungs wait in the order the page asked for them. *)
RungsInOrder ==
  /\ \A l \in Requested : l <= asked
  /\ \A i, j \in Rungs : i < j => inbox[i].level <= inbox[j].level
  /\ queued # None => queued.level <= asked
  /\ queued # None => \A l \in Requested : queued.level <= l

(* While the cache is what answers, nothing on its way there is below it,  *)
(* and nothing that will get there later is below what gets there sooner.  *)
CacheRises ==
  row <= 0 =>
    /\ queued # None => analysis <= queued.level
    /\ Live => analysis <= search.level
    /\ Live /\ ~Settling => search.level <= asked
    /\ Live /\ ~Settling => \A l \in Requested : search.level <= l
    /\ Live /\ ~Settling /\ queued # None => search.level <= queued.level

LadderInv == LadderTypes /\ RungsInOrder /\ CacheRises

-----------------------------------------------------------------------------
(* Levels of the position under review *)
LEMMA TargetOf ==
  ASSUME NEW d \in ReviewedDiscs
  PROVE  /\ EffectiveTargetLevel(d) \in 32..MaxLevel
         /\ d <= MaxSavableDiscs => TargetLevel(d) = EffectiveTargetLevel(d)
<1>1. d \in 0..BoardSquares
  BY LadderAssumption DEF LeafDiscs, BoardSquares
<1>2. EffectiveTargetLevel(d) \in 32..MaxLevel
  BY <1>1, EffectiveTargetRange
<1>3. ASSUME d <= MaxSavableDiscs PROVE Min({d, MaxSavableDiscs}) = d
  BY <1>1, <1>3, LesserOf DEF MaxSavableDiscs, BoardSquares
<1> QED
  BY <1>2, <1>3 DEF EffectiveTargetLevel

LEMMA ClampedIs == ASSUME LadderTypes, NEW l \in 1..Target PROVE Clamped(l) = l
<1>1. Target \in 32..MaxLevel
  BY TargetOf DEF LadderTypes, Target
<1>2. Clamped(l) = Min({l, Target})
  BY DEF Clamped, Target
<1> HIDE DEF Target
<1> QED
  BY <1>1, <1>2, LesserOf DEF MaxLevel

LEMMA NextLevelIs == ASSUME LadderTypes, NEW l \in Levels PROVE NextLevel(l) \in 1..Target
<1>1. Target \in 32..MaxLevel
  BY TargetOf DEF LadderTypes, Target
<1>2. NextLevel(l) = Min({l + 2, Target})
  BY DEF NextLevel, Target
<1> HIDE DEF Target
<1>3. l + 2 \in Nat /\ l + 2 > 0
  BY DEF Levels, MaxLevel
<1> QED
  BY <1>1, <1>2, <1>3, LesserOf DEF MaxLevel

LEMMA TargetStays == [ReviewNext]_reviewVars => discs' = discs /\ Target' = Target
<1> SUFFICES ASSUME [ReviewNext]_reviewVars PROVE discs' = discs
  BY DEF Target
<1> QED
  BY DEF ReviewNext, Page, Network, Worker, Start, PollStops, Poll, GiveUp, Receive, Disconnect, Unregister,
         Reconnect, Serve, ClaimPriority, ClaimLearnable, MarkerExpires, Submit, SearchFails, ClaimExpires,
         AnalysisExpires, reviewVars

(* What a submission makes of the row *)
LEMMA RowOf ==
  ASSUME LadderTypes, NEW l \in 1..Target, NEW priority \in BOOLEAN
  PROVE  /\ RowAfter(l, priority) \in Levels \cup {NoRow, 0}
         /\ RowAfter(l, priority) # NoRow => discs <= MaxSavableDiscs
         /\ row > 0 => RowAfter(l, priority) >= row
         /\ row <= 0 => RowAfter(l, priority) \in {NoRow, 0, l}
         /\ row = 0 /\ l = Target => RowAfter(l, priority) = l
<1>1. Target \in 32..MaxLevel /\ (row # NoRow => TargetLevel(discs) = Target)
  BY TargetOf DEF LadderTypes, Target
<1>2. row \in Levels \cup {NoRow, 0} /\ (row # NoRow => discs <= MaxSavableDiscs)
  BY DEF LadderTypes
<1>3. Max({row, l}) = (IF row <= l THEN l ELSE row) /\ Max({row, 0}) = (IF row <= 0 THEN 0 ELSE row)
  <2>1. row \in Int /\ l \in Int
    BY <1>1, <1>2 DEF Levels, NoRow
  <2> QED
    BY <2>1, GreaterOf
<1>4. row = 0 /\ l = Target => IsBookQuality(discs, l)
  <2> HIDE DEF Target
  <2> QED
    BY <1>1 DEF IsBookQuality, NoRow
<1> HIDE DEF Target
<1>5. l \in Levels
  BY <1>1 DEF Levels, MaxLevel
<1> QED
  BY <1>2, <1>3, <1>4, <1>5, SMTT(30) DEF RowAfter, NoRow, Levels
-----------------------------------------------------------------------------
LEMMA MessageLevels ==
  ASSUME LadderTypes
  PROVE  /\ Target \in 32..MaxLevel
         /\ \A i \in Rungs : inbox[i] = Analyze(inbox[i].level) /\ inbox[i].level \in 1..Target
         /\ Requested \subseteq 1..Target
<1>1. Target \in 32..MaxLevel
  BY TargetOf DEF LadderTypes, Target
<1>2. \A i \in DOMAIN inbox : inbox[i] \in Messages(Target)
  BY DEF LadderTypes
<1>3. Evaluation.event # "analyze_request"
  BY DEF Evaluation
<1>4. \A l : Analyze(l).level = l
  BY DEF Analyze
<1> HIDE DEF Target
<1>5. \A i \in Rungs : inbox[i] = Analyze(inbox[i].level) /\ inbox[i].level \in 1..Target
  BY <1>2, <1>3, <1>4 DEF Rungs, Messages
<1> QED
  BY <1>1, <1>5 DEF Requested

(* Reading the first message leaves the levels asked for after it. *)
LEMMA ServedOnward ==
  ASSUME LadderTypes, inbox # <<>>, inbox' = Tail(inbox)
  PROVE  /\ \A i \in Rungs' : i \in Nat /\ i + 1 \in Rungs /\ inbox'[i] = inbox[i + 1]
         /\ Requested' \subseteq Requested
<1>1. inbox \in Seq(Messages(Target)) /\ Len(inbox) \in Nat /\ DOMAIN inbox = 1..Len(inbox)
  BY DEF LadderTypes
<1>2. DOMAIN inbox' = 1..(Len(inbox) - 1) /\ \A i \in DOMAIN inbox' : inbox'[i] = inbox[i + 1]
  BY <1>1
<1>3. \A i \in DOMAIN inbox' : i \in Nat /\ i + 1 \in DOMAIN inbox
  BY <1>1, <1>2
<1>4. \A i \in Rungs' : i \in Nat /\ i + 1 \in Rungs /\ inbox'[i] = inbox[i + 1]
  BY <1>2, <1>3 DEF Rungs
<1> QED
  BY <1>4 DEF Requested

LEMMA AppendedRung ==
  ASSUME LadderTypes, NEW l, inbox' = Append(inbox, Analyze(l))
  PROVE  /\ Rungs' = Rungs \cup {Len(inbox) + 1}
         /\ \A i \in Rungs : i \in 1..Len(inbox) /\ inbox'[i] = inbox[i]
         /\ inbox'[Len(inbox) + 1].level = l
         /\ Requested' = Requested \cup {l}
<1>1. inbox \in Seq(Messages(Target)) /\ Len(inbox) \in Nat /\ DOMAIN inbox = 1..Len(inbox)
  BY DEF LadderTypes
<1>2. /\ DOMAIN inbox' = 1..(Len(inbox) + 1)
      /\ \A i \in 1..Len(inbox) : inbox'[i] = inbox[i]
      /\ inbox'[Len(inbox) + 1] = Analyze(l)
  BY <1>1
<1>3. Analyze(l).event = "analyze_request" /\ Analyze(l).level = l
  BY DEF Analyze
<1>4. 1..(Len(inbox) + 1) = 1..Len(inbox) \cup {Len(inbox) + 1}
  BY <1>1
<1>5. Rungs' = Rungs \cup {Len(inbox) + 1}
  BY <1>1, <1>2, <1>3, <1>4 DEF Rungs
<1>6. \A i \in Rungs : i \in 1..Len(inbox)
  BY <1>1 DEF Rungs
<1>7. Requested' = {inbox'[i].level : i \in Rungs'}
  BY DEF Requested
<1> QED
  BY <1>2, <1>3, <1>5, <1>6, <1>7 DEF Requested

LEMMA NoRungs ==
  ASSUME inbox' \in {<<>>, <<Evaluation>>}
  PROVE  Rungs' = {} /\ Requested' = {}
<1>1. ASSUME NEW i \in DOMAIN inbox' PROVE inbox'[i].event # "analyze_request"
  BY <1>1 DEF Evaluation
<1>2. Rungs' = {}
  BY <1>1 DEF Rungs
<1> QED
  BY <1>2 DEF Requested

LEMMA FirstRung ==
  ASSUME LadderTypes, RungsInOrder, Start
  PROVE  Rungs = {} /\ queued = None /\ Rungs' \subseteq {Len(inbox) + 2} /\ Requested' \subseteq {PriorityLevel}
<1>1. asked = 0
  BY DEF LadderTypes, Start
<1>2. Rungs = {}
  <2>1. \A i \in Rungs : inbox[i].level \in 1..Target /\ inbox[i].level <= 0
    BY <1>1, MessageLevels DEF RungsInOrder, Requested
  <2>2. Target \in 32..MaxLevel
    BY MessageLevels
  <2> HIDE DEF Target
  <2> QED
    BY <2>1, <2>2 DEF MaxLevel
<1>3. queued = None
  <2>1. queued # None => queued.level \in 1..Target /\ queued.level <= 0
    BY <1>1 DEF LadderTypes, RungsInOrder
  <2>2. Target \in 32..MaxLevel
    BY MessageLevels
  <2> HIDE DEF Target
  <2> QED
    BY <2>1, <2>2 DEF MaxLevel
<1>4. CASE online
  <2>1. inbox' = inbox \o <<Evaluation, Analyze(PriorityLevel)>>
    BY <1>4 DEF Start
  <2>2. inbox \in Seq(Messages(Target)) /\ Len(inbox) \in Nat /\ DOMAIN inbox = 1..Len(inbox)
    BY DEF LadderTypes
  <2>3. /\ DOMAIN inbox' = 1..(Len(inbox) + 2)
        /\ \A i \in 1..Len(inbox) : inbox'[i] = inbox[i]
        /\ inbox'[Len(inbox) + 1] = Evaluation
        /\ inbox'[Len(inbox) + 2] = Analyze(PriorityLevel)
    <3> DEFINE two == <<Evaluation, Analyze(PriorityLevel)>>
               any == Messages(Target) \cup {two[1], two[2]}
    <3>1. Len(two) = 2 /\ two[1] = Evaluation /\ two[2] = Analyze(PriorityLevel) /\ two \in Seq(any)
      OBVIOUS
    <3>2. inbox \in Seq(any)
      BY <2>2
    <3> HIDE DEF two, any
    <3>3. inbox' = inbox \o two
      BY <2>1 DEF two
    <3>4. /\ inbox \o two \in Seq(any)
          /\ Len(inbox \o two) = Len(inbox) + Len(two)
          /\ \A i \in 1..(Len(inbox) + Len(two)) :
               (inbox \o two)[i] = IF i <= Len(inbox) THEN inbox[i] ELSE two[i - Len(inbox)]
      <4>1. two \in Seq(any)
        BY <3>1
      <4> QED
        BY <3>2, <4>1, ConcatProperties
    <3>5. \A i \in 1..(Len(inbox) + 2) :
            inbox'[i] = IF i <= Len(inbox) THEN inbox[i] ELSE two[i - Len(inbox)]
      BY <3>1, <3>3, <3>4
    <3>6. Len(inbox) + 1 - Len(inbox) = 1 /\ Len(inbox) + 2 - Len(inbox) = 2
      BY <2>2
    <3> QED
      BY <2>2, <3>1, <3>3, <3>4, <3>5, <3>6
  <2>4. \A i \in 1..(Len(inbox) + 2) : i \in 1..Len(inbox) \/ i = Len(inbox) + 1 \/ i = Len(inbox) + 2
    BY <2>2
  <2>5. Evaluation.event # "analyze_request" /\ Analyze(PriorityLevel).level = PriorityLevel
    BY DEF Evaluation, Analyze
  <2>6. Rungs' \subseteq {Len(inbox) + 2}
    BY <1>2, <2>2, <2>3, <2>4, <2>5 DEF Rungs
  <2> QED
    BY <1>2, <1>3, <2>3, <2>5, <2>6 DEF Requested
<1>5. CASE ~online
  <2>1. Rungs' = Rungs
    BY <1>5 DEF Start, Rungs
  <2> QED
    BY <1>2, <1>3, <2>1 DEF Requested
<1> QED
  BY <1>4, <1>5

(* A rung already asked for stays one of the levels asked for; a new one is *)
(* the last the page asked for.                                             *)
LEMMA RequestedStep ==
  ASSUME LadderTypes, RungsInOrder, [ReviewNext]_reviewVars
  PROVE  /\ asked' \in 0..Target /\ asked' >= asked
         /\ Requested' \subseteq Requested \cup {asked'}
<1>1. Target \in 32..MaxLevel /\ asked \in 0..Target
  BY MessageLevels DEF LadderTypes
<1> HIDE DEF Target
<1>2. CASE Start
  <2>1. asked = 0 /\ asked' = PriorityLevel
    BY <1>2 DEF Start, LadderTypes
  <2> QED
    BY <1>1, <1>2, <2>1, FirstRung DEF PriorityLevel, MaxLevel
<1>3. CASE Receive
  <2>1. Head(outbox) \in Levels
    BY <1>3 DEF Receive, LadderTypes
  <2> DEFINE level == Head(outbox)
             climbs == ShouldUpdateEval(shown, level) /\ polling # "idle" /\ ~AtTarget(level)
                         /\ NextLevel(level) > asked
  <2>2. /\ asked' = IF climbs THEN NextLevel(level) ELSE asked
        /\ inbox' = IF climbs /\ online THEN Append(inbox, Analyze(NextLevel(level))) ELSE inbox
    BY <1>3 DEF Receive
  <2>3. NextLevel(level) \in 1..Target
    BY <2>1, NextLevelIs
  <2>4. climbs => NextLevel(level) > asked
    OBVIOUS
  <2> HIDE DEF climbs, level
  <2>5. asked' \in 0..Target /\ asked' >= asked
    BY <1>1, <2>2, <2>3, <2>4 DEF MaxLevel
  <2>6. CASE climbs /\ online
    BY <2>2, <2>5, <2>6, AppendedRung
  <2>7. CASE ~(climbs /\ online)
    <3>1. inbox' = inbox
      BY <2>2, <2>7
    <3>2. Requested' = Requested
      BY <3>1 DEF Requested, Rungs
    <3> QED
      BY <2>5, <3>2
  <2> QED
    BY <2>6, <2>7
<1>4. CASE Serve
  BY <1>1, <1>4, ServedOnward DEF Serve, pageVars, MaxLevel
<1>5. CASE Poll \/ Disconnect \/ Reconnect
  <2>1. asked' = asked
    BY <1>5 DEF Poll, Disconnect, Reconnect, pageVars
  <2>2. inbox' \in {<<>>, <<Evaluation>>}
    BY <1>5 DEF Poll, Disconnect, Reconnect
  <2> QED
    BY <1>1, <2>1, <2>2, NoRungs DEF MaxLevel
<1>6. CASE PollStops \/ GiveUp \/ Unregister \/ Worker \/ AnalysisExpires \/ UNCHANGED reviewVars
  <2>1. asked' = asked /\ inbox' = inbox
    BY <1>6 DEF PollStops, GiveUp, Unregister, Worker, ClaimPriority, ClaimLearnable, MarkerExpires, Submit,
                SearchFails, ClaimExpires, AnalysisExpires, reviewVars, pageVars, netVars
  <2>2. Requested' = Requested
    BY <2>1 DEF Requested, Rungs
  <2> QED
    BY <1>1, <2>1, <2>2 DEF MaxLevel
<1> QED
  BY <1>2, <1>3, <1>4, <1>5, <1>6 DEF ReviewNext, Page, Network
-----------------------------------------------------------------------------
(* handleAnalyzeRequest queues the first rung that waits, if it is deeper  *)
(* than what Lookup finds. *)
LEMMA ServedIs ==
  ASSUME LadderTypes, Serve
  PROVE  \/ queued' = queued
         \/ /\ queued = None /\ 1 \in Rungs
            /\ queued' = [level |-> inbox[1].level, conn |-> conn]
            /\ inbox[1].level \in 1..Target
            /\ row <= 0 => analysis < inbox[1].level
<1>1. inbox # <<>> /\ queued' = Enqueued(Head(inbox))
  BY DEF Serve
<1>2. inbox \in Seq(Messages(Target)) /\ Head(inbox) = inbox[1] /\ 1 \in DOMAIN inbox
  BY <1>1 DEF LadderTypes
<1> SUFFICES ASSUME queued' # queued PROVE queued = None /\ 1 \in Rungs
                       /\ queued' = [level |-> inbox[1].level, conn |-> conn]
                       /\ inbox[1].level \in 1..Target
                       /\ (row <= 0 => analysis < inbox[1].level)
  OBVIOUS
<1>3. /\ inbox[1].event = "analyze_request"
      /\ ~Answered(inbox[1].level)
      /\ queued = None
      /\ queued' = [level |-> Clamped(inbox[1].level), conn |-> conn]
  BY <1>1, <1>2 DEF Enqueued
<1>4. 1 \in Rungs
  BY <1>2, <1>3 DEF Rungs
<1>5. inbox[1].level \in 1..Target /\ Target \in 32..MaxLevel
  BY <1>4, MessageLevels
<1>6. Clamped(inbox[1].level) = inbox[1].level
  BY <1>5, ClampedIs
<1>7. ~(Lookup > 0 /\ Lookup >= inbox[1].level)
  BY <1>3, <1>6 DEF Answered
<1>8. row \in Int /\ analysis \in 0..Target
  BY DEF LadderTypes, Levels, NoRow
<1> HIDE DEF Target
<1>9. row <= 0 => analysis < inbox[1].level
  BY <1>5, <1>7, <1>8 DEF Lookup, MaxLevel
<1> QED
  BY <1>3, <1>4, <1>5, <1>6, <1>9

LEMMA LadderInit == ReviewInit => LadderInv
<1> SUFFICES ASSUME ReviewInit PROVE LadderInv
  OBVIOUS
<1>1. discs \in ReviewedDiscs /\ analysis \in Cached /\ inbox = <<>> /\ outbox = <<>> /\ queued = None /\ search = None
  BY DEF ReviewInit
<1>2. Target \in 32..MaxLevel
  BY <1>1, TargetOf DEF Target
<1>3. analysis \in 0..Target
  <2>1. analysis \in Levels \cup {0} /\ analysis <= Target
    BY <1>1, LadderAssumption DEF Target
  <2> HIDE DEF Target
  <2> QED
    BY <1>2, <2>1 DEF Levels, MaxLevel
<1>4. /\ row \in Levels \cup {NoRow, 0}
      /\ row # NoRow => discs <= MaxSavableDiscs
      /\ asked \in 0..Target /\ asked = 0 /\ shown = 0 /\ conn \in Nat
  BY <1>2, LadderAssumption DEF ReviewInit, MaxLevel
<1>5. Rungs = {} /\ Requested = {}
  BY <1>1 DEF Rungs, Requested
<1> HIDE DEF Target
<1>6. <<>> \in Seq(Messages(Target)) /\ <<>> \in Seq(Levels)
  OBVIOUS
<1>7. LadderTypes
  BY <1>1, <1>3, <1>4, <1>6 DEF LadderTypes
<1> QED
  BY <1>1, <1>5, <1>7 DEF LadderInv, RungsInOrder, CacheRises, Live

-----------------------------------------------------------------------------
(* The jobs' part of the types *)
LEMMA JobTypesStep ==
  ASSUME LadderTypes, [ReviewNext]_reviewVars
  PROVE  /\ row' \in Levels \cup {NoRow, 0}
         /\ row' # NoRow => discs' <= MaxSavableDiscs
         /\ analysis' \in 0..Target
         /\ queued' \in {None} \cup [level : 1..Target, conn : Nat]
         /\ search' \in {None} \cup [level : 1..Target, marked : BOOLEAN, leaked : BOOLEAN]
<1>1. /\ row \in Levels \cup {NoRow, 0}
      /\ row # NoRow => discs <= MaxSavableDiscs
      /\ analysis \in 0..Target
      /\ queued \in {None} \cup [level : 1..Target, conn : Nat]
      /\ search \in {None} \cup [level : 1..Target, marked : BOOLEAN, leaked : BOOLEAN]
      /\ conn \in Nat
  BY DEF LadderTypes
<1>2. discs' = discs /\ Target \in 32..MaxLevel /\ (row # NoRow => TargetLevel(discs) = Target)
  BY TargetStays, MessageLevels, TargetOf DEF LadderTypes, Target
<1> HIDE DEF Target
<1>3. CASE Page \/ Network \/ UNCHANGED reviewVars
  <2>1. UNCHANGED jobVars
    BY <1>3 DEF Page, Network, Start, PollStops, Poll, GiveUp, Receive, Disconnect, Unregister, Reconnect, reviewVars
  <2> QED
    BY <1>1, <1>2, <2>1 DEF jobVars
<1>4. CASE Serve
  <2>1. UNCHANGED <<row, analysis, search>>
    BY <1>4 DEF Serve
  <2> QED
    BY <1>1, <1>2, <1>4, <2>1, ServedIs
<1>5. CASE ClaimPriority
  <2>1. UNCHANGED <<row, analysis>> /\ queued # None /\ queued' = None
    BY <1>5 DEF ClaimPriority
  <2>2. search' \in {search, [level |-> queued.level, marked |-> TRUE, leaked |-> FALSE]}
    BY <1>5 DEF ClaimPriority
  <2>3. queued.level \in 1..Target
    BY <1>1, <2>1
  <2>4. [level |-> queued.level, marked |-> TRUE, leaked |-> FALSE]
          \in [level : 1..Target, marked : BOOLEAN, leaked : BOOLEAN]
    BY <2>3
  <2>5. search' \in {None} \cup [level : 1..Target, marked : BOOLEAN, leaked : BOOLEAN]
    BY <1>1, <2>2, <2>4
  <2>6. row' = row /\ analysis' = analysis /\ queued' = None
    BY <2>1
  <2> QED
    BY <1>1, <1>2, <2>5, <2>6
<1>6. CASE ClaimLearnable
  <2>1. /\ UNCHANGED <<row, analysis, queued>> /\ row \in 0..(TargetLevel(discs) - 1)
        /\ search' = [level |-> TargetLevel(discs), marked |-> FALSE, leaked |-> FALSE]
    BY <1>6 DEF ClaimLearnable
  <2>2. TargetLevel(discs) \in 1..Target
    <3>1. row # NoRow
      BY <2>1 DEF NoRow
    <3> QED
      BY <1>2, <3>1 DEF MaxLevel
  <2> QED
    BY <1>1, <1>2, <2>1, <2>2
<1>7. CASE MarkerExpires \/ SearchFails \/ ClaimExpires
  <2>1. /\ UNCHANGED <<row, analysis, queued>> /\ search # None
        /\ search' \in {None, [search EXCEPT !.marked = FALSE], [search EXCEPT !.leaked = TRUE]}
    BY <1>7 DEF MarkerExpires, SearchFails, ClaimExpires
  <2> QED
    BY <1>1, <1>2, <2>1
<1>8. CASE Submit
  <2>1. /\ search # None /\ analysis' = search.level /\ queued' = queued
        /\ row' = RowAfter(search.level, search.marked)
        /\ search' \in {None, [search EXCEPT !.leaked = TRUE, !.marked = FALSE]}
    BY <1>8 DEF Submit
  <2>2. search.level \in 1..Target /\ search.marked \in BOOLEAN
    BY <1>1, <2>1
  <2>3. row' \in Levels \cup {NoRow, 0} /\ (row' # NoRow => discs <= MaxSavableDiscs)
    BY <2>1, <2>2, RowOf
  <2>4. analysis' \in 0..Target
    BY <1>2, <2>1, <2>2 DEF MaxLevel
  <2>5. search' \in {None} \cup [level : 1..Target, marked : BOOLEAN, leaked : BOOLEAN]
    BY <1>1, <2>1
  <2> QED
    BY <1>1, <1>2, <2>1, <2>3, <2>4, <2>5
<1>9. CASE AnalysisExpires
  <2>1. UNCHANGED <<row, queued, search>> /\ analysis' = 0
    BY <1>9 DEF AnalysisExpires
  <2>2. 0 \in 0..Target
    BY <1>2 DEF MaxLevel
  <2> QED
    BY <1>1, <1>2, <2>1, <2>2
<1> QED
  BY <1>3, <1>4, <1>5, <1>6, <1>7, <1>8, <1>9 DEF ReviewNext, Worker

LEMMA LadderTypesStep ==
  ASSUME LadderTypes, RungsInOrder, [ReviewNext]_reviewVars
  PROVE  LadderTypes'
<1>1. discs' = discs /\ Target' = Target /\ Target \in 32..MaxLevel
  BY TargetStays, MessageLevels
<1>2. /\ inbox \in Seq(Messages(Target)) /\ outbox \in Seq(Levels) /\ shown \in Levels \cup {0} /\ conn \in Nat
      /\ polling = "idle" => asked = 0
      /\ discs \in ReviewedDiscs /\ row \in Levels \cup {NoRow, 0} /\ analysis \in 0..Target
  BY DEF LadderTypes
<1> HIDE DEF Target
<1>3. /\ <<>> \in Seq(Messages(Target)) /\ <<>> \in Seq(Levels)
      /\ Evaluation \in Messages(Target) /\ \A l \in 1..Target : Analyze(l) \in Messages(Target)
  BY DEF Messages
<1>4. <<Evaluation>> \in Seq(Messages(Target))
  BY <1>3
<1>5. PriorityLevel \in 1..Target
  BY <1>1 DEF PriorityLevel, MaxLevel
<1>6. inbox' \in Seq(Messages(Target))
  <2>1. CASE Start
    <3>1. inbox' = inbox \/ inbox' = inbox \o <<Evaluation, Analyze(PriorityLevel)>>
      BY <2>1 DEF Start
    <3>2. <<Evaluation, Analyze(PriorityLevel)>> \in Seq(Messages(Target))
      BY <1>3, <1>5
    <3>3. inbox \o <<Evaluation, Analyze(PriorityLevel)>> \in Seq(Messages(Target))
      BY <1>2, <3>2, ConcatProperties
    <3> QED
      BY <1>2, <3>1, <3>3
  <2>2. CASE Receive
    <3>1. Head(outbox) \in Levels
      BY <1>2, <2>2 DEF Receive
    <3>2. NextLevel(Head(outbox)) \in 1..Target
      BY <3>1, NextLevelIs
    <3>3. inbox' = inbox \/ inbox' = Append(inbox, Analyze(NextLevel(Head(outbox))))
      BY <2>2 DEF Receive
    <3>4. Append(inbox, Analyze(NextLevel(Head(outbox)))) \in Seq(Messages(Target))
      BY <1>2, <1>3, <3>2
    <3> QED
      BY <1>2, <3>3, <3>4
  <2>3. CASE Poll \/ Disconnect \/ Reconnect
    <3>1. inbox' \in {<<>>, <<Evaluation>>}
      BY <2>3 DEF Poll, Disconnect, Reconnect
    <3> QED
      BY <1>3, <1>4, <3>1
  <2>4. CASE Serve
    BY <1>2, <2>4 DEF Serve
  <2>5. CASE PollStops \/ GiveUp \/ Unregister \/ Worker \/ AnalysisExpires \/ UNCHANGED reviewVars
    <3>1. inbox' = inbox
      BY <2>5 DEF PollStops, GiveUp, Unregister, Worker, ClaimPriority, ClaimLearnable, MarkerExpires, Submit,
                  SearchFails, ClaimExpires, AnalysisExpires, reviewVars, pageVars, netVars
    <3> QED
      BY <1>2, <3>1
  <2> QED
    BY <2>1, <2>2, <2>3, <2>4, <2>5 DEF ReviewNext, Page, Network
<1>7. outbox' \in Seq(Levels) /\ shown' \in Levels \cup {0}
  <2>1. CASE Receive
    <3>1. Head(outbox) \in Levels /\ Tail(outbox) \in Seq(Levels)
      BY <1>2, <2>1 DEF Receive
    <3>2. outbox' = Tail(outbox) /\ shown' \in {shown, Head(outbox)}
      BY <2>1 DEF Receive
    <3> QED
      BY <1>2, <3>1, <3>2
  <2>2. CASE Serve
    <3>1. Lookup > 0 => Lookup \in Levels
      BY <1>1, <1>2 DEF Lookup, Levels, NoRow, MaxLevel
    <3>2. outbox' \in {outbox, Append(outbox, Lookup)} /\ (outbox' # outbox => Lookup > 0) /\ shown' = shown
      BY <2>2 DEF Serve, pageVars
    <3> QED
      BY <1>2, <3>1, <3>2
  <2>3. CASE (ReviewNext /\ ~Receive /\ ~Serve) \/ UNCHANGED reviewVars
    <3>1. CASE Page \/ Network \/ UNCHANGED reviewVars
      <4>1. outbox' \in {outbox, <<>>} /\ shown' = shown
        BY <2>3, <3>1 DEF Page, Network, Start, PollStops, Poll, GiveUp, Disconnect, Unregister, Reconnect,
                          reviewVars, pageVars, netVars
      <4> QED
        BY <1>2, <1>3, <4>1
    <3>2. CASE Worker \/ AnalysisExpires
      <4>1. outbox' = outbox /\ shown' = shown
        BY <3>2 DEF Worker, ClaimPriority, ClaimLearnable, MarkerExpires, Submit, SearchFails, ClaimExpires,
                    AnalysisExpires, pageVars, netVars
      <4> QED
        BY <1>2, <4>1
    <3> QED
      BY <2>3, <3>1, <3>2 DEF ReviewNext
  <2> QED
    BY <2>1, <2>2, <2>3
<1>8. conn' \in Nat
  BY <1>2 DEF ReviewNext, Page, Network, Start, PollStops, Poll, GiveUp, Receive, Serve, Disconnect, Unregister,
              Reconnect, Worker, ClaimPriority, ClaimLearnable, MarkerExpires, Submit, SearchFails, ClaimExpires,
              AnalysisExpires, reviewVars, pageVars, netVars
<1>9. polling' = "idle" => asked' = 0
  <2>1. polling' = "idle" => polling = "idle"
    BY DEF ReviewNext, Page, Network, Start, PollStops, Poll, GiveUp, Receive, Serve, Disconnect, Unregister,
           Reconnect, Worker, ClaimPriority, ClaimLearnable, MarkerExpires, Submit, SearchFails, ClaimExpires,
           AnalysisExpires, reviewVars, pageVars, netVars
  <2>2. polling' = "idle" => asked' = asked
    BY <2>1 DEF ReviewNext, Page, Network, Start, PollStops, Poll, GiveUp, Receive, Serve, Disconnect, Unregister,
                Reconnect, Worker, ClaimPriority, ClaimLearnable, MarkerExpires, Submit, SearchFails, ClaimExpires,
                AnalysisExpires, reviewVars, pageVars, netVars
  <2> QED
    BY <1>2, <2>1, <2>2
<1>10. asked' \in 0..Target
  BY RequestedStep
<1> QED
  BY <1>1, <1>2, <1>6, <1>7, <1>8, <1>9, <1>10, JobTypesStep DEF LadderTypes
-----------------------------------------------------------------------------
LEMMA OrderStep ==
  ASSUME LadderTypes, RungsInOrder, [ReviewNext]_reviewVars
  PROVE  RungsInOrder'
<1>1. /\ Target \in 32..MaxLevel /\ asked \in 0..Target /\ Requested \subseteq 1..Target
      /\ \A i \in Rungs : inbox[i].level \in 1..Target
      /\ queued # None => queued.level \in 1..Target
  BY MessageLevels DEF LadderTypes
<1>2. /\ \A l \in Requested : l <= asked
      /\ \A i, j \in Rungs : i < j => inbox[i].level <= inbox[j].level
      /\ queued # None => queued.level <= asked
      /\ queued # None => \A l \in Requested : queued.level <= l
  BY DEF RungsInOrder
<1>3. asked' \in 0..Target /\ asked' >= asked /\ Requested' \subseteq Requested \cup {asked'}
  BY RequestedStep
<1> HIDE DEF Target
<1>4. \A l \in Requested' : l <= asked'
  BY <1>1, <1>2, <1>3 DEF MaxLevel
<1>5. \A i, j \in Rungs' : i < j => inbox'[i].level <= inbox'[j].level
  <2>1. CASE Start
    <3>1. Rungs' \subseteq {Len(inbox) + 2} /\ Len(inbox) \in Nat
      BY <2>1, FirstRung DEF LadderTypes
    <3> QED
      BY <3>1
  <2>2. CASE Receive
    <3>1. Head(outbox) \in Levels
      BY <2>2 DEF Receive, LadderTypes
    <3>2. NextLevel(Head(outbox)) \in 1..Target
      BY <3>1, NextLevelIs
    <3>3. CASE inbox' = inbox
      <4>1. Rungs' = Rungs
        BY <3>3 DEF Rungs
      <4> QED
        BY <1>2, <3>3, <4>1
    <3>4. CASE inbox' = Append(inbox, Analyze(NextLevel(Head(outbox)))) /\ NextLevel(Head(outbox)) > asked
      <4> DEFINE next == NextLevel(Head(outbox))
      <4>1. next \in 1..Target /\ inbox' = Append(inbox, Analyze(next)) /\ next > asked
        BY <3>2, <3>4
      <4> HIDE DEF next
      <4>2. /\ Rungs' = Rungs \cup {Len(inbox) + 1} /\ Len(inbox) \in Nat
            /\ \A i \in Rungs : i \in 1..Len(inbox) /\ inbox'[i] = inbox[i]
            /\ inbox'[Len(inbox) + 1].level = next
        BY <4>1, AppendedRung DEF LadderTypes
      <4>3. \A i \in Rungs : inbox[i].level <= next
        <5>1. \A i \in Rungs : inbox[i].level \in Requested
          BY DEF Requested
        <5> QED
          BY <1>1, <1>2, <4>1, <5>1 DEF MaxLevel
      <4>4. ASSUME NEW i \in Rungs', NEW j \in Rungs', i < j PROVE inbox'[i].level <= inbox'[j].level
        <5>1. i \in Rungs
          BY <4>2, <4>4
        <5>2. CASE j \in Rungs
          BY <1>2, <4>2, <4>4, <5>1, <5>2
        <5>3. CASE j = Len(inbox) + 1
          BY <4>2, <4>3, <5>1, <5>3
        <5> QED
          BY <4>2, <5>2, <5>3
      <4> QED
        BY <4>4
    <3> QED
      BY <2>2, <3>3, <3>4 DEF Receive
  <2>3. CASE Poll \/ Disconnect \/ Reconnect
    <3>1. inbox' \in {<<>>, <<Evaluation>>}
      BY <2>3 DEF Poll, Disconnect, Reconnect
    <3> QED
      BY <3>1, NoRungs
  <2>4. CASE Serve
    <3>1. \A i \in Rungs' : i \in Nat /\ i + 1 \in Rungs /\ inbox'[i] = inbox[i + 1]
      BY <2>4, ServedOnward DEF Serve
    <3>2. ASSUME NEW i \in Rungs', NEW j \in Rungs', i < j PROVE inbox'[i].level <= inbox'[j].level
      <4>1. i + 1 < j + 1
        BY <3>1, <3>2
      <4> QED
        BY <1>2, <3>1, <4>1
    <3> QED
      BY <3>2
  <2>5. CASE PollStops \/ GiveUp \/ Unregister \/ Worker \/ AnalysisExpires \/ UNCHANGED reviewVars
    <3>1. inbox' = inbox
      BY <2>5 DEF PollStops, GiveUp, Unregister, Worker, ClaimPriority, ClaimLearnable, MarkerExpires, Submit,
                  SearchFails, ClaimExpires, AnalysisExpires, reviewVars, pageVars, netVars
    <3>2. Rungs' = Rungs
      BY <3>1 DEF Rungs
    <3> QED
      BY <1>2, <3>1, <3>2
  <2> QED
    BY <2>1, <2>2, <2>3, <2>4, <2>5 DEF ReviewNext, Page, Network
<1>6. queued' # None => queued'.level <= asked' /\ \A l \in Requested' : queued'.level <= l
  <2>1. CASE queued' = queued
    <3> SUFFICES ASSUME queued # None, NEW l \in Requested'
                 PROVE  queued.level <= asked' /\ queued.level <= l
      BY <1>1, <1>2, <1>3, <2>1 DEF MaxLevel
    <3>1. queued.level \in 1..Target /\ queued.level <= asked
      BY <1>1, <1>2
    <3>2. queued.level <= asked'
      BY <1>1, <1>3, <3>1 DEF MaxLevel
    <3>3. l \in Requested \/ l = asked'
      BY <1>3
    <3> QED
      BY <1>2, <3>2, <3>3
  <2>2. CASE queued' = None
    BY <2>2
  <2>3. CASE Serve /\ queued' # queued
    <3>1. 1 \in Rungs /\ queued'.level = inbox[1].level /\ inbox[1].level \in 1..Target
      BY <2>3, ServedIs
    <3>2. /\ \A i \in Rungs' : i \in Nat /\ i + 1 \in Rungs /\ inbox'[i] = inbox[i + 1]
          /\ Rungs' \subseteq DOMAIN inbox' /\ DOMAIN inbox' \subseteq Nat \ {0}
      <4>1. \A i \in Rungs' : i \in Nat /\ i + 1 \in Rungs /\ inbox'[i] = inbox[i + 1]
        BY <2>3, ServedOnward DEF Serve
      <4>2. inbox' \in Seq(Messages(Target))
        BY <2>3 DEF Serve, LadderTypes
      <4>3. DOMAIN inbox' \subseteq Nat \ {0}
        BY <4>2
      <4> QED
        BY <4>1, <4>3 DEF Rungs
    <3>3. ASSUME NEW i \in Rungs' PROVE inbox[1].level <= inbox'[i].level
      <4>1. i \in Nat \ {0} /\ i + 1 \in Rungs /\ inbox'[i] = inbox[i + 1]
        BY <3>2
      <4>2. 1 < i + 1
        BY <4>1
      <4> QED
        BY <1>2, <3>1, <4>1, <4>2
    <3>4. \A l \in Requested' : \E i \in Rungs' : l = inbox'[i].level
      BY DEF Requested
    <3>5. inbox[1].level <= asked
      BY <1>2, <3>1 DEF Requested
    <3> QED
      BY <1>1, <1>3, <3>1, <3>3, <3>4, <3>5 DEF MaxLevel
  <2>4. queued' \in {queued, None} \/ Serve
    BY DEF ReviewNext, Page, Network, Start, PollStops, Poll, GiveUp, Receive, Disconnect, Unregister, Reconnect,
           Worker, ClaimPriority, ClaimLearnable, MarkerExpires, Submit, SearchFails, ClaimExpires, AnalysisExpires,
           reviewVars, jobVars
  <2> QED
    BY <2>1, <2>2, <2>3, <2>4
<1> QED
  BY <1>4, <1>5, <1>6 DEF RungsInOrder

(* What a waiting rung or the page may ask for next is no lower than what  *)
(* is searched for. *)
LEMMA RisesStep ==
  ASSUME LadderInv, [ReviewNext]_reviewVars
  PROVE  CacheRises'
<1> USE DEF LadderInv
<1>1. /\ Target \in 32..MaxLevel /\ asked \in 0..Target /\ Requested \subseteq 1..Target
      /\ queued # None => queued.level \in 1..Target
      /\ search # None => search.level \in 1..Target /\ search.leaked \in BOOLEAN /\ search.marked \in BOOLEAN
      /\ analysis \in 0..Target /\ row \in Levels \cup {NoRow, 0}
      /\ row # NoRow => TargetLevel(discs) = Target
  BY MessageLevels, TargetOf DEF LadderTypes, Target
<1>2. row <= 0 =>
        /\ queued # None => analysis <= queued.level
        /\ Live => analysis <= search.level
        /\ Live /\ ~Settling => search.level <= asked
        /\ Live /\ ~Settling => \A l \in Requested : search.level <= l
        /\ Live /\ ~Settling /\ queued # None => search.level <= queued.level
  BY DEF CacheRises
<1>3. asked' \in 0..Target /\ asked' >= asked /\ Requested' \subseteq Requested \cup {asked'}
  BY RequestedStep
<1>4. queued # None => queued.level <= asked /\ \A l \in Requested : queued.level <= l
  BY DEF RungsInOrder
<1>5. Target' = Target
  BY TargetStays
<1> HIDE DEF Target
<1>6. ASSUME row' = row, analysis' = analysis, queued' \in {queued, None},
             Live' => Live /\ search'.level = search.level
      PROVE  CacheRises'
  <2>1. Live' /\ ~Settling' => Live /\ ~Settling
    BY <1>5, <1>6 DEF Settling
  <2>2. Live => search.level \in 1..Target
    BY <1>1 DEF Live
  <2>3. queued' # None => queued' = queued /\ queued # None
    BY <1>6
  <2> SUFFICES ASSUME row <= 0
               PROVE  /\ queued' # None => analysis' <= queued'.level
                      /\ Live' => analysis' <= search'.level
                      /\ Live' /\ ~Settling' => search'.level <= asked'
                      /\ Live' /\ ~Settling' => \A l \in Requested' : search'.level <= l
                      /\ Live' /\ ~Settling' /\ queued' # None => search'.level <= queued'.level
    BY <1>6 DEF CacheRises
  <2>4. Live' /\ ~Settling' => search'.level <= asked' /\ \A l \in Requested' : search'.level <= l
    BY <1>1, <1>2, <1>3, <1>6, <2>1, <2>2 DEF MaxLevel
  <2> QED
    BY <1>2, <1>6, <2>1, <2>3, <2>4
<1>7. CASE Page \/ Network \/ UNCHANGED reviewVars
  <2>1. UNCHANGED jobVars
    BY <1>7 DEF Page, Network, Start, PollStops, Poll, GiveUp, Receive, Disconnect, Unregister, Reconnect, reviewVars
  <2>2. row' = row /\ analysis' = analysis /\ queued' = queued /\ (Live' => Live /\ search'.level = search.level)
    BY <2>1 DEF jobVars, Live
  <2> QED
    BY <1>6, <2>2
<1>8. CASE MarkerExpires \/ SearchFails \/ ClaimExpires
  <2>1. /\ row' = row /\ analysis' = analysis /\ queued' = queued
        /\ search # None /\ search' \in {None, [search EXCEPT !.marked = FALSE], [search EXCEPT !.leaked = TRUE]}
    BY <1>8 DEF MarkerExpires, SearchFails, ClaimExpires
  <2>2. search \in [level : 1..Target, marked : BOOLEAN, leaked : BOOLEAN]
    BY <2>1 DEF LadderTypes
  <2>3. Live' => Live /\ search'.level = search.level
    <3>1. /\ [search EXCEPT !.marked = FALSE].leaked = search.leaked
          /\ [search EXCEPT !.marked = FALSE].level = search.level
          /\ [search EXCEPT !.leaked = TRUE].leaked
      BY <2>2
    <3> QED
      BY <2>1, <3>1 DEF Live
  <2> QED
    BY <1>6, <2>1, <2>3
<1>9. CASE Serve
  <2>1. row' = row /\ analysis' = analysis /\ search' = search /\ asked' = asked
    BY <1>9 DEF Serve, pageVars
  <2>2. CASE queued' = queued
    BY <1>6, <2>1, <2>2 DEF Live
  <2>3. CASE queued' # queued
    <3>1. /\ queued = None /\ 1 \in Rungs
          /\ queued'.level = inbox[1].level /\ inbox[1].level \in 1..Target
          /\ row <= 0 => analysis < inbox[1].level
      BY <1>9, <2>3, ServedIs
    <3>2. inbox[1].level \in Requested
      BY <3>1 DEF Requested
    <3>3. Requested' \subseteq Requested
      BY <1>9, ServedOnward DEF Serve
    <3>4. (Live' <=> Live) /\ (Settling' <=> Settling)
      BY <1>5, <2>1 DEF Live, Settling
    <3>5. row <= 0 => analysis <= queued'.level
      BY <1>1, <3>1 DEF MaxLevel
    <3> QED
      BY <1>2, <2>1, <3>1, <3>2, <3>3, <3>4, <3>5 DEF CacheRises
  <2> QED
    BY <2>2, <2>3
<1>10. CASE ClaimPriority
  <2>1. row' = row /\ analysis' = analysis /\ queued # None /\ queued' = None /\ asked' = asked /\ inbox' = inbox
    BY <1>10 DEF ClaimPriority, pageVars, netVars
  <2>2. CASE search' = search
    BY <1>6, <2>1, <2>2 DEF Live
  <2>3. CASE search' # search
    <3>1. search'.level = queued.level
      BY <1>10, <2>3 DEF ClaimPriority
    <3>2. Requested' = Requested
      BY <2>1 DEF Requested, Rungs
    <3> QED
      BY <1>2, <1>4, <2>1, <3>1, <3>2 DEF CacheRises
  <2> QED
    BY <2>2, <2>3
<1>11. CASE ClaimLearnable
  <2>1. /\ row' = row /\ analysis' = analysis /\ queued' = None
        /\ row \in 0..(TargetLevel(discs) - 1)
        /\ search' = [level |-> TargetLevel(discs), marked |-> FALSE, leaked |-> FALSE]
    BY <1>11 DEF ClaimLearnable
  <2>2. row # NoRow /\ (row <= 0 => row = 0)
    BY <1>1, <2>1 DEF NoRow, Levels
  <2>3. search'.level = Target /\ TargetLevel(discs) = Target
    BY <1>1, <2>1, <2>2
  <2>4. row' <= 0 => Settling'
    BY <1>5, <2>1, <2>2, <2>3 DEF Settling
  <2>5. analysis' <= search'.level
    BY <1>1, <2>1, <2>3 DEF MaxLevel
  <2> QED
    BY <2>1, <2>4, <2>5 DEF CacheRises
<1>12. CASE Submit
  <2>1. /\ Live /\ analysis' = search.level /\ queued' = queued /\ asked' = asked /\ inbox' = inbox
        /\ row' = RowAfter(search.level, search.marked)
        /\ search' \in {None, [search EXCEPT !.leaked = TRUE, !.marked = FALSE]}
    BY <1>12 DEF Submit, Live, pageVars, netVars
  <2>2. search \in [level : 1..Target, marked : BOOLEAN, leaked : BOOLEAN]
    BY <2>1 DEF LadderTypes, Live
  <2>3. ~Live'
    BY <2>1, <2>2 DEF Live
  <2>4. ASSUME row' <= 0 PROVE row <= 0 /\ ~Settling
    <3>1. /\ row > 0 => row' >= row
          /\ row = 0 /\ search.level = Target => row' = search.level
          /\ row' \in Levels \cup {NoRow, 0}
      BY <2>1, <2>2, RowOf
    <3> QED
      BY <1>1, <2>2, <2>4, <3>1 DEF Settling, Levels, NoRow, MaxLevel
  <2>5. row' <= 0 /\ queued' # None => analysis' <= queued'.level
    BY <1>2, <2>1, <2>4
  <2> QED
    BY <2>3, <2>5 DEF CacheRises
<1>13. CASE AnalysisExpires
  <2>1. /\ row' = row /\ queued' = queued /\ search' = search /\ asked' = asked /\ inbox' = inbox
        /\ analysis' = 0
    BY <1>13 DEF AnalysisExpires, pageVars, netVars
  <2>2. /\ Requested' = Requested /\ (Live' <=> Live) /\ (Settling' <=> Settling)
        /\ queued # None => 0 <= queued.level
        /\ Live => 0 <= search.level
    BY <1>1, <1>5, <2>1 DEF Requested, Rungs, Live, Settling
  <2> QED
    BY <1>2, <2>1, <2>2 DEF CacheRises
<1> QED
  BY <1>7, <1>8, <1>9, <1>10, <1>11, <1>12, <1>13 DEF ReviewNext, Worker

(* Between the rungs of a review, and with background searches among them, *)
(* the requests keep their order: LadderInv is inductive.                  *)
LEMMA LadderInvariant == ReviewSpec => []LadderInv
<1>1. LadderInv /\ [ReviewNext]_reviewVars => LadderInv'
  BY LadderTypesStep, OrderStep, RisesStep DEF LadderInv
<1> QED
  BY LadderInit, <1>1, PTL DEF ReviewSpec

LEMMA LookupStep ==
  ASSUME LadderInv, [ReviewNext]_reviewVars, row > 0 \/ ~expired'
  PROVE  Lookup' >= Lookup
<1>1. Target \in 32..MaxLevel /\ analysis \in 0..Target /\ row \in Levels \cup {NoRow, 0}
  BY MessageLevels DEF LadderInv, LadderTypes
<1> HIDE DEF Target
<1>2. CASE Submit
  <2>1. Live /\ analysis' = search.level /\ row' = RowAfter(search.level, search.marked)
    BY <1>2 DEF Submit, Live
  <2>2. search.level \in 1..Target /\ search.marked \in BOOLEAN
    BY <2>1 DEF LadderInv, LadderTypes, Live
  <2>3. /\ row > 0 => row' >= row
        /\ row <= 0 => row' \in {NoRow, 0, search.level}
        /\ row' \in Levels \cup {NoRow, 0}
    BY <1>1, <2>1, <2>2, RowOf DEF LadderInv
  <2>4. row <= 0 => analysis <= search.level
    BY <2>1 DEF LadderInv, CacheRises
  <2> QED
    BY <1>1, <2>1, <2>2, <2>3, <2>4 DEF Lookup, Levels, NoRow, MaxLevel
<1>3. CASE AnalysisExpires
  <2>1. row' = row /\ row > 0
    BY <1>3 DEF AnalysisExpires
  <2> QED
    BY <1>1, <2>1 DEF Lookup, Levels, NoRow, MaxLevel
<1>4. CASE ~Submit /\ ~AnalysisExpires
  <2>1. row' = row /\ analysis' = analysis
    BY <1>4 DEF ReviewNext, Page, Network, Start, PollStops, Poll, GiveUp, Receive, Disconnect, Unregister, Reconnect,
                Serve, Worker, ClaimPriority, ClaimLearnable, MarkerExpires, SearchFails, ClaimExpires, reviewVars,
                jobVars
  <2> QED
    BY <1>1, <2>1 DEF Lookup, Levels, NoRow, MaxLevel
<1> QED
  BY <1>2, <1>3, <1>4

(* During a review the server's answer for the position gets shallower     *)
(* only when the cached result expires, and not even then once its row is  *)
(* learned.  setAnalysisResult overwrites without looking, so this rests   *)
(* on the order of the requests: a rung is asked for only after the one    *)
(* below was answered, the queue and the claim serve them in turn, and a   *)
(* background search that may overtake them writes a row that hides the    *)
(* cache.                                                                  *)
THEOREM AnswersRise == ReviewSpec => AnswerNeverRegresses
<1>1. LadderInv /\ [ReviewNext]_reviewVars => [row > 0 \/ ~expired' => Lookup' >= Lookup]_reviewVars
  BY LookupStep
<1> QED
  BY <1>1, LadderInvariant, PTL DEF ReviewSpec, AnswerNeverRegresses
=============================================================================

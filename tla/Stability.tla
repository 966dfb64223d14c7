------------------------------ MODULE Stability ------------------------------
(***************************************************************************)
(* The discs that no play can flip any more, as far as the local evaluator *)
(* sees them: stable edges, full lines and what spreads from them          *)
(* (wasm/edax-eval/src/stability.rs).  Its exact search takes what they    *)
(* leave the other side as a bound (Search).                               *)
(*                                                                         *)
(* Abstracted: the table of stable edges, computed once, is a function.    *)
(***************************************************************************)
EXTENDS Bitboard

-----------------------------------------------------------------------------
(* get_full_lines *)

(* The squares of x from which n steps along dir lead to x or off the board *)
Clear(x, dir, n) ==
  {s \in x : OnBoard(s, dir, n) => Along(s, dir, n) \in x}

Clear3(x, dir) == Clear(Clear(x, dir, 1), dir, 2)

Rotate(x, n) == {(s + n) % 64 : s \in x}

FullRows(disc) ==
  LET two   == disc \cap Shift(disc, -1)
      four  == two \cap Shift(two, -2)
      eight == four \cap Shift(four, -4)
  IN  {s \in Squares : s - Col(s) \in eight}

FullColumns(disc) ==
  LET two  == disc \cap Rotate(disc, -8)
      four == two \cap Rotate(two, -16)
  IN  four \cap Rotate(four, 32)

Down == <<1, 1>>
Up == <<-1, -1>>

(* Lines of up to seven squares end within three steps on one side; the    *)
(* others have a square four steps away.                                   *)
FullD9(disc) ==
  LET l == Clear3(disc, Down) r == Clear3(disc, Up)
  IN  l \cap r \cap ({s \in Squares : Row(s) < 4 <=> Col(s) >= 4}
                     \cup Shift(l, -36) \cup Shift(r, 36))

FullD7(disc) ==
  LET Clear7(dir) == Clear(Clear3(disc, dir), dir, 4)
  IN  Clear7(<<-1, 1>>) \cap Clear7(<<1, -1>>)

get_full_lines(disc) == <<FullRows(disc), FullColumns(disc), FullD9(disc), FullD7(disc)>>

-----------------------------------------------------------------------------
(* Edges *)

Edge == 0..7
MirrorEdge(x) == {7 - i : i \in x}

(* What p flips on the edge by playing i *)
EdgeFlips(p, o, i) ==
  UNION ({k + 1..i - 1 : k \in {k \in p : k + 1..i - 1 \subseteq o}}
         \cup {i + 1..k - 1 : k \in {k \in p : i + 1..k - 1 \subseteq o}})

EdgeQuestion == [p : SUBSET Edge, o : SUBSET Edge, stable : SUBSET Edge]

(* What of stable is left, as search finds, when p plays i and when o does *)
AfterPlays(search, e, i, stable) ==
  LET f == EdgeFlips(e.p, e.o, i)
      g == EdgeFlips(e.o, e.p, i)
      afterPlayer == search[[p |-> e.p \cup f \cup {i}, o |-> e.o \ f, stable |-> stable]]
  IN  search[[p |-> e.p \ g, o |-> e.o \cup g \cup {i}, stable |-> afterPlayer]]

Tried(search, e, i, stable) ==
  IF i \in e.p \cup e.o THEN stable ELSE AfterPlays(search, e, i, stable)

(* Either side plays anywhere, whether that is legal or not. *)
find_edge_stable[e \in EdgeQuestion] ==
  LET kept == e.stable \cap e.p
      Try(i, result) == Tried(find_edge_stable, e, i, result)
  IN  IF kept = {} THEN {} ELSE Try(7, Try(6, Try(5, Try(4, Try(3, Try(2, Try(1, Try(0, kept))))))))

StableOf(p, o) == find_edge_stable[[p |-> p, o |-> o, stable |-> p]]

(* An edge and its mirror image share their entry. *)
EdgeTable(p, o) ==
  IF Below(MirrorEdge(p), p) \/ (MirrorEdge(p) = p /\ Below(MirrorEdge(o), o))
  THEN MirrorEdge(StableOf(MirrorEdge(p), MirrorEdge(o)))
  ELSE StableOf(p, o)

(* The stable squares of the line from first in steps of d *)
StableOnLine(p, o, first, d) ==
  {first + d * i : i \in EdgeTable({i \in Edge : first + d * i \in p},
                                   {i \in Edge : first + d * i \in o})}

(* Columns leave the corners to the rows. *)
get_stable_edge(p, o) ==
  StableOnLine(p, o, 0, 1) \cup StableOnLine(p, o, 56, 1)
  \cup (StableOnLine(p, o, 0, 8) \ {0, 56}) \cup (StableOnLine(p, o, 7, 8) \ {7, 63})

-----------------------------------------------------------------------------
central == {s \in Squares : Col(s) \notin {0, 7} /\ Row(s) \notin {0, 7}}

SpreadThreeLines(stable, p_central, full) ==  \* mutant: one direction is missing
  stable \cup (p_central
               \cap (Both(stable, 1) \cup full[1]) \cap (Both(stable, 8) \cup full[2])
               \cap (Both(stable, 9) \cup full[3]))

(* One round: stable or full on all four lines through a disc *)
Spread(stable, p_central, full) ==
  stable \cup (p_central
               \cap (Both(stable, 1) \cup full[1]) \cap (Both(stable, 8) \cup full[2])
               \cap (Both(stable, 9) \cup full[3]) \cap (Both(stable, 7) \cup full[4]))

(* The stable discs of p that get_stability counts *)
StableDiscs(p, o) ==
  LET full == get_full_lines(p \cup o)
      p_central == p \cap central
      stable == get_stable_edge(p, o)
                \cup (p_central \cap full[1] \cap full[2] \cap full[3] \cap full[4])
      spreaded[x \in SUBSET Squares] ==
        LET y == Spread(x, p_central, full) IN IF y = x THEN x ELSE spreaded[y]
  IN  spreaded[stable]

get_stability(p, o) == Cardinality(StableDiscs(p, o))

StabilityCapSwapped(b) == 64 - 2 * get_stability(b.player, b.opponent)  \* mutant

(* What the opponent's stable discs leave the player of b *)
StabilityCap(b) == 64 - 2 * get_stability(b.opponent, b.player)
=============================================================================

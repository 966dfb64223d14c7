------------------------------ MODULE JobLock -------------------------------
(***************************************************************************)
(* What claims are for (internal/api/redis.go): a lock per position on     *)
(* searching it, that a worker takes to begin and leaves when it ends.     *)
(* Each lock revoked under its worker lets one more worker in; where calls *)
(* are punctual none is, and a position has one searcher.                  *)
(***************************************************************************)
EXTENDS Naturals, FiniteSets

CONSTANTS Positions, Workers

VARIABLES
  searchers,  \* per position, the workers that search it
  revoked,    \* locks revoked so far
  punctual

lockVars == <<searchers, revoked, punctual>>

Init ==
  /\ searchers = [p \in Positions |-> {}]
  /\ revoked = 0 /\ punctual \in BOOLEAN

Take(w, p) ==
  /\ \A q \in Positions : w \notin searchers[q]
  /\ Cardinality(searchers[p]) <= revoked
  /\ searchers' = [searchers EXCEPT ![p] = @ \cup {w}]
  /\ UNCHANGED <<revoked, punctual>>

Leave(w, p) ==
  /\ w \in searchers[p]
  /\ searchers' = [searchers EXCEPT ![p] = @ \ {w}]
  /\ UNCHANGED <<revoked, punctual>>

(* Several locks may run out at one time. *)
Revoke ==
  /\ ~punctual
  /\ \E p \in Positions : searchers[p] # {}
  /\ revoked' \in Nat /\ revoked' > revoked
  /\ UNCHANGED <<searchers, punctual>>

Next ==
  \/ \E w \in Workers, p \in Positions : Take(w, p) \/ Leave(w, p)
  \/ Revoke

Spec == Init /\ [][Next]_lockVars

(* One searcher at a time, and one more per lock revoked; none is revoked  *)
(* where calls are punctual.                                               *)
Exclusive ==
  /\ \A p \in Positions : Cardinality(searchers[p]) <= 1 + revoked
  /\ punctual => revoked = 0
=============================================================================

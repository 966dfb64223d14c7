---------------------------- MODULE Worker_proof ----------------------------
(***************************************************************************)
(* Proofs about the worker: Claims, for every set of workers, every finite *)
(* set of positions and every heartbeat interval shorter than the claims'  *)
(* TTL, and EdaxProcess, for any positions, levels and subprocesses and any *)
(* number of faults.                                                       *)
(***************************************************************************)
EXTENDS Claims, EdaxProcess, FiniteSetTheorems, TLAPS

-----------------------------------------------------------------------------
(***************************************************************************)
(* Claims                                                                  *)
(***************************************************************************)

-----------------------------------------------------------------------------
(* Type correctness. *)

LEMMA TypeInit == Init => TypeOK
  BY ClaimsAssumption DEF Init, TypeOK, NoBeat, PC

LEMMA TypeStep == TypeOK /\ [Next]_vars => TypeOK'
<1> SUFFICES ASSUME TypeOK, [Next]_vars PROVE TypeOK'
  OBVIOUS
<1> USE ClaimsAssumption DEF TypeOK, PC, NoBeat, claimVars, jobVars, beatVars
<1>1. ASSUME NEW w \in Workers, NEW p \in Positions, Grant(w, p) PROVE TypeOK'
  BY <1>1 DEF Grant, Claimable
<1>2. ASSUME NEW w \in Workers, ReceiveJob(w) PROVE TypeOK'
  BY <1>2 DEF ReceiveJob
<1>3. ASSUME NEW w \in Workers, LoseJob(w) PROVE TypeOK'
  BY <1>3 DEF LoseJob
<1>4. ASSUME NEW w \in Workers, StopAsking(w) PROVE TypeOK'
  BY <1>4 DEF StopAsking
<1>5. ASSUME NEW w \in Workers, Searched(w) PROVE TypeOK'
  BY <1>5 DEF Searched
<1>6. ASSUME NEW w \in Workers, Fail(w) PROVE TypeOK'
  BY <1>6 DEF Fail
<1>7. ASSUME NEW w \in Workers, Interrupted(w) PROVE TypeOK'
  BY <1>7 DEF Interrupted
<1>8. ASSUME NEW w \in Workers, JobDone(w) PROVE TypeOK'
  BY <1>8 DEF JobDone, ClaimedAfter
<1>9. ASSUME NEW w \in Workers, SubmitCheck(w) PROVE TypeOK'
  BY <1>9 DEF SubmitCheck, ReleaseCheck, OwnedBy, Handler
<1>10. ASSUME NEW w \in Workers, ExitCheck(w) PROVE TypeOK'
  BY <1>10 DEF ExitCheck, ReleaseCheck, OwnedBy, Handler, ClaimedAtExit
<1>11. ASSUME NEW w \in Workers, ExitLost(w) PROVE TypeOK'
  BY <1>11 DEF ExitLost
<1>12. ASSUME NEW w \in Workers, SendBeat(w) PROVE TypeOK'
  BY <1>12 DEF SendBeat, BeatFor
<1>13. ASSUME NEW w \in Workers, BeatCheck(w) PROVE TypeOK'
  BY <1>13 DEF BeatCheck, OwnedBy
<1>14. ASSUME NEW w \in Workers, BeatExpire(w) PROVE TypeOK'
  BY <1>14 DEF BeatExpire
<1>15. ASSUME NEW w \in Workers, BeatLost(w) PROVE TypeOK'
  BY <1>15 DEF BeatLost
<1>16. ASSUME NEW w \in Workers, Stop(w) PROVE TypeOK'
  BY <1>16 DEF Stop
<1>17. ASSUME NEW w \in Workers, Kill(w) PROVE TypeOK'
  BY <1>17 DEF Kill
<1>18. ASSUME NEW d \in Handler, Delete(d) PROVE TypeOK'
  BY <1>18 DEF Delete, Handler
<1>19. ASSUME Tick PROVE TypeOK'
  <2> DEFINE Expiring == {p \in Positions : ttl[p] = 1 /\ InUse(p)}
  <2>1. Cardinality(Expiring) \in Nat
    BY FS_Subset, FS_CardinalityType, Expiring \subseteq Positions
  <2>2. races' \in Nat
    BY <1>19, <2>1 DEF Tick
  <2>3. ttl' \in [Positions -> 0..ClaimTTL] /\ owner' \in [Positions -> Workers \cup {Nobody}]
    BY <1>19 DEF Tick
  <2>4. \A p \in Positions : ttl'[p] = 0 <=> owner'[p] = Nobody
    BY <1>19 DEF Tick
  <2>5. beatDue' \in [Workers -> 0..Beat]
    BY <1>19 DEF Tick
  <2> QED
    BY <1>19, <2>2, <2>3, <2>4, <2>5 DEF Tick
<1>20. ASSUME UNCHANGED vars PROVE TypeOK'
  BY <1>20 DEF vars
<1> QED
  BY <1>1, <1>2, <1>3, <1>4, <1>5, <1>6, <1>7, <1>8, <1>9, <1>10, <1>11, <1>12,
     <1>13, <1>14, <1>15, <1>16, <1>17, <1>18, <1>19, <1>20 DEF Next, WorkerStep

(* Every reachable state is well typed, faults included. *)
THEOREM TypeCorrect == Spec => []TypeOK
  BY TypeInit, TypeStep, PTL DEF Spec

-----------------------------------------------------------------------------
(* The lease: why heartbeats suffice and no DEL revokes another's claim,   *)
(* as long as calls are punctual.  A worker that searches has as many      *)
(* ticks left on its claim as separate it from the heartbeat after next,   *)
(* or a heartbeat for it is under way; between a handler's GET and its DEL *)
(* the claim stays the caller's, who is past its search.                   *)

Protected(w) ==
  /\ owner[job[w]] = w
  /\ pc[w] = "granted" => ttl[job[w]] = ClaimTTL
  /\ pc[w] = "working" =>
       /\ claimed[w] = job[w]
       /\ \/ ttl[job[w]] + Beat >= ClaimTTL + beatDue[w]
          \/ beat[w].at # "none" /\ beat[w].pos = job[w] /\ ttl[job[w]] + Beat >= ClaimTTL

OwnDelete(d) ==
  /\ owner[d.pos] = d.by
  /\ d.call = "submit" => pc[d.by] \in {"answered", "dead"}
  /\ d.call = "release" => pc[d.by] = "exited"

Lease ==
  punctual =>
    /\ \A w \in Workers : pc[w] \in {"granted", "working"} /\ ~stopping[w] => Protected(w)
    /\ \A d \in deleting : OwnDelete(d)

LEMMA LeaseInit == Init => Lease
  BY DEF Init, Lease

LEMMA PunctualStays == [Next]_vars => punctual' = punctual
  BY DEF Next, vars, WorkerStep, Grant, ReceiveJob, LoseJob, StopAsking, Searched, Fail, Interrupted,
     JobDone, SubmitCheck, ExitCheck, ExitLost, SendBeat, BeatCheck, BeatExpire, BeatLost, Stop, Kill,
     Delete, Tick

(* Every step but Delete and Tick leaves the handlers between GET and DEL  *)
(* with their own claim, and a protected worker protected.                 *)
LEMMA LeaseStep == TypeOK /\ Lease /\ [Next]_vars => Lease'
<1> SUFFICES ASSUME TypeOK, Lease, [Next]_vars, punctual, punctual' PROVE Lease'
  BY PunctualStays DEF Lease
<1> USE ClaimsAssumption
    DEF TypeOK, PC, NoBeat, Lease, Protected, OwnDelete, Handler, claimVars, jobVars, beatVars
<1>1. ASSUME NEW w \in Workers, NEW p \in Positions, Grant(w, p) PROVE Lease'
  BY <1>1 DEF Grant, Claimable
<1>2. ASSUME NEW w \in Workers, ReceiveJob(w) PROVE Lease'
  BY <1>2 DEF ReceiveJob
<1>3. ASSUME NEW w \in Workers, LoseJob(w) PROVE Lease'
  BY <1>3 DEF LoseJob
<1>4. ASSUME NEW w \in Workers, StopAsking(w) PROVE Lease'
  BY <1>4 DEF StopAsking
<1>5. ASSUME NEW w \in Workers, Searched(w) PROVE Lease'
  BY <1>5 DEF Searched
<1>6. ASSUME NEW w \in Workers, Fail(w) PROVE Lease'
  BY <1>6 DEF Fail, Deleting
<1>7. ASSUME NEW w \in Workers, Interrupted(w) PROVE Lease'
  BY <1>7 DEF Interrupted, Deleting
<1>8. ASSUME NEW w \in Workers, JobDone(w) PROVE Lease'
  BY <1>8 DEF JobDone, ClaimedAfter, Deleting
<1>9. ASSUME NEW w \in Workers, SubmitCheck(w) PROVE Lease'
  BY <1>9 DEF SubmitCheck, ReleaseCheck, OwnedBy
<1>10. ASSUME NEW w \in Workers, ExitCheck(w) PROVE Lease'
  BY <1>10 DEF ExitCheck, ReleaseCheck, OwnedBy, ClaimedAtExit
<1>11. ASSUME NEW w \in Workers, ExitLost(w) PROVE Lease'
  BY <1>11 DEF ExitLost
<1>12. ASSUME NEW w \in Workers, SendBeat(w) PROVE Lease'
  BY <1>12 DEF SendBeat, BeatFor
<1>13. ASSUME NEW w \in Workers, BeatCheck(w) PROVE Lease'
  BY <1>13 DEF BeatCheck, OwnedBy
<1>14. ASSUME NEW w \in Workers, BeatExpire(w) PROVE Lease'
  BY <1>14 DEF BeatExpire
<1>15. ASSUME NEW w \in Workers, BeatLost(w) PROVE Lease'
  BY <1>15 DEF BeatLost
<1>16. ASSUME NEW w \in Workers, Stop(w) PROVE Lease'
  BY <1>16 DEF Stop
<1>17. ASSUME NEW w \in Workers, Kill(w) PROVE Lease'
  BY <1>17 DEF Kill
<1>18. ASSUME NEW d \in Handler, Delete(d) PROVE Lease'
  <2>1. /\ d \in deleting /\ deleting' = deleting \ {d}
        /\ owner' = [owner EXCEPT ![d.pos] = Nobody] /\ ttl' = [ttl EXCEPT ![d.pos] = 0]
        /\ UNCHANGED <<jobVars, beatVars>>
    BY <1>18 DEF Delete
  <2>2. OwnDelete(d) /\ pc[d.by] \in {"answered", "dead", "exited"}
    BY <2>1
  <2>3. ASSUME NEW e \in deleting' PROVE OwnDelete(e)'
    <3>1. e \in deleting /\ e # d /\ OwnDelete(e)
      BY <2>1, <2>3
    <3>2. e.pos # d.pos
      <4> SUFFICES ASSUME e.pos = d.pos PROVE FALSE
        OBVIOUS
      <4>1. e.by = d.by
        BY <2>2, <3>1
      <4>2. e.call # d.call
        BY <3>1, <4>1
      <4> QED
        BY <2>2, <3>1, <4>1, <4>2
    <3> QED
      BY <2>1, <3>1, <3>2
  <2>4. ASSUME NEW w \in Workers, pc'[w] \in {"granted", "working"}, ~stopping'[w] PROVE Protected(w)'
    <3>1. Protected(w) /\ job[w] \in Positions
      BY <2>1, <2>4
    <3>2. d.pos # job[w]
      BY <2>1, <2>2, <2>4, <3>1
    <3> QED
      BY <2>1, <3>1, <3>2
  <2> QED
    BY <2>3, <2>4
<1>19. ASSUME Tick PROVE Lease'
  <2>1. deleting = {}
    BY <1>19 DEF Tick, InFlight, Deleting
  <2>2. ASSUME NEW w \in Workers, pc'[w] \in {"granted", "working"}, ~stopping'[w] PROVE Protected(w)'
    <3>1. pc[w] = "working" /\ beat[w] = NoBeat /\ beatDue[w] # 0
      BY <1>19, <2>2 DEF Tick, InFlight, BeatWaits
    <3>2. Protected(w) /\ job[w] \in Positions
      BY <1>19, <2>2, <3>1 DEF Tick
    <3>3. ttl[job[w]] \in Nat /\ ttl[job[w]] + Beat >= ClaimTTL + beatDue[w] /\ ttl[job[w]] > 1
      <4>1. ttl[job[w]] \in Nat /\ beatDue[w] \in Nat /\ beatDue[w] > 0
        BY <3>1, <3>2
      <4>2. beat[w].at = "none"
        BY <3>1
      <4>3. ttl[job[w]] + Beat >= ClaimTTL + beatDue[w]
        BY <3>1, <3>2, <4>2
      <4> QED
        BY <4>1, <4>3
    <3>4. owner'[job[w]] = owner[job[w]] /\ ttl'[job[w]] = ttl[job[w]] - 1
      BY <1>19, <3>2, <3>3 DEF Tick
    <3>5. beatDue'[w] = beatDue[w] - 1
      BY <1>19, <3>1 DEF Tick
    <3> QED
      BY <1>19, <3>1, <3>2, <3>3, <3>4, <3>5 DEF Tick
  <2> QED
    BY <1>19, <2>1, <2>2 DEF Tick
<1>20. ASSUME UNCHANGED vars PROVE Lease'
  BY <1>20 DEF vars
<1> QED
  BY <1>1, <1>2, <1>3, <1>4, <1>5, <1>6, <1>7, <1>8, <1>9, <1>10, <1>11, <1>12,
     <1>13, <1>14, <1>15, <1>16, <1>17, <1>18, <1>19, <1>20 DEF Next, WorkerStep

(* A worker keeps the claim of the position it has, however long it        *)
(* searches: ClaimHeld of the run, for every number of workers.            *)
THEOREM ClaimAlwaysHeld == Spec => []ClaimHeld
<1>1. TypeOK /\ Lease => ClaimHeld
  BY DEF TypeOK, Lease, Protected, ClaimHeld, HasJob
<1> QED
  BY <1>1, TypeInit, TypeStep, LeaseInit, LeaseStep, PTL DEF Spec

-----------------------------------------------------------------------------
(* Shutting down: as long as no call was lost, a worker that was not       *)
(* killed has no claim but that of its job, which it remembers until it    *)
(* releases it, or one a handler is about to delete.                       *)

BeingReleased(w, p) == \E d \in deleting : d.by = w /\ d.pos = p

Accounted(w, p) ==
  \/ BeingReleased(w, p)
  \/ job[w] = p /\ pc[w] \in {"granted", "working", "submitting", "exited"}
  \/ job[w] = p /\ pc[w] = "leaving" /\ claimed[w] = p

ClaimsAccounted ==
  lost = 0 =>
    \A w \in Workers :
      /\ pc[w] # "sleeping"
      /\ pc[w] \in {"working", "submitting", "answered"} => claimed[w] = job[w]
      /\ \A p \in Positions : owner[p] = w /\ pc[w] # "dead" => Accounted(w, p)

LEMMA ReleaseRecords ==
  ASSUME NEW w \in Workers, NEW call, NEW p \in Positions \cup {NoPosition}, ReleaseCheck(w, call, p)
  PROVE  /\ deleting \subseteq deleting'
         /\ p \in Positions /\ owner[p] = w => \E d \in deleting' : d.by = w /\ d.pos = p
<1>1. deleting \subseteq deleting'
  BY DEF ReleaseCheck
<1>2. ASSUME p \in Positions, owner[p] = w PROVE [by |-> w, pos |-> p, call |-> call] \in deleting'
  BY <1>2, ClaimsAssumption DEF ReleaseCheck, OwnedBy
<1> QED
  BY <1>1, <1>2

LEMMA AccountedInit == Init => ClaimsAccounted
  BY ClaimsAssumption DEF Init, ClaimsAccounted

LEMMA AccountedStep == TypeOK /\ ClaimsAccounted /\ [Next]_vars => ClaimsAccounted'
<1> SUFFICES ASSUME TypeOK, ClaimsAccounted, [Next]_vars PROVE ClaimsAccounted'
  OBVIOUS
<1> USE ClaimsAssumption
    DEF TypeOK, PC, ClaimsAccounted, Accounted, BeingReleased, claimVars, jobVars, beatVars
<1>1. ASSUME NEW w \in Workers, NEW p \in Positions, Grant(w, p) PROVE ClaimsAccounted'
  BY <1>1 DEF Grant, Claimable
<1>2. ASSUME NEW w \in Workers, ReceiveJob(w) PROVE ClaimsAccounted'
  BY <1>2 DEF ReceiveJob
<1>3. ASSUME NEW w \in Workers, LoseJob(w) PROVE ClaimsAccounted'
  BY <1>3 DEF LoseJob
<1>4. ASSUME NEW w \in Workers, StopAsking(w) PROVE ClaimsAccounted'
  BY <1>4 DEF StopAsking
<1>5. ASSUME NEW w \in Workers, Searched(w) PROVE ClaimsAccounted'
  BY <1>5 DEF Searched
<1>6. ASSUME NEW w \in Workers, Fail(w) PROVE ClaimsAccounted'
  BY <1>6 DEF Fail
<1>7. ASSUME NEW w \in Workers, Interrupted(w) PROVE ClaimsAccounted'
  BY <1>7 DEF Interrupted
<1>8. ASSUME NEW w \in Workers, JobDone(w) PROVE ClaimsAccounted'
  BY <1>8 DEF JobDone, ClaimedAfter
<1>9. ASSUME NEW w \in Workers, SubmitCheck(w) PROVE ClaimsAccounted'
  <2>1. job[w] \in Positions /\ ReleaseCheck(w, "submit", job[w])
    BY <1>9 DEF SubmitCheck
  <2>2. deleting \subseteq deleting' /\ (owner[job[w]] = w => \E d \in deleting' : d.by = w /\ d.pos = job[w])
    BY <2>1, ReleaseRecords
  <2> QED
    BY <1>9, <2>1, <2>2 DEF SubmitCheck
<1>10. ASSUME NEW w \in Workers, ExitCheck(w) PROVE ClaimsAccounted'
  <2>1. claimed[w] \in Positions \cup {NoPosition} /\ ReleaseCheck(w, "release", claimed[w])
    BY <1>10 DEF ExitCheck, ClaimedAtExit
  <2>2. /\ deleting \subseteq deleting'
        /\ claimed[w] \in Positions /\ owner[claimed[w]] = w => \E d \in deleting' : d.by = w /\ d.pos = claimed[w]
    BY <2>1, ReleaseRecords
  <2> QED
    BY <1>10, <2>1, <2>2 DEF ExitCheck
<1>11. ASSUME NEW w \in Workers, ExitLost(w) PROVE ClaimsAccounted'
  BY <1>11 DEF ExitLost
<1>12. ASSUME NEW w \in Workers, SendBeat(w) PROVE ClaimsAccounted'
  BY <1>12 DEF SendBeat
<1>13. ASSUME NEW w \in Workers, BeatCheck(w) PROVE ClaimsAccounted'
  BY <1>13 DEF BeatCheck
<1>14. ASSUME NEW w \in Workers, BeatExpire(w) PROVE ClaimsAccounted'
  BY <1>14 DEF BeatExpire
<1>15. ASSUME NEW w \in Workers, BeatLost(w) PROVE ClaimsAccounted'
  BY <1>15 DEF BeatLost
<1>16. ASSUME NEW w \in Workers, Stop(w) PROVE ClaimsAccounted'
  BY <1>16 DEF Stop
<1>17. ASSUME NEW w \in Workers, Kill(w) PROVE ClaimsAccounted'
  BY <1>17 DEF Kill
<1>18. ASSUME NEW d \in Handler, Delete(d) PROVE ClaimsAccounted'
  BY <1>18 DEF Delete, Handler
<1>19. ASSUME Tick PROVE ClaimsAccounted'
  BY <1>19 DEF Tick
<1>20. ASSUME UNCHANGED vars PROVE ClaimsAccounted'
  BY <1>20 DEF vars
<1> QED
  BY <1>1, <1>2, <1>3, <1>4, <1>5, <1>6, <1>7, <1>8, <1>9, <1>10, <1>11, <1>12,
     <1>13, <1>14, <1>15, <1>16, <1>17, <1>18, <1>19, <1>20 DEF Next, WorkerStep

(* A worker that shut down orderly leaves no claim for others to wait out  *)
(* but one it was granted and never told of: CleanExit of the run.         *)
THEOREM ExitIsClean == Spec => []CleanExit
<1>1. TypeOK /\ ClaimsAccounted => CleanExit
  BY DEF TypeOK, ClaimsAccounted, Accounted, BeingReleased, CleanExit, Released, Deleting, Handler
<1> QED
  BY <1>1, TypeInit, TypeStep, AccountedInit, AccountedStep, PTL DEF Spec

-----------------------------------------------------------------------------
(* Claims implement JobLock: Grant is Take, a worker's steps that end its  *)
(* search are Leave, a DEL or a tick that takes the claim of a searching   *)
(* worker is Revoke, and every other step is invisible.  What Take needs   *)
(* is that at most one search per race goes on without its claim.          *)

Strays(p) == {w \in Searchers(p) : owner[p] # w}

StraysBounded == \A p \in Positions : Cardinality(Strays(p)) <= races

LEMMA StraysFinite ==
  ASSUME NEW p \in Positions
  PROVE  /\ IsFiniteSet(Searchers(p)) /\ IsFiniteSet(Strays(p))
         /\ Cardinality(Searchers(p)) \in Nat /\ Cardinality(Strays(p)) \in Nat
<1>1. Searchers(p) \subseteq Workers /\ Strays(p) \subseteq Workers
  BY DEF Searchers, Strays
<1>2. IsFiniteSet(Searchers(p)) /\ IsFiniteSet(Strays(p))
  BY <1>1, ClaimsAssumption, FS_Subset
<1> QED
  BY <1>2, FS_CardinalityType

LEMMA StraysInit == Init => StraysBounded
<1> SUFFICES ASSUME Init, NEW p \in Positions PROVE Cardinality(Strays(p)) <= races
  BY DEF StraysBounded
<1>1. Strays(p) = {}
  BY DEF Init, Strays, Searchers, HasJob
<1> QED
  BY <1>1, FS_EmptySet DEF Init

(* What a step of w other than Grant does to the searches. *)
OwnSearchOnly(w) ==
  /\ \A v \in Workers \ {w}, p \in Positions : v \in Searchers(p)' <=> v \in Searchers(p)
  /\ \A p \in Positions : w \in Searchers(p)' => w \in Searchers(p)
  /\ owner' = owner /\ races' = races

LEMMA OwnSteps ==
  ASSUME TypeOK, NEW w \in Workers, WorkerStep(w), \A p \in Positions : ~Grant(w, p)
  PROVE  OwnSearchOnly(w)
<1> USE DEF TypeOK, OwnSearchOnly, Searchers, HasJob, claimVars, jobVars
<1>1. CASE ReceiveJob(w)
  BY <1>1 DEF ReceiveJob
<1>2. CASE LoseJob(w)
  BY <1>2 DEF LoseJob
<1>3. CASE StopAsking(w)
  BY <1>3 DEF StopAsking
<1>4. CASE Searched(w)
  BY <1>4 DEF Searched
<1>5. CASE Fail(w)
  BY <1>5 DEF Fail
<1>6. CASE Interrupted(w)
  BY <1>6 DEF Interrupted
<1>7. CASE JobDone(w)
  BY <1>7 DEF JobDone
<1>8. CASE SubmitCheck(w)
  BY <1>8 DEF SubmitCheck
<1>9. CASE ExitCheck(w)
  BY <1>9 DEF ExitCheck
<1>10. CASE ExitLost(w)
  BY <1>10 DEF ExitLost
<1>11. CASE SendBeat(w) \/ BeatCheck(w) \/ BeatExpire(w) \/ BeatLost(w)
  BY <1>11 DEF SendBeat, BeatCheck, BeatExpire, BeatLost
<1>12. CASE Stop(w)
  BY <1>12 DEF Stop
<1>13. CASE Kill(w)
  BY <1>13 DEF Kill
<1> QED
  BY <1>1, <1>2, <1>3, <1>4, <1>5, <1>6, <1>7, <1>8, <1>9, <1>10, <1>11, <1>12, <1>13 DEF WorkerStep

LEMMA GrantSearches ==
  ASSUME TypeOK, NEW w \in Workers, NEW p \in Positions, Grant(w, p)
  PROVE  /\ \A q \in Positions : w \notin Searchers(q)
         /\ Searchers(p)' = Searchers(p) \cup {w}
         /\ \A q \in Positions \ {p} : Searchers(q)' = Searchers(q)
         /\ Strays(p) = Searchers(p)
         /\ \A q \in Positions : Strays(q)' = Strays(q)
<1> USE DEF TypeOK, Grant, Claimable, Searchers, HasJob
<1>1. \A q \in Positions : w \notin Searchers(q)
  OBVIOUS
<1>2. Searchers(p)' = Searchers(p) \cup {w}
  OBVIOUS
<1>3. \A q \in Positions \ {p} : Searchers(q)' = Searchers(q)
  OBVIOUS
<1>4. Strays(p) = Searchers(p)
  BY ClaimsAssumption DEF Strays
<1>5. Strays(p)' = Strays(p)
  BY <1>1, <1>2, <1>4 DEF Strays
<1>6. \A q \in Positions \ {p} : Strays(q)' = Strays(q)
  BY <1>3 DEF Strays
<1> QED
  BY <1>1, <1>2, <1>3, <1>4, <1>5, <1>6

(* A claim that goes under its worker makes one stray, and counts. *)
LEMMA DeleteCounts ==
  ASSUME TypeOK, NEW d \in Handler, Delete(d)
  PROVE  /\ \A p \in Positions : Searchers(p)' = Searchers(p)
         /\ \A p \in Positions \ {d.pos} : Strays(p)' = Strays(p)
         /\ InUse(d.pos) => races' = races + 1 /\ Strays(d.pos)' = Strays(d.pos) \cup {owner[d.pos]}
         /\ ~InUse(d.pos) => races' = races /\ Strays(d.pos)' = Strays(d.pos)
<1>1. d.pos \in Positions /\ d.by \in Workers
  BY DEF Handler
<1>2. \A p \in Positions : Searchers(p)' = Searchers(p)
  BY DEF Delete, Searchers, HasJob, jobVars
<1>3. owner' = [owner EXCEPT ![d.pos] = Nobody]
  BY DEF Delete
<1>4. \A p \in Positions \ {d.pos} : Strays(p)' = Strays(p)
  BY <1>1, <1>2, <1>3 DEF TypeOK, Strays
<1>5. Strays(d.pos)' = Searchers(d.pos)
  <2>1. owner'[d.pos] = Nobody
    BY <1>1, <1>3 DEF TypeOK
  <2>2. \A v \in Searchers(d.pos) : v # Nobody
    BY ClaimsAssumption DEF Searchers
  <2> QED
    BY <1>1, <1>2, <2>1, <2>2 DEF Strays
<1>6. InUse(d.pos) => Searchers(d.pos) = Strays(d.pos) \cup {owner[d.pos]}
  BY DEF InUse, Strays
<1>7. ~InUse(d.pos) => Searchers(d.pos) = Strays(d.pos)
  BY DEF InUse, Strays
<1> QED
  BY <1>2, <1>4, <1>5, <1>6, <1>7 DEF Delete

Expiring == {p \in Positions : ttl[p] = 1 /\ InUse(p)}

LEMMA TickCounts ==
  ASSUME TypeOK, Tick
  PROVE  /\ \A p \in Positions : Searchers(p)' = Searchers(p)
         /\ \A p \in Expiring : Strays(p)' = Strays(p) \cup {owner[p]}
         /\ \A p \in Positions \ Expiring : Strays(p)' = Strays(p)
         /\ races' = races + Cardinality(Expiring) /\ Cardinality(Expiring) \in Nat
         /\ Expiring # {} => Cardinality(Expiring) > 0
<1>1. \A p \in Positions : Searchers(p)' = Searchers(p)
  BY DEF Tick, Searchers, HasJob, jobVars
<1>2. \A p \in Positions : owner'[p] = IF ttl[p] = 1 THEN Nobody ELSE owner[p]
  BY DEF Tick
<1>3. \A p \in Positions : \A v \in Searchers(p) : v # Nobody
  BY ClaimsAssumption DEF Searchers
<1>4. ASSUME NEW p \in Positions, p \in Expiring PROVE Strays(p)' = Strays(p) \cup {owner[p]}
  BY <1>1, <1>2, <1>3, <1>4 DEF Expiring, Strays, InUse
<1>5. ASSUME NEW p \in Positions, p \notin Expiring PROVE Strays(p)' = Strays(p)
  BY <1>1, <1>2, <1>3, <1>5 DEF Expiring, Strays, InUse
<1>6. IsFiniteSet(Expiring) /\ Cardinality(Expiring) \in Nat /\ (Cardinality(Expiring) = 0 <=> Expiring = {})
  BY ClaimsAssumption, FS_Subset, FS_CardinalityType, FS_EmptySet, Expiring \subseteq Positions DEF Expiring
<1>7. races' = races + Cardinality(Expiring)
  BY DEF Tick, Expiring
<1> QED
  BY <1>1, <1>4, <1>5, <1>6, <1>7 DEF Expiring

LEMMA StraysStep == TypeOK /\ StraysBounded /\ [Next]_vars => StraysBounded'
<1> SUFFICES ASSUME TypeOK, StraysBounded, [Next]_vars, NEW p \in Positions
             PROVE  Cardinality(Strays(p)') <= races'
  BY DEF StraysBounded
<1>1. IsFiniteSet(Strays(p)) /\ Cardinality(Strays(p)) \in Nat /\ Cardinality(Strays(p)) <= races /\ races \in Nat
  BY StraysFinite DEF StraysBounded, TypeOK
<1>2. ASSUME Strays(p)' \subseteq Strays(p), races' = races PROVE Cardinality(Strays(p)') <= races'
  <2>1. Cardinality(Strays(p)') <= Cardinality(Strays(p)) /\ Cardinality(Strays(p)') \in Nat
    BY <1>1, <1>2, FS_Subset, FS_CardinalityType
  <2> QED
    BY <1>1, <1>2, <2>1
<1>3. ASSUME NEW w, Strays(p)' = Strays(p) \cup {w}, races' \in Nat, races' > races
      PROVE  Cardinality(Strays(p)') <= races'
  <2>1. Cardinality(Strays(p)') \in {Cardinality(Strays(p)), Cardinality(Strays(p)) + 1}
    BY <1>1, <1>3, FS_AddElement
  <2> QED
    BY <1>1, <1>3, <2>1
<1>4. ASSUME NEW w \in Workers, NEW q \in Positions, Grant(w, q) PROVE Cardinality(Strays(p)') <= races'
  BY <1>2, <1>4, GrantSearches DEF Grant
<1>5. ASSUME NEW w \in Workers, WorkerStep(w), \A q \in Positions : ~Grant(w, q)
      PROVE  Cardinality(Strays(p)') <= races'
  <2>1. OwnSearchOnly(w)
    BY <1>5, OwnSteps
  <2>2. Strays(p)' \subseteq Strays(p)
    BY <2>1 DEF OwnSearchOnly, Strays, Searchers
  <2> QED
    BY <1>2, <2>1, <2>2 DEF OwnSearchOnly
<1>6. ASSUME NEW d \in Handler, Delete(d) PROVE Cardinality(Strays(p)') <= races'
  <2>1. CASE p = d.pos /\ InUse(p)
    <3>1. Strays(p)' = Strays(p) \cup {owner[p]} /\ races' \in Nat /\ races' > races
      BY <1>1, <1>6, <2>1, DeleteCounts
    <3> QED
      BY <1>1, <1>3, <3>1
  <2>2. CASE p # d.pos \/ ~InUse(p)
    <3>1. Strays(p)' = Strays(p) /\ races' \in Nat /\ races' >= races
      BY <1>1, <1>6, <2>2, DeleteCounts
    <3> QED
      BY <1>1, <3>1
  <2> QED
    BY <2>1, <2>2
<1>7. ASSUME Tick PROVE Cardinality(Strays(p)') <= races'
  <2>1. CASE p \in Expiring
    <3>1. Strays(p)' = Strays(p) \cup {owner[p]} /\ races' \in Nat /\ races' > races
      BY <1>1, <1>7, <2>1, TickCounts
    <3> QED
      BY <1>1, <1>3, <3>1
  <2>2. CASE p \notin Expiring
    <3>1. Strays(p)' = Strays(p) /\ races' \in Nat /\ races' >= races
      BY <1>1, <1>7, <2>2, TickCounts
    <3> QED
      BY <1>1, <3>1
  <2> QED
    BY <2>1, <2>2
<1>8. ASSUME UNCHANGED vars PROVE Cardinality(Strays(p)') <= races'
  BY <1>1, <1>8 DEF vars, claimVars, jobVars, Strays, Searchers, HasJob
<1> QED
  BY <1>4, <1>5, <1>6, <1>7, <1>8 DEF Next

-----------------------------------------------------------------------------
(* The refinement. *)

Searching == [p \in Positions |-> Searchers(p)]

LEMMA LockInit == Init => Lock!Init
<1> SUFFICES ASSUME Init PROVE Lock!Init
  OBVIOUS
<1>1. \A p \in Positions : Searchers(p) = {}
  BY DEF Init, Searchers, HasJob
<1> QED
  BY <1>1 DEF Init, Lock!Init

(* Where calls are punctual no search loses its claim. *)
LEMMA OnTimeNoRace ==
  ASSUME TypeOK, Lease, punctual
  PROVE  /\ \A d \in Handler : Delete(d) => ~InUse(d.pos)
         /\ Tick => Expiring = {}
<1>1. ASSUME NEW d \in Handler, Delete(d) PROVE ~InUse(d.pos)
  <2>1. d \in deleting /\ OwnDelete(d) /\ d.by \in Workers /\ d.call \in {"submit", "release"}
    BY <1>1 DEF Delete, Lease, Handler
  <2>2. owner[d.pos] = d.by /\ pc[d.by] \in {"answered", "dead", "exited"}
    BY <2>1 DEF OwnDelete
  <2> QED
    BY <2>2 DEF InUse, Searchers, HasJob
<1>2. ASSUME Tick, NEW p \in Positions, ttl[p] = 1, InUse(p) PROVE FALSE
  <2>1. PICK w \in Workers : owner[p] = w /\ HasJob(w, p) /\ ~stopping[w]
    BY <1>2 DEF InUse, Searchers
  <2>2. pc[w] = "working" /\ job[w] = p /\ beat[w] = NoBeat /\ beatDue[w] # 0
    BY <1>2, <2>1 DEF Tick, InFlight, BeatWaits, HasJob
  <2>3. Protected(w)
    BY <2>1, <2>2 DEF Lease
  <2>4. ttl[p] + Beat >= ClaimTTL + beatDue[w]
    BY <2>2, <2>3 DEF Protected, NoBeat
  <2>5. beatDue[w] \in Nat /\ beatDue[w] > 0
    BY <2>2 DEF TypeOK
  <2> QED
    BY <1>2, <2>4, <2>5, ClaimsAssumption
<1> QED
  BY <1>1, <1>2 DEF Expiring

LEMMA LockStep ==
  TypeOK /\ Lease /\ StraysBounded /\ [Next]_vars => [Lock!Next]_(Lock!lockVars)
<1> SUFFICES ASSUME TypeOK, Lease, StraysBounded, [Next]_vars PROVE [Lock!Next]_(Lock!lockVars)
  OBVIOUS
<1>1. punctual' = punctual /\ punctual \in BOOLEAN /\ races \in Nat
  BY PunctualStays DEF TypeOK
<1>2. ASSUME NEW w \in Workers, NEW p \in Positions, Grant(w, p) PROVE Lock!Next
  <2>1. races' = races
    BY <1>2 DEF Grant
  <2>2. Cardinality(Searchers(p)) <= races
    BY <1>2, GrantSearches DEF StraysBounded
  <2>3. Searching' = [Searching EXCEPT ![p] = @ \cup {w}]
    BY <1>2, GrantSearches DEF Searching
  <2>4. Lock!Take(w, p)
    BY <1>1, <1>2, <2>1, <2>2, <2>3, GrantSearches
       DEF Lock!Take, Lock!Cardinality, Cardinality, Searching
  <2> QED
    BY <2>4 DEF Lock!Next
<1>3. ASSUME NEW w \in Workers, WorkerStep(w), \A p \in Positions : ~Grant(w, p) PROVE [Lock!Next]_(Lock!lockVars)
  <2>1. OwnSearchOnly(w)
    BY <1>3, OwnSteps
  <2>2. CASE \E p \in Positions : w \in Searchers(p) /\ w \notin Searchers(p)'
    <3>1. PICK p \in Positions : w \in Searchers(p) /\ w \notin Searchers(p)'
      BY <2>2
    <3>2. \A q \in Positions \ {p} : w \notin Searchers(q)
      BY <3>1 DEF Searchers, HasJob
    <3>3. \A q \in Positions \ {p} : Searchers(q)' = Searchers(q)
      BY <2>1, <3>2 DEF OwnSearchOnly, Searchers
    <3>4. Searchers(p)' = Searchers(p) \ {w}
      BY <2>1, <3>1 DEF OwnSearchOnly, Searchers
    <3>5. Searching' = [Searching EXCEPT ![p] = @ \ {w}]
      BY <3>3, <3>4 DEF Searching
    <3>6. Lock!Leave(w, p)
      BY <1>1, <2>1, <3>1, <3>5 DEF Lock!Leave, Searching, OwnSearchOnly
    <3> QED
      BY <3>6 DEF Lock!Next
  <2>3. CASE \A p \in Positions : w \in Searchers(p) => w \in Searchers(p)'
    <3>1. \A p \in Positions : Searchers(p)' = Searchers(p)
      BY <2>1, <2>3 DEF OwnSearchOnly, Searchers
    <3> QED
      BY <1>1, <2>1, <3>1 DEF OwnSearchOnly, Lock!lockVars
  <2> QED
    BY <2>2, <2>3
<1>4. ASSUME \A p \in Positions : Searchers(p)' = Searchers(p),
             races' = races \/ (~punctual /\ races' \in Nat /\ races' > races /\ \E p \in Positions : InUse(p))
      PROVE  [Lock!Next]_(Lock!lockVars)
  <2>1. CASE races' = races
    BY <1>1, <1>4, <2>1 DEF Lock!lockVars
  <2>2. CASE ~punctual /\ races' \in Nat /\ races' > races /\ \E p \in Positions : InUse(p)
    <3>1. \E p \in Positions : Searchers(p) # {}
      BY <2>2 DEF InUse
    <3>2. Lock!Revoke
      BY <1>1, <1>4, <2>2, <3>1 DEF Lock!Revoke
    <3> QED
      BY <3>2 DEF Lock!Next
  <2> QED
    BY <1>4, <2>1, <2>2
<1>5. ASSUME NEW d \in Handler, Delete(d) PROVE [Lock!Next]_(Lock!lockVars)
  <2>1. d.pos \in Positions
    BY DEF Handler
  <2> QED
    BY <1>1, <1>4, <1>5, <2>1, DeleteCounts, OnTimeNoRace
<1>6. ASSUME Tick PROVE [Lock!Next]_(Lock!lockVars)
  <2>1. CASE Expiring = {}
    <3>1. races' = races
      BY <1>1, <1>6, <2>1, TickCounts, FS_EmptySet
    <3> QED
      BY <1>4, <1>6, <3>1, TickCounts
  <2>2. CASE Expiring # {}
    <3>1. ~punctual /\ \E p \in Positions : InUse(p)
      BY <1>6, <2>2, OnTimeNoRace DEF Expiring
    <3>2. races' \in Nat /\ races' > races
      BY <1>1, <1>6, <2>2, TickCounts
    <3> QED
      BY <1>4, <1>6, <3>1, <3>2, TickCounts
  <2> QED
    BY <2>1, <2>2
<1>7. ASSUME UNCHANGED vars PROVE [Lock!Next]_(Lock!lockVars)
  <2>1. \A p \in Positions : Searchers(p)' = Searchers(p)
    BY <1>7 DEF vars, jobVars, Searchers, HasJob
  <2> QED
    BY <1>4, <1>7, <2>1 DEF vars
<1> QED
  BY <1>2, <1>3, <1>5, <1>6, <1>7 DEF Next

(* The claims lock the searches: a position gets one more worker only when *)
(* a claim was deleted or ran out under its worker, and that takes a late  *)
(* answer.  LocksSearches of the run, for every number of workers.         *)
THEOREM ClaimsLockSearches == Spec => LocksSearches
  BY TypeInit, TypeStep, LeaseInit, LeaseStep, StraysInit, StraysStep, LockInit, LockStep, PTL
     DEF Spec, LocksSearches, Lock!Spec

-----------------------------------------------------------------------------
(* Where calls are punctual no claim is revoked under its worker.          *)
RaceFree == punctual => races = 0

LEMMA RaceFreeStep == TypeOK /\ Lease /\ RaceFree /\ [Next]_vars => RaceFree'
<1> SUFFICES ASSUME TypeOK, Lease, RaceFree, [Next]_vars, punctual PROVE races' = races
  BY PunctualStays DEF RaceFree
<1>1. ASSUME NEW w \in Workers, WorkerStep(w) PROVE races' = races
  BY <1>1, OwnSteps DEF Grant, OwnSearchOnly
<1>2. ASSUME NEW d \in Handler, Delete(d) PROVE races' = races
  BY <1>2, OnTimeNoRace DEF Delete
<1>3. ASSUME Tick PROVE races' = races
  <2>1. Expiring = {} /\ races' = races + Cardinality(Expiring)
    BY <1>3, OnTimeNoRace, TickCounts
  <2> QED
    BY <2>1, FS_EmptySet DEF TypeOK
<1>4. ASSUME UNCHANGED vars PROVE races' = races
  BY <1>4 DEF vars
<1> QED
  BY <1>1, <1>2, <1>3, <1>4 DEF Next

LEMMA SearchersExclusive == TypeOK /\ StraysBounded /\ RaceFree => Lock!Exclusive
<1> SUFFICES ASSUME TypeOK, StraysBounded, RaceFree PROVE Lock!Exclusive
  OBVIOUS
<1>1. ASSUME NEW p \in Positions PROVE Cardinality(Searchers(p)) <= 1 + races
  <2>1. Searchers(p) \subseteq Strays(p) \cup {owner[p]}
    BY DEF Strays
  <2>2. /\ IsFiniteSet(Strays(p) \cup {owner[p]})
        /\ Cardinality(Strays(p) \cup {owner[p]}) \in {Cardinality(Strays(p)), Cardinality(Strays(p)) + 1}
    BY StraysFinite, FS_AddElement
  <2>3. Cardinality(Searchers(p)) <= Cardinality(Strays(p) \cup {owner[p]})
    BY <2>1, <2>2, FS_Subset
  <2> QED
    BY <2>2, <2>3, StraysFinite DEF StraysBounded, TypeOK
<1>2. \A p \in Positions : [q \in Positions |-> Searchers(q)][p] = Searchers(p)
  OBVIOUS
<1> QED
  BY <1>1, <1>2 DEF Lock!Exclusive, Lock!Cardinality, Cardinality, RaceFree

(* A position has one searcher, and one more for each claim that was       *)
(* deleted or ran out under its worker ("the worst case of the race is one *)
(* duplicated evaluation", redis.go); none is where calls are punctual.    *)
THEOREM OneSearcherPerPosition == Spec => []Lock!Exclusive
<1>1. Init => RaceFree
  BY DEF Init, RaceFree
<1> QED
  BY <1>1, TypeInit, TypeStep, LeaseInit, LeaseStep, StraysInit, StraysStep, RaceFreeStep, SearchersExclusive, PTL
     DEF Spec

-----------------------------------------------------------------------------
(***************************************************************************)
(* EdaxProcess                                                             *)
(***************************************************************************)

-----------------------------------------------------------------------------
(* The inductive invariant: where the one problem in flight is. *)

Empty(e) == process[e].problems = <<>> /\ process[e].results = <<>>

(* The problem of the job Evaluate waits for, or its result *)
Holds(e) ==
  /\ loopPc = "reading" /\ e = pipes
  /\ \/ Running(e) /\ process[e].problems = <<loopJob.pos>> /\ process[e].results = <<>>
     \/ process[e].problems = <<>> /\ process[e].results = <<loopJob>>

PipesInUse == loopPc \in {"writing", "reading"} <=> pipes # NoProcess
OnlyCurrent == \A e \in Processes : process[e] = NotStarted \/ e = cmd
CurrentLevel == cmd # NoProcess => process[cmd].level = level
CurrentPipes == pipes # NoProcess => cmd = NoProcess \/ (cmd = pipes /\ level = loopJob.level)
OneInFlight == \A e \in Processes : Empty(e) \/ Holds(e)
Returned == loopPc = "returned" => answer \in {Failed, loopJob}
NoneAfterExit == loopPc = "exited" => cmd = NoProcess

IInv ==
  /\ EdaxTypeOK
  /\ PipesInUse /\ OnlyCurrent /\ CurrentLevel /\ CurrentPipes
  /\ OneInFlight /\ Returned /\ NoneAfterExit

LEMMA OneEntry ==
  ASSUME NEW S, NEW x \in S
  PROVE  /\ <<x>> \in Seq(S) /\ <<>> \in Seq(S) /\ <<x>> # <<>>
         /\ Append(<<>>, x) = <<x>> /\ Head(<<x>>) = x /\ Tail(<<x>>) = <<>>
  OBVIOUS

(* What a step makes of a subprocess. *)
LEMMA SubprocessTypes ==
  /\ NotStarted \in Subprocess /\ NotStarted.problems = <<>> /\ NotStarted.results = <<>>
  /\ \A l \in Levels : /\ Started(l) \in Subprocess /\ Started(l).level = l
                       /\ Started(l).problems = <<>> /\ Started(l).results = <<>>
  BY DEF NotStarted, Started, Subprocess

LEMMA Emptied ==
  ASSUME NEW r \in Subprocess
  PROVE  /\ [r EXCEPT !.results = <<>>] \in Subprocess
         /\ [r EXCEPT !.results = <<>>].level = r.level
         /\ [r EXCEPT !.results = <<>>].problems = r.problems
         /\ [r EXCEPT !.results = <<>>].results = <<>>
         /\ [r EXCEPT !.state = "ended", !.problems = <<>>] \in Subprocess
         /\ [r EXCEPT !.state = "ended", !.problems = <<>>].level = r.level
         /\ [r EXCEPT !.state = "ended", !.problems = <<>>].problems = <<>>
         /\ [r EXCEPT !.state = "ended", !.problems = <<>>].results = r.results
<1>1. <<>> \in Seq(EdaxPositions) /\ <<>> \in Seq(Jobs)
  OBVIOUS
<1> QED
  BY <1>1 DEF Subprocess

LEMMA Changed ==
  ASSUME process \in [Processes -> Subprocess], NEW e \in Processes, NEW r \in Subprocess,
         process' = [process EXCEPT ![e] = r]
  PROVE  /\ process' \in [Processes -> Subprocess]
         /\ process'[e] = r
         /\ \A f \in Processes : f # e => process'[f] = process[f]
  OBVIOUS

LEMMA OnlyStarted ==
  ASSUME NEW e \in Processes, NEW r \in Subprocess,
         process' = [[f \in Processes |-> NotStarted] EXCEPT ![e] = r]
  PROVE  /\ process' \in [Processes -> Subprocess]
         /\ process'[e] = r
         /\ \A f \in Processes : f # e => process'[f] = NotStarted
<1>1. [f \in Processes |-> NotStarted] \in [Processes -> Subprocess]
  BY SubprocessTypes
<1> QED
  BY <1>1

(* A kill leaves no subprocess. *)
LEMMA KillLeavesNone ==
  ASSUME OnlyCurrent
  PROVE  WithoutCurrent = [e \in Processes |-> NotStarted]
  BY DEF OnlyCurrent, WithoutCurrent

LEMMA InitHolds == EdaxInit => IInv
<1> SUFFICES ASSUME EdaxInit PROVE IInv
  OBVIOUS
<1>1. \A e \in Processes : process[e] = NotStarted
  BY DEF EdaxInit
<1>2. process \in [Processes -> Subprocess]
  BY SubprocessTypes DEF EdaxInit
<1>3. faults \in 0..MaxFaults
  BY EdaxAssumption DEF EdaxInit
<1>4. EdaxTypeOK
  BY <1>2, <1>3 DEF EdaxInit, EdaxTypeOK, LoopPC
<1>5. OneInFlight
  BY <1>1, SubprocessTypes DEF OneInFlight, Empty
<1> QED
  BY <1>1, <1>4, <1>5 DEF EdaxInit, IInv, PipesInUse, OnlyCurrent, CurrentLevel, CurrentPipes, Returned, NoneAfterExit

LEMMA StepHolds == IInv /\ [EdaxNext]_edaxVars => IInv'
<1> SUFFICES ASSUME IInv, [EdaxNext]_edaxVars PROVE IInv'
  OBVIOUS
<1> USE EdaxAssumption DEF IInv, EdaxTypeOK, LoopPC, PipesInUse, OnlyCurrent, CurrentLevel,
     CurrentPipes, OneInFlight, Empty, Holds, Returned, NoneAfterExit, Running
<1>1. ASSUME NEW j \in Jobs, TakeJob(j) PROVE IInv'
  BY <1>1 DEF TakeJob, procVars
<1>2. CASE EndLoop
  BY <1>2 DEF EndLoop, procVars
<1>3. CASE HandBack
  BY <1>3 DEF HandBack, procVars
<1>4. CASE Reuse
  BY <1>4 DEF Reuse, Reusable, procVars
<1>5. ASSUME NEW e \in Processes, Start(e) PROVE IInv'
  <2> USE <1>5 DEF Start, Killed
  <2>1. process' = [[f \in Processes |-> NotStarted] EXCEPT ![e] = Started(loopJob.level)]
    BY KillLeavesNone
  <2>2. loopJob.level \in Levels
    BY DEF Jobs
  <2>3. /\ process' \in [Processes -> Subprocess]
        /\ process'[e] = Started(loopJob.level)
        /\ \A f \in Processes : f # e => process'[f] = NotStarted
    <3>1. Started(loopJob.level) \in Subprocess
      BY <2>2, SubprocessTypes
    <3> HIDE DEF IInv, EdaxTypeOK, OneInFlight, Holds, OnlyCurrent, Start, Killed
    <3> QED
      BY <2>1, <3>1, <1>5, OnlyStarted
  <2>4. OneInFlight'
    BY <2>2, <2>3, SubprocessTypes
  <2> QED
    BY <2>2, <2>3, <2>4, SubprocessTypes
<1>6. CASE StartFails
  <2> USE <1>6 DEF StartFails, Killed, Fails
  <2>1. process' = [f \in Processes |-> NotStarted]
    BY KillLeavesNone
  <2>2. process' \in [Processes -> Subprocess] /\ OneInFlight'
    BY <2>1, SubprocessTypes
  <2> QED
    BY <2>1, <2>2
<1>7. CASE Write
  <2> USE <1>7 DEF Write
  <2> DEFINE r == [process[pipes] EXCEPT !.problems = <<loopJob.pos>>]
  <2>1. pipes \in Processes /\ pipes = cmd /\ level = loopJob.level /\ loopJob.pos \in EdaxPositions
    BY SubprocessTypes DEF Jobs, NotStarted
  <2>2. process[pipes].problems = <<>> /\ process[pipes].results = <<>>
    BY <2>1
  <2>3. process' = [process EXCEPT ![pipes] = r]
    BY <2>1, <2>2, OneEntry
  <2>4. <<loopJob.pos>> \in Seq(EdaxPositions)
    BY <2>1, OneEntry
  <2>5. r \in Subprocess /\ r.state = "running" /\ r.level = process[pipes].level
        /\ r.problems = <<loopJob.pos>> /\ r.results = <<>>
    BY <2>1, <2>2, <2>4 DEF Subprocess
  <2> HIDE DEF r
  <2>6. /\ process' \in [Processes -> Subprocess] /\ process'[pipes] = r
        /\ \A f \in Processes : f # pipes => process'[f] = process[f]
    BY <2>1, <2>3, <2>5, Changed
  <2>7. OneInFlight'
    BY <2>1, <2>5, <2>6
  <2> QED
    BY <2>1, <2>5, <2>6, <2>7
<1>8. CASE WriteFails
  BY <1>8 DEF WriteFails, Fails, procVars
<1>9. CASE Read
  <2> USE <1>9 DEF Read
  <2> DEFINE r == [process[pipes] EXCEPT !.results = <<>>]
  <2>1. pipes \in Processes
    OBVIOUS
  <2>2. process[pipes].results = <<loopJob>> /\ process[pipes].problems = <<>>
    BY <2>1
  <2>3. Head(process[pipes].results) = loopJob /\ AfterRead(process[pipes].results) = <<>>
    BY <2>2, OneEntry DEF AfterRead
  <2>4. process' = [process EXCEPT ![pipes] = r]
    BY <2>1, <2>3
  <2>5. r \in Subprocess /\ r.level = process[pipes].level /\ r.problems = <<>> /\ r.results = <<>>
    BY <2>1, <2>2, Emptied
  <2>6. pipes = cmd
    BY <2>1, <2>2, SubprocessTypes, OneEntry
  <2> HIDE DEF r
  <2>7. /\ process' \in [Processes -> Subprocess] /\ process'[pipes] = r
        /\ \A f \in Processes : f # pipes => process'[f] = process[f]
    BY <2>1, <2>4, <2>5, Changed
  <2>8. OneInFlight'
    BY <2>1, <2>5, <2>7
  <2> QED
    BY <2>1, <2>3, <2>5, <2>6, <2>7, <2>8
<1>10. CASE ReadUnusable
  <2> USE <1>10 DEF ReadUnusable, Fails
  <2> DEFINE r == [process[pipes] EXCEPT !.results = <<>>]
  <2>1. pipes \in Processes
    OBVIOUS
  <2>2. process[pipes].results = <<loopJob>> /\ process[pipes].problems = <<>>
    BY <2>1
  <2>3. Head(process[pipes].results) = loopJob /\ AfterRead(process[pipes].results) = <<>>
    BY <2>2, OneEntry DEF AfterRead
  <2>4. process' = [process EXCEPT ![pipes] = r]
    BY <2>1, <2>3
  <2>5. r \in Subprocess /\ r.level = process[pipes].level /\ r.problems = <<>> /\ r.results = <<>>
    BY <2>1, <2>2, Emptied
  <2>6. pipes = cmd
    BY <2>1, <2>2, SubprocessTypes, OneEntry
  <2> HIDE DEF r
  <2>7. /\ process' \in [Processes -> Subprocess] /\ process'[pipes] = r
        /\ \A f \in Processes : f # pipes => process'[f] = process[f]
    BY <2>1, <2>4, <2>5, Changed
  <2>8. OneInFlight'
    BY <2>1, <2>5, <2>7
  <2> QED
    BY <2>1, <2>3, <2>5, <2>6, <2>7, <2>8
<1>11. CASE ReadEnds
  <2> USE <1>11 DEF ReadEnds, Fails, procVars
  <2>1. pipes \in Processes
    OBVIOUS
  <2>2. Empty(pipes)
    <3>1. Empty(pipes) \/ Holds(pipes)
      BY <2>1
    <3>2. process[pipes].results # <<loopJob>>
      OBVIOUS
    <3> QED
      BY <3>1, <3>2
  <2>3. OneInFlight'
    BY <2>2
  <2> QED
    BY <2>3
<1>12. ASSUME NEW e \in Processes, Search(e) PROVE IInv'
  <2> USE <1>12 DEF Search, loopVars
  <2> DEFINE r == [process[e] EXCEPT !.problems = <<>>, !.results = <<loopJob>>]
  <2>1. e = pipes /\ loopPc = "reading"
    OBVIOUS
  <2>2. process[e].problems = <<loopJob.pos>> /\ process[e].results = <<>>
    BY <2>1
  <2>3. e = cmd /\ process[e].level = loopJob.level
    BY <2>1, <2>2, SubprocessTypes, OneEntry
  <2>4. loopJob = [pos |-> Head(process[e].problems), level |-> process[e].level]
    BY <2>2, <2>3, OneEntry DEF Jobs
  <2>5. process' = [process EXCEPT ![e] = r]
    <3>1. Tail(process[e].problems) = <<>>
      BY <2>2, OneEntry
    <3>2. Append(process[e].results, loopJob) = <<loopJob>>
      BY <2>2, OneEntry
    <3> QED
      BY <2>4, <3>1, <3>2
  <2>6. r \in Subprocess /\ r.level = process[e].level /\ r.problems = <<>> /\ r.results = <<loopJob>>
    BY OneEntry DEF Subprocess
  <2> HIDE DEF r
  <2>7. /\ process' \in [Processes -> Subprocess] /\ process'[e] = r
        /\ \A f \in Processes : f # e => process'[f] = process[f]
    BY <2>5, <2>6, Changed
  <2>8. OneInFlight'
    BY <2>1, <2>6, <2>7
  <2> QED
    BY <2>3, <2>6, <2>7, <2>8
<1>13. ASSUME NEW e \in Processes, Crash(e) PROVE IInv'
  <2> USE <1>13 DEF Crash, loopVars
  <2> DEFINE r == [process[e] EXCEPT !.state = "ended", !.problems = <<>>]
  <2>1. process' = [process EXCEPT ![e] = r]
    OBVIOUS
  <2>2. /\ r \in Subprocess /\ r.level = process[e].level
        /\ r.problems = <<>> /\ r.results = process[e].results
    BY Emptied
  <2>3. e = cmd
    BY DEF NotStarted
  <2> HIDE DEF r
  <2>4. /\ process' \in [Processes -> Subprocess] /\ process'[e] = r
        /\ \A f \in Processes : f # e => process'[f] = process[f]
    BY <2>1, <2>2, Changed
  <2>5. OneInFlight'
    BY <2>2, <2>4
  <2> QED
    BY <2>2, <2>3, <2>4, <2>5
<1>14. CASE Cancel
  BY <1>14 DEF Cancel, procVars, loopVars
<1>15. CASE CloseOnCancel
  <2> USE <1>15 DEF CloseOnCancel, Close, loopVars
  <2>1. process' = [f \in Processes |-> NotStarted]
    BY KillLeavesNone
  <2>2. process' \in [Processes -> Subprocess] /\ OneInFlight'
    BY <2>1, SubprocessTypes
  <2> QED
    BY <2>1, <2>2
<1>16. CASE Exit
  <2> USE <1>16 DEF Exit, Close
  <2>1. process' = [f \in Processes |-> NotStarted]
    BY KillLeavesNone
  <2>2. process' \in [Processes -> Subprocess] /\ OneInFlight'
    BY <2>1, SubprocessTypes
  <2> QED
    BY <2>1, <2>2
<1>17. CASE UNCHANGED edaxVars
  BY <1>17 DEF edaxVars, procVars, loopVars
<1> QED
  BY <1>1, <1>2, <1>3, <1>4, <1>5, <1>6, <1>7, <1>8, <1>9, <1>10, <1>11, <1>12, <1>13, <1>14, <1>15,
     <1>16, <1>17 DEF EdaxNext

-----------------------------------------------------------------------------
LEMMA Inductive == EdaxSpec => []IInv
  BY InitHolds, StepHolds, PTL DEF EdaxSpec

(* The type invariant holds in every reachable state. *)
THEOREM EdaxTypeCorrect == EdaxSpec => []EdaxTypeOK
<1>1. IInv => EdaxTypeOK
  BY DEF IInv
<1> QED
  BY <1>1, Inductive, PTL

(* Evaluate returns the score of the position and level it was called for, *)
(* after any number of failed evaluations, crashes and changes of level:   *)
(* when it reads, the pipes hold its own problem or result and nothing     *)
(* else.                                                                   *)
THEOREM AnswersFitTheirJobs == EdaxSpec => []AnswerIsForJob
<1>1. IInv => AnswerIsForJob
  BY DEF IInv, Returned, AnswerIsForJob
<1> QED
  BY <1>1, Inductive, PTL

(* A subprocess that runs is the one the Process knows and will kill, and  *)
(* none is left when the worker has exited.                                *)
THEOREM NoOrphans == EdaxSpec => []RunningIsManaged
<1>1. IInv => RunningIsManaged
  BY EdaxAssumption DEF IInv, OnlyCurrent, NoneAfterExit, NotStarted, RunningIsManaged, Running
<1> QED
  BY <1>1, Inductive, PTL
=============================================================================

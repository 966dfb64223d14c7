------------------------------- MODULE Claims -------------------------------
(***************************************************************************)
(* Job claims as leases: a position's claim is the Redis key claim:<p>,    *)
(* set by tryClaim with a TTL, refreshed by the worker's heartbeat         *)
(* goroutine, deleted when the result is submitted or the worker shuts     *)
(* down (internal/api/redis.go, internal/worker/worker.go).                *)
(*                                                                         *)
(* heartbeat and releaseClaim each take two Redis round trips, a GET and   *)
(* an EXPIRE or a DEL; handlers of all workers interleave between them.    *)
(* Time is counted in ticks.  Which position tryClaim is called for is     *)
(* JobSelection's subject, what a submission stores JobResults'.           *)
(***************************************************************************)
EXTENDS Naturals, FiniteSets

CONSTANTS
  Positions, Workers,
  NoPosition, Nobody,
  ClaimTTL,    \* ticks a claim lasts without a refresh
  Beat,        \* ticks between two heartbeats
  MaxLost,     \* bound on calls and searches that fail
  MaxStops,    \* bound on workers told to stop or killed
  MaxRaces     \* bound on races after which no more jobs are granted

ASSUME ClaimsAssumption ==
  /\ IsFiniteSet(Positions) /\ IsFiniteSet(Workers)
  /\ NoPosition \notin Positions /\ Nobody \notin Workers
  /\ ClaimTTL \in Nat /\ Beat \in Nat \ {0} /\ Beat < ClaimTTL
  /\ MaxLost \in Nat /\ MaxStops \in Nat /\ MaxRaces \in Nat \ {0}

VARIABLES
  owner,     \* claim:<p>, Nobody if there is none
  ttl,       \* ... and the ticks it has left
  pc,        \* runJobs, per worker
  job,       \* the position of the job granted to it
  claimed,   \* Worker.claimed
  stopping,  \* its context is canceled
  beat,      \* its heartbeat call: where the handler is, and for which position
  beatDue,   \* ticks until the next heartbeat
  deleting,  \* releaseClaim handlers between GET and DEL
  lost, stops,  \* faults so far
  races,     \* claims deleted or expired under a worker that searches
  punctual   \* calls are answered within a tick, by handlers that do not outlive them

claimVars == <<owner, ttl>>
jobVars == <<pc, job, claimed, stopping>>
beatVars == <<beat, beatDue>>
vars == <<claimVars, jobVars, beatVars, deleting, lost, stops, races, punctual>>

NoBeat == [at |-> "none", pos |-> NoPosition]
PC == {"asking", "granted", "working", "submitting", "answered", "sleeping", "leaving", "exited", "dead"}
Handler == [by : Workers, pos : Positions, call : {"submit", "release"}]

Init ==
  /\ owner = [p \in Positions |-> Nobody] /\ ttl = [p \in Positions |-> 0]
  /\ pc = [w \in Workers |-> "asking"]
  /\ job = [w \in Workers |-> NoPosition] /\ claimed = [w \in Workers |-> NoPosition]
  /\ stopping = [w \in Workers |-> FALSE]
  /\ beat = [w \in Workers |-> NoBeat] /\ beatDue = [w \in Workers |-> 0]
  /\ deleting = {}
  /\ lost = 0 /\ stops = 0 /\ races = 0
  /\ punctual \in BOOLEAN

-----------------------------------------------------------------------------
(* runJobs and processJob *)

(* w was granted p and still has to search it. *)
HasJob(w, p) == pc[w] \in {"granted", "working"} /\ job[w] = p

(* A worker that was told to stop drops the search. *)
Searchers(p) == {w \in Workers : HasJob(w, p) /\ ~stopping[w]}

(* The claim still protects a search. *)
InUse(p) == owner[p] \in Searchers(p)

Deleting(w, call) == \E d \in deleting : d.by = w /\ d.call = call

ClaimableByAnyone(p) == TRUE  \* mutant: SET without NX

(* SETNX's condition *)
Claimable(p) == owner[p] = Nobody

(* GET /api/jobs: tryClaim's SETNX with an expiry *)
Grant(w, p) ==
  /\ pc[w] = "asking" /\ ~stopping[w] /\ Claimable(p) /\ races < MaxRaces
  /\ owner' = [owner EXCEPT ![p] = w] /\ ttl' = [ttl EXCEPT ![p] = ClaimTTL]
  /\ job' = [job EXCEPT ![w] = p]
  /\ pc' = [pc EXCEPT ![w] = "granted"]
  /\ UNCHANGED <<punctual, claimed, stopping, beatVars, deleting, lost, stops, races>>

(* The answer arrives; processJob begins the search. *)
ReceiveJob(w) ==
  /\ pc[w] = "granted"
  /\ claimed' = [claimed EXCEPT ![w] = job[w]]
  /\ pc' = [pc EXCEPT ![w] = "working"]
  /\ UNCHANGED <<punctual, claimVars, job, stopping, beatVars, deleting, lost, stops, races>>

(* The call fails after the SETNX: the worker never knows of the claim. *)
LoseJob(w) ==
  /\ pc[w] = "granted" /\ ~stopping[w] /\ lost < MaxLost
  /\ lost' = lost + 1
  /\ pc' = [pc EXCEPT ![w] = "asking"]
  /\ job' = [job EXCEPT ![w] = NoPosition]
  /\ UNCHANGED <<punctual, claimVars, claimed, stopping, beatVars, deleting, stops, races>>

(* runJobs returns from its loop, canceled during GET /api/jobs. *)
StopAsking(w) ==
  /\ pc[w] \in {"asking", "granted"} /\ stopping[w]
  /\ pc' = [pc EXCEPT ![w] = "exited"]
  /\ UNCHANGED <<punctual, claimVars, job, claimed, stopping, beatVars, deleting, lost, stops, races>>

Searched(w) ==
  /\ pc[w] = "working"
  /\ pc' = [pc EXCEPT ![w] = "submitting"]
  /\ UNCHANGED <<punctual, claimVars, job, claimed, stopping, beatVars, deleting, lost, stops, races>>

(* edax fails, or the submission does, before or after it was handled; its *)
(* handler may go on.                                                      *)
Fail(w) ==
  /\ pc[w] \in {"working", "submitting", "answered"} /\ ~stopping[w] /\ lost < MaxLost
  /\ punctual => ~Deleting(w, "submit")
  /\ lost' = lost + 1
  /\ pc' = [pc EXCEPT ![w] = "sleeping"]
  /\ UNCHANGED <<punctual, claimVars, job, claimed, stopping, beatVars, deleting, stops, races>>

(* Close ended the search, or the context the submission: processJob       *)
(* reports the claim as still held.                                        *)
Interrupted(w) ==
  /\ pc[w] \in {"working", "submitting", "answered"} /\ stopping[w]
  /\ punctual => ~Deleting(w, "submit")
  /\ pc' = [pc EXCEPT ![w] = "leaving"]
  /\ UNCHANGED <<punctual, claimVars, job, claimed, stopping, beatVars, deleting, lost, stops, races>>

ClaimedAfterSuccessOnly(w) == IF pc[w] = "answered" THEN NoPosition ELSE claimed[w]  \* mutant

(* setClaimedPosition("") when processJob no longer holds the claim *)
ClaimedAfter(w) == NoPosition

(* processJob returns, after its result was accepted or its error slept on. *)
JobDone(w) ==
  /\ pc[w] = "sleeping" \/ (pc[w] = "answered" /\ ~Deleting(w, "submit"))
  /\ claimed' = [claimed EXCEPT ![w] = ClaimedAfter(w)]
  /\ job' = [job EXCEPT ![w] = NoPosition]
  /\ pc' = [pc EXCEPT ![w] = "asking"]
  /\ UNCHANGED <<punctual, claimVars, stopping, beatVars, deleting, lost, stops, races>>

-----------------------------------------------------------------------------
(* releaseClaim, for a submission or for a worker that shuts down *)

(* the comparison of the claim's value with the worker's ID; "" is skipped *)
OwnedBy(w, p) == p # NoPosition /\ owner[p] = w

(* GET *)
ReleaseCheck(w, call, p) ==
  deleting' = deleting \cup {[by |-> w, pos |-> q, call |-> call] : q \in {r \in {p} : OwnedBy(w, r)}}

SubmitCheck(w) ==
  /\ pc[w] = "submitting"
  /\ ReleaseCheck(w, "submit", job[w])
  /\ pc' = [pc EXCEPT ![w] = "answered"]
  /\ UNCHANGED <<punctual, claimVars, job, claimed, stopping, beatVars, lost, stops, races>>

ClaimedAtExitForgotten(w) == NoPosition  \* mutant: the claim is forgotten before it is released

(* claimedPosition when Run has waited for its goroutines *)
ClaimedAtExit(w) == claimed[w]

(* Run's last call, POST /api/jobs/release *)
ExitCheck(w) ==
  /\ pc[w] = "leaving"
  /\ ReleaseCheck(w, "release", ClaimedAtExit(w))
  /\ claimed' = [claimed EXCEPT ![w] = NoPosition]
  /\ job' = [job EXCEPT ![w] = NoPosition]
  /\ pc' = [pc EXCEPT ![w] = "exited"]
  /\ UNCHANGED <<punctual, claimVars, stopping, beatVars, lost, stops, races>>

(* The call is lost or times out. *)
ExitLost(w) ==
  /\ pc[w] = "leaving" /\ lost < MaxLost
  /\ lost' = lost + 1
  /\ claimed' = [claimed EXCEPT ![w] = NoPosition]
  /\ pc' = [pc EXCEPT ![w] = "exited"]
  /\ UNCHANGED <<punctual, claimVars, job, stopping, beatVars, deleting, stops, races>>

(* DEL, whoever has the claim by now *)
Delete(d) ==
  /\ d \in deleting
  /\ deleting' = deleting \ {d}
  /\ owner' = [owner EXCEPT ![d.pos] = Nobody] /\ ttl' = [ttl EXCEPT ![d.pos] = 0]
  /\ races' = IF InUse(d.pos) THEN races + 1 ELSE races
  /\ UNCHANGED <<punctual, jobVars, beatVars, lost, stops>>

-----------------------------------------------------------------------------
(* runHeartbeat *)

BeatForNone(w) == NoPosition  \* mutant: the claimed position is not sent

BeatFor(w) == claimed[w]

SendBeat(w) ==
  /\ pc[w] \notin {"leaving", "exited", "dead"} /\ ~stopping[w]
  /\ beat[w] = NoBeat /\ beatDue[w] = 0
  /\ beat' = [beat EXCEPT ![w] = [at |-> "get", pos |-> BeatFor(w)]]
  /\ beatDue' = [beatDue EXCEPT ![w] = Beat]
  /\ UNCHANGED <<punctual, claimVars, jobVars, deleting, lost, stops, races>>

(* GET *)
BeatCheck(w) ==
  /\ beat[w].at = "get"
  /\ beat' = [beat EXCEPT ![w] =
       IF OwnedBy(w, @.pos) THEN [@ EXCEPT !.at = "expire"] ELSE NoBeat]
  /\ UNCHANGED <<punctual, claimVars, jobVars, beatDue, deleting, lost, stops, races>>

(* EXPIRE, a no-op on a key that is gone *)
BeatExpire(w) ==
  /\ beat[w].at = "expire"
  /\ ttl' = [ttl EXCEPT ![beat[w].pos] = IF owner[beat[w].pos] = Nobody THEN 0 ELSE ClaimTTL]
  /\ beat' = [beat EXCEPT ![w] = NoBeat]
  /\ UNCHANGED <<punctual, owner, jobVars, beatDue, deleting, lost, stops, races>>

BeatLost(w) ==
  /\ ~punctual /\ beat[w].at = "get" /\ lost < MaxLost
  /\ lost' = lost + 1
  /\ beat' = [beat EXCEPT ![w] = NoBeat]
  /\ UNCHANGED <<punctual, claimVars, jobVars, beatDue, deleting, stops, races>>

-----------------------------------------------------------------------------
(* SIGINT or SIGTERM *)
Stop(w) ==
  /\ pc[w] \notin {"exited", "dead"} /\ ~stopping[w] /\ stops < MaxStops
  /\ stops' = stops + 1
  /\ stopping' = [stopping EXCEPT ![w] = TRUE]
  /\ UNCHANGED <<punctual, claimVars, pc, job, claimed, beatVars, deleting, lost, races>>

(* The process is killed; another one takes a new ID. *)
Kill(w) ==
  /\ pc[w] \notin {"exited", "dead"} /\ stops < MaxStops
  /\ stops' = stops + 1
  /\ pc' = [pc EXCEPT ![w] = "dead"]
  /\ claimed' = [claimed EXCEPT ![w] = NoPosition]
  /\ UNCHANGED <<punctual, claimVars, job, stopping, beatVars, deleting, lost, races>>

InFlight(w) ==
  \/ pc[w] \in {"granted", "submitting", "answered", "leaving"} \/ beat[w] # NoBeat
  \/ Deleting(w, "submit") \/ Deleting(w, "release")

BeatWaits(w) == ~stopping[w] /\ pc[w] \notin {"leaving", "exited", "dead"} /\ beat[w] = NoBeat /\ beatDue[w] = 0

(* A tick passes; heartbeat tickers fire on time, and a ticker whose       *)
(* goroutine is busy fires once it is free.                                *)
Tick ==
  /\ \A w \in Workers : ~BeatWaits(w) /\ (punctual => ~InFlight(w))
  /\ ttl' = [p \in Positions |-> IF ttl[p] = 0 THEN 0 ELSE ttl[p] - 1]
  /\ owner' = [p \in Positions |-> IF ttl[p] = 1 THEN Nobody ELSE owner[p]]
  /\ beatDue' = [w \in Workers |-> IF beatDue[w] = 0 THEN 0 ELSE beatDue[w] - 1]
  /\ races' = races + Cardinality({p \in Positions : ttl[p] = 1 /\ InUse(p)})
  /\ UNCHANGED <<punctual, jobVars, beat, deleting, lost, stops>>

-----------------------------------------------------------------------------
WorkerStep(w) ==
  \/ \E p \in Positions : Grant(w, p)
  \/ ReceiveJob(w) \/ LoseJob(w) \/ StopAsking(w)
  \/ Searched(w) \/ Fail(w) \/ Interrupted(w) \/ JobDone(w)
  \/ SubmitCheck(w) \/ ExitCheck(w) \/ ExitLost(w)
  \/ SendBeat(w) \/ BeatCheck(w) \/ BeatExpire(w) \/ BeatLost(w)
  \/ Stop(w) \/ Kill(w)

Next == (\E w \in Workers : WorkerStep(w)) \/ (\E d \in Handler : Delete(d)) \/ Tick

Spec == Init /\ [][Next]_vars

(* Goroutines and handlers go on, every search ends, and time passes       *)
(* however busy the workers are.                                           *)
Fairness ==
  /\ \A w \in Workers :
       /\ WF_vars(ReceiveJob(w)) /\ WF_vars(StopAsking(w))
       /\ WF_vars(Searched(w) \/ Interrupted(w)) /\ WF_vars(JobDone(w))
       /\ WF_vars(SubmitCheck(w)) /\ WF_vars(ExitCheck(w))
       /\ WF_vars(SendBeat(w)) /\ WF_vars(BeatCheck(w)) /\ WF_vars(BeatExpire(w))
  /\ \A d \in Handler : WF_vars(Delete(d))
  /\ SF_vars(Tick)

FairSpec == Spec /\ Fairness

-----------------------------------------------------------------------------
(* Type invariant; a claim has a TTL exactly while it exists, and between  *)
(* jobs a worker remembers none.                                           *)
TypeOK ==
  /\ owner \in [Positions -> Workers \cup {Nobody}]
  /\ ttl \in [Positions -> 0..ClaimTTL]
  /\ \A p \in Positions : ttl[p] = 0 <=> owner[p] = Nobody
  /\ pc \in [Workers -> PC]
  /\ job \in [Workers -> Positions \cup {NoPosition}]
  /\ \A w \in Workers : pc[w] \in {"granted", "working", "submitting", "answered"} => job[w] \in Positions
  /\ claimed \in [Workers -> Positions \cup {NoPosition}]
  /\ \A w \in Workers : pc[w] \in {"asking", "granted"} => claimed[w] = NoPosition
  /\ stopping \in [Workers -> BOOLEAN]
  /\ beat \in [Workers -> [at : {"none", "get", "expire"}, pos : Positions \cup {NoPosition}]]
  /\ \A w \in Workers : beat[w].at = "expire" => beat[w].pos \in Positions
  /\ \A w \in Workers : beat[w].at = "none" => beat[w] = NoBeat
  /\ beatDue \in [Workers -> 0..Beat]
  /\ deleting \subseteq Handler
  /\ lost \in Nat /\ stops \in Nat /\ races \in Nat
  /\ punctual \in BOOLEAN

(* While a worker that was not told to stop has a job, the position's      *)
(* claim is its own: whatever the length of the search, its heartbeats     *)
(* come before the claim runs out, and no late DEL revokes it.  Calls are  *)
(* answered within a tick.                                                 *)
ClaimHeld ==
  punctual => \A w \in Workers, p \in Positions : HasJob(w, p) /\ ~stopping[w] => owner[p] = w

(* Searches are locked: the claims implement JobLock.  "The worst case of  *)
(* the race is one duplicated evaluation" (redis.go): only when a claim    *)
(* was deleted or ran out under its worker does a position get another,    *)
(* and that takes an answer that comes late.                               *)
Lock == INSTANCE JobLock WITH searchers <- [p \in Positions |-> Searchers(p)], revoked <- races
LocksSearches == Lock!Spec

Released(w, p) == owner[p] = w => Deleting(w, "submit") \/ Deleting(w, "release")

(* A worker that shut down orderly leaves no claim for others to wait out: *)
(* "releases this worker's claim on position [...] so another worker       *)
(* doesn't have to wait out claimTTL" (client.go).  The exception is a     *)
(* claim it was granted while it was told to stop, and never told of; no   *)
(* call was lost.                                                          *)
CleanExit ==
  lost = 0 => \A w \in Workers, p \in Positions : pc[w] = "exited" /\ job[w] # p => Released(w, p)

(* No claim lasts for good: not one whose worker was killed, never learned *)
(* that it has it, or failed to search or to submit the position.          *)
ClaimsFreed == \A p \in Positions : []<>(owner[p] = Nobody)
=============================================================================

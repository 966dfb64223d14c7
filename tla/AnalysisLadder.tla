--------------------------- MODULE AnalysisLadder ---------------------------
(***************************************************************************)
(* The review of a game record: static/board.js climbs one position of the *)
(* line to its target level, rung by rung, over the websocket; the server  *)
(* answers from the boards table or the ephemeral analysis cache and puts  *)
(* the searches it lacks on the priority queue; a worker searches and      *)
(* submits.  The module composes the frontend's ladder, the websocket      *)
(* handler, lookupEvaluation and the submission path on ONE position, so   *)
(* that the levels, which SearchLevels computes exactly, can be real.      *)
(*                                                                         *)
(* Abstracted: an evaluation is its level (its depth and confidence follow *)
(* from it); scores are left out.  The queue holds at most one entry of a  *)
(* position (see PriorityQueue for how it gets more) and a handler of the  *)
(* server is one step (see JobResults for the steps of a submission).      *)
(***************************************************************************)
EXTENDS Integers, SearchLevels

CONSTANTS
  ReviewedDiscs,  \* disc counts of the reviewed position
  StoredRows,     \* what boards may hold when the review starts
  Cached,         \* what the analysis cache may hold when the review starts
  MaxDrops        \* bound on lost connections and failed searches

NoRow == -1          \* boards has no row; 0 is a row not learned yet
None == [level |-> 0]
Levels == 1..MaxLevel

ASSUME LadderAssumption ==
  /\ ReviewedDiscs \subseteq LeafDiscs..BoardSquares
  /\ StoredRows \subseteq (Levels \cup {NoRow, 0})
  /\ Cached \subseteq (Levels \cup {0})
  /\ \A d \in ReviewedDiscs, c \in Cached : c <= EffectiveTargetLevel(d)  \* nothing deeper is ever searched for
  /\ MaxDrops \in Nat

VARIABLES
  discs,      \* disc count of the position, fixed by the initial state
  row,        \* boards: NoRow, 0 or the level of the stored evaluation
  analysis,   \* analysis:<position>: level of the cached result, 0 if absent
  queued,     \* the entry of the position in priority_jobs, or None
  search,     \* the job holding the claim of the position, or None
  liveConns,  \* the server's live connections
  conn,       \* the connection the page has or had last
  online,     \* the page's socket is open
  inbox,      \* messages on their way to the server
  outbox,     \* evaluations on their way to the page
  shown,      \* the page: level of the server evaluation it holds, 0 if none
  asked,      \* the page: pendingLevelRequests
  buffered,   \* the page: WebSocketClient.pendingBoards holds the position
  polling,    \* the page: "idle", "on" or "off" (before, during, after)
  drops,      \* connections lost and searches failed so far
  expired     \* a cached result of the position has expired during the review

pageVars == <<shown, asked, buffered, polling>>
netVars == <<conn, online, inbox, outbox, liveConns>>
jobVars == <<row, analysis, queued, search>>
reviewVars == <<discs, pageVars, netVars, jobVars, drops, expired>>

-----------------------------------------------------------------------------
(* lookupEvaluation: boards first, then the ephemeral cache. *)
Lookup == IF row > 0 THEN row ELSE analysis

AtTargetByLevel(level) ==  \* mutant: a solved position climbs on
  level > 0 /\ level >= EffectiveTargetLevel(discs)

(* isAtTarget and evalIsFinal *)
AtTarget(level) ==
  /\ level > 0
  /\ IsFinal(discs, level) \/ level >= EffectiveTargetLevel(discs)

(* shouldUpdateEval among edax results *)
ShouldUpdateEval(old, new) == new > old

(* pgnRequestLevelUps: the next rung, never past the target. *)
NextLevel(level) == Min({level + 2, EffectiveTargetLevel(discs)})

ReviewInit ==
  /\ discs \in ReviewedDiscs
  /\ row \in {r \in StoredRows : r # NoRow => discs <= MaxSavableDiscs}
  /\ analysis \in Cached
  /\ shown = 0 /\ queued = None /\ search = None
  /\ conn = 1 /\ liveConns = {1} /\ online = TRUE
  /\ inbox = <<>> /\ outbox = <<>>
  /\ asked = 0 /\ buffered = FALSE /\ polling = "idle"
  /\ drops = 0 /\ expired = FALSE

Evaluation == [event |-> "evaluation_request", level |-> 0]
Analyze(level) == [event |-> "analyze_request", level |-> level]

-----------------------------------------------------------------------------
(* The page *)

(* analyzePGN, pgnSendRequests and startPGNPolling: both requests at the   *)
(* priority level.  A closed socket buffers the evaluation_request and     *)
(* loses the analyze_request.                                              *)
Start ==
  /\ polling = "idle"
  /\ polling' = "on"
  /\ asked' = PriorityLevel
  /\ inbox' = IF online THEN inbox \o <<Evaluation, Analyze(PriorityLevel)>> ELSE inbox
  /\ buffered' = (buffered \/ ~online)
  /\ UNCHANGED <<discs, shown, conn, online, outbox, liveConns, jobVars, drops, expired>>

(* A tick of the polling timer: stop once at target, else ask again for    *)
(* what is stored -- never for a search.  One request at a time is in      *)
(* flight (bound).                                                         *)
PollStops ==
  /\ polling = "on" /\ AtTarget(shown)
  /\ polling' = "off"
  /\ UNCHANGED <<discs, shown, asked, buffered, netVars, jobVars, drops, expired>>

Poll ==
  /\ polling = "on" /\ ~AtTarget(shown)
  /\ inbox = <<>> /\ outbox = <<>>
  /\ inbox' = IF online THEN <<Evaluation>> ELSE inbox
  /\ buffered' = (buffered \/ ~online)
  /\ UNCHANGED <<discs, shown, asked, polling, conn, online, outbox, liveConns, jobVars, drops, expired>>

(* The timeout of the polling timer. *)
GiveUp ==
  /\ polling = "on"
  /\ polling' = "off"
  /\ UNCHANGED <<discs, shown, asked, buffered, netVars, jobVars, drops, expired>>

(* handleEvaluations: an improvement is stored and may ask for the next    *)
(* rung, each rung once.                                                   *)
Receive ==
  /\ outbox # <<>>
  /\ outbox' = Tail(outbox)
  /\ LET level == Head(outbox)
         improves == ShouldUpdateEval(shown, level)
         climbs == improves /\ polling # "idle" /\ ~AtTarget(level) /\ NextLevel(level) > asked
     IN /\ shown' = IF improves THEN level ELSE shown
        /\ asked' = IF climbs THEN NextLevel(level) ELSE asked
        /\ inbox' = IF climbs /\ online THEN Append(inbox, Analyze(NextLevel(level))) ELSE inbox
  /\ UNCHANGED <<discs, buffered, polling, conn, online, liveConns, jobVars, drops, expired>>

-----------------------------------------------------------------------------
(* The websocket *)

Disconnect ==
  /\ online /\ drops < MaxDrops
  /\ online' = FALSE /\ drops' = drops + 1
  /\ inbox' = <<>> /\ outbox' = <<>>
  /\ UNCHANGED <<discs, pageVars, conn, liveConns, jobVars, expired>>

(* unregisterConn, whenever the server's read fails *)
Unregister ==
  \E c \in liveConns :
    /\ c # conn \/ ~online
    /\ liveConns' = liveConns \ {c}
    /\ UNCHANGED <<discs, pageVars, conn, online, inbox, outbox, jobVars, drops, expired>>

(* onclose's timer, registerConn and onopen: a connection has a new ID and *)
(* carries only the buffered evaluation_request.                           *)
Reconnect ==
  /\ ~online
  /\ online' = TRUE /\ conn' = conn + 1
  /\ liveConns' = liveConns \cup {conn + 1}
  /\ inbox' = IF buffered THEN <<Evaluation>> ELSE <<>>
  /\ buffered' = FALSE
  /\ UNCHANGED <<discs, shown, asked, polling, outbox, jobVars, drops, expired>>

-----------------------------------------------------------------------------
(* The server *)

Clamped(level) == Min({level, EffectiveTargetLevel(discs)})

AnsweredNever(level) == FALSE  \* mutant: always search again

(* handleAnalyzeRequest skips what is stored as deep or would be repeated. *)
Answered(level) ==
  /\ Lookup > 0
  /\ Lookup >= Clamped(level) \/ SearchAddsNothing(discs, Lookup, Clamped(level))

Enqueued(message) ==
  IF message.event = "analyze_request" /\ ~Answered(message.level) /\ queued = None
  THEN [level |-> Clamped(message.level), conn |-> conn]
  ELSE queued

(* handleWebSocket: enqueue for an analyze_request, then answer either     *)
(* event with what is stored (no evaluation, no effect on the page).       *)
Serve ==
  /\ inbox # <<>>
  /\ queued' = Enqueued(Head(inbox))
  /\ outbox' = IF Lookup > 0 THEN Append(outbox, Lookup) ELSE outbox
  /\ inbox' = Tail(inbox)
  /\ UNCHANGED <<discs, pageVars, conn, online, liveConns, row, analysis, search, drops, expired>>

-----------------------------------------------------------------------------
(* Jobs: claimed by a worker, searched, submitted *)

(* claimJob on the priority queue: the entry is gone whether or not it is  *)
(* handed out; it is dropped for a closed connection or a claimed position.*)
ClaimPriority ==
  /\ queued # None
  /\ queued' = None
  /\ search' = IF search = None /\ queued.conn \in liveConns
               THEN [level |-> queued.level, marked |-> TRUE, leaked |-> FALSE]
               ELSE search
  /\ UNCHANGED <<discs, pageVars, netVars, row, analysis, drops, expired>>

(* claimJob on the boards table, the priority queue being empty. *)
ClaimLearnable ==
  /\ queued = None /\ search = None
  /\ row \in 0..(TargetLevel(discs) - 1)
  /\ search' = [level |-> TargetLevel(discs), marked |-> FALSE, leaked |-> FALSE]
  /\ UNCHANGED <<discs, pageVars, netVars, row, analysis, queued, drops, expired>>

(* priority_claim:<position> expires; heartbeats refresh only the claim. *)
MarkerExpires ==
  /\ search # None /\ search.marked
  /\ search' = [search EXCEPT !.marked = FALSE]
  /\ UNCHANGED <<discs, pageVars, netVars, row, analysis, queued, drops, expired>>

(* What handleSubmitJobResult makes of the row. *)
RowAfter(level, priority) ==
  LET savable == discs <= MaxSavableDiscs
  IN IF ~IsBookQuality(discs, level)
     THEN IF priority /\ savable THEN Max({row, 0}) ELSE row
     ELSE IF priority THEN (IF savable THEN Max({row, level}) ELSE row)
     ELSE IF row = NoRow THEN row ELSE Max({row, level})

NotFound(level, priority) == IsBookQuality(discs, level) /\ ~priority /\ row = NoRow

(* handleSubmitJobResult: cache, save, release -- or answer 404 and leave  *)
(* the claim to expire.                                                    *)
Submit ==
  /\ search # None /\ ~search.leaked
  /\ analysis' = search.level
  /\ row' = RowAfter(search.level, search.marked)
  /\ search' = IF NotFound(search.level, search.marked)
               THEN [search EXCEPT !.leaked = TRUE, !.marked = FALSE] ELSE None
  /\ UNCHANGED <<discs, pageVars, netVars, queued, drops, expired>>

(* The worker fails or dies: the claim stays until it expires. *)
SearchFails ==
  /\ search # None /\ ~search.leaked /\ drops < MaxDrops
  /\ search' = [search EXCEPT !.leaked = TRUE]
  /\ drops' = drops + 1
  /\ UNCHANGED <<discs, pageVars, netVars, row, analysis, queued, expired>>

ClaimExpires ==
  /\ search # None /\ search.leaked
  /\ search' = None
  /\ UNCHANGED <<discs, pageVars, netVars, row, analysis, queued, drops, expired>>

(* analysis:<position> is stored for analysisResultTTL, which every result *)
(* starts anew; the review may take longer, and the result may be as old   *)
(* when it starts.  A row does not expire.                                 *)
AnalysisExpires ==
  /\ analysis > 0
  /\ analysis' = 0 /\ expired' = TRUE
  /\ UNCHANGED <<discs, pageVars, netVars, row, queued, search, drops>>

-----------------------------------------------------------------------------
Page == Start \/ PollStops \/ Poll \/ GiveUp \/ Receive
Network == Disconnect \/ Unregister \/ Reconnect
Worker == ClaimPriority \/ ClaimLearnable \/ MarkerExpires \/ Submit \/ SearchFails \/ ClaimExpires
ReviewNext == Page \/ Network \/ Serve \/ Worker \/ AnalysisExpires

ReviewSpec == ReviewInit /\ [][ReviewNext]_reviewVars

(* The page's timers fire, messages arrive, the server answers and workers *)
(* go on claiming and finish their searches; nothing makes a user wait out *)
(* GiveUp, a failure or an expiry happen.  That the background job reaches *)
(* a learnable row in the end is assumed only where something was lost or  *)
(* has expired, and where a learned row hides the deeper results of the    *)
(* ladder from Lookup.                                                     *)
ReviewFairness ==
  /\ WF_reviewVars(Start) /\ WF_reviewVars(PollStops) /\ WF_reviewVars(Poll) /\ WF_reviewVars(Receive)
  /\ WF_reviewVars(Reconnect) /\ WF_reviewVars(Serve)
  /\ WF_reviewVars(ClaimPriority) /\ WF_reviewVars(Submit) /\ WF_reviewVars(ClaimExpires)
  /\ SF_reviewVars((drops > 0 \/ expired \/ row > 0) /\ ClaimLearnable)

FairReviewSpec == ReviewSpec /\ ReviewFairness

-----------------------------------------------------------------------------
Target == EffectiveTargetLevel(discs)

(* During a review the answer the server gives for the position never gets *)
(* shallower while no cached result of it has expired, and never at all    *)
(* once its row is learned, though setAnalysisResult overwrites whatever   *)
(* the cache held: what keeps it from doing so is that                     *)
(* handleAnalyzeRequest skips a level already answered and that boards     *)
(* hides the cache.  Without a learned row the answer does not outlive     *)
(* analysisResultTTL: it is lost, and what is asked for next may be        *)
(* shallower than what was lost.                                           *)
AnswerNeverRegresses == [][row > 0 \/ ~expired' => Lookup' >= Lookup]_reviewVars

(* A position under review reaches its target level unless the page's      *)
(* polling times out first: every rung the page asks for is computed,      *)
(* found and followed by the next ("the frontend then climbs by 2 per      *)
(* round toward EffectiveTargetLevel", jobs.go).  A request or a search    *)
(* that is lost, a result that expires before the page has it, and one     *)
(* that is hidden by the row, is made up for by the background job, if the *)
(* position has a row.                                                     *)
Climbs ==
  (polling = "on") ~> (AtTarget(shown) \/ polling = "off" \/ ((drops > 0 \/ expired) /\ row = NoRow))
=============================================================================

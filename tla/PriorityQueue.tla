--------------------------- MODULE PriorityQueue ----------------------------
(***************************************************************************)
(* The priority queue of interactive analysis requests: the Redis list     *)
(* priority_jobs, the Redis set priority_pending that deduplicates it, and *)
(* the server's in-memory table of live websocket connections              *)
(* (internal/api/redis.go, internal/api/websocket.go).                     *)
(*                                                                         *)
(* A websocket handler enqueues in two Redis round trips, a GET /api/jobs  *)
(* handler dequeues in two more; handlers of any number of connections and *)
(* workers interleave between them.  A request may be canceled and the     *)
(* server may crash between two round trips; Redis survives both.          *)
(*                                                                         *)
(* The tabs are in evaluation mode, whose polling timer sends its          *)
(* analyze_request again; a PGN review sends each request once             *)
(* (AnalysisLadder).                                                       *)
(*                                                                         *)
(* Abstracted: an accepted entry is claimed, searched and answered in one  *)
(* later step (the claim is Claims' subject, the levels AnalysisLadder's). *)
(***************************************************************************)
EXTENDS Naturals, Sequences, FiniteSets

CONSTANTS
  Positions,    \* normalized positions
  Clients,      \* browser tabs in evaluation mode
  Workers,      \* workers polling GET /api/jobs
  NoEntry,      \* not a queue entry
  MaxQueue,     \* bound on the length of the queue
  MaxDrops,     \* bound on websocket connections closed and searches failed
  MaxRestarts,  \* bound on crashes of the server
  MaxCancels    \* bound on dequeues interrupted and SREMs failed

(* session identifies the connection for good, by the life of the server   *)
(* it was opened in; conn is the ID the server gave it, the only thing the *)
(* code stores.                                                            *)
Entry == [pos : Positions, conn : Nat \ {0}, session : Nat \X Nat]
Closed == <<0, 0>>  \* no session

ASSUME QueueAssumption ==
  /\ NoEntry \notin Entry
  /\ IsFiniteSet(Workers)
  /\ MaxQueue \in Nat /\ MaxDrops \in Nat
  /\ MaxRestarts \in Nat /\ MaxCancels \in Nat

VARIABLES
  queue,       \* priority_jobs, oldest entry first
  pending,     \* priority_pending
  lastConnID,  \* Server.lastConnID
  connID,      \* the live connection ID of each tab, 0 if it has none
  session,     \* ... and its true identity, Closed if none
  sessions,    \* number of connections opened since the server started
  asking,      \* per tab: what its handler has still to do of an analyze_request
  enqueuing,   \* per tab: the position its handler found not pending, if any
  pc,          \* per worker: "idle", "popped", "removed" or "accepted"
  entry,       \* per worker: the entry its handler popped
  late,        \* per worker: the accepted entry's connection was closed
  wants,       \* per tab: the positions it polls for
  drops, restarts, cancels  \* faults so far

redisVars == <<queue, pending>>
connVars == <<lastConnID, connID, session, sessions>>
handlerVars == <<asking, enqueuing>>
workerVars == <<pc, entry, late>>
faultVars == <<drops, restarts, cancels>>
vars == <<redisVars, connVars, handlerVars, workerVars, wants, faultVars>>

-----------------------------------------------------------------------------
LiveConns == {connID[c] : c \in {d \in Clients : connID[d] # 0}}
OpenSessions == {session[c] : c \in {d \in Clients : connID[d] # 0}}

(* registerConn's counter *)
NextConnID == lastConnID + 1

ConnLiveAlways(id) == TRUE  \* mutant: entries of closed connections are not discarded
ConnLiveIfNewest(id) ==   \* mutant: only the newest connection counts
  id = lastConnID /\ \E c \in Clients : connID[c] = id

(* connLive *)
ConnLive(id) == id \in LiveConns

PendingAfterAccept(e) ==  \* mutant: discarded entries stay pending
  IF ConnLive(e.conn) THEN pending \ {e.pos} ELSE pending

(* dequeuePriority's SREM *)
PendingAfter(e) == pending \ {e.pos}

Init ==
  /\ queue = <<>> /\ pending = {}
  /\ lastConnID = 0 /\ sessions = 0
  /\ connID = [c \in Clients |-> 0] /\ session = [c \in Clients |-> Closed]
  /\ asking = [c \in Clients |-> {}] /\ enqueuing = [c \in Clients |-> {}]
  /\ pc = [w \in Workers |-> "idle"]
  /\ entry = [w \in Workers |-> NoEntry]
  /\ late = [w \in Workers |-> FALSE]
  /\ wants = [c \in Clients |-> {}]
  /\ drops = 0 /\ restarts = 0 /\ cancels = 0

-----------------------------------------------------------------------------
(* Tabs and connections *)

(* registerConn *)
Connect(c) ==
  /\ connID[c] = 0
  /\ lastConnID' = NextConnID
  /\ connID' = [connID EXCEPT ![c] = NextConnID]
  /\ sessions' = sessions + 1
  /\ session' = [session EXCEPT ![c] = <<restarts, sessions + 1>>]
  /\ UNCHANGED <<redisVars, handlerVars, workerVars, wants, faultVars>>

(* unregisterConn, deferred: the handler first does all of the message it  *)
(* has read.  One that is lost on its way is as good as not sent.          *)
Disconnect(c) ==
  /\ connID[c] # 0 /\ asking[c] = {} /\ enqueuing[c] = {} /\ drops < MaxDrops
  /\ drops' = drops + 1
  /\ connID' = [connID EXCEPT ![c] = 0] /\ session' = [session EXCEPT ![c] = Closed]
  /\ UNCHANGED <<redisVars, lastConnID, sessions, handlerVars, workerVars, wants, restarts, cancels>>

(* updateValidMoves: the user moves to a board around which the positions  *)
(* missing have no evaluation; the timer runs as long as there are any.    *)
Move(c, missing) ==
  /\ wants' = [wants EXCEPT ![c] = missing]
  /\ UNCHANGED <<redisVars, connVars, handlerVars, workerVars, faultVars>>

(* A tick of startEvalPolling's timer: what is missing is asked for again, *)
(* on a connection that is open.  One message at a time is with the server *)
(* (bound).                                                                *)
Poll(c) ==
  /\ connID[c] # 0 /\ asking[c] = {} /\ enqueuing[c] = {}
  /\ wants[c] # {}
  /\ asking' = [asking EXCEPT ![c] = wants[c]]
  /\ UNCHANGED <<redisVars, connVars, enqueuing, workerVars, wants, faultVars>>

(* The timeout of the timer, which moves do not prolong (so it comes at    *)
(* any time): the tab does not ask again before the next move.             *)
GiveUp(c) ==
  /\ wants[c] # {}
  /\ wants' = [wants EXCEPT ![c] = {}]
  /\ UNCHANGED <<redisVars, connVars, handlerVars, workerVars, faultVars>>

-----------------------------------------------------------------------------
(* enqueuePriority, for each position of a message *)

(* SISMEMBER: a pending position is left alone. *)
CheckPending(c) ==
  \E p \in asking[c] :
    /\ enqueuing[c] = {}
    /\ asking' = [asking EXCEPT ![c] = @ \ {p}]
    /\ enqueuing' = [enqueuing EXCEPT ![c] = {p} \ pending]
    /\ UNCHANGED <<redisVars, connVars, workerVars, wants, faultVars>>

(* SADD and LPUSH in one transaction *)
Push(c) ==
  \E p \in enqueuing[c] :
    /\ Len(queue) < MaxQueue
    /\ pending' = pending \cup {p}
    /\ queue' = Append(queue, [pos |-> p, conn |-> connID[c], session |-> session[c]])
    /\ enqueuing' = [enqueuing EXCEPT ![c] = {}]
    /\ UNCHANGED <<connVars, asking, workerVars, wants, faultVars>>

-----------------------------------------------------------------------------
(* dequeuePriority *)

(* RPOP *)
Pop(w) ==
  /\ pc[w] = "idle" /\ queue # <<>>
  /\ queue' = Tail(queue)
  /\ entry' = [entry EXCEPT ![w] = Head(queue)]
  /\ pc' = [pc EXCEPT ![w] = "popped"]
  /\ UNCHANGED <<pending, connVars, handlerVars, late, wants, faultVars>>

(* SREM *)
Remove(w) ==
  /\ pc[w] = "popped"
  /\ pending' = PendingAfter(entry[w])
  /\ pc' = [pc EXCEPT ![w] = "removed"]
  /\ UNCHANGED <<queue, connVars, handlerVars, entry, late, wants, faultVars>>

(* The worker goes away before the SREM: its error is ignored, and the     *)
(* entry is lost, for the handler's later calls fail as well.              *)
Cancel(w) ==
  /\ pc[w] = "popped" /\ cancels < MaxCancels
  /\ cancels' = cancels + 1
  /\ pc' = [pc EXCEPT ![w] = "idle"]
  /\ entry' = [entry EXCEPT ![w] = NoEntry]
  /\ UNCHANGED <<redisVars, connVars, handlerVars, late, wants, drops, restarts>>

(* The SREM alone fails: the handler goes on with the entry. *)
RemoveFails(w) ==
  /\ pc[w] = "popped" /\ cancels < MaxCancels
  /\ cancels' = cancels + 1
  /\ pc' = [pc EXCEPT ![w] = "removed"]
  /\ UNCHANGED <<redisVars, connVars, handlerVars, entry, late, wants, drops, restarts>>

(* connLive: the entry is accepted, or the loop goes on with the next. *)
Accept(w) ==
  /\ pc[w] = "removed" /\ ConnLive(entry[w].conn)
  /\ pc' = [pc EXCEPT ![w] = "accepted"]
  /\ late' = [late EXCEPT ![w] = entry[w].session \notin OpenSessions]
  /\ UNCHANGED <<redisVars, connVars, handlerVars, entry, wants, faultVars>>

Discard(w) ==
  /\ pc[w] = "removed" /\ ~ConnLive(entry[w].conn)
  /\ pc' = [pc EXCEPT ![w] = "idle"]
  /\ entry' = [entry EXCEPT ![w] = NoEntry]
  /\ UNCHANGED <<redisVars, connVars, handlerVars, late, wants, faultVars>>

(* The search is done and its result stored: every tab's next poll has it, *)
(* and handleAnalyzeRequest skips what is stored.                          *)
Answer(w) ==
  /\ pc[w] = "accepted"
  /\ wants' = [c \in Clients |-> wants[c] \ {entry[w].pos}]
  /\ asking' = [c \in Clients |-> asking[c] \ {entry[w].pos}]
  /\ pc' = [pc EXCEPT ![w] = "idle"]
  /\ entry' = [entry EXCEPT ![w] = NoEntry]
  /\ late' = [late EXCEPT ![w] = FALSE]
  /\ UNCHANGED <<redisVars, connVars, enqueuing, faultVars>>

(* The worker fails or dies, and its claim expires. *)
SearchFails(w) ==
  /\ pc[w] = "accepted" /\ drops < MaxDrops
  /\ drops' = drops + 1
  /\ pc' = [pc EXCEPT ![w] = "idle"]
  /\ entry' = [entry EXCEPT ![w] = NoEntry]
  /\ late' = [late EXCEPT ![w] = FALSE]
  /\ UNCHANGED <<redisVars, connVars, handlerVars, wants, restarts, cancels>>

(* The server process dies and starts again: handlers and connections are  *)
(* gone and connection IDs count from zero; workers keep their jobs.       *)
Restart ==
  /\ restarts < MaxRestarts
  /\ restarts' = restarts + 1
  /\ lastConnID' = 0 /\ sessions' = 0
  /\ connID' = [c \in Clients |-> 0] /\ session' = [c \in Clients |-> Closed]
  /\ asking' = [c \in Clients |-> {}] /\ enqueuing' = [c \in Clients |-> {}]
  /\ pc' = [w \in Workers |-> IF pc[w] = "accepted" THEN "accepted" ELSE "idle"]
  /\ entry' = [w \in Workers |-> IF pc[w] = "accepted" THEN entry[w] ELSE NoEntry]
  /\ UNCHANGED <<redisVars, late, wants, drops, cancels>>

-----------------------------------------------------------------------------
Page(c) ==
  \/ Connect(c) \/ Disconnect(c) \/ Poll(c) \/ GiveUp(c)
  \/ \E missing \in SUBSET Positions : Move(c, missing)
Enqueue(c) == CheckPending(c) \/ Push(c)
Dequeue(w) ==
  \/ Pop(w) \/ Remove(w) \/ Cancel(w) \/ RemoveFails(w)
  \/ Accept(w) \/ Discard(w) \/ Answer(w) \/ SearchFails(w)
Next == (\E c \in Clients : Page(c) \/ Enqueue(c)) \/ (\E w \in Workers : Dequeue(w)) \/ Restart

Spec == Init /\ [][Next]_vars

(* Tabs reconnect and their timers tick, handlers run to their end, the    *)
(* workers keep polling and finish searches.  Nobody need move, and the    *)
(* timeout need not come before the answer.                                *)
Fairness ==
  /\ \A c \in Clients : WF_vars(Connect(c) \/ Poll(c)) /\ WF_vars(Enqueue(c))
  /\ \A w \in Workers : WF_vars(Pop(w)) /\ WF_vars(Remove(w) \/ Accept(w) \/ Discard(w) \/ Answer(w))

FairSpec == Spec /\ Fairness

-----------------------------------------------------------------------------
(* Type invariant; open connections have IDs of their own. *)
TypeOK ==
  /\ queue \in Seq(Entry)
  /\ pending \subseteq Positions
  /\ lastConnID \in Nat /\ sessions \in Nat
  /\ connID \in [Clients -> Nat] /\ session \in [Clients -> Nat \X Nat]
  /\ \A c \in Clients : connID[c] <= lastConnID
  /\ \A c, d \in Clients : c # d /\ connID[c] # 0 => connID[c] # connID[d]
  /\ \A c \in Clients : asking[c] \cup enqueuing[c] # {} => connID[c] # 0
  /\ asking \in [Clients -> SUBSET Positions]
  /\ enqueuing \in [Clients -> SUBSET Positions]
  /\ pc \in [Workers -> {"idle", "popped", "removed", "accepted"}]
  /\ entry \in [Workers -> Entry \cup {NoEntry}]
  /\ \A w \in Workers : pc[w] # "idle" => entry[w] \in Entry
  /\ late \in [Workers -> BOOLEAN]
  /\ wants \in [Clients -> SUBSET Positions]
  /\ drops \in Nat /\ restarts \in Nat /\ cancels \in Nat

Queued(p) == \E i \in DOMAIN queue : queue[i].pos = p
BeingRemoved(p) == \E w \in Workers : pc[w] = "popped" /\ entry[w].pos = p

(* Positions marked as pending with nobody to unmark them: enqueuePriority *)
(* refuses to queue them again.                                            *)
Stuck == {p \in pending : ~Queued(p) /\ ~BeingRemoved(p)}

(* A pending position is in the queue or in the hands of a dequeuer about  *)
(* to unmark it, although the two structures are updated by separate       *)
(* commands.  Only a dequeue caught between its RPOP and its SREM, by a    *)
(* canceled request or a crash, or an SREM that fails, leaves one stuck,   *)
(* and for good: one each.                                                 *)
StuckOnlyByFaults == Cardinality(Stuck) <= cancels + restarts * Cardinality(Workers)

(* No worker is handed an entry whose connection was closed: "entries      *)
(* whose connection has since closed are discarded at dequeue" (redis.go), *)
(* told apart by connection ID alone.  The IDs count from zero again after *)
(* a restart, and entries that survived it pass for those of new          *)
(* connections.                                                            *)
ClosedConnectionsDiscarded == restarts = 0 => \A w \in Workers : ~late[w]

(* A position that a tab in evaluation mode polls for is answered in the   *)
(* end, unless the tab stops polling for it -- the user moves on, or the   *)
(* timer times out -- or the position is stuck: whoever's entry the        *)
(* deduplication kept, and whatever connections, searches and restarts     *)
(* lose, some later request is queued and served ("the frontend            *)
(* re-requests until it gets a result, so drops heal themselves",          *)
(* redis.go).  A PGN review does not ask again, and nothing of this holds  *)
(* for it.                                                                 *)
DropsHeal ==
  \A c \in Clients : \A p \in Positions : (p \in wants[c]) ~> (p \notin wants[c] \/ p \in Stuck)
=============================================================================

------------------------------ MODULE LocalEval ------------------------------
(***************************************************************************)
(* The page's own evaluator: the pool of web workers that run the WASM     *)
(* search (wasm/edax-eval/js/edax-eval.js) and the chains of levels that   *)
(* static/board.js runs on it, one per position, for the board on screen   *)
(* and for the PGN line under review.                                      *)
(*                                                                         *)
(* JavaScript runs one event at a time: a message of a worker, a click, a  *)
(* timer.  Each is one action here, with the promise callbacks it          *)
(* resolves, which run before the next event.                              *)
(*                                                                         *)
(* Boards are normalized positions.  A position that must pass counts as   *)
(* the one after the pass.  The level config is taken as loaded, and the   *)
(* server's answers to the page, AnalysisLadder's subject, come as they    *)
(* like.                                                                   *)
(***************************************************************************)
EXTENDS Integers, SequencesExt

CONSTANTS
  Boards,       \* normalized positions
  Start,        \* the position a new game begins with
  Children,     \* the children of each position, in the order of getChildren
  EmptySquares, \* the empty squares of each position
  OnBook,       \* positions up to levelConfig.maxSavableDiscs
  Lines,        \* the boards of each PGN a user may load
  Fragile,      \* positions whose searches may fail
  NumWorkers,
  MaxEvents     \* bound on what the user does

ASSUME LocalEvalAssumption ==
  /\ Start \in Boards
  /\ Children \in [Boards -> Seq(Boards)]
  /\ \A b \in Boards : IsInjective(Children[b]) /\ b \notin ToSet(Children[b])
  /\ EmptySquares \in [Boards -> 0..60]
  /\ OnBook \subseteq Boards /\ Fragile \subseteq Boards
  /\ Lines \subseteq Seq(Boards) \ {<<>>}
  /\ NumWorkers \in Nat \ {0}
  /\ MaxEvents \in Nat

VARIABLES
  evals,     \* evaluations: the level of a position's local score, or Server
  local,     \* the pool's queue and running searches, the chains and tags
  worker,    \* whether a worker has loaded its WASM instance
  game,      \* boardHistory and board
  pgnState,
  line,      \* pgnBoards
  ply,       \* pgnCurrentPly, from 1
  explored,  \* pgnAlternativeMoves
  fetching,  \* analyzePGN waits for the parsed PGN
  evalMode,
  events     \* what the user did so far

page == <<game, pgnState, line, ply, explored, fetching, evalMode>>
poolVars == <<evals, local, worker, page, events>>

Workers == 0..NumWorkers - 1

Server == 17   \* an answer of the server: above every local level

-----------------------------------------------------------------------------
(* The ladder of levels of a position. *)

LOCAL_EVAL_LEVELS == {4, 6, 8, 10, 12, 14, 16}
LOCAL_EVAL_PREFETCH_PRIORITY == 100
FastLaneMaxLevel == 4

(* A level up to 10 that searches to the end of the game *)
SolvesAt(level, empties) == level <= 10 /\ empties <= 2 * level

(* A level above 10 that would solve the game, for minutes *)
TooDear(level, empties) ==
  level > 10 /\ empties <= IF level <= 12 THEN 24 ELSE 27

localEvalLevelsFor(empties) ==
  {l \in LOCAL_EVAL_LEVELS :
     /\ ~TooDear(l, empties)
     /\ \A k \in LOCAL_EVAL_LEVELS :
          k < l => ~SolvesAt(k, empties) /\ ~TooDear(k, empties)}

LevelsOf(p) == localEvalLevelsFor(EmptySquares[p])
Deepest(p) == Max(LevelsOf(p))
DeeperOrSame(p, level) == {l \in LevelsOf(p) : l >= level}   \* mutant
Deeper(p, level) == {l \in LevelsOf(p) : l > level}

-----------------------------------------------------------------------------
(* The pool. *)

NoTask == [level |-> 0]
NoTag == [of |-> "none"]

PriorityByLevel(task) == task.level   \* mutant: prefetches are not put off

Priority(task) ==
  task.level + IF task.prefetch THEN LOCAL_EVAL_PREFETCH_PRIORITY ELSE 0

(* Worker 0 is kept for the shallowest level, unless it is the only one. *)
MayRun(i, task) ==
  i = 0 /\ NumWorkers > 1 => task.level <= FastLaneMaxLevel

(* The place in the queue of the task worker i should run next, if any *)
takeTaskFor(queue, i) ==
  LET runnable == {j \in DOMAIN queue : MayRun(i, queue[j])}
  IN {j \in runnable : \A k \in runnable :
        \/ Priority(queue[j]) < Priority(queue[k])
        \/ Priority(queue[j]) = Priority(queue[k]) /\ j <= k}

Give(l, i) ==
  IF l.running[i] # NoTask \/ takeTaskFor(l.queue, i) = {} THEN l
  ELSE LET j == CHOOSE j \in takeTaskFor(l.queue, i) : TRUE
       IN [l EXCEPT !.running[i] = l.queue[j], !.queue = RemoveAt(@, j)]

dispatchBreak(l) ==   \* mutant: stops at the first idle worker without a task
  LET idle == {i \in Workers : l.running[i] = NoTask}
  IN IF idle = {} THEN l ELSE Give(l, Min(idle))

dispatch(l) ==
  LET given[i \in 0..NumWorkers] == IF i = 0 THEN l ELSE Give(given[i - 1], i - 1)
  IN  given[NumWorkers]

evaluate(l, task) == dispatch([l EXCEPT !.queue = Append(@, task)])

-----------------------------------------------------------------------------
(* Chains, and the tags that say for how long they are worth running. *)

(* The entries of s that are in S *)
Restricted(s, S) ==
  LET kept[i \in 0..Len(s)] ==
        IF i = 0 THEN <<>> ELSE IF s[i] \in S THEN Append(kept[i - 1], s[i]) ELSE kept[i - 1]
  IN  kept[Len(s)]

BoardTag(l) == [of |-> "board", n |-> l.generation]
LineTag(l) == [of |-> "line", n |-> l.lineGeneration]
IsCurrent(l, tag) == tag \in {BoardTag(l), LineTag(l)}

clearAlways(l, task) == [l EXCEPT !.slots[task.pos] = NoTag]   \* mutant
clearPending(l, task) ==
  IF l.slots[task.pos] = task.tag THEN [l EXCEPT !.slots[task.pos] = NoTag] ELSE l

(* The callbacks of the tasks dropped here run clearPending in vain: the   *)
(* slots with their tags are already free.                                 *)
dropStale(l) ==
  [l EXCEPT
     !.slots = [p \in Boards |-> IF IsCurrent(l, l.slots[p]) THEN l.slots[p] ELSE NoTag],
     !.queue = Restricted(@, {t \in ToSet(@) : IsCurrent(l, t.tag)})]

syncGeneration(l, board) ==
  IF l.boardKey = board THEN l
  ELSE dropStale([l EXCEPT !.boardKey = board, !.generation = @ + 1])

abandonLine(l) == dropStale([l EXCEPT !.lineGeneration = @ + 1])

(* One round of queueLocalEvaluations: a chain that starts, or resumes     *)
QueueOne(l, p, prefetch, tag) ==
  IF l.slots[p] # NoTag \/ evals[p] = Server \/ evals[p] >= Deepest(p) THEN l
  ELSE evaluate([l EXCEPT !.slots[p] = tag],
                [pos |-> p, level |-> Min(Deeper(p, evals[p])), prefetch |-> prefetch, tag |-> tag])

queueLocal(l, ps, prefetch, tag) ==
  LET queued[i \in 0..Len(ps)] ==
        IF i = 0 THEN l ELSE QueueOne(queued[i - 1], ps[i], prefetch, tag)
  IN  queued[Len(ps)]

(* An array made through a Set *)
Distinct(s) ==
  LET seen[i \in 0..Len(s)] ==
        IF i = 0 THEN <<>>
        ELSE IF s[i] \in ToSet(seen[i - 1]) THEN seen[i - 1] ELSE Append(seen[i - 1], s[i])
  IN  seen[Len(s)]

ChildrenOf(boards) ==
  LET all[i \in 0..Len(boards)] == IF i = 0 THEN <<>> ELSE all[i - 1] \o Children[boards[i]]
  IN  Distinct(all[Len(boards)])

queueLine(l, boards) == queueLocal(l, ChildrenOf(boards), FALSE, LineTag(l))

requestMissing(l, board, shows) ==
  IF ~shows THEN l
  ELSE LET m == syncGeneration(l, board)
       IN queueLocal(m, Children[board], FALSE, BoardTag(m))

requestGrandchildren(l, board, shows) ==
  LET offBook == Restricted(ChildrenOf(Children[board]), Boards \ OnBook)
  IN IF shows THEN queueLocal(l, offBook, TRUE, BoardTag(l)) ELSE l

requestBoth(l, board, shows) ==
  requestGrandchildren(requestMissing(l, board, shows), board, shows)

renderBoard(l, board) == requestBoth(l, board, evalMode)

renderPlyLineFirst(l, boards, board, diverged) ==   \* mutant
  LET m == syncGeneration(queueLine(l, boards), board)
  IN IF diverged THEN requestBoth(m, board, evalMode)
     ELSE requestMissing(m, board, evalMode)

renderPly(l, boards, board, diverged) ==
  LET m == queueLine(syncGeneration(l, board), boards)
  IN IF diverged THEN requestBoth(m, board, evalMode)
     ELSE requestMissing(m, board, evalMode)

-----------------------------------------------------------------------------
(* What the user sees and does.  Only what may bring another board or line *)
(* on screen counts against MaxEvents.                                     *)

Inline == pgnState = "graph"
Diverged == explored # <<>>
pgnDisplayBoard == IF Diverged THEN Last(explored) ELSE line[ply]
Displayed == IF Inline THEN pgnDisplayBoard ELSE Last(game)

UserActs == events < MaxEvents /\ events' = events + 1 /\ UNCHANGED <<evals, worker>>
UserTypes == UNCHANGED <<evals, worker, events>>

onCellClick(b) ==
  /\ UserActs /\ ~Inline
  /\ b \in ToSet(Children[Last(game)])
  /\ game' = Append(game, b)
  /\ local' = renderBoard(local, b)
  /\ UNCHANGED <<pgnState, line, ply, explored, fetching, evalMode>>

undoMove ==
  /\ UserActs /\ ~Inline
  /\ Len(game) > 1
  /\ game' = Front(game)
  /\ local' = renderBoard(local, Last(game'))
  /\ UNCHANGED <<pgnState, line, ply, explored, fetching, evalMode>>

(* setPGNState(null) abandons the line, and draws the old board first. *)
LeavePGN == renderBoard(abandonLine(local), Last(game))

newGame ==
  /\ UserActs
  /\ game' = <<Start>>
  /\ pgnState' = "null" /\ line' = <<>> /\ ply' = 1
  /\ local' = renderBoard(LeavePGN, Start)
  /\ UNCHANGED <<explored, fetching, evalMode>>

togglePGNSection ==
  /\ \/ /\ UserTypes /\ pgnState = "null"
        /\ pgnState' = "input" /\ UNCHANGED <<line, ply, local>>
     \/ /\ UserActs /\ pgnState = "input"
        /\ pgnState' = "null" /\ line' = <<>> /\ ply' = 1 /\ local' = LeavePGN
     \/ /\ UserActs /\ pgnState = "graph"
        /\ pgnState' = "input" /\ UNCHANGED <<line, ply>>
        /\ local' = renderBoard(local, Last(game))
  /\ UNCHANGED <<game, explored, fetching, evalMode>>

onPGNInput ==
  /\ UserTypes /\ pgnState = "input"
  /\ fetching' = TRUE
  /\ UNCHANGED <<local, game, pgnState, line, ply, explored, evalMode>>

(* The answer is shown whatever the user did while it was awaited. *)
analyzePGN(boards) ==
  /\ fetching
  /\ fetching' = FALSE
  /\ pgnState' = "graph" /\ line' = boards /\ ply' = 1 /\ explored' = <<>>
  /\ local' = renderPly(abandonLine(local), boards, boards[1], FALSE)
  /\ UNCHANGED <<evals, worker, game, evalMode, events>>

RejectPGN ==
  /\ fetching
  /\ fetching' = FALSE
  /\ UNCHANGED <<evals, local, worker, game, pgnState, line, ply, explored, evalMode, events>>

ShowPly(i) ==
  /\ i \in DOMAIN line
  /\ ply' = i
  /\ local' = renderPly(local, line, line[i], FALSE)
  /\ UNCHANGED <<game, pgnState, line, explored, fetching, evalMode>>

pgnGoForward == UserActs /\ Inline /\ ~Diverged /\ ShowPly(ply + 1)

pgnGoBack ==
  /\ UserActs /\ Inline
  /\ IF Diverged
     THEN /\ explored' = Front(explored)
          /\ local' = LET back == explored' # <<>>
                      IN renderPly(local, line, IF back THEN Last(explored') ELSE line[ply], back)
          /\ UNCHANGED <<game, pgnState, line, ply, fetching, evalMode>>
     ELSE ShowPly(ply - 1)

pgnOnSquareClick(b) ==
  /\ UserActs /\ Inline
  /\ b \in ToSet(Children[pgnDisplayBoard])
  /\ IF ~Diverged /\ ply < Len(line) /\ b = line[ply + 1]
     THEN ShowPly(ply + 1)
     ELSE /\ explored' = Append(explored, b)
          /\ local' = renderPly(local, line, b, TRUE)
          /\ UNCHANGED <<game, pgnState, line, ply, fetching, evalMode>>

toggleEvalMode ==
  /\ UserActs
  /\ evalMode' = ~evalMode
  /\ local' = requestBoth(local, Displayed, evalMode')
  /\ UNCHANGED <<game, pgnState, line, ply, explored, fetching>>

needsServerEvaluation(p) == evals[p] # Server

hasUnresolvedEvaluations(board) ==
  \E p \in ToSet(Children[board]) \cup ToSet(ChildrenOf(Children[board])) :
    p \in OnBook /\ needsServerEvaluation(p)

(* A tick of evalPollTimer, which may long have been stopped *)
Poll ==
  /\ ~Inline /\ evalMode /\ hasUnresolvedEvaluations(Last(game))
  /\ local' = requestBoth(local, Last(game), evalMode)
  /\ UNCHANGED <<evals, worker, page, events>>

-----------------------------------------------------------------------------
(* Messages: of the workers, and of the server. *)

AllReady(w) == \A i \in Workers : w[i] = "ready"

(* The last of the workers to load resolves ready(). *)
LoadReady(i) ==
  /\ worker[i] = "loading"
  /\ worker' = [worker EXCEPT ![i] = "ready"]
  /\ local' = IF AllReady(worker')
              THEN requestMissing(IF Inline THEN queueLine(local, line) ELSE local, Displayed, evalMode)
              ELSE local
  /\ UNCHANGED <<evals, page, events>>

LoadFails(i) ==
  /\ worker[i] = "loading"
  /\ worker' = [worker EXCEPT ![i] = "failed"]
  /\ UNCHANGED <<evals, local, page, events>>

(* A worker that is loading keeps the evaluate messages; one that failed   *)
(* to load keeps them for good.                                            *)
Answers(i) == worker[i] = "ready" /\ local.running[i] # NoTask

(* Only ever deepen, and never over the server's answer. *)
Stored(existing, level) == Max({existing, level})

(* _onMessage gives the worker other work before the chain's callback runs *)
Freed(i) == dispatch([local EXCEPT !.running[i] = NoTask])

Result(i) ==
  LET task == local.running[i]
      p == task.pos
      next == Deeper(p, task.level)
      continues == next # {} /\ IsCurrent(local, task.tag)
  IN /\ Answers(i)
     /\ evals' = [evals EXCEPT ![p] = Stored(@, task.level)]
     /\ local' = IF evals[p] # Server /\ continues
                 THEN evaluate(Freed(i), [task EXCEPT !.level = Min(next)])
                 ELSE clearPending(Freed(i), task)
     /\ UNCHANGED <<worker, page, events>>

Error(i) ==
  LET task == local.running[i]
  IN /\ Answers(i)
     /\ task.pos \in Fragile
     /\ local' = clearPending(Freed(i), task)
     /\ UNCHANGED <<evals, worker, page, events>>

handleEvaluations(p) ==
  /\ p \in OnBook
  /\ evals' = [evals EXCEPT ![p] = Server]
  /\ UNCHANGED <<local, worker, page, events>>

-----------------------------------------------------------------------------
PoolInit ==
  /\ evals = [p \in Boards |-> 0]
  /\ local = [queue |-> <<>>, running |-> [i \in Workers |-> NoTask],
              slots |-> [p \in Boards |-> NoTag], boardKey |-> Start,
              generation |-> 1, lineGeneration |-> 0]
  /\ worker = [i \in Workers |-> "loading"]
  /\ game = <<Start>>
  /\ pgnState = "null" /\ line = <<>> /\ ply = 1 /\ explored = <<>>
  /\ fetching = FALSE /\ evalMode = TRUE
  /\ events = 0

User ==
  \/ \E b \in Boards : onCellClick(b) \/ pgnOnSquareClick(b)
  \/ undoMove \/ newGame \/ togglePGNSection \/ onPGNInput
  \/ pgnGoForward \/ pgnGoBack \/ toggleEvalMode

PoolNext ==
  \/ User
  \/ \E boards \in Lines : analyzePGN(boards)
  \/ RejectPGN
  \/ Poll
  \/ \E i \in Workers : LoadReady(i) \/ LoadFails(i) \/ Result(i) \/ Error(i)
  \/ \E p \in Boards : handleEvaluations(p)

PoolSpec == PoolInit /\ [][PoolNext]_poolVars

(* A load ends one way or the other, and so does a search: weak fairness   *)
(* of LoadReady(i) \/ LoadFails(i) and of Result(i) \/ Error(i), which are *)
(* enabled while Answers(i) and alone take a task from a worker.           *)
PoolFairness ==
  \A i \in Workers :
    /\ <>(worker[i] # "loading")
    /\ []<>~Answers(i) \/ []<><<local'.running[i] # local.running[i]>>_local

FairPoolSpec == PoolSpec /\ PoolFairness

-----------------------------------------------------------------------------
(* Properties *)

SearchesOf(p, tag) ==
  Cardinality({j \in DOMAIN local.queue : local.queue[j].pos = p /\ local.queue[j].tag = tag})
  + Cardinality({i \in Workers : local.running[i] # NoTask
                                 /\ local.running[i].pos = p /\ local.running[i].tag = tag})

(* A slot stands for one chain that goes on, and a chain that goes on has  *)
(* a slot: clicks, results that come late and chains that end never leave  *)
(* a slot behind, which would keep the position from being searched again, *)
(* nor search a position twice for the same board or line; and all that    *)
(* waits is for the board or the line on screen (_pendingLocalEvals,       *)
(* clearPending, _dropStaleLocalEvals).                                    *)
SlotsAreLiveChains ==
  /\ \A p \in Boards :
       /\ local.slots[p] \in {NoTag, BoardTag(local), LineTag(local)}
       /\ \A tag \in {BoardTag(local), LineTag(local)} :
            SearchesOf(p, tag) = IF local.slots[p] = tag THEN 1 ELSE 0
  /\ \A j \in DOMAIN local.queue : IsCurrent(local, local.queue[j].tag)

Wanted(p) ==
  \/ evalMode /\ p \in ToSet(Children[Displayed])
  \/ Inline /\ p \in ToSet(ChildrenOf(line))

Done(p) == evals[p] >= Deepest(p)

(* Whatever the user did, in whatever order, and whatever was dropped on   *)
(* the way: once the workers have loaded, a position on screen or on the   *)
(* graph has its deepest score, or the server's, or a chain at work for    *)
(* it; unless a search for it failed (requestMissingEvaluations,           *)
(* pgnRenderCurrentPly, initEdaxEval).                                     *)
NothingForgotten ==
  AllReady(worker) =>
    \A p \in Boards \ Fragile : Wanted(p) => Done(p) \/ local.slots[p] # NoTag

(* No worker idles while a search it may run waits (_dispatch).            *)
NoIdleWorker ==
  \A i \in Workers : local.running[i] = NoTask =>
    \A j \in DOMAIN local.queue : ~MayRun(i, local.queue[j])

(* Once the user rests, the positions on screen and on the graph all get   *)
(* their deepest score, or the server's, however much was prefetched or    *)
(* dropped; unless a search for one failed, or a worker did not load and   *)
(* keeps what it is given.                                                 *)
Settles ==
  <>[](\A p \in Boards : Wanted(p) =>
         Done(p) \/ p \in Fragile \/ \E i \in Workers : worker[i] = "failed")

(* "every visible search -- at any level -- goes first" (board.js), as far  *)
(* as the code keeps it: a worker is given a prefetch only if no visible   *)
(* task it may run was waiting.  The next level of the visible chain it    *)
(* has just ended is queued only after that, and does wait.                *)
VisibleFirst ==
  [][\A i \in Workers :
       LET task == local'.running[i] IN
       task # local.running[i] /\ task # NoTask /\ task.prefetch =>
         \A j \in DOMAIN local.queue :
           MayRun(i, local.queue[j]) /\ ~local.queue[j].prefetch =>
             \A k \in DOMAIN local'.queue : local'.queue[k] # local.queue[j]]_local

=============================================================================

# A TLA+ model of flippy

flippy learns an opening book of Othello. Workers run the engine edax on early
positions, the server keeps the evaluations in Postgres and minimaxes them, and
a web page shows the book and asks for deeper evaluations of whatever is on the
board. This directory holds TLA+ modules for the parts of it whose difficulty
lies in the order of events: a queue, claims and caches kept in Redis and in
memory, changed by handlers that interleave between any two commands; workers
and connections that come and go; a page and a server that climb a ladder of
search levels together without either holding the whole state; a pool of
searches in the page that outlive what they were started for. It also holds the
algorithms whose correctness is not obvious: the search of the page's evaluator,
its trained evaluation and the way of its weights to the browser, its stable
discs, and the rules of the game, which the repository implements three times.

Paths below are relative to the repository. `PROJECT.json` maps every
definition to the lines it models.

## 1. The system

    page (static/board.js) --- websocket ---\                 /--- Postgres: boards
       |  wasm/edax-eval in web workers      cmd/server ------+--- Redis: claims, markers, queue,
                                             (api, web, book)  \    analysis cache, book_stats, workers
    worker (cmd/worker) ------- HTTP --------/
       |  edax subprocess               loader (cmd/loader) ---- Postgres: boards

| component | state | operations | what is hard | correct when |
|---|---|---|---|---|
| Search levels: `internal/edax/search_params.go`, `internal/api/jobs.go` | none | level to (depth, confidence), target level, book quality, "adds nothing" | depth and confidence are not monotone in the level, many levels are one search | comparisons by level and by search agree wherever the code relies on both |
| Review ladder: `static/board.js`, `internal/api/websocket.go`, `handlers.go` | page: evaluations, rungs asked for, timers; server: rows, cache, queue | start, poll, answer, climb, search, submit, reconnect | no party holds the whole ladder; requests and connections are lost | every position under review reaches its target, answers get no shallower than what expires makes them, only book quality is stored |
| Priority queue: `internal/api/redis.go:310-430`, `websocket.go` | Redis list and set, connection table, last connection ID | enqueue, dequeue, connect, disconnect | two commands per operation, requests canceled and servers restarted between them | a position marked pending is queued, a tab that goes on asking is answered, closed tabs' entries are dropped |
| Claims: `redis.go:50-100, 230-260`, `internal/worker/worker.go` | claim keys with TTL; worker's loop, claimed position, heartbeat ticker | claim, heartbeat, submit, release, stop | compare-and-delete and compare-and-extend are two commands each, time, lost calls | one searcher per position, no claim revoked or kept for good |
| Job selection and book statistics: `jobs.go`, `redis.go:110-225`, `internal/db/repository.go:60-160` | rows, `book_stats` hash | floor, listing, claiming one by one, refresh of the hash | stale floor, bounded batch filtered twice | no claimable row is out of reach for good |
| Job results: `handlers.go:60-205`, `redis.go:398-425`, `repository.go:100-135` | row, analysis cache, priority marker, claim | up to seven commands of a submission | each may fail, two workers may submit one position | results acknowledged are stored, rows never regress |
| Book cache: `internal/book` | map of minimax scores | build, rebuild, look up | rebuilds overlap outside the lock; passes and games that end early | scores are best play of one state of the book, current once rebuilds are done |
| Edax subprocess: `internal/edax` | command, its level, its pipes | start, reuse, evaluate, close | used without the lock, dies by itself, must be interrupted | answers belong to their problem, no orphan, shutdown ends |
| Local evaluation: `static/edax-eval.js`, `edax-eval-worker.js`, chains in `static/board.js` | pool of web workers, task queue, per-position chain, tags of lines and generations | queue, cancel, dispatch, load, answer | late answers for lines left, load failures, a fast lane | answers are dropped or shown for the right position only, no worker is lost |
| Evaluation mode and socket of the page: `static/board.js` | board history, position shown, timers, pending boards | move, undo, poll, reconnect | late answers, buffered requests | what is shown belongs to the board |
| Boards repository: `internal/db` | the `boards` table | add, list, save, stats | concurrent statements | see job results and selection |
| Othello rules: `internal/othello`, `static/board.js`, `wasm/edax-eval/src/board.rs` | the game recorded, the board shown and its history | moves, flips, passes, normal form, undo | the same rules in Go, JavaScript and Rust | the three agree; the normal form is canonical; undo takes back what was played |
| Stable discs: `wasm/edax-eval/src/stability.rs` | table of stable edges | full lines, spreading, the cap they set | bit tricks | no stable disc is ever flipped |
| WASM search: `wasm/edax-eval/src/search.rs` | transposition table, one call of `solve` | negamax, cutoffs, null windows, ProbCut | bounds that mean different things in different windows, of searches of different depth | the minimax value at full width, as far off as the margins let it in selective searches |
| WASM evaluation: `wasm/edax-eval/src/eval.rs`, `weights.rs`, `wasm_api.rs` | unpacked weights; one array of pattern values per search | init, update and undo of pattern values, unpacking, evaluate | values changed by reference through nested calls; conventions of colour by parity of ply, in two files | a leaf's score is the one trained for its position |
| Weights blob: `bin/extract_weights.rs`, `weights_transform.rs` | file, blob | extract, encode, decode | byte order, wrapping differences | decoding gives back the words of the file |
| Flip variants: `flip_variants.rs` | none | three ways to turn discs | bit tricks | they agree with `board.rs` |
| Record parsers: `internal/othello`, `static` | none | game records to positions | implicit passes | every legal record gives its positions |
| Loader: `cmd/loader`, `internal/loader` | none | import positions | - | adds rows only |
| Worker identity, endpoints that read, web pages, server lifecycle, migrations and scripts | configuration | - | - | - |

What interacts with what: the page sends `evaluation_request` and
`analyze_request`; the server answers both from `boards`, the minimax cache and
the analysis cache, and for the second pushes the search it lacks on the
priority queue. `GET /api/jobs` pops that queue or selects a row to learn, and
sets its claim. The worker's heartbeats extend the claim while edax searches.
`POST /api/jobs/result` caches, stores, rebuilds the minimax cache and releases
the claim. The page polls until the evaluation is there and asks for the next
rung.

## 2. Modules

| module | models | uses |
|---|---|---|
| `SearchLevels` | the arithmetic of levels, exact | - |
| `AnalysisLadder` | page, socket, lookup, queue, worker and submission for one position under review | `SearchLevels` |
| `PriorityQueue` | the two Redis structures, the table of connections, the polling of tabs in evaluation mode | - |
| `Claims` | claims as leases, the worker's loop and its heartbeats, time | `JobLock`, which it implements |
| `JobSelection` | `claimJob` for learning, `ListLearnable`, `jobFloor`, the refresh of `book_stats` | `SearchLevels` |
| `JobResults` | `handleSubmitJobResult`, command by command | `SearchLevels` |
| `BookCache` | minimax and `Rebuild` | `SearchLevels` |
| `EdaxProcess` | the subprocess, the job loop and the closing goroutine | - |
| `LocalEval` | the page's pool of web workers and its chains of levels | - |
| `JobLock` | what claims are for, abstractly: a lock per position on searching it | - |
| `Search` | `negamax`, `solve`, ProbCut and the transposition table | - |
| `FlipVariants` | three more algorithms for the discs a move turns | `Bitboard` |
| `Weights` | the extraction tool and the transform of the weights | - |
| `Evaluation` | patterns and their values, packed weights, scores | `Bitboard`, `Weights` |
| `WasmEvaluator` | the evaluator's API and its nested searches on real boards, for pattern values | `Evaluation`, `FlipVariants`, `SearchLevels` |
| `Bitboard` | positions, moves, flips, symmetries, scores, of the server, the page and the evaluator | - |
| `Stability` | the discs no play can flip, and the cap they set | `Bitboard` |
| `OthelloGame` | a game as the server records and the page plays it | `Stability` |
| `MC*` | instances of these for TLC | the module of the name |
| `PriorityQueue_proof`, `JobSelection_proof`, `JobResults_proof` | theorems | the module of the name, `TLAPS` |
| `OthelloGame_proof` | theorems about `OthelloGame`; lemmas about boards and the patterns read off them | `OthelloGame`, `Evaluation`, `TLAPS` |
| `WasmEvaluator_proof` | theorems about `WasmEvaluator`, and with it `Evaluation`, `Weights` and `FlipVariants` | `OthelloGame_proof`, for moves, flips, symmetries and patterns |
| `Answers_proof` | theorems about what the page is told: `BookCache`, `AnalysisLadder` | these, `TLAPS` |
| `Worker_proof` | theorems about the worker: `Claims`, `EdaxProcess` | these, `TLAPS` |
| `LocalSearch_proof` | theorems about the page's own search: `Search`, `LocalEval` | these, `TLAPS` |

Where two modules share a proof module, the definitions of one bear its name so
that they do not clash: `GameSpec`, `PoolSpec`, `EdaxSpec`, `ReviewSpec` are the
specifications of `OthelloGame`, `LocalEval`, `EdaxProcess`, `AnalysisLadder`.

The modules cut the server along its data: where one module needs what another
details, it has it as one step, and says so in its header. `AnalysisLadder`
composes the parts on one position with exact levels and with handlers as
single steps; `PriorityQueue`, `Claims` and `JobResults` take those handlers
apart, with any number of positions or workers but without the levels that do
not matter to them.

### SearchLevels
`DepthAndSelectivity`, `SearchParams`, `IsFinal`, `TargetLevel`,
`EffectiveTargetLevel`, `IsBookQuality`, `SearchAddsNothing` and
`LearnableStats` (the comparison `jobFloor` makes on the keys of the hash) are
the code's functions of the same names, for every level and disc count. There
is no abstraction here: the tables are those of the source.

### AnalysisLadder
One position. An evaluation is its level. `Start`, `Poll`, `PollStops`,
`GiveUp` and `Receive` are the page (`analyzePGN`, the polling timer,
`handleEvaluations` with `pgnRequestLevelUps`); `Disconnect`, `Unregister`,
`Reconnect` the socket, whose closed state drops an `analyze_request` and
buffers an `evaluation_request`; `Serve` is `handleWebSocket` with
`handleAnalyzeRequest` and `lookupEvaluation`; `ClaimPriority`,
`ClaimLearnable`, `MarkerExpires`, `Submit`, `SearchFails`, `ClaimExpires` are
the jobs. `asked` is `pendingLevelRequests`, which never forgets a rung.
A review may begin with a result in the cache, of any level up to the target:
searches are clamped to it (`LadderAssumption`). `AnalysisExpires` is the end of
`analysisResultTTL`, at any time, as often as there is a result, for a search may
take longer and a result may be old when the review starts; `expired` is history.
It is one review: a second one, from a new page or a reload, is another behaviour
that starts with what the first has left. A worker whose claim has expired does
not submit here; that it may is the subject of `Claims` and `JobResults`.

### PriorityQueue
`queue` is the list `priority_jobs`, `pending` the set `priority_pending`,
`lastConnID` and `connID` the server's table. The tabs are in evaluation mode:
`wants` are the positions around the board on screen that have no answer; `Move`
replaces them, `Poll` is a tick of the timer of `startEvalPolling`, which sends an
`analyze_request` for all of them, `GiveUp` its timeout. The server's handler takes
the positions of a message one by one (`asking`): `enqueuePriority` is
`CheckPending` and `Push`. `dequeuePriority` is `Pop`, `Remove` and then
`Accept` or `Discard`; `Answer` is a result stored, which every tab's next poll
brings, and `SearchFails` an accepted job that comes to nothing. `Cancel` is a
request canceled between RPOP and SREM, which loses the entry, `RemoveFails` an
SREM whose error is ignored, `Restart` a server that dies while Redis lives on. A
tab has one message at a time with the server (bound), and one connection: the
old one is unregistered before the next is open. `session` and `late` are
history: which connection, of which life of the server, an entry really came from,
and whether it was handed out after that connection had closed.

### Claims
`owner` and `ttl` are the keys `claim:<p>`; `pc`, `job`, `claimed`, `stopping`
the worker's loop (`runJobs`, `processJob`, `Run`); `beat` and `beatDue` its
ticker and the call under way. `releaseClaim` is `SubmitCheck` or `ExitCheck`
(GET) and `Delete` (DEL); `heartbeat` is `BeatCheck` and `BeatExpire`. `Tick` is
time: a ticker due fires before the next tick. `punctual`, chosen at the start,
says that calls are answered within a tick and a handler does not go on after
its caller gave up; without it calls take any time. `races` is history: claims
deleted or expired while their worker still had the job.

### JobLock
The abstract specification of claims: `searchers` of each position, which a
worker joins (`Take`) and leaves, and locks `revoked` under their worker, each
of which lets in one searcher more. `Claims` implements it (`Lock`): a searcher
is a worker that has the job and was not told to stop, a revoked lock is a race.
`Grant` is `Take`; ending, failing, being stopped or killed is `Leave`; a `Delete`
or a `Tick` that takes a claim in use is `Revoke`; every other step stutters.

### JobSelection
`ReadFloor`, `List`, `SkipCandidate`, `ClaimCandidate`, `NoJob` are `claimJob`
once the priority queue is empty; `QueryStats`, `SwapStats` the refresh;
`Submit`, `SearchFails`, `ClaimExpires`, `AddRow` the rest of a row's life.
`List` picks any order among ties, and keeps the level it read with each
candidate. `counted` is history: the rows the hash was made from.

### JobResults
One position. `pc` walks through the commands of the handler: `CacheResult`,
`Consume` (GETDEL of the marker), `Schedule`, `Save` or `SaveNotFound`, `Add`,
`Resave`, `Rebuild`, `Release`, each with its error branch; `Fails` are the
errors that end the handler with 500. `ClaimPriority` and `Mark` are the two
commands of a priority claim.

### BookCache
The game is any acyclic graph of normalized positions with passes.
`MinimaxValue` and `BuildCache` are `minimaxValue` and `buildCache`, the
recursion as a recursive function, and what it visits as the positions within so
many plies (`Nearby`; `MaxPlies` is enough for any path to a leaf, with a pass
after each move). `Save`, `Load`, `Install` are the handler's
save and `Rebuild`'s query and assignment; `LoadFails` and `Restart` the faults.

### EdaxProcess
`process` holds, per subprocess, its level and what is in its two pipes.
`Reuse`, `Start`, `StartFails` are `ensureStarted`; `Write`, `Read`,
`ReadUnusable`, `ReadEnds` the rest of `Evaluate`; `CloseOnCancel` and `Exit`
the two calls of `Close`; `Search` and `Crash` are edax.

### LocalEval
JavaScript runs one event at a time, so an action is an event together with the
promise callbacks it resolves. `local` holds what those change: the pool's
`queue` and `running` searches (`EdaxEvalPool`), `slots` (`_pendingLocalEvals`),
and the tags `boardKey`, `generation`, `lineGeneration` that say what a search
was for. `dispatch` and `takeTaskFor` are `_dispatch` and `_takeTaskFor`,
`queueLocal` is `queueLocalEvaluations`, `dropStale` the cancellation. User
actions bear the names of their handlers; `analyzePGN` and `RejectPGN` are the
two ends of its await; `LoadReady`, `LoadFails`, `Result`, `Error` the messages
of the web workers, the second half of `Result` being the chain's next level;
`Poll` a tick of `evalPollTimer`; `handleEvaluations` an answer of the server.

### Search
A call of `negamax` is a frame of `stack`, with the alpha, beta, best score and
moves left at that point; `returning` and `score` are a return. `Leaf`,
`TableCutoff`, `StabilityCutoff`, `GameOver`, `Pass`, `ProbeUpper`, `ProbeLower`
and `First` are the ways in which a call begins; `UpperCut` and `LowerCut` what a
probe may end it with; `Null`, `Research`, `NextMove`, `Finish` the loop; `Store`
and `Cutoff` the transposition table. The game is any graph in which a move
takes a square and a pass none. The margins of ProbCut are any numbers.

`solve` has with it what its result is compared to: per position and depth a
range from `low` to `high`, in which the leaf scores lie, and which obeys the
rules of minimax (`Minimax`). At full width both are the minimax value. In a
selective search a probe stands for a deeper search it may contradict; how far
is what the range allows: a probe's range, widened by its margin, must lie within
that of the search it cuts, and the range of an entry within that of the less
deep search it answers. So the run and the theorems say of ProbCut that however many
probes fire, nest, and leave entries behind, the result is off by no more than
its probes are; that the margins themselves are right is a matter of statistics.

### FlipVariants
Sets of squares for words of bits, as in `Bitboard`: lines gathered into cells
and looked up (`get_flip_kindergarten`), a carry through a ray (`PlusOne` and
`MinusOne` are the sums modulo 2^64), and three doublings of a run
(`get_flip_kogge_stone`). The literal tables of the kindergarten method are given
by what they hold.

### Weights, Evaluation
`extract_raw_slice`, `encode` and `decode` move words as the code does, byte by
byte; a word is 16 bits (`Wrap16`). `Evaluation` has the 46 patterns with their
squares, the value of a pattern, its update by a move (`SquareWeight` is what the
three tables `SQ_FEAT_...` hold), the packing of mirrored states and the
opponent's view (`symmetry_packing`), and the score of a leaf, rounded and
clamped. Two things are cut down. A ply has `N_W` words in place of 114364, and
an index into them is taken modulo `N_W - 1` (the last word is the constant), so
states may share a word that have different ones in the program. And
`set_eval_packing`, which numbers states in the order in which it meets them, is
represented by the state that has the number; which states share one is the same.

### WasmEvaluator
`ExtractWeights` is the tool's run, `init_weights` and `evaluate` the exported
functions. A running `evaluate` is a stack of `calls` of `negamax` on real boards
with the arrays of pattern values they use: `SearchMove` updates the caller's
array, `MoveSearched` takes the update back, `Pass` and the probes have arrays of
their own. Whether a call is cut off depends on scores, which `Search` is about;
here every test on a score or a window goes either way, so the paths are those of
all windows and all weights.

### Bitboard, Stability, OthelloGame
A bitboard is the set of its squares, a shift an addition. `Bitboard` has the
moves three times, as the code has: `legalMoves`, `flippedDiscs`, `applyMove` of
`bitboard.go`; `getValidMoves`, `getFlipped`, `doMove` of `board.js`;
`get_moves`, `get_flip`, `play` of `board.rs`. `rotateBits` and `Normalize` are
the server's, whose functions the page repeats. `Stability` follows
`stability.rs` operation by operation; `find_edge_stable`, which fills the table
of edges, is a recursive function of the two sides' squares of an edge and of
those not flipped so far (`EdgeQuestion`), and `Tried` is one square of its loop. In `OthelloGame`, `moves` and `positions` are `Game`; `board`,
`blackTurn` and `boardHistory` the page; `Play` and `Undo` do the same on both
sides, each with its own rule for passes.

## 3. What the runs check

The run marked *v* is meant to end in a violation: it checks what a comment of
the repository says, and shows that the code does otherwise (section 6).

| run | bounds | shows | states, time |
|---|---|---|---|
| `ladder` | 10 disc counts from 12 to 63; no row, an unlearned one, one at the usual book level, a deep one; an empty cache and a shallow answer; one lost connection or failed search; results, claims and markers that expire at any time | a review reaches its target (after a loss or an expired result: if the position has a row), and answers never get shallower unless a result expires that no row stands behind | 213k, 160 s |
| `ladder_off_book` *v* | 31, 37, 40 discs, nothing lost | `Climbs` fails where two rungs are one search | 2 s |
| `queue` | 1 position, 2 tabs in evaluation mode, 1 worker, 2 entries; a closed connection or a failed search, a restart, a canceled request or failed SREM; moves and timeouts without bound | each fault sticks at most the positions in flight; no dead entry is handed out before a restart; a tab that polls until it is answered is, unless its position is stuck | 297k, 140 s |
| `claims` | 1 position, 2 workers, 2 races; one lost call or failed search, one stop or kill; calls punctual or of any length | claims implement `JobLock`; a searcher has its claim until it ends where calls are punctual; who leaves orderly leaves no claim it knew of; no claim lasts for good | 388k, 160 s |
| `selection` | a row of 14 discs and one of 29, each absent, half learned or learned; batch of 1, 2 workers, a failing search | `jobFloor` is a lower bound whatever was learned since; every row gets to its target | 52k, 150 s |
| `results` | 2 workers; 12, 14 and 33 discs; 4 kinds of rows; one error, two expiries | no row regresses, what is acknowledged is stored, no 404 and no leftovers but by faults | 144k, 12 s |
| `cache` | 11 positions with a pass, a pass at the leaves and a game over; 2 handlers, 5 submissions, an error, a restart | the cache is best play of one state of the book; stale only after faults and overlaps | 6.5k, 90 s |
| `edax` | 2 positions, 2 levels, 3 faults, searches that end | answers belong to their problem, no subprocess is orphaned, a worker told to stop exits, failures end unless a dead subprocess is kept | 2.3k, 4 s |
| `local_eval` | r with children a and b, a with child c; two levels each; searches for a may fail, b is on book; one PGN; 2 web workers; 2 user acts that change what is on screen | chains and slots never part, what is wanted is worked on or done, no worker idles, what is visible goes first, and it settles | 245k, 140 s |
| `search` | two games, of 9 and of 13 positions, with transpositions, a forced pass and a game over; two table slots; scores from -2 to 2; exact, fixed-depth and selective searches; tight, loose and wrong caps, margins that hold and that miss | the table holds proven bounds, a re-search confirms, the result is minimax as far as the margins hold | 92k, 45 s |
| `evaluator` | 11 words a ply; files of both byte orders, one too short, one with a bad header, a blob cut in half; searches of real boards with passes and probes, calls 6 deep, 2 moves each; levels 0 to 60 by 0 to 60 empty squares | pattern values follow the board; leaves score as trained, alike in every image; four algorithms turn the same discs; a level is one search in Rust and Go | 14k, 40 s |
| `othello` | real boards: 3 moves from the opening, 2 from before an early pass and from before a wipe-out, 8 empty squares to the end with several passes | server, page and evaluator agree; one normal form; stable discs stay, caps hold; undo takes back | 2.4k, 150 s |

**Why the bounds suffice.** The hazards need two parties on one datum, and a
third to take over what one of them gave up: two handlers between the commands
of one operation, a closed connection and the one that still waits, two workers
that submit one position. `MaxQueue = 2` lets one position be queued twice. What
the queue's and the claims' runs check of safety is proved for any number of
positions, tabs and workers (section 5), which is also why one position is
enough for `claims`. What `cache` checks of one game is proved for every
acyclic one, and what `othello` checks from a few starts, for all.
`ClaimTTL = 2` and `Beat = 1` are the least that `Beat < ClaimTTL` allows (the
code's are 5 minutes and 1 minute); the theorems hold for all. The levels of the
ladder are the code's; its disc counts are the first of each target level, the
last of two ways in which the rungs' searches change (27 and 30), and some near the
end of the game that a rung solves outright. The batch of 1 stands for 50: what matters
is that rows at their target can fill it, as the 14-disc row does here once it
is learned. The game of `cache` has each case of `minimaxValue` once and a leaf
shared by several paths. In `local_eval` two levels make a chain that goes on
once, two web workers are the fast lane and one other, and two acts let a chain
be abandoned and its position be wanted again while the old search runs; what
does not change the screen is not counted. The game of `search` has every case
of `negamax` and two positions per slot; what its run checks is proved for any
game. In `evaluator` a leaf is reached within six calls, past a pass and past a
probe within a probe, and from the second move of a node on, whose values were
changed and changed back before; `MaxCalls` and `MaxMoves` cut the search where the
code would go on. The words are distinct enough for each pattern of each ply to
tell in the sum, and one of them jumps by more than 16 bits between two plies.
Levels are compared for all inputs. `othello` is for comparing algorithms, so it takes real boards and few of
them: the starts are those of the repository's own tests on passes and
wipe-outs, and the late one plays out every continuation. Faults are bounded by the `Max...` constants, which
`StuckOnlyByFaults`, `LocksSearches` and `LeftoversOnlyByFaults` count, so
that they say what each fault can cost.

**Fairness.** Weak fairness wherever a goroutine, handler or timer goes on by
itself: page timers (`setInterval`, the reconnect timer of `onclose`), handlers
between two commands, the worker's loops, the ticker of `book_stats`.
`PriorityQueue` needs no more: a poll sends a message, whose handler then has a
command of its own to do, whatever it finds pending meanwhile. Strong fairness in
two places. `Claims`: `Tick`, for time passes however busy the workers are. `AnalysisLadder`: `ClaimLearnable` for a position
that has a level or after a loss or an expiry, where workers are assumed to reach every row in
the end; that is what `selection` shows of `JobSelection`, whose two workers and
ticker are weakly fair only. A ladder that loses nothing and starts from no
level climbs without it. There is none on what users and faults do, on
what expires by a TTL other than a claim's, nor on a `GiveUp`. `EdaxProcess` has
fairness of a search only when `SearchesEnd`.
`LocalEval` assumes that a web worker's load ends one way or the other, and so
does a search; nothing about the user or the server.

## 4. Properties

The invariants and action properties are stated at the end of each module, each
with the comment or behaviour of the code it comes from; `PROJECT.json` gives
for each a plausible change of the code that violates it. What relates several
actors or several steps:

- `Climbs`: every rung the page asks for is computed, found, and followed by the
  next, through page, server, queue and worker.
- `AnswerNeverRegresses`: the cache is overwritten without comparison; it is the
  skipping of answered levels and the order of lookup that keep answers, until the
  cache forgets one that is in no row.
- `StuckOnlyByFaults`, `DropsHeal`, `ClosedConnectionsDiscarded`: the list and
  the set, kept by separate commands, agree on what can still be dequeued, and
  the list and the connection table on whom it is for. `DropsHeal` says that a tab
  that asks again outlasts deduplication, discards, lost searches and restarts.
- `LocksSearches`: claims implement `JobLock`; `ClaimHeld`, `CleanExit`,
  `ClaimsFreed`: leases.
- `FloorIsLowerBound`, `EveryRowLearned`: the stale bound and the batch.
- `AckedIsStored`, `RowNeverRegresses`, `LeftoversOnlyByFaults`: submissions.
- `CacheIsBestPlay`: `minimaxValue` against a definition by strategies, in which
  two players each fix a move for every position; `StaleOnlyByFaults`:
  rebuilds.
- `AnswerIsForJob`, `RunningIsManaged`, `ShutdownEnds`, `FailuresEnd`: the
  subprocess, whose pipes may still hold what a failed evaluation left.
- `SlotsAreLiveChains`, `NothingForgotten`, `Settles`: the page marks a position
  as being searched and unmarks it in a callback that comes after the mark may
  have been given to another chain; a mark left behind would keep the position
  from ever being searched again, one lost would search it twice.
  `VisibleFirst`, `NoIdleWorker`: what the pool promises of its queue.
- `TableIsProven`, `ResearchRaisesAlpha`, `ResultIsProven`: a bound is stored
  with one window and read with another, or left by a probe of another depth.
- `FeaturesFollowBoard`: whatever calls, passes and probes lie between, the values
  a leaf would read are those of its board. `EvaluatesAsTrained`: six conventions
  (byte order, differences, order of plies, colours by parity, the opponent's view,
  mirroring) from the file to the score cancel out.
- `FlipVariantsAgree`, `SearchesAsTheServer`: one thing written twice.
- `ProgramsAgree`, `SameGame`, `NormalFormIsCommon`: three implementations.
  `StableForever` relates a position to every later one of its game, `CapHolds`
  to the end of it; the second is what `SearchAssumption` takes for granted.

The type invariants of `PriorityQueue`, `Claims`, `EdaxProcess` (`EdaxTypeOK`),
`Search` and `OthelloGame` are theorems, and those of `JobSelection` and
`JobResults` parts of one.

## 5. Proofs

TLAPS proves the following for all values of the constants that satisfy the
modules' named assumptions.

| theorem | says | from |
|---|---|---|
| `PriorityQueue_proof!TypeCorrect` | `Spec => []TypeOK`, which includes that open connections have IDs of their own | `QueueAssumption` |
| `PriorityQueue_proof!StuckPositionsWereLost` | `Spec => []StuckOnlyByFaults` | `QueueAssumption` |
| `PriorityQueue_proof!DeadEntriesDiscarded` | `Spec => []ClosedConnectionsDiscarded` | `QueueAssumption` |
| `Worker_proof!TypeCorrect` | `Spec => []TypeOK` | `ClaimsAssumption` |
| `Worker_proof!ClaimAlwaysHeld` | `Spec => []ClaimHeld` | `ClaimsAssumption` |
| `Worker_proof!ExitIsClean` | `Spec => []CleanExit` | `ClaimsAssumption` |
| `Worker_proof!ClaimsLockSearches` | `Spec => LocksSearches`: claims implement `JobLock` | `ClaimsAssumption` |
| `Worker_proof!OneSearcherPerPosition` | `Spec => []Lock!Exclusive`: a position has one searcher, and one more per lock revoked; none is revoked where calls are punctual | `ClaimsAssumption` |
| `Worker_proof!EdaxTypeCorrect` | `EdaxSpec => []EdaxTypeOK` | `EdaxAssumption` |
| `Worker_proof!AnswersFitTheirJobs` | `EdaxSpec => []AnswerIsForJob` | `EdaxAssumption` |
| `Worker_proof!NoOrphans` | `EdaxSpec => []RunningIsManaged` | `EdaxAssumption` |
| `JobSelection_proof!LearnableBelowTarget` | what edax reports of a search below the target level is less than what it reports at the target, for every savable disc count and level | - |
| `JobSelection_proof!SelectionInvariant` | `Spec => []IInv`, types included | `SelectionAssumption` |
| `JobSelection_proof!FloorIsALowerBound` | `Spec => []FloorIsLowerBound` | `SelectionAssumption` |
| `JobResults_proof!ResultsInvariant` | `Spec => []IInv`, types included | `ResultsAssumption` |
| `JobResults_proof!AckedResultIsStored` | `Spec => []AckedIsStored` | `ResultsAssumption` |
| `JobResults_proof!NotFoundNeedsFault` | `Spec => []NotFoundOnlyAfterFaults` | `ResultsAssumption` |
| `JobResults_proof!LeftoversNeedFault` | `Spec => []LeftoversOnlyByFaults` | `ResultsAssumption` |
| `JobResults_proof!RowRises` | `Spec => RowNeverRegresses` | `ResultsAssumption` |
| `LocalSearch_proof!TypeCorrect` | `Spec => []TypeOK` | `SearchAssumption` |
| `LocalSearch_proof!DepthIsFixed` | `Spec => []DepthFollowsEmpties` | `SearchAssumption` |
| `LocalSearch_proof!TableProven` | `Spec => []TableIsProven` | `SearchAssumption` |
| `LocalSearch_proof!ResearchConfirms` | `Spec => []ResearchRaisesAlpha` | `SearchAssumption` |
| `LocalSearch_proof!Proven` | `Spec => []ResultIsProven` | `SearchAssumption` |
| `LocalSearch_proof!SlotsAreChains` | `PoolSpec => []SlotsAreLiveChains` | `LocalEvalAssumption` |
| `LocalSearch_proof!NothingLost` | `PoolSpec => []NothingForgotten` | `LocalEvalAssumption` |
| `LocalSearch_proof!WorkersBusy` | `PoolSpec => []NoIdleWorker` | `LocalEvalAssumption` |
| `LocalSearch_proof!VisibleGoesFirst` | `PoolSpec => VisibleFirst` | `LocalEvalAssumption` |
| `Answers_proof!CacheIsFresh` | `Spec => []StaleOnlyByFaults` | `CacheAssumption` |
| `Answers_proof!CacheServesBestPlay` | `Spec => []CacheIsBestPlay` | `CacheAssumption` |
| `Answers_proof!AnswersRise` | `ReviewSpec => AnswerNeverRegresses` | `LadderAssumption` |
| `OthelloGame_proof!TypeCorrect` | `GameSpec => []TypeOK` | `GameAssumption` |
| `OthelloGame_proof!PageFollowsRecord` | `GameSpec => []SameGame` | `GameAssumption` |
| `OthelloGame_proof!UndoIsOneMove` | `GameSpec => UndoTakesBack` | `GameAssumption` |
| `OthelloGame_proof!ProgramsPlayAlike` | `GameSpec => []ProgramsAgree` | `GameAssumption` |
| `OthelloGame_proof!NormalFormsAgree` | `GameSpec => []NormalFormIsCommon` | `GameAssumption` |
| `OthelloGame_proof!StableDiscsStay` | `GameSpec => []StableForever` | `GameAssumption` |
| `OthelloGame_proof!CapsHold` | `GameSpec => []CapHolds` | `GameAssumption` |
| `WasmEvaluator_proof!FeaturesFollow` | `Spec => []FeaturesFollowBoard` | `EvaluatorAssumption` |
| `WasmEvaluator_proof!FlipsAgree` | `Spec => []FlipVariantsAgree` | `EvaluatorAssumption` |
| `WasmEvaluator_proof!SearchesAlike` | `Spec => []SearchesAsTheServer` | - |
| `WasmEvaluator_proof!WeightsLoaded` | `Spec => []WeightsInv`: the words in use are those of plies 2 to 53 as trained, and a blob is their encoding | `EvaluatorAssumption`, `NWAssumption` |
| `WasmEvaluator_proof!TrainedScores` | `Spec => []EvaluatesAsTrained` | `EvaluatorAssumption`, `NWAssumption` |

`GameAssumption` admits any set of starts whose sides have no square in common
and whose side to move has a move: it is no property of the few boards of the run.
`EvaluatorAssumption` asks of a request that its sides have no square in common,
of the trained words that they fit 16 bits, and of a file that the tool accepts
(edax's header and length) that edax wrote it, in the byte order its header tells;
other files may hold anything. `NWAssumption`: a ply has two words or more, of
which there are 114364 in the program and 11 in the run.

`StuckOnlyByFaults` counts a set, and Cardinality means nothing before the set
is known to be finite, which it is not by itself (`Positions` need not be): the
invariant is `StuckBounded`, finiteness and bound together. Each step is shown
to add at most so many positions to `Stuck` (`GrownBy`): a position enters
`pending` together with the list and leaves the list into the hands of a worker
at "popped", whose next step unmarks it, so only `Cancel` (its one entry,
`CancelLoses`) and `Restart` (one entry for each worker, `RestartLoses`, with
`InHandBounded`) lose any. The lemmas on the two ends of the list say what the
entries it holds become.

`ClosedConnectionsDiscarded` is about IDs, while the history variable `session`
is about connections. `IDsTrue` ties them: before the first restart `lastConnID`
counts the connections ever opened, so an ID names one, and the entry of a
closed connection has an ID that no open one bears.

`ClaimHeld` is not inductive: it says who has the claim, not why it is still
there. `Lease` adds the reason. A worker that was just granted a job has the
full TTL (calls are punctual, no tick passes before the answer). One that
searches has claimed the position, and its claim has as many ticks left as
separate the next heartbeat but one: `ttl + Beat >= ClaimTTL + beatDue`, or a
heartbeat for that very position is under way. Since `Beat < ClaimTTL`, a tick
never takes the last one. And every handler between GET and DEL still deletes
its own claim, of a worker past its search (`OwnDelete`), so a DEL never hits
another's. Where calls are not punctual both halves fail, and `LocksSearches`
bounds the cost.

`LocksSearches` is a refinement: the initial states map to initial states of
`JobLock` (`LockInit`) and every step to a step of it or a stutter (`LockStep`).
What `Grant` needs, to be `Take`, is that a position whose claim is free has no
more searchers than there were races. Those are its strays, searchers that are
not the owner, and `StraysBounded` counts them: a race makes strays of the
searchers of the positions it hits, one each, and counts them all, several at
once in a `Tick`; nothing else makes one, since whoever is granted a job owns
it. Where calls are punctual no race happens (`OnTimeNoRace`, from `Lease`), so
there `JobLock` has one searcher per position, as `OneSearcherPerPosition` says.

`CleanExit` follows from `ClaimsAccounted`: as long as no call was lost, every
claim belongs to a worker that still has the position as its job, or to a
handler about to delete it.

`AnswerIsForJob` holds because at most one problem is in flight. The invariant
locates it: every subprocess but `cmd` is as if never started, and the pipes of
`cmd` hold nothing, the problem of the current job, or its result, according to
where the job loop stands. Whatever failed before has taken its subprocess with
it or emptied its pipes. `NoOrphans` is the first half of that, with nothing
running once the worker has exited.

`FloorIsLowerBound` relates a hash of (depth, confidence) pairs to rows that
have levels and went on rising since it was built. `StatsInv` says what of the
old rows is still true: each row the hash counts has an entry there for a level
no higher than its present one, and so has each row of a hash that is queried
and not yet swapped in. Levels only rise (`LevelsRise`: rows are not removed and
`Submit` takes the maximum), which keeps it. So a row still below its target has
an entry below its target; that `LearnableKeys` takes it for one is arithmetic,
`LearnableBelowTarget`. It is not obvious, for a lower level may search as
deeply as the target: from 28 discs on, levels 28 to 31 play the position out
like the target 32, and only the confidence tells (73% and 87% against 95%). The
run has two disc counts, the theorem all of them.

`AckedIsStored` is not inductive either: `SavedInv` says it of the handler since
the save, and of the stages in which it would matter what the level is
(`scheduling` is for results that are not of book quality; `resaving` has a row).
It holds for whichever handler saved the row last, because no step lowers it
(`RowRises`). `FaultlessInv` is the state of a position nothing has gone wrong
with: a worker with a job has the claim, which makes it the only one; until its
handler has read the marker a position without a row has one, and afterwards the
handler knows. Then neither 404 nor 500 is answered, and what is left when no
worker is at work is nothing.

`Proven` rests on the contract of a call: what it returns for a window (alpha,
beta) is at most the `high` of its position and depth if it beats alpha, and at
least the `low` if it stays under beta, so between the two if it is inside; and
the same holds of the score of every call under way, of the best so far in every
loop, and of what a table entry bounds (`TableIsProven`). The window of a call is
the one its caller's state says (`Linked`): the negation of the caller's, the
null window at its alpha, or, for a probe, that of one point beyond beta or
below alpha by the margin. A probe that succeeds then bounds the search it cuts,
for `Minimax` has the range of a probe, widened by its margin, within that of the
search; an entry left by a deeper call bounds a less deep one by `Deepens`. A
re-search needs more: what the null window has shown, that the `low` of the child
beats alpha, stays with the frame while the full window is searched, and gives
`ResearchRaisesAlpha` where `low` is `high`. That no call of an exact search is in
midgame, and none of a midgame search trusts stable discs, is
`DepthFollowsEmpties`. The ranges are given as any solution of their rules, since
a definition by recursion would need induction over the game; `MCSearch` computes
the tightest by recursion and TLC checks that they are solutions.

`StaleOnlyByFaults` looks at the end of a rebuild; `PendingInv` looks at its middle.
Where nothing failed or overlapped, one handler at most is between its query and
its assignment, and it has all that is learned unless another is about to query;
so whoever installs last has all. `CacheIsBestPlay` needs little of the steps, that
the cache is `buildCache` of scores leaves had together (`CacheInv`), and a good
deal of the recursion: `minimaxValue` has the value that two players can enforce,
each with one move fixed per position. From whatever position play starts, a
strategy may as well depend on the position only, since best moves can be chosen
for all positions at once (`OptimalExists`); a least position (by `PliesLeft`, the
plies until a leaf) at which value and best play differ would have children where
they do not. The library's induction over numbers takes a predicate as a parameter; the proof goes
by the least element of a set instead (`SetInduction`, from the well-foundedness
of `<`). `CacheAssumption` has the start before the leaves: a game that starts
beyond them is not cut by the code.

`AnswerNeverRegresses` is about a cache that every result overwrites, and it is
the order of things that keeps it rising. Rungs wait in the socket in the order the
page asked for them, the entry of the queue is no later than any of them
(`RungsInOrder`), and as long as the cache is what answers, which is while the row
has no level, nothing on its way there is below it, nor below anything that gets
there sooner (`CacheRises`). One search is out of order: that which gives an unlearned row its
first level goes straight to the target and overtakes whatever is queued
(`Settling`). It hides the cache behind the row as soon as it is submitted, so the
order is about the others; and that the row is then no shallower than what it hides is
where `LadderAssumption` is used, for the cache of a review that begins. A result
that expires only lowers what everything else is compared to, so the order holds
after it as well: with a row that has a level the theorem has no exception, and
without one `expired` is the only one.

`SlotsAreLiveChains`, `NothingForgotten` and `NoIdleWorker` are of one invariant of
the pool, `PoolInv`. `Chains` says that a slot and a live chain stand for each
other: what waits or runs for the board or line on screen has the slot of its
position under its own tag, no position does so twice, and a slot that is set has
such a search; a search of an earlier tag may still run, but its generation is past
and never comes back (`Issued`). Within an event this is not so: between the end
of a search and the queuing of its chain's next level, or its `clearPending`, the
slot has no search, and just then the freed worker is given another. So
`Chains` is stated up to a set of positions in that state, and every function of
the pool is shown to keep it and to leave no worker idle that could run something
queued. `NothingForgotten` needs `Synced`, the board the pool has last heard of is
the one displayed whenever anything of it is shown: otherwise what is shown next
would drop chains without asking for them again. `VisibleFirst` follows from the order in which
`takeTaskFor` picks: levels are at most 16, a prefetch is put off by 100. The proofs of
these need no bound on levels, workers or boards; folds over them are
recursive functions, whose values are found by induction as a set
(`SetInduction` of the same library facts).

`FeaturesFollowBoard` is about the array in use, and a call returns to arrays it
does not use now: the invariant, `Stack`, is of all of them. Each call has an
array, its own or its caller's (`Keeps`); every array shows the position of the
innermost call that has it, and a call that made another on its own array either does
not read it or differs from it by the move that is taken back when it returns
(`Shares`). That one move's update makes the values of the next position, and its
undo those of the one before, is the arithmetic of digits in base 3: a pattern's number is
linear in its digits (`HornerLinear`), a move changes a digit where the square
moved to or a flipped one has its place (`NumberChanges`), and by as much as the
colours of that ply's parity call for (`ValuesFollowMove`). The 46 patterns enter
only with the squares and digits they have.

`FlipVariantsAgree` brings the three variants to the runs of `ProgramsAgree`'s proof,
or past them to the nearest disc of one's own: three doublings fill a run of up to
seven squares (`OccludedIs`), a carry stops at the first square that
is not the opponent's (`CarryIs`), and a line gathered into eight cells keeps the
order of its squares (`LineIs`, once for each of the four kinds of lines).
`SearchesAsTheServer` compares two tables row by row (`SameBands`).

`EvaluatesAsTrained` is cut where the code hands over. Up to the words: the tool
gives the words of plies 2 to 53 for either byte order (`ExtractIs`), splitting a
difference in two bytes and joining them loses nothing below 2^16 and a running
sum takes the differences back, wrapped as they are (`DecodeEncode`), so that the words in use are always those trained (`WeightsLoaded`). Up to the score: at a
leaf the values in use are those of its board (the invariant of
`FeaturesFollowBoard`), and a tracked value is the pattern as the mover sees it on
even plies and with the two colours exchanged on odd ones; exchanging the digits 0
and 1 in the packed tables of odd plies takes that back (`OpponentIs`, `WeightIs`),
which gives `ScoredAsTrained`. For mirroring and transposition, the twelve regions are shown to be closed
under both: each carries every pattern to one of its region, either square by
square or with its squares in the order of the region's mirror (`CarriedBlock1` to
`CarriedBlock12`, for the 46 patterns as `eval.rs` lists them). In the first case
the numbers are equal; in the second one is the mirrored state of the other
(`StateMirror`), and of a state and its mirror the packing keeps one
(`PackedAlike`). So the words of a region are only summed in another order
(`TotalsAlike`). The vertical mirror is the horizontal one between two
transpositions. Neither `Words` nor how indices share the `N_W` words of a ply matters.

`SameGame`, `UndoTakesBack` and `TypeOK` are of one invariant, `GameInv`:
`Recorded`, every move of the record was legal on the position before it and the
next position is what it leads to, passes come alone, after a square and before
the next; `Linked`, the entries of the page's history that have moves are, in order,
the positions before each square that was played; `OneGame`, the board shown is the
last of the record, from either side once the game is over. Undo then finds under the last entry just what the
record has before its last square, however many passes lie between.

`ProgramsAgree` is a statement about shifts and masks. What each program computes
in a direction is brought to one form, a run: squares at a fixed offset, all but
the last the opponent's, all in the middle columns if the offset is not that of a
column (`Reach`, `Near`, `Trapped`). The server's walk is a run because on the
board the two steps are the same, and the page's ends where the server's does (`WalkIs`); the page's flood and the evaluator's doubling
because a flood by n steps, or by n and then n more, is all that is near within
them. `NormalFormIsCommon`: each of the delta swaps is a permutation of the squares
that keeps directions among themselves, so moves go with the board
(`MovesOfImage`), and the eight images of an image are the eight images, whose
least is one (`SameNormalForm`).

`StableForever` takes a disc the code calls stable and says why it cannot be
flipped. Recursive functions over finite data have values because what they ask
for has a smaller rank (`BoundedRecursion`): the table of edges by its empty
squares, the spreading by the squares not reached yet. What the table keeps of an
edge is kept by whatever is played there, by either side, in any order and past
any empty square (`SolidStays`, `FirmStays`). A play on the whole board is, on each
of its four edges, a play there or none, for discs of an edge are flipped only
from a square of that edge (`StepOnSide`). A disc that is flipped has, on a line
through it, an empty square and on neither side a disc of its colour that stays
(`AroundFlip`); so a disc on each of whose four lines is no empty square, or next
to it a disc that stays, stays (`SupportedStays`), which is what full lines and
spreading ask for. The record of the game is a sequence of such plays from any of
its positions on (`GameTrace`), for either side. `CapHolds` counts at the end of
it: who keeps n discs to the end has at least n, and the final score at most what
the other side is left with (`ScoreBound`).

Only model-checked: all liveness (`Climbs`, `DropsHeal`, `ClaimsFreed`,
`EveryRowLearned`, `ShutdownEnds`, `FailuresEnd`, `Settles`), which TLAPS does not
do under fairness. Every invariant and every other action property of the passing
runs is a theorem.

## 6. Where the code and its comments disagree

Shown by a run that ends in a violation:

- `ladder_off_book`: beyond 30 discs two rungs may be one search. At 37 discs
  levels 13 to 18 all search 27 plies at 87%; after level 14 the server refuses
  level 16 (`searchAddsNothing`, `websocket.go:165`), queues nothing, and the
  page, which saw no change, never asks for more.

Written into the properties of the passing runs as what they except; without
the exception TLC finds the behaviour:

- `Climbs`, after a loss: in a review an `analyze_request` lost with its
  connection or search is not sent again (`board.js:1300` polls evaluations only)
  although `redis.go:346-347` counts on it; a position without a row stalls. So it
  does if a result expires before the page has it.
- `AnswerNeverRegresses`, `expired`: the answer for a position without a learned
  row does not outlive `analysisResultTTL`, which is meant to be long enough for
  the polling to pick it up (`redis.go:331-333`). A review that finds it expired
  asks from the priority level on, and is answered by less than what was known.
- `DropsHeal`, `p \notin wants[c]`: "until it gets a result" (`redis.go:346-347`) is
  so in evaluation mode only, and there until the timer times out after 90 seconds
  (`board.js:730, 736-739`), which moves do not prolong (`board.js:727`).
- `AnalysisLadder`, `shown = 0` at first: a line reviewed again, whose answers the
  page has already, asks for no rung (`board.js:964` against 978-979). And a row
  below the target hides a deeper cached result (`handlers.go:250` against 128).
- `StuckOnlyByFaults`, `cancels`: a request canceled between RPOP and SREM, or an
  SREM that fails, leaves its position marked as pending for good (`redis.go:390`
  against 346-347).
- `StuckOnlyByFaults` says nothing of a queued position that is not pending: two
  handlers between SISMEMBER and SADD queue a position twice and the first
  dequeue unmarks it (`redis.go:349` against "mirroring", 328).
- `ClosedConnectionsDiscarded`, `restarts = 0`: IDs start again with the server,
  and entries of closed connections pass for those of new ones
  (`websocket.go:53` against `redis.go:316-318`).
- `CleanExit`, `job[w] # p`: a worker stopped while it asks for a job never
  releases the claim it was granted (`worker.go:186` against
  `client.go:107-108`).
- `EveryRowLearned` is about the end only: a batch filled with rows that need
  nothing hides a claimable row, and sends workers away, until the hash is
  rebuilt (`jobs.go:69`).
- `NotFoundOnlyAfterFaults`: the priority marker expires under a long search, and
  the result is answered with 404 (`redis.go:402` against `handlers.go:173`).
- `StaleOnlyByFaults`, `~raced`: overlapping rebuilds install the older rows last
  (`cache.go:46` against 18-19).
- `ShutdownEnds`, `SearchesEnd`: `Close` before `ensureStarted` interrupts nothing,
  and a search that does not end keeps the worker (`process.go:88` against
  `cmd/worker/main.go:71`).
- `FailuresEnd`, `KeptDead`: a subprocess that ended by itself is used again for
  every later job of its level (`process.go:88` against 83).
- `VisibleFirst` looks at what was queued before: `_onMessage` gives the freed
  worker its next task, a prefetch if nothing else waits, before the callback
  of the finished search queues the next level of its visible chain
  (`edax-eval.js:208` against `board.js:21-22, 933-934`).

Harmless, met on the way:

- `search.rs:128-129` says that with a raised alpha fail-high results would be
  stored with their score as upper bound. Those are told by beta and would not
  change; exact scores would be stored as upper bounds only, sound but weaker.
- `stability.rs:130-131` says that an expression is 0 or 1; it is 0 or a power
  of two, and the code is right for both.
- `PopMove` also takes a recorded pass for one it inserted (`game.go:99`), which
  comes to taking back the last square played.

## 7. Not modelled, and what comes next

Left out for good: web pages and templates, migrations and operator scripts
(run while the system is down), parsing of flags and environment, the text of
edax's input and output, gzip and the manifest of the weights, the real words of
the weights and the formula of ProbCut's margins (`eval_sigma`, given as any
numbers), the throughput log of the workers, Postgres' connection pool. They keep
no state the properties could be about, or are sequential I/O or numerics.

In the modules there are, the page's navigation is cut to what differs: `LocalEval`
steps through a line and has no jumps by a click on the graph (the handlers are
the same) and no flip of the board (which only renders again), one `/api/pgn`
request at a time, and compares positions by their normal form where
`pgnOnSquareClick` compares strings.

What could come next is an `EvaluationMode` of levels: what `AnalysisLadder` is for a
review, for the boards around the one on screen, whose polling `PriorityQueue` has
without them, and for what of it a reconnect carries.

----------------------------- MODULE EdaxProcess ----------------------------
(***************************************************************************)
(* The edax subprocess of a worker (internal/edax/process.go) and its two  *)
(* users: the job loop, which asks it to evaluate one position after the   *)
(* other (runJobs and processJob, internal/worker/worker.go), and the      *)
(* goroutine that closes it once the worker is told to stop                *)
(* (cmd/worker/main.go).                                                   *)
(*                                                                         *)
(* A mutex covers ensureStarted and Close, not the write and the reads of  *)
(* Evaluate between them.  A subprocess reads problems from one pipe and   *)
(* prints results into another.                                            *)
(*                                                                         *)
(* Abstracted: the lines edax prints for one problem are one result; what  *)
(* the worker does with a result (Claims).                                 *)
(***************************************************************************)
EXTENDS Naturals, Sequences, FiniteSets

CONSTANTS
  EdaxPositions, Levels,
  Processes,    \* subprocesses; one that ended and is not referred to is used again
  NoProcess,
  Failed,       \* the answer of an Evaluate that failed
  MaxFaults,    \* bound on crashes, failed starts and unusable results
  SearchesEnd   \* edax ends every search by itself

Jobs == [pos : EdaxPositions, level : Levels]

ASSUME EdaxAssumption ==
  /\ Levels \subseteq Nat \ {0}
  /\ NoProcess \notin Processes /\ Failed \notin Jobs
  /\ MaxFaults \in Nat /\ SearchesEnd \in BOOLEAN

VARIABLES
  cmd,       \* Process.cmd, NoProcess for nil
  level,     \* Process.level, 0 without a subprocess
  process,   \* per subprocess: its state, its level and the contents of its pipes
  loopPc,    \* the job loop
  loopJob,   \* the job it is at
  pipes,     \* the subprocess whose pipes Evaluate holds
  answer,    \* what Evaluate returned
  canceled,  \* the worker's context
  closed,    \* the closing goroutine is done
  faults

procVars == <<cmd, level, process>>
loopVars == <<loopPc, loopJob, pipes, answer>>
edaxVars == <<procVars, loopVars, canceled, closed, faults>>

LoopPC == {"next", "starting", "writing", "reading", "returned", "finished", "exited"}
NotStarted == [state |-> "ended", level |-> 0, problems |-> <<>>, results |-> <<>>]
Running(e) == process[e].state = "running"

EdaxInit ==
  /\ cmd = NoProcess /\ level = 0
  /\ process = [e \in Processes |-> NotStarted]
  /\ loopPc = "next" /\ loopJob \in Jobs /\ pipes = NoProcess /\ answer = Failed
  /\ canceled = FALSE /\ closed = FALSE /\ faults = 0

-----------------------------------------------------------------------------
(* runJobs *)

(* GetJob, called and answered before the worker is told to stop *)
TakeJob(j) ==
  /\ loopPc = "next" /\ ~canceled
  /\ loopPc' = "starting" /\ loopJob' = j
  /\ UNCHANGED <<procVars, pipes, answer, canceled, closed, faults>>

EndLoop ==
  /\ loopPc = "next" /\ canceled
  /\ loopPc' = "finished"
  /\ UNCHANGED <<procVars, loopJob, pipes, answer, canceled, closed, faults>>

(* processJob submits, or sleeps on the error. *)
HandBack ==
  /\ loopPc = "returned"
  /\ loopPc' = "next" /\ answer' = Failed
  /\ UNCHANGED <<procVars, loopJob, pipes, canceled, closed, faults>>

-----------------------------------------------------------------------------
(* Evaluate *)

Fails == loopPc' = "returned" /\ answer' = Failed /\ pipes' = NoProcess

(* Kill and Wait: what is left in the pipes is lost. *)
WithoutCurrent == [e \in Processes |-> IF e = cmd THEN NotStarted ELSE process[e]]

Started(l) == [state |-> "running", level |-> l, problems |-> <<>>, results |-> <<>>]

(* ensureStarted's first condition: edax's end is not noticed here. *)
Reusable(l) == cmd # NoProcess /\ level = l

Reuse ==
  /\ loopPc = "starting" /\ Reusable(loopJob.level)
  /\ pipes' = cmd /\ loopPc' = "writing"
  /\ UNCHANGED <<procVars, loopJob, answer, canceled, closed, faults>>

KilledNone == process  \* mutant: the subprocess of another level is not killed

Killed == WithoutCurrent

StartOldPipes(e) ==  \* mutant: the pipes of the subprocess before are kept
  /\ loopPc = "starting" /\ ~Reusable(loopJob.level)
  /\ Killed[e] = NotStarted
  /\ process' = [Killed EXCEPT ![e] = Started(loopJob.level)]
  /\ cmd' = e /\ level' = loopJob.level
  /\ pipes' = (IF cmd = NoProcess THEN e ELSE cmd) /\ loopPc' = "writing"
  /\ UNCHANGED <<loopJob, answer, canceled, closed, faults>>

(* Another level, or none yet *)
Start(e) ==
  /\ loopPc = "starting" /\ ~Reusable(loopJob.level)
  /\ Killed[e] = NotStarted
  /\ process' = [Killed EXCEPT ![e] = Started(loopJob.level)]
  /\ cmd' = e /\ level' = loopJob.level
  /\ pipes' = e /\ loopPc' = "writing"
  /\ UNCHANGED <<loopJob, answer, canceled, closed, faults>>

(* The old subprocess is gone all the same. *)
StartFails ==
  /\ loopPc = "starting" /\ ~Reusable(loopJob.level) /\ faults < MaxFaults
  /\ faults' = faults + 1
  /\ process' = Killed /\ cmd' = NoProcess /\ level' = 0
  /\ Fails
  /\ UNCHANGED <<loopJob, canceled, closed>>

Write ==
  /\ loopPc = "writing" /\ Running(pipes)
  /\ process' = [process EXCEPT ![pipes].problems = Append(@, loopJob.pos)]
  /\ loopPc' = "reading"
  /\ UNCHANGED <<cmd, level, loopJob, pipes, answer, canceled, closed, faults>>

(* The other end of the pipe is closed. *)
WriteFails ==
  /\ loopPc = "writing" /\ ~Running(pipes)
  /\ Fails
  /\ UNCHANGED <<procVars, loopJob, canceled, closed, faults>>

UnreadResults(results) == results  \* mutant: the parser stops before the second border

(* parseFinalEvaluation reads up to the second border of the table. *)
AfterRead(results) == Tail(results)

Read ==
  /\ loopPc = "reading" /\ process[pipes].results # <<>>
  /\ answer' = Head(process[pipes].results)
  /\ process' = [process EXCEPT ![pipes].results = AfterRead(@)]
  /\ loopPc' = "returned" /\ pipes' = NoProcess
  /\ UNCHANGED <<cmd, level, loopJob, canceled, closed, faults>>

(* A table without an exact score *)
ReadUnusable ==
  /\ loopPc = "reading" /\ process[pipes].results # <<>> /\ faults < MaxFaults
  /\ faults' = faults + 1
  /\ process' = [process EXCEPT ![pipes].results = AfterRead(@)]
  /\ Fails
  /\ UNCHANGED <<cmd, level, loopJob, canceled, closed>>

ReadEndsRetried ==  \* mutant: the end of the file is not an error
  loopPc = "reading" /\ ~Running(pipes) /\ process[pipes].results = <<>> /\ UNCHANGED edaxVars

(* End of file *)
ReadEnds ==
  /\ loopPc = "reading" /\ ~Running(pipes) /\ process[pipes].results = <<>>
  /\ Fails
  /\ UNCHANGED <<procVars, loopJob, canceled, closed, faults>>

-----------------------------------------------------------------------------
(* edax *)

Search(e) ==
  /\ Running(e) /\ process[e].problems # <<>>
  /\ process' = [process EXCEPT
       ![e].problems = Tail(@),
       ![e].results = Append(@, [pos |-> Head(process[e].problems), level |-> process[e].level])]
  /\ UNCHANGED <<cmd, level, loopVars, canceled, closed, faults>>

(* What it has printed can still be read. *)
Crash(e) ==
  /\ Running(e) /\ faults < MaxFaults
  /\ faults' = faults + 1
  /\ process' = [process EXCEPT ![e].state = "ended", ![e].problems = <<>>]
  /\ UNCHANGED <<cmd, level, loopVars, canceled, closed>>

-----------------------------------------------------------------------------
(* Stopping *)

Cancel ==
  /\ ~canceled /\ canceled' = TRUE
  /\ UNCHANGED <<procVars, loopVars, closed, faults>>

Close == process' = WithoutCurrent /\ cmd' = NoProcess /\ level' = 0

CloseOnCancel ==
  /\ canceled /\ ~closed /\ loopPc # "exited"
  /\ closed' = TRUE
  /\ Close
  /\ UNCHANGED <<loopVars, canceled, faults>>

(* main closes once more when Run has returned. *)
Exit ==
  /\ loopPc = "finished"
  /\ loopPc' = "exited"
  /\ Close
  /\ UNCHANGED <<loopJob, pipes, answer, canceled, closed, faults>>

-----------------------------------------------------------------------------
EdaxNext ==
  \/ \E j \in Jobs : TakeJob(j)
  \/ EndLoop \/ HandBack
  \/ Reuse \/ (\E e \in Processes : Start(e)) \/ StartFails
  \/ Write \/ WriteFails \/ Read \/ ReadUnusable \/ ReadEnds
  \/ (\E e \in Processes : Search(e) \/ Crash(e))
  \/ Cancel \/ CloseOnCancel \/ Exit

EdaxSpec == EdaxInit /\ [][EdaxNext]_edaxVars

Evaluate ==
  Reuse \/ (\E e \in Processes : Start(e)) \/ Write \/ WriteFails \/ Read \/ ReadEnds

(* The worker's goroutines are scheduled; edax goes on where it does. *)
EdaxFairness ==
  /\ WF_edaxVars(Evaluate) /\ WF_edaxVars(HandBack) /\ WF_edaxVars(EndLoop)
  /\ WF_edaxVars(CloseOnCancel) /\ WF_edaxVars(Exit)
  /\ SearchesEnd => \A e \in Processes : WF_edaxVars(Search(e))

FairEdaxSpec == EdaxSpec /\ EdaxFairness

-----------------------------------------------------------------------------
Subprocess == [state : {"running", "ended"}, level : Levels \cup {0},
               problems : Seq(EdaxPositions), results : Seq(Jobs)]

(* Type invariant; level is that of the subprocess, 0 for none. *)
EdaxTypeOK ==
  /\ cmd \in Processes \cup {NoProcess}
  /\ level \in Levels \cup {0} /\ (level = 0 <=> cmd = NoProcess)
  /\ process \in [Processes -> Subprocess]
  /\ loopPc \in LoopPC /\ loopJob \in Jobs /\ pipes \in Processes \cup {NoProcess}
  /\ answer \in Jobs \cup {Failed}
  /\ canceled \in BOOLEAN /\ closed \in BOOLEAN /\ faults \in 0..MaxFaults

(* Evaluate returns the score of the position it was given, searched at    *)
(* the level it was given: results do not shift by one after a problem     *)
(* that failed, and none is left over from a subprocess of another level.  *)
AnswerIsForJob == loopPc = "returned" /\ answer # Failed => answer = loopJob

(* No subprocess is orphaned: one that runs is the one Close will kill,    *)
(* and none outlives the worker.                                           *)
RunningIsManaged == \A e \in Processes : Running(e) => e = cmd /\ loopPc # "exited"

(* A worker that is told to stop exits, blocked evaluation or not ("ctx    *)
(* cancellation alone can't interrupt a blocked edax evaluation, so close  *)
(* the process directly too", cmd/worker/main.go).                         *)
ShutdownEnds == canceled ~> loopPc = "exited"

(* Once crashes and failed starts have ended, so do failed evaluations,    *)
(* but for a subprocess that ended by itself and is kept: "ensureStarted   *)
(* returns a running edax process's stdin/stdout at level, restarting it   *)
(* if needed" (process.go) does not hold of that one.                      *)
KeptDead == cmd # NoProcess /\ ~Running(cmd)
FailuresEnd ==
  []<>(loopPc = "returned") => <>[](loopPc = "returned" /\ answer = Failed => KeptDead)
=============================================================================

----------------------------- MODULE ScalingQueue -----------------------------
(***************************************************************************)
(* Queue mode: mains enqueue executions (WorkflowRunner.enqueueExecution),  *)
(* workers run them (JobProcessor), both meet in Bull's queue and in the    *)
(* execution rows, and the leading main looks for rows that the queue has   *)
(* forgotten (ScalingService.recoverFromQueue).                             *)
(*                                                                         *)
(* A call of run() makes at most one job, so calls and jobs share their     *)
(* numbers; an execution that waits and is resumed has several. Everything  *)
(* between two awaits is one step.                                          *)
(***************************************************************************)
EXTENDS BullQueue, Sequences, FiniteSets, FiniteSetsExt

CONSTANTS
  Exec,              \* executions, numbered
  Elsewhere,         \* those of mains and workers that are not modelled
  Main, NoMain,
  Worker, NoWorker,
  Concurrency,       \* jobs a worker takes at a time
  BatchSize,         \* rows that one recovery cycle checks
  NullsFirst,        \* the database sorts missing dates before all others
  SaveSuccess, SaveError,  \* whether the workflow keeps such executions
  MinimizeFetching,  \* N8N_MINIMIZE_EXECUTION_DATA_FETCHING
  MaxEvents          \* bound on stops, stepdowns, worker shutdowns and the faults outside recovery

ASSUME ScalingAssumption ==
  /\ NoMain \notin Main /\ NoWorker \notin Worker
  /\ Elsewhere \subseteq Exec
  /\ Concurrency \in Nat \ {0} /\ BatchSize \in Nat \ {0}
  /\ {NullsFirst, SaveSuccess, SaveError, MinimizeFetching} \subseteq BOOLEAN
  /\ MaxEvents \in Nat

VARIABLES
  row,         \* the status column of each execution
  started,     \* the executions that have a startedAt, in its order
  call,        \* enqueueExecution: its execution, its main and how far it is
  entry,       \* activeExecutions of each main
  stopping,    \* executions that stop() is about to write as canceled
  results,     \* jobResults of each main
  news,        \* the job-finished message of each job and who has yet to get it
  abort,       \* jobs whose abort-job message is on its way
  proc,        \* JobProcessor.processJob: its worker, how far it is, its result
  runningJobs, \* JobProcessor.runningJobs of all workers
  cancelSave,  \* jobs whose cancellation is being saved
  worker,      \* the state of each worker process
  leader,
  recovery,    \* the recovery cycles of each main
  handle,      \* queueRecoveryContext.timeout: the cycle it belongs to
  up,          \* mains that are running
  events       \* counts what MaxEvents events

mainVars == <<call, entry, stopping, results, news>>
workerVars == <<proc, runningJobs, cancelSave, abort, worker>>
recoveryVars == <<leader, recovery, handle>>
vars == <<row, started, job, mainVars, workerVars, recoveryVars, up, events>>

-----------------------------------------------------------------------------
Status == {"none", "new", "running", "waiting", "success", "error", "canceled",
           "crashed", "deleted"}

\* run() has not been called; the row is written; the call has failed its check
\* and is about to finalize; the job is added; the call awaits the job's end; it
\* is about to write an error, of the enqueueing or of the job, or to run
\* workflowExecuteAfter; it is over.
CallStep == {"unused", "added", "refused", "enqueued", "awaiting", "writing", "rejecting",
             "after", "over"}

\* stopJob: not called, called, about to remove the job.
StopStep == {"none", "asked", "removing"}

\* processJob has begun; has read the row; has marked it running and prepares
\* the workflow; runs it; saves its end; was cancelled; has the run's result;
\* has returned; has thrown.
ProcStep == {"none", "picked", "read", "starting", "running", "saving", "aborted",
             "saved", "returning", "throwing"}

NoProc == [worker |-> NoWorker, step |-> "none", status |-> "none"]

\* A main has one recovery cycle under way, or a second one after a takeover.
Cycle == {1, 2}
NoCycle == [step |-> "off", ids |-> {}, queued |-> {}]

NoEntry == [call |-> 0, run |-> 0]
NoNews == [to |-> {}, status |-> "none"]

\* Mutant of InProgress: executions that never started are not looked for.
InProgressRunning(e) == row[e] = "running"

\* What getInProgressExecutionIds asks for.
InProgress(e) == row[e] \in {"new", "running"}

Init ==
  /\ row = [e \in Exec |-> "none"]
  /\ started = <<>>
  /\ JobInit
  /\ call = [c \in Call |-> [exec |-> 0, main |-> NoMain, step |-> "unused",
                             stop |-> "none", status |-> "none"]]
  /\ entry = [m \in Main |-> [e \in Exec |-> NoEntry]]
  /\ stopping = [m \in Main |-> {}]
  /\ results = [m \in Main |-> [e \in Exec |-> "none"]]
  /\ news = [c \in Call |-> NoNews]
  /\ abort = {}
  /\ proc = [c \in Call |-> NoProc]
  /\ runningJobs = {} /\ cancelSave = {}
  /\ worker = [w \in Worker |-> "up"]
  /\ leader = NoMain
  /\ recovery = [m \in Main |-> [k \in Cycle |-> NoCycle]]
  /\ handle = [m \in Main |-> 0]
  /\ up = Main
  /\ events = 0

-----------------------------------------------------------------------------
(* The rows.                                                                *)

\* An update by id: of a row that is gone, nothing is updated.
Write(es, status) ==
  row' = [e \in Exec |-> IF e \in es /\ row[e] \notin {"none", "deleted"}
                         THEN status ELSE row[e]]

\* The row has a startedAt, later than that of f, or places itself as the
\* database has it when only one of them has one.
Started(e) == \E i \in DOMAIN started : started[i] = e

StartedAfter(e, f) ==
  \E i, j \in DOMAIN started : started[i] = e /\ started[j] = f /\ j < i

Precedes(e, f) ==
  \/ StartedAfter(e, f)
  \/ IF NullsFirst THEN ~Started(e) /\ Started(f) ELSE Started(e) /\ ~Started(f)

Event == events < MaxEvents /\ events' = events + 1

-----------------------------------------------------------------------------
(* A main: run and enqueueExecution.                                        *)

Step(c, from, to) == call[c].step = from /\ call' = [call EXCEPT ![c].step = to]

\* activeExecutions.add of call c: the row is written and the entry made.
Added(m, c, e) ==
  /\ m \in up /\ e \notin Elsewhere
  /\ call[c].step = "unused" /\ \A d \in Call : d < c => call[d].step # "unused"
  /\ call' = [call EXCEPT ![c] = [exec |-> e, main |-> m, step |-> "added",
                                  stop |-> "none", status |-> "none"]]
  /\ entry' = [entry EXCEPT ![m][e] = [call |-> c, run |-> 0]]
  /\ UNCHANGED <<job, stopping, results, news, workerVars, recoveryVars, up, started, events>>

Run(m, c, e) ==
  /\ row[e] = "none" /\ \A d \in Exec \ Elsewhere : d < e => row[d] # "none"
  /\ Added(m, c, e)
  /\ row' = [row EXCEPT ![e] = "new"]

\* Mutant of Resume: any unfinished row is resumed.
ResumeUnconditional(m, c, e) ==
  /\ row[e] \in {"waiting", "running"}
  /\ Added(m, c, e)
  /\ row' = [row EXCEPT ![e] = "running"]

\* Only a waiting row is resumed, by one of those who try.
Resume(m, c, e) ==
  /\ row[e] = "waiting"
  /\ Added(m, c, e)
  /\ row' = [row EXCEPT ![e] = "running"]

AddJob(c) ==
  /\ Step(c, "added", "enqueued")
  /\ Add(c)
  /\ UNCHANGED <<row, entry, stopping, results, news, workerVars, recoveryVars,
                 up, started, events>>

\* finalizeExecution settles the promise of the entry, whoever made it, and
\* the entry goes.
Finalize(c) == entry' = [entry EXCEPT ![call[c].main][call[c].exec] = NoEntry]

\* failExecution, when the check of credentials fails: the hooks of a regular
\* main save the error or delete the row, then the entry is finalized.
FailExecution(c) ==
  /\ Event
  /\ Step(c, "added", "refused")
  /\ Write({call[c].exec}, IF SaveError THEN "error" ELSE "deleted")
  /\ UNCHANGED <<job, entry, stopping, results, news, workerVars, recoveryVars, up, started>>

FailExecutionEnds(c) ==
  /\ Step(c, "refused", "over")
  /\ Finalize(c)
  /\ UNCHANGED <<row, job, stopping, results, news, workerVars, recoveryVars, up, started, events>>

\* attachWorkflowExecution; it throws when the entry is gone, but the promise
\* already awaits the job.
Attach(c) ==
  LET m == call[c].main
      e == call[c].exec
  IN /\ Step(c, "enqueued", "awaiting")
     /\ entry' = IF entry[m][e].call = 0 THEN entry ELSE [entry EXCEPT ![m][e].run = c]
     /\ UNCHANGED <<row, job, stopping, results, news, workerVars, recoveryVars,
                    up, started, events>>

\* processError of an error that does not say "cancelled": unless the row says
\* that all went well, the entry is finalized and the error will be written.
ProcessError(c, step) ==
  IF row[call[c].exec] = "success"
  THEN call' = [call EXCEPT ![c].step = "over"] /\ UNCHANGED entry
  ELSE call' = [call EXCEPT ![c].step = step] /\ Finalize(c)

\* queue.add or a workflowExecuteBefore hook fails.
EnqueueFails(c) ==
  /\ call[c].step \in {"added", "enqueued"}
  /\ Event
  /\ ProcessError(c, "writing")
  /\ UNCHANGED <<row, job, stopping, results, news, workerVars, recoveryVars, up, started>>

\* The result of a job-finished message, taken out of jobResults.
PopJobResult(c) ==
  results' = [results EXCEPT ![call[c].main][call[c].exec] = "none"]

\* The worker's hooks, run by the main, save the error.
WriteError(c) ==
  /\ \/ Step(c, "writing", "over") /\ UNCHANGED results
     \/ Step(c, "rejecting", "over") /\ PopJobResult(c)
  /\ Write({call[c].exec}, "error")
  /\ UNCHANGED <<job, entry, stopping, news, workerVars, recoveryVars, up, started, events>>

\* job.finished() rejects. The error of a cancelled run says "cancelled".
JobFailed(c) ==
  /\ call[c].step = "awaiting" /\ job[c].state = "failed"
  /\ IF job[c].why = "cancelled"
     THEN call' = [call EXCEPT ![c].step = "over"] /\ UNCHANGED entry
     ELSE ProcessError(c, "rejecting")
  /\ IF call'[c].step = "over" THEN PopJobResult(c) ELSE UNCHANGED results
  /\ UNCHANGED <<row, job, stopping, news, workerVars, recoveryVars, up, started, events>>

\* determineFinalExecutionStatus. A run's waitTill is known from the row, but
\* jobResults does not keep that of a job-finished message.
FinalStatus(status, waitTill) ==
  IF waitTill THEN "waiting"
  ELSE IF status \in {"crashed", "canceled", "error"} THEN status ELSE "success"

\* job.finished() resolves: the run data come from the job's result or from
\* the row, and the entry is finalized; without a row the promise is rejected.
JobCompleted(c) ==
  LET m == call[c].main
      e == call[c].exec
      light == MinimizeFetching /\ results[m][e] # "none"
      status == IF light THEN FinalStatus(results[m][e], FALSE)
                ELSE FinalStatus(row[e], row[e] = "waiting")
  IN /\ call[c].step = "awaiting" /\ job[c].state = "completed"
     /\ PopJobResult(c)
     /\ IF ~light /\ row[e] = "deleted"
        THEN call' = [call EXCEPT ![c].step = "over"] /\ UNCHANGED entry
        ELSE /\ call' = [call EXCEPT ![c].step = "after", ![c].status = status]
             /\ Finalize(c)
     /\ UNCHANGED <<row, job, stopping, news, workerVars, recoveryVars, up, started, events>>

\* The main's hook workflowExecuteAfter deletes what is not to be kept.
Unsaved(status) ==
  \/ status = "success" /\ ~SaveSuccess
  \/ status \in {"error", "crashed", "canceled"} /\ ~SaveError

AfterHook(c) ==
  /\ call[c].step = "after"
  /\ call' = [call EXCEPT ![c].step = "over", ![c].status = "none"]
  /\ IF Unsaved(call[c].status) THEN Write({call[c].exec}, "deleted") ELSE UNCHANGED row
  /\ UNCHANGED <<job, entry, stopping, results, news, workerVars, recoveryVars,
                 up, started, events>>

Without(message, m) ==
  IF message.to \subseteq {m} THEN NoNews ELSE [message EXCEPT !.to = @ \ {m}]

\* Mutant of JobFinishedArrives: only the success flag is kept.
JobFinishedFlag(m, c) ==
  /\ m \in news[c].to
  /\ news' = [news EXCEPT ![c] = Without(@, m)]
  /\ results' = [results EXCEPT ![m][call[c].exec] =
                   IF news[c].status = "error" THEN "failed" ELSE "done"]
  /\ UNCHANGED <<row, job, call, entry, stopping, workerVars, recoveryVars, up, started, events>>

\* A job-finished message arrives at a main.
JobFinishedArrives(m, c) ==
  /\ m \in news[c].to
  /\ news' = [news EXCEPT ![c] = Without(@, m)]
  /\ results' = [results EXCEPT ![m][call[c].exec] = news[c].status]
  /\ UNCHANGED <<row, job, call, entry, stopping, workerVars, recoveryVars, up, started, events>>

-----------------------------------------------------------------------------
(* A main: stopping an execution.                                           *)

\* ExecutionService.stop: a stoppable row, then stopExecution of the registry.
Stop(m, e) ==
  LET r == entry[m][e].run
  IN /\ m \in up /\ e \notin Elsewhere
     /\ Event
     /\ row[e] \in {"new", "running", "waiting"}
     /\ stopping' = [stopping EXCEPT ![m] = @ \cup {e}]
     /\ entry' = [entry EXCEPT ![m][e] = NoEntry]
     /\ call' = IF r # 0 /\ call[r].step # "over" /\ entry[m][e].call # 0
                THEN [call EXCEPT ![r].stop = "asked"] ELSE call
     /\ UNCHANGED <<row, job, results, news, workerVars, recoveryVars, up, started>>

\* stopDuringRun writes the row, whatever has become of it.
StopDuringRun(m, e) ==
  /\ e \in stopping[m]
  /\ stopping' = [stopping EXCEPT ![m] = @ \ {e}]
  /\ Write({e}, "canceled")
  /\ UNCHANGED <<job, call, entry, results, news, workerVars, recoveryVars, up, started, events>>

\* stopJob: an active job is told to abort, another one will be removed.
StopJob(c) ==
  /\ call[c].stop = "asked"
  /\ IF job[c].state = "active"
     THEN abort' = abort \cup {c} /\ call' = [call EXCEPT ![c].stop = "none"]
     ELSE call' = [call EXCEPT ![c].stop = "removing"] /\ UNCHANGED abort
  /\ UNCHANGED <<row, job, entry, stopping, results, news, proc, runningJobs,
                 cancelSave, worker, recoveryVars, up, started, events>>

\* A job that a worker has taken in the meantime cannot be removed.
StopJobRemoves(c) ==
  /\ call[c].stop = "removing"
  /\ call' = [call EXCEPT ![c].stop = "none"]
  /\ Remove(c)
  /\ UNCHANGED <<row, entry, stopping, results, news, workerVars, recoveryVars, up, started,
                 events>>

-----------------------------------------------------------------------------
(* A worker: JobProcessor.processJob.                                       *)

workerRest == <<mainVars, recoveryVars, up, started, events>>

ProcStepTo(c, from, to) == proc[c].step = from /\ proc' = [proc EXCEPT ![c].step = to]

Processing(w) == {c \in Call : proc[c].worker = w}

\* Bull hands a job to a worker that is not paused.
Pick(w, c) ==
  /\ worker[w] = "up" /\ Cardinality(Processing(w)) < Concurrency
  /\ Take(c)
  /\ proc' = [proc EXCEPT ![c] = [worker |-> w, step |-> "picked", status |-> "none"]]
  /\ UNCHANGED <<row, runningJobs, cancelSave, abort, worker, workerRest>>

\* A row that is missing is an error; a crashed execution is not run.
ReadExecution(c) ==
  /\ ProcStepTo(c, "picked", CASE row[call[c].exec] = "deleted" -> "throwing"
                               [] row[call[c].exec] = "crashed" -> "returning"
                               [] OTHER -> "read")
  /\ UNCHANGED <<row, job, runningJobs, cancelSave, abort, worker, workerRest>>

\* setRunning, whatever the row has become since it was read. A startedAt that
\* the row has is kept; updates of the row never touch it.
SetRunning(c) ==
  LET e == call[c].exec
  IN /\ ProcStepTo(c, "read", "starting")
     /\ Write({e}, "running")
     /\ started' = IF row[e] \in {"none", "deleted"} \/ Started(e) THEN started
                   ELSE Append(started, e)
     /\ UNCHANGED <<job, runningJobs, cancelSave, abort, worker, mainVars, recoveryVars,
                    up, events>>

\* The workflow's static data or its additional data cannot be loaded.
StartFails(c) ==
  /\ Event
  /\ ProcStepTo(c, "starting", "throwing")
  /\ UNCHANGED <<row, job, runningJobs, cancelSave, abort, worker, mainVars,
                 recoveryVars, up, started>>

\* The run is created and registered.
Register(c) ==
  /\ ProcStepTo(c, "starting", "running")
  /\ runningJobs' = runningJobs \cup {c}
  /\ UNCHANGED <<row, job, cancelSave, abort, worker, workerRest>>

\* saveExecutionProgress after a node, unless finished or canceled.
SaveProgress(c) ==
  /\ proc[c].step = "running" /\ row[call[c].exec] \notin {"success", "canceled"}
  /\ Write({call[c].exec}, "running")
  /\ UNCHANGED <<job, workerVars, workerRest>>

\* The engine's loop ends; "canceled" when the workflow timed out.
EngineEnds(c, status) ==
  /\ proc[c].step = "running"
  /\ proc' = [proc EXCEPT ![c].step = "saving", ![c].status = status]
  /\ UNCHANGED <<row, job, runningJobs, cancelSave, abort, worker, workerRest>>

\* The worker's workflowExecuteAfter hook writes the row; the run is over.
SaveRun(c) ==
  /\ ProcStepTo(c, "saving", "saved")
  /\ Write({call[c].exec}, proc[c].status)
  /\ runningJobs' = runningJobs \ {c}
  /\ UNCHANGED <<job, cancelSave, abort, worker, workerRest>>

\* abort-job arrives: a job that is not registered (yet) is not stopped. The
\* cancellation of a run is saved at once, besides what the run does.
StopRunningJob(c) ==
  /\ c \in abort
  /\ abort' = abort \ {c}
  /\ IF c \in runningJobs
     THEN /\ runningJobs' = runningJobs \ {c}
          /\ cancelSave' = cancelSave \cup {c}
          /\ proc' = IF proc[c].step = "running"
                     THEN [proc EXCEPT ![c].step = "aborted"] ELSE proc
     ELSE UNCHANGED <<runningJobs, cancelSave, proc>>
  /\ UNCHANGED <<row, job, worker, workerRest>>

SaveCancelled(c) ==
  /\ c \in cancelSave
  /\ cancelSave' = cancelSave \ {c}
  /\ Write({call[c].exec}, "canceled")
  /\ UNCHANGED <<job, proc, runningJobs, abort, worker, workerRest>>

AbortedEnds(c) ==
  /\ proc[c].step = "aborted"
  /\ proc' = [proc EXCEPT ![c].step = "saved", ![c].status = "canceled"]
  /\ UNCHANGED <<row, job, runningJobs, cancelSave, abort, worker, workerRest>>

\* A cancelled run throws; any other is reported to all mains in a job-finished
\* message, for which the row must still be there unless fetching is minimized.
ReportRun(c) ==
  /\ proc[c].step = "saved"
  /\ IF \/ proc[c].status = "canceled"
        \/ ~MinimizeFetching /\ row[call[c].exec] = "deleted"
     THEN ProcStepTo(c, "saved", "throwing") /\ UNCHANGED news
     ELSE /\ ProcStepTo(c, "saved", "returning")
          /\ news' = [news EXCEPT ![c] =
                       IF up = {} THEN @ ELSE [to |-> up, status |-> proc[c].status]]
  /\ UNCHANGED <<row, job, call, entry, stopping, results, runningJobs, cancelSave,
                 abort, worker, recoveryVars, up, started, events>>

Gone(cs) == proc' = [c \in Call |-> IF c \in cs THEN NoProc ELSE proc[c]]

\* processJob returns or throws, and Bull notes it.
JobEnds(c) ==
  /\ \/ proc[c].step = "returning" /\ Report(c, "completed", "none")
     \/ /\ proc[c].step = "throwing"
        /\ Report(c, "failed", IF proc[c].status = "canceled" THEN "cancelled" ELSE "error")
  /\ Gone({c})
  /\ UNCHANGED <<row, runningJobs, cancelSave, abort, worker, workerRest>>

\* Bull finds a lock that is not renewed, because its worker is gone or is
\* blocked; it takes a worker to look for it.
JobStalls(c) ==
  /\ \E w \in Worker : worker[w] # "down"
  /\ IF proc[c].step = "none" THEN UNCHANGED events ELSE Event
  /\ Stall(c)
  /\ UNCHANGED <<row, mainVars, workerVars, recoveryVars, up, started>>

WorkerGoes(w) ==
  /\ worker' = [worker EXCEPT ![w] = "down"]
  /\ Gone(Processing(w))
  /\ runningJobs' = runningJobs \ Processing(w)
  /\ cancelSave' = cancelSave \ Processing(w)
  /\ UNCHANGED <<row, job, abort, mainVars, recoveryVars, up, started>>

WorkerCrashes(w) == worker[w] # "down" /\ Event /\ WorkerGoes(w)

\* stopWorker: pause, then wait until no run is registered.
StopWorker(w) ==
  /\ worker[w] = "up" /\ Event
  /\ worker' = [worker EXCEPT ![w] = "stopping"]
  /\ UNCHANGED <<row, job, proc, runningJobs, cancelSave, abort, mainVars,
                 recoveryVars, up, started>>

WorkerExits(w) ==
  /\ worker[w] = "stopping" /\ runningJobs \cap Processing(w) = {}
  /\ WorkerGoes(w) /\ UNCHANGED events

WorkerStarts(w) ==
  /\ worker[w] = "down"
  /\ worker' = [worker EXCEPT ![w] = "up"]
  /\ UNCHANGED <<row, job, proc, runningJobs, cancelSave, abort, workerRest>>

-----------------------------------------------------------------------------
(* Executions of other mains and workers: all that matters here is when they *)
(* are in progress, and that their jobs are in the queue as long.            *)

elsewhereRest == <<job, mainVars, workerVars, recoveryVars, up, events>>

ElsewhereStarts(e) ==
  /\ e \in Elsewhere /\ row[e] = "none"
  /\ row' = [row EXCEPT ![e] = "running"]
  /\ started' = Append(started, e)
  /\ UNCHANGED elsewhereRest

ElsewhereEnds(e) ==
  /\ e \in Elsewhere /\ row[e] = "running"
  /\ row' = [row EXCEPT ![e] = "success"]
  /\ UNCHANGED <<started, elsewhereRest>>

-----------------------------------------------------------------------------
(* The leader's queue recovery.                                             *)

recoveryRest == <<job, mainVars, workerVars, up, started>>

\* scheduleQueueRecovery, by cycle k: the timer is kept in one field.
Schedule(m, k) ==
  /\ recovery' = [recovery EXCEPT ![m][k] = [NoCycle EXCEPT !.step = "timer"]]
  /\ handle' = [handle EXCEPT ![m] = k]

CycleStep(m, k, step) == recovery[m][k].step = step /\ UNCHANGED leader

\* leader-takeover.
Takeover(m) ==
  /\ m \in up /\ leader = NoMain
  /\ leader' = m
  /\ \E k \in Cycle : /\ recovery[m][k].step = "off"
                      /\ \A l \in Cycle : l < k => recovery[m][l].step # "off"
                      /\ Schedule(m, k)
  /\ UNCHANGED <<row, recoveryRest, events>>

\* leader-stepdown: stopQueueRecovery clears the last timer. A cycle that is
\* under way goes on.
Stepdown(m) ==
  LET k == handle[m]
  IN /\ leader = m /\ Event
     /\ leader' = NoMain
     /\ IF recovery[m][k].step = "timer"
        THEN /\ recovery' = [recovery EXCEPT ![m][k] = NoCycle]
             /\ handle' = [handle EXCEPT ![m] = 0]
        ELSE UNCHANGED <<recovery, handle>>
     /\ UNCHANGED <<row, recoveryRest>>

\* "a batch of execution IDs [...] in most recent order": what startedAt does
\* not order comes in any order.
Batches(stored) ==
  {ids \in kSubset(Min({BatchSize, Cardinality(stored)}), stored) :
     \A e \in ids, f \in stored \ ids : ~Precedes(f, e)}

\* The timer fires: getInProgressExecutionIds, up to batchSize.
ReadStored(m, k) ==
  LET stored == {e \in Exec : InProgress(e)}
  IN /\ CycleStep(m, k, "timer")
     /\ IF stored = {} THEN Schedule(m, k)
        ELSE /\ \E ids \in Batches(stored) :
                  recovery' = [recovery EXCEPT ![m][k] =
                    [step |-> "stored", ids |-> ids, queued |-> {c \in Call : Queued(c)}]]
             /\ UNCHANGED handle
     /\ UNCHANGED <<row, recoveryRest, events>>

\* Mutant of QueuedIds: jobs that wait are forgotten.
QueuedIdsActive ==
  {call[c].exec : c \in {d \in Call : job[d].state = "active"}}
    \cup {e \in Elsewhere : InProgress(e)}

QueuedIds ==
  {call[c].exec : c \in {d \in Call : Queued(d)}} \cup {e \in Elsewhere : InProgress(e)}

\* The jobs are read: what is stored but not queued is dangling.
ReadQueue(m, k) ==
  LET dangling == recovery[m][k].ids \ QueuedIds
  IN /\ CycleStep(m, k, "stored")
     /\ IF dangling = {} THEN Schedule(m, k)
        ELSE /\ recovery' = [recovery EXCEPT ![m][k].step = "marking", ![m][k].ids = dangling]
             /\ UNCHANGED handle
     /\ UNCHANGED <<row, recoveryRest, events>>

\* markAsCrashed, by id.
MarkAsCrashed(m, k) ==
  /\ CycleStep(m, k, "marking")
  /\ Write(recovery[m][k].ids, "crashed")
  /\ Schedule(m, k)
  /\ UNCHANGED <<recoveryRest, events>>

\* A query fails: the next cycle is scheduled.
RecoveryFails(m, k) ==
  /\ CycleStep(m, k, "stored") \/ CycleStep(m, k, "marking")
  /\ Schedule(m, k)
  /\ UNCHANGED <<row, recoveryRest, events>>

-----------------------------------------------------------------------------
(* The processes of mains.                                                  *)

\* A main crashes: its calls, entries, stops, messages and cycles are gone.
MainCrashes(m) ==
  /\ m \in up /\ Event
  /\ up' = up \ {m}
  /\ call' = [c \in Call |-> IF call[c].main = m /\ call[c].step # "unused"
                             THEN [call[c] EXCEPT !.step = "over", !.stop = "none",
                                                 !.status = "none"]
                             ELSE call[c]]
  /\ entry' = [entry EXCEPT ![m] = [e \in Exec |-> NoEntry]]
  /\ stopping' = [stopping EXCEPT ![m] = {}]
  /\ results' = [results EXCEPT ![m] = [e \in Exec |-> "none"]]
  /\ news' = [c \in Call |-> Without(news[c], m)]
  /\ leader' = IF leader = m THEN NoMain ELSE leader
  /\ recovery' = [recovery EXCEPT ![m] = [k \in Cycle |-> NoCycle]]
  /\ handle' = [handle EXCEPT ![m] = 0]
  /\ UNCHANGED <<row, started, job, workerVars>>

MainStarts(m) ==
  /\ m \notin up
  /\ up' = up \cup {m}
  /\ UNCHANGED <<row, started, job, mainVars, workerVars, recoveryVars, events>>

-----------------------------------------------------------------------------
RunSteps(c) ==
  \/ AddJob(c) \/ FailExecutionEnds(c) \/ Attach(c) \/ WriteError(c) \/ JobFailed(c) \/ JobCompleted(c)
  \/ AfterHook(c) \/ StopJob(c) \/ StopJobRemoves(c)
  \/ \E m \in Main : JobFinishedArrives(m, c)

ProcessSteps(c) ==
  \/ ReadExecution(c) \/ SetRunning(c) \/ Register(c) \/ SaveRun(c)
  \/ StopRunningJob(c) \/ SaveCancelled(c) \/ AbortedEnds(c) \/ ReportRun(c)
  \/ JobEnds(c)

RecoverySteps(m, k) == ReadStored(m, k) \/ ReadQueue(m, k) \/ MarkAsCrashed(m, k)

Ends == {"success", "error", "waiting", "canceled"}

Next ==
  \/ \E m \in Main, c \in Call, e \in Exec : Run(m, c, e) \/ Resume(m, c, e)
  \/ \E m \in Main, e \in Exec : Stop(m, e) \/ StopDuringRun(m, e)
  \/ \E e \in Exec : ElsewhereStarts(e) \/ ElsewhereEnds(e)
  \/ \E c \in Call : \/ RunSteps(c) \/ FailExecution(c) \/ EnqueueFails(c)
                     \/ ProcessSteps(c) \/ StartFails(c) \/ SaveProgress(c) \/ JobStalls(c)
                     \/ \E status \in Ends : EngineEnds(c, status)
                     \/ \E w \in Worker : Pick(w, c)
  \/ \E w \in Worker : WorkerCrashes(w) \/ StopWorker(w) \/ WorkerExits(w) \/ WorkerStarts(w)
  \/ \E m \in Main : Takeover(m) \/ Stepdown(m) \/ MainCrashes(m) \/ MainStarts(m)
  \/ \E m \in Main, k \in Cycle : RecoverySteps(m, k) \/ RecoveryFails(m, k)

Spec == Init /\ [][Next]_vars

\* What mains, workers and Bull have begun they go on with, and timers fire. A
\* query of the recovery may fail any number of times, but not for ever.
\* Nothing is assumed of the workflows' nodes, of users, leadership, starts.
Fairness ==
  /\ \A c \in Call : /\ WF_vars(RunSteps(c)) /\ WF_vars(ProcessSteps(c))
                     /\ WF_vars(proc[c].step = "none" /\ JobStalls(c))
  /\ \A m \in Main, k \in Cycle : /\ WF_vars(ReadStored(m, k))
                                 /\ SF_vars(ReadQueue(m, k)) /\ SF_vars(MarkAsCrashed(m, k))
  /\ \A m \in Main, e \in Exec : WF_vars(StopDuringRun(m, e))

FairSpec == Spec /\ Fairness

-----------------------------------------------------------------------------
(* Correctness properties.                                                  *)

\* Type invariant of rows, jobs, mains and workers.
TypeOK ==
  /\ row \in [Exec -> Status]
  /\ started \in Seq(Exec)
  /\ BullTypeOK
  /\ call \in [Call -> [exec : Exec \cup {0}, main : Main \cup {NoMain}, step : CallStep,
                        stop : StopStep, status : Status]]
  /\ entry \in [Main -> [Exec -> [call : Call \cup {0}, run : Call \cup {0}]]]
  /\ stopping \in [Main -> SUBSET Exec]
  /\ results \in [Main -> [Exec -> Status]]
  /\ news \in [Call -> [to : SUBSET Main, status : Status]]
  /\ proc \in [Call -> [worker : Worker \cup {NoWorker}, step : ProcStep, status : Status]]
  /\ abort \subseteq Call /\ runningJobs \subseteq Call /\ cancelSave \subseteq Call
  /\ worker \in [Worker -> {"up", "stopping", "down"}]
  /\ leader \in Main \cup {NoMain}
  /\ recovery \in [Main -> [Cycle -> [step : {"off", "timer", "stored", "marking"},
                                      ids : SUBSET Exec, queued : SUBSET Call]]]
  /\ handle \in [Main -> Cycle \cup {0}]
  /\ up \subseteq Main
  /\ events \in 0 .. MaxEvents

\* An execution runs on one worker at a time, however it is stopped, stalled,
\* recovered and resumed.
SingleRunner ==
  \A c, d \in Call :
    /\ {proc[c].step, proc[d].step} \subseteq {"read", "starting", "running", "aborted", "saving"}
    /\ call[c].exec = call[d].exec
    => c = d

\* Recovery spares an execution whose job has been in the queue for the whole
\* cycle: only what enters or leaves the queue meanwhile can be mistaken.
RecoverySparesQueued ==
  \A m \in Main, k \in Cycle :
    recovery[m][k].step = "marking" =>
      \A c \in recovery[m][k].queued : Queued(c) => call[c].exec \notin recovery[m][k].ids

\* The queue has forgotten the execution and nobody is about to enqueue it.
Dangling(e) ==
  /\ row[e] \in {"new", "running"}
  /\ \A c \in Call : call[c].exec = e => ~Queued(c) /\ call[c].step # "added"

\* A whole batch of other executions may come before e in what recovery reads.
Outside(e) ==
  Cardinality({f \in Exec \ {e} : InProgress(f) /\ ~Precedes(e, f)}) >= BatchSize

\* Wherever a main, a worker or a recovery query fails, nothing stays in
\* progress that no queue knows while there is a leader, unless there are
\* always enough younger executions to fill the batch.
DanglingIsSettled ==
  \A e \in Exec \ Elsewhere :
    Dangling(e) ~> ~Dangling(e) \/ leader = NoMain \/ Outside(e)

\* A main that awaits a job whose worker has crashed, or was shut down before
\* it registered the run, hears of it and gets done with the call, as long as
\* there are workers (maxStalledCount is 0: the job is never run again).
CrashIsNoticed ==
  \A c \in Call :
    /\ job[c].state = "active" /\ proc[c].step = "none"
    /\ call[c].step \in {"enqueued", "awaiting"}
    ~> call[c].step = "over" \/ \A w \in Worker : worker[w] = "down"

\* "should not delete waiting executions": a row that waits is not deleted.
WaitingIsKept ==
  [][\A e \in Exec : row[e] = "waiting" => row'[e] # "deleted"]_vars

\* "Mark in-progress executions as crashed if stored in DB as new or running
\* but absent from the queue", as if every such execution were read.
DanglingIsAlwaysSettled ==
  \A e \in Exec \ Elsewhere : Dangling(e) ~> ~Dangling(e) \/ leader = NoMain
=============================================================================

--------------------------- MODULE ActiveExecutions ---------------------------
(***************************************************************************)
(* The life of executions in one n8n process in regular mode: WorkflowRunner*)
(* and ActiveExecutions, the capacity reservation each call of             *)
(* WorkflowRunner.run takes, the execution's row in the database,          *)
(* ExecutionService.stop, timeouts, shutdown, and crash and restart.       *)
(*                                                                         *)
(* The process is single threaded: a step is what runs between two awaits, *)
(* with the promise callbacks it triggers (JavaScript drains them before it*)
(* serves the next I/O event).  A database write and the continuation that *)
(* follows it are separate steps, so every other handler may run between.  *)
(***************************************************************************)
EXTENDS ConcurrencyControl

CONSTANTS
  Exec,         \* execution ids (rows of the execution table)
  ModeOf,       \* the mode each execution is run in
  NoRun, NoExec,
  Waits,        \* whether workflows may put themselves to wait
  DbFaults,     \* whether database calls may throw
  MaxRestarts   \* bound on the restarts of the process

ASSUME ExecAssumption ==
  /\ NoRun \notin Run
  /\ NoExec \notin Exec
  /\ ModeOf \in [Exec -> Mode]
  /\ IsFiniteSet(Run)
  /\ Waits \in BOOLEAN
  /\ DbFaults \in BOOLEAN
  /\ MaxRestarts \in Nat

VARIABLES
  pc,          \* where each call of WorkflowRunner.run stands
  kind,        \* what started it: a new execution, a resume, the bootup
  exec,        \* the execution it runs
  reserved,    \* calls whose ConcurrencyCapacityReservation is acquired
  active,      \* ActiveExecutions.activeExecutions: the call registered per id
  status,      \* the status field of a call's registered entry
  attached,    \* entries with a workflowExecution
  canceled,    \* workflow executions that were cancelled (signal aborted)
  cancelSave,  \* those whose onCancel hook has not yet saved
  waits,       \* runs that set runExecutionData.waitTill
  db,          \* the status column of each row
  stop,        \* progress of ExecutionService.stop, per execution
  down,        \* ActiveExecutions.shutdown has begun
  bootList,    \* rows runEnqueuedExecutions still has to start
  restarts

runVars == <<pc, kind, exec, reserved>>
entryVars == <<active, status, attached, canceled, cancelSave, waits>>
hostVars == <<stop, down, bootList, restarts>>
vars == <<controlVars, runVars, entryVars, db, hostVars>>

-----------------------------------------------------------------------------
Pc == {"idle", "created", "restart", "queued", "reserved", "marked", "added",
       "starting", "executing", "orphan", "saved", "erring", "done",
       "refused", "failed", "hung", "dead"}

DbStatus == {"none", "new", "running", "waiting", "success", "error",
             "canceled", "crashed"}

ModeOfRun(r) == ModeOf[exec[r]]

\* Calls that hold capacity of queue q.
Holders(q) == {r \in reserved : GetQueue(ModeOfRun(r)) = q}

\* Calls that were stopped while they waited in queue q.
StoppedWaiting(q) == {r \in Run : pc[r] = "hung" /\ GetQueue(ModeOfRun(r)) = q}

\* A call that has the execution to itself: past the database write that
\* marks the row running, until it saves the result.
Owns(r) == pc[r] \in {"marked", "added", "starting", "executing", "orphan"}

Init ==
  /\ ControlBoot(isEnabled, queues, evalQueueResolved, capacity, queue)
  /\ pc = [r \in Run |-> "idle"]
  /\ kind = [r \in Run |-> "new"]
  /\ exec = [r \in Run |-> NoExec]
  /\ reserved = {}
  /\ active = [e \in Exec |-> NoRun]
  /\ status = [r \in Run |-> "running"]
  /\ attached = {}
  /\ canceled = {}
  /\ cancelSave = {}
  /\ waits = {}
  /\ db = [e \in Exec |-> "none"]
  /\ stop = [e \in Exec |-> "idle"]
  /\ down = FALSE
  /\ bootList = {}
  /\ restarts = 0

-----------------------------------------------------------------------------
(* Starting a call of WorkflowRunner.run.                                   *)

\* Mutant of Begin: the execution id is not kept.
BeginWithoutId(r, e, k, at) ==
  /\ pc[r] = "idle"
  /\ pc' = [pc EXCEPT ![r] = at]
  /\ kind' = [kind EXCEPT ![r] = k]
  /\ UNCHANGED <<controlVars, exec, reserved, entryVars, stop, down, restarts>>

Begin(r, e, k, at) ==
  /\ pc[r] = "idle"
  /\ pc' = [pc EXCEPT ![r] = at]
  /\ kind' = [kind EXCEPT ![r] = k]
  /\ exec' = [exec EXCEPT ![r] = e]
  /\ UNCHANGED <<controlVars, reserved, entryVars, stop, down, restarts>>

\* add() without an id: executionPersistence.create writes a new row.
CreateExecution(r, e) ==
  /\ db[e] = "none"
  /\ Begin(r, e, "new", "created")
  /\ db' = [db EXCEPT ![e] = "new"]
  /\ UNCHANGED bootList

\* A resumer (wait tracker, waiting webhook, finished child) read the row as
\* waiting; its run() may come arbitrarily later.
ResumeExecution(r, e) ==
  /\ db[e] = "waiting"
  /\ Begin(r, e, "resume", "restart")
  /\ UNCHANGED <<db, bootList>>

\* Start.runEnqueuedExecutions: one unawaited run() per row found new.
RunEnqueuedExecution(r, e) ==
  /\ e \in bootList
  /\ Begin(r, e, "bootup", "restart")
  /\ bootList' = bootList \ {e}
  /\ UNCHANGED db

-----------------------------------------------------------------------------
(* ActiveExecutions.add.                                                    *)

\* capacityReservation.reserve: throttle, then note the reservation.
Reserve(r) ==
  /\ pc[r] \in {"created", "restart"}
  /\ Throttle(r, ModeOfRun(r))
  /\ IF EnqueueBlocks(ModeOfRun(r))
     THEN pc' = [pc EXCEPT ![r] = "queued"] /\ UNCHANGED reserved
     ELSE pc' = [pc EXCEPT ![r] = "reserved"] /\ reserved' = reserved \cup {r}
  /\ UNCHANGED <<kind, exec, entryVars, db, hostVars>>

\* A new row: setRunning, unconditional.
SetRunning(r) ==
  /\ pc[r] = "reserved" /\ kind[r] = "new"
  /\ db' = [db EXCEPT ![exec[r]] = "running"]
  /\ pc' = [pc EXCEPT ![r] = "marked"]
  /\ UNCHANGED <<controlVars, kind, exec, reserved, entryVars, hostVars>>

\* Mutant of ClaimsRow: requireStatus is too lenient.
ClaimsUnfinishedRow(r) == db[exec[r]] \in {"waiting", "running"}

\* Any other row: updateExistingExecution with requireStatus 'waiting'.
ClaimsRow(r) == db[exec[r]] = "waiting"

ResumeRow(r) ==
  /\ pc[r] = "reserved" /\ kind[r] # "new"
  /\ ClaimsRow(r)
  /\ db' = [db EXCEPT ![exec[r]] = "running"]
  /\ pc' = [pc EXCEPT ![r] = "marked"]
  /\ UNCHANGED <<controlVars, kind, exec, reserved, entryVars, hostVars>>

\* capacityReservation.release() of call r, which then stands at `at`; the
\* calls let go by resolveNext acquire their reservation.
ReleaseReservation(r, at) ==
  LET letGo == ReleasedBy(ModeOfRun(r)) IN
  /\ Release(ModeOfRun(r))
  /\ reserved' = (reserved \ {r}) \cup letGo
  /\ pc' = [x \in Run |-> IF x \in letGo THEN "reserved"
                          ELSE IF x = r THEN at ELSE pc[x]]

\* The row was not waiting: ExecutionAlreadyResumingError, capacity released.
RefuseResume(r) ==
  /\ pc[r] = "reserved" /\ kind[r] # "new"
  /\ ~ClaimsRow(r)
  /\ ReleaseReservation(r, "refused")
  /\ UNCHANGED <<kind, exec, entryVars, db, hostVars>>

\* The database call threw: the catch block releases and rethrows.
AddFails(r) ==
  /\ DbFaults
  /\ pc[r] = "reserved"
  /\ ReleaseReservation(r, "failed")
  /\ UNCHANGED <<kind, exec, entryVars, db, hostVars>>

\* The rest of add(), synchronous: the entry replaces the one of a waiting
\* execution, if any.
Register(r) ==
  /\ pc[r] = "marked"
  /\ active' = [active EXCEPT ![exec[r]] = r]
  /\ status' = [status EXCEPT ![r] = "running"]
  /\ pc' = [pc EXCEPT ![r] = "added"]
  /\ UNCHANGED <<controlVars, kind, exec, reserved, attached, canceled,
                 cancelSave, waits, db, hostVars>>

-----------------------------------------------------------------------------
(* Settling an entry's postExecutePromise.  Its finally callback releases   *)
(* the reservation of the call that registered the entry and, unless the    *)
(* entry is waiting, deletes whatever is registered under the id.           *)

\* The promise of the entry registered for e is still pending.
Pending(e) == active[e] # NoRun /\ active[e] \in reserved

\* Mutant of SettleEntry: the settled entry is not deleted.
SettleEntryKeeps(e, after) ==
  LET letGo == ReleasedBy(ModeOf[e])
  IN /\ Pending(e)
     /\ Release(ModeOf[e])
     /\ reserved' = (reserved \ {active[e]}) \cup letGo
     /\ pc' = [x \in Run |-> IF x \in letGo THEN "reserved" ELSE after[x]]
     /\ UNCHANGED active

\* Entry e settles; after says where the calls stand apart from those let go.
SettleEntry(e, after) ==
  LET p == active[e]
      letGo == ReleasedBy(ModeOf[e])
  IN /\ Pending(e)
     /\ Release(ModeOf[e])
     /\ reserved' = (reserved \ {p}) \cup letGo
     /\ pc' = [x \in Run |-> IF x \in letGo THEN "reserved" ELSE after[x]]
     /\ active' = IF status[p] = "waiting" THEN active
                  ELSE [active EXCEPT ![e] = NoRun]

\* finalizeExecution(e): no entry, or a promise already settled, changes nothing.
FinalizeExecution(e, after) ==
  \/ SettleEntry(e, after)
  \/ /\ ~Pending(e)
     /\ pc' = after
     /\ UNCHANGED <<controlVars, reserved, active>>

\* Mutant of StopEntry: every entry is treated like a waiting one.
StopEntryDeletes(e) ==
  /\ active' = [active EXCEPT ![e] = NoRun]
  /\ UNCHANGED <<controlVars, pc, reserved, canceled, cancelSave>>

\* stopExecution(e): a waiting entry is only deleted; any other has its
\* workflow cancelled and its promise rejected.
StopEntry(e) ==
  LET p == active[e]
      cancels == {p} \cap attached \cap {r \in Run : pc[r] \in {"executing", "saved"}}
  IN \/ /\ p = NoRun
        /\ UNCHANGED <<controlVars, pc, reserved, active, canceled, cancelSave>>
     \/ /\ p # NoRun /\ status[p] = "waiting"
        /\ active' = [active EXCEPT ![e] = NoRun]
        /\ UNCHANGED <<controlVars, pc, reserved, canceled, cancelSave>>
     \/ /\ p # NoRun /\ status[p] # "waiting"
        /\ canceled' = canceled \cup cancels
        /\ cancelSave' = cancelSave \cup cancels
        /\ FinalizeExecution(e, pc)

-----------------------------------------------------------------------------
(* The rest of WorkflowRunner.run and runMainProcess.                       *)

\* The context or the credentials check failed: failExecution saves the error,
\* then finalizes.
FailExecution(r) ==
  /\ pc[r] = "added"
  /\ db' = [db EXCEPT ![exec[r]] = "error"]
  /\ pc' = [pc EXCEPT ![r] = "saved"]
  /\ UNCHANGED <<controlVars, kind, exec, reserved, entryVars, hostVars>>

\* attachResponsePromise finds no entry: run() rejects.
AttachResponseFails(r) ==
  /\ pc[r] = "added"
  /\ active[exec[r]] = NoRun
  /\ pc' = [pc EXCEPT ![r] = "failed"]
  /\ UNCHANGED <<controlVars, kind, exec, reserved, entryVars, db, hostVars>>

\* runMainProcess marks the row running once more, unconditionally.
StartMainProcess(r) ==
  /\ pc[r] = "added"
  /\ db' = [db EXCEPT ![exec[r]] = "running"]
  /\ pc' = [pc EXCEPT ![r] = "starting"]
  /\ UNCHANGED <<controlVars, kind, exec, reserved, entryVars, hostVars>>

\* ... which is outside its try block, like the calls before it and the saves of
\* failExecution: an error leaves run() and nobody finalizes the entry.
StartMainProcessFails(r) ==
  /\ DbFaults
  /\ pc[r] = "added"
  /\ pc' = [pc EXCEPT ![r] = "failed"]
  /\ UNCHANGED <<controlVars, kind, exec, reserved, entryVars, db, hostVars>>

\* processRunExecutionData starts the workflow, attachWorkflowExecution hands
\* it to the entry.
Launch(r) ==
  /\ pc[r] = "starting"
  /\ active[exec[r]] # NoRun
  /\ attached' = attached \cup {r}
  /\ pc' = [pc EXCEPT ![r] = "executing"]
  /\ UNCHANGED <<controlVars, kind, exec, reserved, active, status, canceled,
                 cancelSave, waits, db, hostVars>>

\* The entry is gone: attaching throws ExecutionNotFoundError, processError
\* ignores it, and the workflow that was already started runs on its own.
LaunchDetached(r) ==
  /\ pc[r] = "starting"
  /\ active[exec[r]] = NoRun
  /\ pc' = [pc EXCEPT ![r] = "orphan"]
  /\ UNCHANGED <<controlVars, kind, exec, reserved, entryVars, db, hostVars>>

\* The workflow cannot be started (issues, missing node): processError
\* finalizes first and saves the error afterwards.
LaunchFails(r) ==
  /\ pc[r] = "starting"
  /\ FinalizeExecution(exec[r], [pc EXCEPT ![r] = "erring"])
  /\ UNCHANGED <<kind, exec, status, attached, canceled, cancelSave, waits, db,
                 hostVars>>

\* An unconditional save of the row's status, which may throw; whoever asked
\* for it carries on without.
Saves(e, st) ==
  \/ db' = [db EXCEPT ![e] = st]
  \/ DbFaults /\ UNCHANGED db

SaveError(r) ==
  /\ pc[r] = "erring"
  /\ Saves(exec[r], "error")
  /\ pc' = [pc EXCEPT ![r] = "done"]
  /\ UNCHANGED <<controlVars, kind, exec, reserved, entryVars, hostVars>>

\* putExecutionToWait: waitTill is set and the entry's status becomes waiting
\* while the node is still running.
PutToWait(r) ==
  /\ Waits
  /\ pc[r] = "executing" /\ r \notin waits
  /\ active[exec[r]] # NoRun
  /\ waits' = waits \cup {r}
  /\ status' = [status EXCEPT ![active[exec[r]]] = "waiting"]
  /\ UNCHANGED <<controlVars, runVars, active, attached, canceled, cancelSave,
                 db, hostVars>>

\* saveExecutionProgress after a node (requireNotFinished, requireNotCanceled).
SaveProgress(r) ==
  /\ pc[r] \in {"executing", "orphan"}
  /\ db[exec[r]] \notin {"success", "canceled"}
  /\ db' = [db EXCEPT ![exec[r]] = "running"]
  /\ UNCHANGED <<controlVars, runVars, entryVars, hostVars>>

\* The workflow ends with result o (canceled: it saw its own deadline pass):
\* the workflowExecuteAfter hooks save it, unconditionally, unless the run was
\* cancelled from outside (then onCancel saves).
FinishWorkflow(r, o) ==
  /\ pc[r] \in {"executing", "orphan"}
  /\ o \in IF r \in waits THEN {"waiting", "error"}
           ELSE {"success", "error", "canceled"}
  /\ IF r \in canceled THEN UNCHANGED db ELSE Saves(exec[r], o)
  /\ pc' = [pc EXCEPT ![r] = IF @ = "executing" THEN "saved" ELSE "done"]
  /\ UNCHANGED <<controlVars, kind, exec, reserved, entryVars, hostVars>>

\* Mutant of FinalizeRun: the result is not handed to the entry.
FinalizeRunSkipped(r) ==
  /\ pc[r] = "saved"
  /\ pc' = [pc EXCEPT ![r] = "done"]
  /\ UNCHANGED <<controlVars, kind, exec, reserved, entryVars, db, hostVars>>

\* The workflowExecution promise resolves: finalizeExecution by id.  The run's
\* WorkflowExecute is referenced no more.
FinalizeRun(r) ==
  /\ pc[r] = "saved"
  /\ FinalizeExecution(exec[r], [pc EXCEPT ![r] = "done"])
  /\ attached' = attached \ {r}
  /\ canceled' = canceled \ {r}
  /\ waits' = waits \ {r}
  /\ UNCHANGED <<kind, exec, status, cancelSave, db, hostVars>>

\* The onCancel handler's hooks save the row as canceled.
SaveCanceled(r) ==
  /\ r \in cancelSave
  /\ cancelSave' = cancelSave \ {r}
  /\ Saves(exec[r], "canceled")
  /\ UNCHANGED <<controlVars, runVars, active, status, attached, canceled,
                 waits, hostVars>>

\* The execution timeout, armed by Launch and cleared by FinalizeRun.
TimeoutRun(r) ==
  /\ pc[r] \in {"executing", "saved"} /\ r \in attached
  /\ StopEntry(exec[r])
  /\ UNCHANGED <<kind, exec, status, attached, waits, db, hostVars>>

-----------------------------------------------------------------------------
(* ExecutionService.stop in regular mode: read, act, write.                 *)

StopRead(e) ==
  /\ stop[e] = "idle"
  /\ db[e] \in {"new", "waiting", "running"}
  /\ stop' = [stop EXCEPT ![e] = "read"]
  /\ UNCHANGED <<controlVars, runVars, entryVars, db, down, bootList, restarts>>

\* concurrencyControl.has(e): execution e waits in some queue.
IsQueued(e) ==
  isEnabled /\ \E q \in queues : \E k \in 1 .. Len(queue[q]) : exec[queue[q][k]] = e

\* Still queued: the first item with this id is taken out of the queue of its
\* mode. The enqueue promise of that call never settles.
StopQueued(e) ==
  /\ stop[e] = "read"
  /\ IsQueued(e)
  /\ \E q \in queues : \E k \in 1 .. Len(queue[q]) :
       LET letGo == RemoveLetsGo(q, k)
       IN /\ q = GetQueue(ModeOf[e])
          /\ exec[queue[q][k]] = e
          /\ \A i \in 1 .. k - 1 : exec[queue[q][i]] # e
          /\ Remove(q, k)
          /\ reserved' = reserved \cup letGo
          /\ pc' = [x \in Run |-> IF x \in letGo THEN "reserved"
                                  ELSE IF x = queue[q][k] THEN "hung" ELSE pc[x]]
  /\ stop' = [stop EXCEPT ![e] = "write"]
  /\ UNCHANGED <<kind, exec, entryVars, db, down, bootList, restarts>>

StopActive(e) ==
  /\ stop[e] = "read"
  /\ ~IsQueued(e)
  /\ StopEntry(e)
  /\ stop' = [stop EXCEPT ![e] = "write"]
  /\ UNCHANGED <<kind, exec, status, attached, waits, db, down, bootList, restarts>>

\* stopBeforeRun and stopDuringRun: the row becomes canceled, unconditionally.
StopWrite(e) ==
  /\ stop[e] = "write"
  /\ Saves(e, "canceled")
  /\ stop' = [stop EXCEPT ![e] = "idle"]
  /\ UNCHANGED <<controlVars, runVars, entryVars, down, bootList, restarts>>

-----------------------------------------------------------------------------
(* Shutdown, crash and restart of the process.                              *)

\* shutdown(): throttling is switched off (removeAll then returns at once) and
\* waiting entries are dropped.
BeginShutdown ==
  /\ ~down
  /\ down' = TRUE
  /\ Disable
  /\ active' = [e \in Exec |->
                  IF active[e] # NoRun /\ status[active[e]] = "waiting"
                  THEN NoRun ELSE active[e]]
  /\ UNCHANGED <<runVars, status, attached, canceled, cancelSave, waits, db,
                 stop, bootList, restarts>>

\* The process comes up again: volatile state is gone, rows left running are
\* recovered as crashed, rows left new are listed for runEnqueuedExecutions.
Restart ==
  /\ restarts < MaxRestarts
  /\ restarts' = restarts + 1
  /\ ControlBoot(isEnabled', queues', evalQueueResolved', capacity', queue')
  /\ pc' = [r \in Run |-> IF pc[r] = "idle" THEN "idle" ELSE "dead"]
  /\ reserved' = {}
  /\ active' = [e \in Exec |-> NoRun]
  /\ attached' = {} /\ canceled' = {} /\ cancelSave' = {} /\ waits' = {}
  /\ db' = [e \in Exec |-> IF db[e] = "running" THEN "crashed" ELSE db[e]]
  /\ stop' = [e \in Exec |-> "idle"]
  /\ down' = FALSE
  /\ bootList' = {e \in Exec : db[e] = "new"}
  /\ kind' = [r \in Run |-> "new"]
  /\ exec' = [r \in Run |-> NoExec]
  /\ status' = [r \in Run |-> "running"]

\* The wait loop of shutdown() saw no active execution.
Exit == down /\ (\A e \in Exec : active[e] = NoRun) /\ Restart

\* A crash, or the force-shutdown timer.
Crash == Restart

-----------------------------------------------------------------------------
AddStep(r) ==
  Reserve(r) \/ SetRunning(r) \/ ResumeRow(r) \/ RefuseResume(r) \/ Register(r)

MainStep(r) ==
  \/ FailExecution(r) \/ StartMainProcess(r) \/ Launch(r) \/ LaunchDetached(r)
  \/ LaunchFails(r) \/ SaveError(r)
  \/ \E o \in {"success", "error", "waiting", "canceled"} : FinishWorkflow(r, o)
  \/ FinalizeRun(r) \/ SaveCanceled(r)

EnvStep(r) ==
  \/ \E e \in Exec : \/ CreateExecution(r, e)
                     \/ ResumeExecution(r, e)
                     \/ RunEnqueuedExecution(r, e)
  \/ AddFails(r) \/ AttachResponseFails(r) \/ StartMainProcessFails(r)
  \/ PutToWait(r) \/ SaveProgress(r) \/ TimeoutRun(r)

StopStep(e) == StopRead(e) \/ StopQueued(e) \/ StopActive(e) \/ StopWrite(e)

Next ==
  \/ \E r \in Run : AddStep(r) \/ MainStep(r) \/ EnvStep(r)
  \/ \E e \in Exec : StopStep(e)
  \/ BeginShutdown \/ Exit \/ Crash

Spec == Init /\ [][Next]_vars

\* What the event loop guarantees: a database call returns, a started workflow
\* ends, and the continuation of a settled promise runs.
FairSpec == Spec /\ \A r \in Run : WF_vars(AddStep(r)) /\ WF_vars(MainStep(r))

-----------------------------------------------------------------------------
(* Correctness properties.                                                  *)

\* Type invariant: every field keeps the shape the code gives it, and a call
\* that has begun knows its execution.
TypeOK ==
  /\ isEnabled \in BOOLEAN /\ evalQueueResolved \in BOOLEAN
  /\ queues \subseteq QueueType
  /\ capacity \in [QueueType -> Int]
  /\ queue \in [QueueType -> Seq(Run)]
  /\ pc \in [Run -> Pc]
  /\ kind \in [Run -> {"new", "resume", "bootup"}]
  /\ exec \in [Run -> Exec \cup {NoExec}]
  /\ \A r \in Run : pc[r] \notin {"idle", "dead"} => exec[r] \in Exec
  /\ reserved \subseteq Run
  /\ active \in [Exec -> Run \cup {NoRun}]
  /\ status \in [Run -> {"running", "waiting"}]
  /\ attached \subseteq Run /\ canceled \subseteq Run
  /\ cancelSave \subseteq Run /\ waits \subseteq Run
  /\ db \in [Exec -> DbStatus]
  /\ stop \in [Exec -> {"idle", "read", "write"}]
  /\ down \in BOOLEAN
  /\ bootList \subseteq Exec
  /\ restarts \in Nat

\* The capacity counter of a ConcurrencyQueue is exactly its limit minus the
\* calls that hold a reservation minus the calls that wait, whatever mixture of
\* stop, failure, timeout, resume and crash led here.
CapacityAccounting ==
  ~down => \A q \in queues :
    capacity[q] = Limit(q) - Cardinality(Holders(q)) - Len(queue[q])

\* resolveNext is never missed: a call waits in a queue only while the limit is
\* used up by calls that hold a reservation.
WorkConserving ==
  ~down => \A q \in queues :
    queue[q] # <<>> => Cardinality(Holders(q)) >= Limit(q)

\* An execution is run by one call at a time: the 'waiting' precondition of the
\* row update keeps a second resumer out, also when stop, timeout and restart
\* intervene.
SingleOwner ==
  \A r, s \in Run : Owns(r) /\ Owns(s) /\ exec[r] = exec[s] => r = s

\* Throttled executions are served first come, first served: a waiting call is
\* let go only together with, or after, those that came before it (unless they
\* were stopped), and a newcomer never passes a non-empty queue.
NoOvertaking ==
  [][~down /\ ~down' =>
      /\ \A q \in queues : \A i, j \in DOMAIN queue[q] :
           i < j /\ pc'[queue[q][j]] = "reserved"
             => pc'[queue[q][i]] \in {"reserved", "hung", "dead"}
      /\ \A r \in Run :
           /\ pc[r] \in {"created", "restart"} /\ pc'[r] = "reserved"
           /\ GetQueue(ModeOfRun(r)) \in queues
           => queue[GetQueue(ModeOfRun(r))] = <<>>]_vars

\* "throttled executions cannot resume during shutdown": once shutdown has
\* disabled the service, no waiting call is let go.
ShutdownHoldsBack ==
  [][down => \A r \in Run : pc[r] = "queued" => pc'[r] # "reserved"]_vars

\* No reservation is stranded: the call that holds it is still inside add(), or
\* it is on its way to settling the entry it registered.  (Without workflows
\* that wait and without database faults; see the README for what happens
\* with them.)
NoLostReservation ==
  \A r \in reserved :
    \/ pc[r] \in {"reserved", "marked"}
    \/ /\ active[exec[r]] = r
       /\ pc[r] \in {"added", "starting", "executing", "saved"}

\* Stopping a queued execution lets the next one run although no slot came free,
\* so the limit can be exceeded (RunningWithinLimit), but by no more than the
\* calls that were stopped while they waited.
OverrunBounded ==
  ~down => \A q \in queues :
    Cardinality(Holders(q)) <= Limit(q) + Cardinality(StoppedWaiting(q))

\* ThrottleService, as calls see it: the queues that exist, while no shutdown
\* has switched them off.
InForce(q) == q \in queues /\ ~down

Waiting == [q \in QueueType |-> IF InForce(q) THEN queue[q] ELSE <<>>]
Admitted == [q \in QueueType |-> IF InForce(q) THEN Holders(q) ELSE {}]

Service == INSTANCE ThrottleService WITH
  Call <- Run, Line <- QueueType, MaxConcurrent <- [q \in QueueType |-> Limit(q)],
  inForce <- ~down, waiting <- Waiting, admitted <- Admitted

\* The reservations of calls that start, are refused, fail, end, time out, are
\* stopped or displaced by a later call, and the lazily built evaluation queue,
\* add up to a throttle that admits, queues and hands over as promised.
ImplementsThrottleService == Service!Spec

\* A throttled execution gets its turn, is stopped, or the process shuts down.
QueuedIsServed ==
  \A r \in Run : pc[r] = "queued" ~> pc[r] # "queued" \/ down

\* Capacity that was taken is given back.
CapacityReturns ==
  \A r \in Run : r \in reserved ~> r \notin reserved

\* shutdown() does not wait for ever: the active executions drain.
ShutdownDrains ==
  down ~> ~down \/ \A e \in Exec : active[e] = NoRun

\* "Max production executions allowed to run concurrently"
\* (executions.config.ts): what the limit is documented to mean.
RunningWithinLimit ==
  ~down => \A q \in queues : Cardinality(Holders(q)) <= Limit(q)

\* Executions found enqueued at startup are run again
\* (Start.runEnqueuedExecutions), so add() does not turn them away.
BootupIsRun ==
  \A r \in Run : kind[r] = "bootup" => pc[r] # "refused"
=============================================================================

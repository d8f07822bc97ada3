# n8n: execution lifecycle, queue mode and task runners, in TLA+

TLA+ modules for the parts of n8n that decide *whether, when and how often* a
workflow execution or a Code-node task runs, and *where* a partial one begins:
the in-process concurrency throttle; the registry of active executions with
stopping, shutdown and crash recovery; the protocol between the task broker and
its runners; the election of a leader among mains with the timers of waiting
executions that follow it; queue mode with its workers and queue recovery; and
the graph algorithms that prepare a partial execution. TLC checks them on small
instances; TLAPS proves theorems about them for every value of the constants.
`PROJECT.json` lists the runs, the mutants that show each property can fail, the
map from definitions to source lines, the hazards, the findings and the
theorems.

To repeat a run: `tlc -workers 2 -config Lifecycle.cfg MCActiveExecutions`; to
repeat the proofs: `tlapm M.tla` with `M` each of `ActiveExecutionsProofs`,
`CapacityProofs`, `LifecycleProofs`, `TaskBrokerProofs`, `TaskOutcomesProofs`,
`ElectionProofs`, `ScalingProofs` and `PartialExecutionProofs`.

All paths below are under `src/packages/` unless they say otherwise.

## 1. Inventory

| Component | State it keeps | Operations | Talks to |
|---|---|---|---|
| Concurrency control (`cli/src/concurrency`) | per queue type a capacity counter and a FIFO of waiting calls; `isEnabled`; whether the lazy evaluation queue has been resolved | `throttle`, `release`, `remove`, `removeAll`, `disable`, `has` | called by the capacity reservation of each `run()`, by `ExecutionService.stop`, by shutdown |
| Active executions (`cli/src/active-executions.ts`) | map execution id to entry (status, workflow execution, `postExecutePromise`) | `add`, `attachWorkflowExecution`, `setStatus`, `stopExecution`, `finalizeExecution`, `shutdown` | concurrency control (reservation), the database, the workflow runner |
| Workflow runner (`cli/src/workflow-runner.ts`) | one async frame per `run()`, its timeout timer | `run`, `runMainProcess`, `failExecution`, `processError`, `enqueueExecution` | active executions, lifecycle hooks, the engine |
| Execution rows (`@n8n/db`, lifecycle hooks) | `status` column | create, `setRunning`, `updateExistingExecution` with preconditions, saves, cancels, crash marking | everybody |
| Stopping (`cli/src/executions/execution.service.ts`) | none across calls | `stop`: read, act on the process, write | rows, active executions, concurrency control |
| Start, shutdown, crash recovery (`cli/src/commands`, `cli/src/eventbus`) | none that survives a crash but the rows | `runEnqueuedExecutions`, graceful stop, force-exit timer, marking crashed rows | all of the above |
| Task broker (`cli/src/task-runners/task-broker`) | known runners, pending offers and requests, accept promises, task map with timers, `isDraining` | register/deregister, match and accept, time out, cancel, drain | requester (same process), runners (WebSocket) |
| Task requester (`cli/src/task-runners/task-managers`) | request and task promises | `startTask`, `taskReady`, `taskDone`, `taskError`, `requestExpired`, `cancelTasks` | broker |
| Task runner (`@n8n/task-runner`) | open offers, running tasks and their states, `canSendOffers`, `isShuttingDown` | offer, accept, receive settings, cancel, time out, finish, drain, stop | broker |
| Leader election (`cli/src/scaling/multi-main-setup.ee.ts`) | a Redis key with a TTL; `instanceSettings.instanceRole` | try to become leader, check, step down, shutdown | wait tracker, scheduled triggers, pruning |
| Wait tracker (`cli/src/wait-tracker.ts`) | timers per waiting execution | poll, start, stop | rows, workflow runner, leader election |
| Queue mode (`cli/src/scaling`) | Bull queue, `jobResults` of a main, `runningJobs` of a worker, the timer of queue recovery | enqueue, process, report, abort, stall, stop worker, recover | rows, active executions, leader election |
| Partial execution (`core/src/execution-engine/partial-execution-utils`) | none across calls: graph, run data, start nodes of one call | find trigger, subgraph and start nodes, handle cycles, clean run data, recreate the stack | the engine, which runs the stack |
| Workflow engine (`core/src/execution-engine`) | node stack, waiting inputs, run data | run nodes, retries, waits | the runner's hooks |
| Nodes, editor, controllers, AI packages | | | not considered: integrations, user interface, CRUD |

### What is hard, and what makes each part correct

* **Concurrency control.** The counter is changed on half a dozen paths (a
  call that is throttled, refused, fails, is stopped while queued, ends, times
  out). It is correct if the counter always equals limit minus holders minus
  waiters, nobody waits while capacity is free, the first to wait is the first
  to go, and nothing starts during shutdown.
* **Active executions and runner.** `add()` awaits three times; a stop, a
  timeout, a second resumer, a shutdown or a crash may come in at each. It is
  correct if an execution has one owner, every reservation comes back, and
  shutdown is not held up for ever.
* **Rows.** Two resumers read `waiting` and both try; only the row's
  precondition keeps the second out. After a crash, rows left `running` must
  not be taken for live ones, rows left `new` are to be run again.
* **Broker, requester, runner.** Every message may cross a timer: an accept
  and the 2 s accept timeout, a result and the task timeout, settings and the
  runner's own timeout, a disconnect and anything. It is correct if a runner's
  slots are never promised twice, one runner at a time is asked for a request,
  a request always settles, nobody waits for a task the broker has forgotten,
  and code is never executed for nobody's benefit without an abort on its way.
* **Leader election and wait tracker.** Check-then-act on a shared key with a
  TTL, commands that fail for their sender and are executed all the same, and
  timers that should exist on the leader. It is correct if two mains lead at
  once only after a lease has run out or a command has failed, such a split
  ends, a leader always emerges, and what waits is resumed in time.
* **Queue mode.** Main, worker, Redis and database each hold a part of the
  truth: a worker dies or loses its lock, a stop crosses the pick-up of the job,
  recovery compares two lists read at different moments. It is correct if one
  worker runs an execution at a time, a job in the queue is not taken for lost,
  what the queue has lost does not stay in progress, a main hears of a worker's
  death, and a waiting execution survives the end of its job.
* **Partial execution.** Graph algorithms over every shape a user can draw:
  loops, several inputs, disabled nodes and stale data. It is correct if
  bypassing disabled nodes keeps the ways, the subgraph loses nothing, the start
  nodes are the earliest that must run and begin their cycles, no node is fed
  data that is about to be replaced, and inputs are grouped completely.

The `hazards` of `PROJECT.json` name the lines.

## 2. Modules

```
ConcurrencyControl  <--EXTENDS-- ActiveExecutions <-- MCActiveExecutions
                                       ^------------- ActiveExecutionsProofs
                                                         <-- CapacityProofs <-- LifecycleProofs
ThrottleService     <--INSTANCE-- ActiveExecutions
TaskRunner          <--EXTENDS-- TaskBroker       <-- MCTaskBroker <------\
                                       ^------------- TaskOutcomes <-- MCTaskOutcomes
TaskService         <-------INSTANCE---------------------/
                        TaskBrokerProofs (of TaskBroker) <-- TaskOutcomesProofs (of TaskOutcomes)
LeaderElection      <--EXTENDS-- WaitTracker      <-- MCWaitTracker, ElectionProofs
BullQueue           <--EXTENDS-- ScalingQueue     <-- ScalingProofs
DirectedGraph       <--EXTENDS-- PartialExecution <-- MCPartialExecution, PartialExecutionProofs
```

### ConcurrencyControl

The throttle: `isEnabled`, `queues` (which `ConcurrencyQueue`s exist),
`evalQueueResolved`, and per queue type `capacity` and `queue`. The code's
queue holds execution ids with the resolve callback of the waiting call; the
model's holds the waiting call itself (a `Run`). The module has no next-state
relation of its own: its operators (`Throttle`, `Release`, `Remove`, `Disable`,
`EnsureEvalQueueResolved`) are what `ActiveExecutions` composes its actions
from, because in the code each of them runs inside the same synchronous step as
its caller's continuation. `-1` and anything below means unlimited; 0 is
refused by the constructor, hence `LimitsAssumption`. Mode `agent` is left out:
`getQueue` throws on it and no caller of `run()` passes it.

### ActiveExecutions

A `Run` is one call of `WorkflowRunner.run`, `pc` says between which two awaits
it stands:

| `pc` | the frame is |
|---|---|
| `created` / `restart` | in `add()`, its row written / an existing row to be resumed |
| `queued` | awaiting `throttle` |
| `reserved` | holding capacity, about to update the row |
| `marked` | the row is `running`, the entry not yet registered |
| `added` | registered; credentials check and response promise ahead |
| `starting` | in `runMainProcess` before the engine is started |
| `executing` / `orphan` | engine running, attached to the entry / with its entry gone |
| `saved` | result saved, `finalizeExecution` still to run |
| `erring` | finalized with an error that is still to be saved |
| `done`, `refused`, `failed` | over |
| `hung` | its queue item was removed by stop: the promise never settles |
| `dead` | belonged to a previous life of the process |

A step is what runs between two awaits together with the promise callbacks it
triggers, since Node drains those before the next I/O event. A database write
and what follows it are separate steps. `active` is the registry, `attached`,
`canceled`, `cancelSave` and `waits` what an entry's `WorkflowExecute` knows,
`db` the row's status, `stop` the progress of `ExecutionService.stop` (read,
act, write, with everybody else in between). `Restart` is what the next process
finds: volatile state gone, rows left `running` marked crashed, rows left `new`
listed for `runEnqueuedExecutions`.

Assumed: regular mode; save settings "save everything"; `shutdown()` without
`cancelAll` (`cli/src/commands/start.ts:116`, the only call). `removeAll` then
does nothing, because `disable` has run before it. `Waits` and `DbFaults`
switch in workflows that put themselves to wait, and database calls that throw.

### ThrottleService

What the throttle promises to the calls of `run()`, without counters, callbacks
or the ways in which a call ends: `Arrive` admits a call if nobody waits and a
slot is free and puts it in line otherwise, `Leave` hands a slot to the first in
line, `Withdraw` takes a stopped call out of the line and lets the next one in
(finding 1 is part of the promise as it stands), `Reset` is a shutdown or a
restart. `ActiveExecutions!Service` maps to it: the queues that exist, while
shutdown has not begun, with those who wait and those who hold a reservation.
So the refinement says that whichever of a dozen handlers settles an entry,
refuses a resume or stops a call, capacity moves in one of these four ways; that
the queue that `ensureEvalQueueResolved` builds late starts like one that was
always there; and that nobody is in line twice, or in line and admitted.

### TaskRunner and TaskBroker

`TaskRunner` is the runner's half and the channels. A runner's process connects
once (`link` off, up, gone; a runner that reconnects is a new `Runner`, as the
broker deregisters the old id). `toRunner` and `toBroker` are ordered streams,
lost when the connection goes, except that what a runner had sent may still
arrive. The broker makes one task id for each accepted offer and never
accepts an offer twice, so the task carries its offer's number.

`TaskBroker` is the broker with `LocalTaskRequester`, in one process: they call
each other directly and await only promises that such calls settle, so all that
lies between two WebSocket messages or timers is one step. For example a
runner's `taskaccepted` runs through `taskReady`, the requester's settings and
`sendTaskSettings`. For this reason the requester's 2 s timeout, its rejection of an
unknown task and the cancellation of a task that still waits for settings *at
the broker* cannot happen and are not actions. `accept` is the accept promise of an offer
(`acceptOffer`'s race of the runner's answer with a 2 s timer), `matched` the
request it was made for.

Data abstracted: task payloads, node types, RPC and data requests of a running
task (an execution of arbitrary length stands for them), heartbeats (a
disconnect at any time stands for them). Left open: which of several matching
offers is taken (requests go in order), when an offer's validity runs out. The
launcher is a separate program; what the broker sees of it is
`OfferDeferred`, after which the request is matched anew. The Python runner is not
modelled.

### TaskService and TaskOutcomes

`TaskService` is what a caller of `TaskRequester.startTask` may rely on: a call
has one outcome (done, failed, expired, cancelled) and keeps it, its code is
begun at most once, it has run when the outcome is a result, and it has not run
and never will when the call was told that no runner took it. So a caller may
try again after a `TaskRequestTimeoutError`, but not after a failure.

`TaskOutcomes` shows that `TaskBroker` implements it. It adds a history
variable, `executions`, which counts the tasks of a request that entered
`running` (`receivedSettings`), and maps the requester's `requested` and
`running` to the service's `pending`. `Executed` is allowed after a failure or a
cancellation, because settings that are already under way start the code before
the broker's abort, sent after them, arrives.

### LeaderElection and WaitTracker

`LeaderElection` is `MultiMainSetup` with `LeaderElectionClient` on every main,
over one Redis key. A command is sent (`wire`), executed, and answered
(`reply`) at three moments; `await` is what init or the check in progress waits
for (`leaderCheckInProgress` is `await # "none"`). A failed command (timeout,
lost connection) is an error for its sender at any moment of that path, so it
may have been executed, be executed later, or never. `KeyExpires` may happen at any time while
the holder lives, because between two of its steps any amount of time may pass;
such a *lapse* is counted and bounded. The key of a main that is gone expires
once its last commands have arrived. A main that starts again keeps its hostId,
as a container does (`core/src/instance-settings/instance-settings.ts:73`).
`proc` follows `commands/start.ts`: the leader check runs from `boot` on, the
wait tracker is initialised between `boot` and `ready`, the event handlers are
registered between `ready` and `up`. A SIGTERM before startup is over is
treated as a crash.

`WaitTracker` joins each step of the election with what the tracker does on the
event that step emits, if the handlers are registered. A poll is called, reads
the rows and sets timeouts at three moments; stop, stepdown and a resumer may
come in between. `leaked` is an interval whose handle was overwritten. Per main one
poll is under way at a time. Timeouts are numbered, because `clearTimeout` tells
them apart: `entries` holds the number of the timeout an entry knows, `timers`
the numbers that are armed. `StartExecution` is `startExecution` up to its first
await; it deletes the entry and clears nothing. It is called by a timeout
(`TimeoutFires`, which uses that timeout up) and by the completion of a
sub-workflow for its parent (`ChildCompletes`, `wait-tracker.ts:147-167` and
`webhook-helpers.ts:830-851`), whatever the parent is doing by then. The results
that a child writes into its parent's data are left out, and `MaxChildren`
bounds the completions per life of a main and parent. `RowMoves` is everybody
else who moves a row: waiting webhooks, other processes, the execution itself.

### BullQueue and ScalingQueue

`BullQueue` is the library's part (external, from how `cli/src/scaling` uses
it): a job waits, is active, completes, fails or is removed. Retries are off and
`maxStalledCount` is 0, so a job whose lock lapses fails and is never handed out
again.

`ScalingQueue` is queue mode. A call of `run()` makes at most one job, so calls
and jobs share their numbers, and an execution that waits and is resumed has
several. `call[c].step` stands between two awaits of `enqueueExecution`,
`proc[c].step` between two of `JobProcessor.processJob`, `call[c].stop` follows
the `onCancel` handler (`isActive`, then abort or remove), `stopping` is
`stopInScalingMode` before its write, `cancelSave` the engine's save of a
cancellation beside the run itself. `news` are the `job-finished` messages (one
per main), `abort` the `abort-job` messages, `results` the main's `jobResults`.
`recovery[m][k]` is a cycle of `scheduleQueueRecovery`: it reads the rows, reads
the queue, and writes by id at three moments. A stepdown clears the timer kept
in `handle`, not a cycle under way, so a takeover may add a second cycle; a
takeover that would add a third waits (the bound is `Cycle`).

What a cycle reads is a batch: `Batches` are the sets of `BatchSize` rows in
progress such that no row left out was started later than one taken (`started`
is the order of `startedAt`, which `setRunning` sets once). Rows without a
`startedAt` come first on Postgres and last on SQLite and MySQL, which
`NullsFirst` chooses. `Elsewhere` are executions of mains and workers that are
not modelled: their rows come into progress and leave it, and their jobs are in
the queue as long; all they do here is take places in a batch.

Rows are written by id without a precondition, as the code does, and a write to
a deleted row does nothing. `SaveSuccess`, `SaveError` and `MinimizeFetching`
are the settings that decide which rows the main deletes and from what it
derives a run's status. Whether a job that stalls still has a process tells a
dead worker from a blocked one; the latter goes on, and its report is ignored.

Who leads is left open: `Takeover` and `Stepdown` are free, since
`LeaderElection` says which changes are possible and the recovery must do with
any. A single main with queue mode leads from its start; that is a `Takeover`
at once. Not modelled: offloaded manual executions, MCP, webhook processors,
responses, metrics, a main's graceful shutdown (a crash stands for it).

### DirectedGraph and PartialExecution

`DirectedGraph` is the class of that name as operators over records of
sequences: the order of nodes and connections is kept, because the code's maps
keep it and the walks depend on it. `getStronglyConnectedComponents` is
translated with its stack and low links. Disabled self-loops leave dangling
connections behind, as in the code, on which an assertion fails later.

`PartialExecution` is `runPartialWorkflow2` up to the point where the engine
starts, one action per numbered step of the code. Of a node's run data the
model keeps whether there is any, whether it holds an error, and which outputs
carried items in any and in the last run: that is what the steps ask. The
assertions and `UserError`s of the steps lead to stage `failed`. Left open:
which of several equally good triggers is taken. `AddSubNodes` adds the
connections of sub-nodes in the graph's order, the code in the order of a walk
over parents (`find-subgraph.ts:106-117`); no property depends on it. Not modelled: `rewireGraph` for
tools, run indexes, the items themselves.

A recursive function of the code is a recursive function over its calls:
`follow[call]` of `getStronglyConnectedComponents` and `find[call]` of
`findSubgraph` and `findStartNodes` are the answers to calls, and
`FollowNode(g, call, follow)`, `FindSubgraphRecursive(g, call, find)` and
`FindStartNodesRecursive(g, call, find)` say what one call does with the answers
to others. A loop that builds something is a function on `0 .. N`. So the same
definitions are run by TLC and reasoned about by TLAPS.

`MCPartialExecution` makes the inputs: all graphs of four nodes in which a node
has at most two children, the last node has two inputs and may lead back, with
six ways to mark nodes as disabled, pinned, dirty or sub-nodes and up to five
kinds of run data for each node.

## 3. Runs

| Run | Instance | Shows |
|---|---|---|
| `lifecycle` | 3 calls, 2 executions, limit 1, waits, database faults, 1 restart; symmetry over calls and over executions (safety and step properties only, no liveness) | `TypeOK`, `CapacityAccounting`, `WorkConserving`, `SingleOwner`, `OverrunBounded`, `NoOvertaking`, `ShutdownHoldsBack`, and the refinement `ImplementsThrottleService` |
| `lifecycle_live` | 2 calls, 2 executions, limit 1, no waits, no faults, no restart, no symmetry | `QueuedIsServed`, `CapacityReturns`, `ShutdownDrains`, `NoLostReservation` |
| `limit_exceeded` | 3 calls, 3 executions | finding 1 |
| `broker` | a runner and a launcher, 1 slot, 2 offers, 2 requests, external mode | `TypeOK`, `NotOvercommitted`, `RequesterNotAbandoned`, `OneAttempt`, `SettingsWhenWaiting`, `NoZombie`, and the refinement `ImplementsTaskService` |
| `broker_live` | a runner, 2 offers, 2 requests, internal mode | `RequestSettles`, `SlotFreed`, `DrainCompletes` |
| `election` | 2 mains, 3 starts, 1 failed command, 1 lapse | `OneLeader`, `SplitBrainEnds`, `LeaderEmerges` |
| `wait_tracker` | 1 main, 2 starts, 1 failed command, 1 lapse, 1 execution with 1 sub-workflow per start | `TypeOK`, `OnlyChildrenLoseTimeouts`, `WaitingIsResumed` |
| `scaling` | 1 main, 1 worker with 2 slots, 1 execution, 2 calls, 1 fault or stop | `TypeOK`, `SingleRunner`, `RecoverySparesQueued` |
| `scaling_live` | the same with 1 call, one more execution elsewhere, batches of 1, recovery queries that may fail any number of times | `DanglingIsSettled`, `CrashIsNoticed` |
| `waiting_deleted` | 1 call, no fault | finding 2 |
| `partial` | all graphs of `MCPartialExecution`, 123 984 inputs | `BypassKeepsWays`, `NoDisabledNodes`, `SubgraphComplete`, `StartNodesAreEarliest`, `ComponentsAreConnected`, `SourcesAreFresh`, `GroupsAreGreedy` |
| `cycle_missed` | 5 nodes, two loops that share a node | finding 3 |

Why these bounds are enough to be interesting: with limit 1, three calls give
one holder and two waiters, the least in which order in the queue, removal from
its middle, and a wakeup that goes to the wrong call can be told apart; two
calls for one of two executions is the double resume; one restart leaves rows
of a dead process to a new one. A call that has saved its result still holds its
slot while the same execution is resumed behind another one, so that a stop in
the queue makes two holders of one slot. The queue that is built late is not in
these bounds; the proofs cover it. In the broker, two offers and two requests
allow an offer to expire or be rejected and the request to be matched again
with another, a request to pass another, and a late answer to a first attempt
to arrive during the second. A runner with a single slot has a second offer
only once the first is settled or stale, which is where overcommitment would
start. Liveness runs are smaller, without symmetry.

In the election two mains with three starts give a leader that dies, restarts
under its id and meets a second main; one lapse and one failed command, alone
or combined, give every way to two leaders. The tracker needs one main only,
since its state is per main: a failed claim after a lapse makes it step down
and take over again. One completed sub-workflow per start is enough to lose a
timeout and to have a second one armed beside it.

In queue mode one execution with two calls is the least in which an execution
waits, is resumed, and meets its former job: the second job can be picked while
the first is still reporting, by the other slot of the same worker (slots of one
worker interleave like two workers, and restarts are free). `MaxEvents` bounds
what goes wrong (failures, stalls of a live job, crashes, stops, stepdowns,
worker shutdowns). Recovery cycles and the failures of their queries, node
outcomes, takeovers and starts are not counted. In `scaling_live` one execution
is followed and another one, elsewhere, can fill the batch at any time before or
after it, for a while or for good. `NullsFirst` is `TRUE` there, so a row that was
never started is read first; the properties also hold with `FALSE`.

Four nodes with two children each give chains, diamonds, joins on two inputs,
loops of two and three nodes, nested loops and loops through the destination.
The reference definitions are not walks but sets: reachability and a counting
of connections. `SubgraphComplete` says that no way is lost, not that nothing
else is kept, and `GroupsAreGreedy` not that there are as few groups as could
be: with a gap in the inputs the code makes two where one would do.
`ComponentsAreConnected` says that what is returned as
a component is connected; that components can be missing is finding 3, which
takes five nodes.

Every cfg has `CHECK_DEADLOCK FALSE`: offers, requests, calls and restarts are
finite in the models, so they come to an end where the programs would go on
with new ones; a partial execution ends when its stack is ready.

### Fairness

`ActiveExecutions!FairSpec`: the steps of `add()` and of the main process are
weakly fair. That is what an event loop guarantees, plus two things about the
environment: database calls return, and workflows end (`FinishWorkflow`).
Nothing is assumed of users (stop), of timers, of shutdown.

`TaskBroker!FairSpec`: messages on a live connection arrive, the broker notices
a closed connection, its timers and the runner's task timers fire, and a task
that was *aborted* ends (`js-task-runner.ts` races the code against the abort
signal). Nothing is assumed of task code that has not been aborted, which may run for ever,
and nothing of offers: a runner need not make any.

`LeaderElection!ElectionSpec` and `WaitTracker!FairSpec`: Redis executes what
it has received and drops the key of a dead main, answers arrive, the check
interval and the poll interval tick, timeouts fire, database calls return.
Failures and lapses are finitely many; nothing is assumed of starts, exits,
users or other resumers.

`ScalingQueue!FairSpec`: what a main or a worker has begun goes on (database and
Redis calls return, messages arrive), Bull finds the locks of processes that are
gone, recovery timers fire, and a stop writes its row. Nothing is assumed of the
nodes of a workflow, which may run for ever, of workers picking jobs, of users,
of leadership, or of starts. So `DanglingIsSettled` has to allow for a time
without a leader, and `CrashIsNoticed` for one without workers, as it is workers
that look for stalled jobs. The recovery's second read and its write are
strongly fair: such a query may fail any number of times, but not for ever.
`DanglingIsSettled` also allows for executions that are `Outside`: at some time
a whole batch of others in progress may come before them. That is a gap of the
code and not of the model; section 5 tells how to see it.

## 4. Proofs

Every safety property that a run checks is also proved for all values of the
constants: type correctness, the safety invariants, the action properties and
the two refinements. Each property below was first checked by TLC on the bounds
of its run.

| Theorem | States | Module |
|---|---|---|
| `TypeCorrect` | `TypeOK` of `ActiveExecutions` | `ActiveExecutionsProofs` |
| `CapacityIsAccounted`, `NobodyWaitsForNothing` | `CapacityAccounting`, `WorkConserving` | `CapacityProofs` |
| `SingleOwnerAlways`, `NobodyOvertakes` | `SingleOwner`, `NoOvertaking` | `LifecycleProofs` |
| `ShutdownAlwaysHoldsBack` | `ShutdownHoldsBack`, if `EvalDecidedAtBoot` | `LifecycleProofs` |
| `NoReservationLost` | `NoLostReservation`, if `Calm` | `LifecycleProofs` |
| `LimitOverrunBounded`, `ThrottleKeepsPromise` | `OverrunBounded`, `ImplementsThrottleService` | `LifecycleProofs` |
| `BrokerTypeCorrect`, `NeverOvercommitted`, `RequesterNeverAbandoned`, `OneAttemptAlways`, `SettingsAlwaysAwaited`, `NoZombieEver` | the six invariants of `broker` | `TaskBrokerProofs` |
| `StartTaskKeepsPromise` | `ImplementsTaskService` | `TaskOutcomesProofs` |
| `OneLeaderAlways`, `OneLeaderWhileTracking` | `OneLeader`, of the election and with the tracker | `ElectionProofs` |
| `TrackerTypeCorrect`, `OnlyChildrenEverLoseTimeouts` | `TypeOK`, `OnlyChildrenLoseTimeouts` | `ElectionProofs` |
| `ScalingTypeCorrect`, `SingleRunnerAlways`, `RecoveryAlwaysSparesQueued` | `TypeOK`, `SingleRunner`, `RecoverySparesQueued` | `ScalingProofs` |
| `DisabledNodesArePassed`, `StackHasNoDisabledNodes` | `BypassKeepsWays`, `NoDisabledNodes` | `PartialExecutionProofs` |
| `NoWayIsLost`, `StartNodesAreTheEarliest` | `SubgraphComplete`, `StartNodesAreEarliest` | `PartialExecutionProofs` |
| `ComponentsAreAlwaysConnected` | `ComponentsAreConnected` | `PartialExecutionProofs` |
| `SourcesFresh`, `SourcesAreUsedGreedily` | `SourcesAreFresh`, `GroupsAreGreedy` | `PartialExecutionProofs` |

### Regular mode

`ActiveExecutionsProofs`. `TypeOK` alone is
not inductive: to see that a call let go by `resolveNext` knows its execution
one has to know that the calls in a queue are calls that wait. The inductive
invariant adds that (`QueueInv`: the calls in a queue are distinct, stand at
`queued`, and are throttled by that queue) and the shape of the rest
(`BaseInv`). One lemma per operation of the queue says what it does to it.

`CapacityProofs`. The books balance only
as long as the two ways of counting agree, so the invariant `CapacityInv` also
says: which positions of a call hold a reservation (`ReservedInv`), that a
pending entry belongs to a call for that execution (`ActiveInv`), so that
settling it by *id* releases the capacity of the right queue, that nothing is
counted for an evaluation queue that has not been decided
(`EvalInv`), that the service is enabled when a queue exists and shutdown has
not begun (`EnabledInv`), and the two equations themselves (`Books`).

`LifecycleProofs` has six results on top of these.

* *One owner.* `setRunning` does not look at the row, so the call of a new row
  has a claim on it before it owns it. `OwnerInv` says that an execution has one
  claim, owners included, and that a claimed row reads neither `none` nor
  `waiting`. The two ways to a new claim, creating a row and the conditional
  update, start from exactly these two.
* *First come, first served.* `WhoIsGranted` lists who can get a reservation in a
  step: a newcomer, the head of a queue, or the second if the head is stopped in
  that step. A newcomer finds the queue empty because the books balance.
* *Shutdown.* With the same lemma, nobody is let go unless throttling is on or is
  switched on by the lazy evaluation queue. `EvalDecidedAtBoot` (the evaluation
  limit is set in the environment, or the licence sets none) excludes the
  latter; without it the property is false (section 5).
* *No lost reservation.* `Calm` is the scope of the run: no workflow waits, no
  database call throws; outside it the property is false (section 5). `KeepInv`
  adds that a row is new once and so has one call that gets past its reservation
  (`OneFresh`, `OthersStay`): registering an entry then displaces nobody who
  still needs one. Unlike the books it also covers the time after shutdown began.
* *The overrun, and the throttle.* Both are inductive relative to `BaseInv` and
  `CapacityInv`. The handlers come down to three operations on a queue, each with
  a lemma: `ServiceReserve` (the counter blocks a call exactly when somebody
  waits or the slots are taken, because the books balance), `ServiceRelease`
  (whoever settles an entry gives back the slot of the call that registered it,
  by `ActiveInv`) and `ServiceRemove` (one holder more, one stopped call more).
  All other steps are `ServiceIdle` or a reset.

### Task protocol

`TaskBrokerProofs`. The invariants speak of one end of the protocol and are kept
by the other, through channels. `BrokerInv` follows one offer through its life
(`OfferLife`): its messages travel on one connection (`Addressed`), it is
accepted once (`Fresh`), its settings are sent once and after the answer
(`SettingsOnce`), and a task the broker gave up is over or has its cancellation
*behind* its settings in the channel (`Spent`), which is what `NoZombie` needs.
`LinkInv` says what a lost connection leaves. The lemmas the module begins with
say what a step leaves of a channel's messages and of their order. A handler brings
at most a few offers further; all others it treats as `Routine`, which keeps
`OfferLife` by one lemma.

`TaskOutcomesProofs`. The refinement: initial states map to initial states and
every step to a step of `TaskService` or a stutter. `ExecInv` relates the history
variable to the protocol: settings on their way are the first of their call,
a call no runner has the settings of has begun nothing, a result was computed.
Most steps are `Silent`: they begin nothing, send no settings, invent no result.

### Election, wait tracker, queue mode

`ElectionProofs`. The key makes `OneLeader` true: a main that leads, that has an
unread answer telling it to lead, or whose `DEL` is on its way holds the key
(`KeyInv`, as long as no lease ran out and no command failed, which is what
`OneLeader` is about). Without the `DEL` in it, a late `DEL` of a former leader
could remove the key of a new one. `ProcessInv` says which phase of a process
can wait for what. `TrackerInv` adds the tracker's types; its steps leave the
election's variables alone, so the election's invariant carries over.
`OnlyChildrenLoseTimeouts` is inductive given these types: the lemmas say what a
step does to the armed timeouts that no entry holds. Clearing or firing makes
them fewer, also where the entry goes with its timeout; a poll adds a timeout
together with its entry, and only for executions without one; the completion
of a sub-workflow takes an entry away and makes them one more.

`ScalingProofs`. `RightInv`: the right to run an execution is in one place, in
its row when that is to be created or resumed, or in one call, from `add()` to
the last save of the worker. `JobInv` ties calls, jobs and processing together;
`SeenInv` says that what a recovery cycle has seen in the queue was a job.
`StartedInv` needs `JobInv`: only calls with an execution get as far as a worker.

### Partial execution

`PartialExecutionProofs`. The states of this system are few; what has to be shown
is what its algorithms return for every graph, run data and destination.

*Loops and recursion.* The library's induction theorems take an operator as a
parameter, so the module states what it needs with sets and functions: `UpTo`
(a set with 0 and with the successor of each of its elements has all of
`0 .. N`), `Recursion` (a loop of `N` steps has a result), and `Answers` (a
recursive function has one if each call asks only calls that a measure below a
bound puts before it). Whether a `CHOOSE` of the model denotes what the code
computes is thus proved and not assumed: the measures are the nodes a branch has
not yet visited, for `findSubgraph` and `findStartNodes`, and the nodes without
an id, for `followNode`. That the latter decreases needs its answer first (a
call takes no id away), so existence and the decrease are shown together
(`FollowExists`).

*Reachability.* `getChildren` goes one connection further in each round;
`ChildrenAreReached` shows, by counting, that as many rounds as there are
connections close the set, and that it is the least closed one. All that
follows uses only this.

* *Disabled nodes.* Removing a node joins each of its parents to each of its
  children (`RemovedNodeIsPassed`), so a closed set stays closed both ways
  (`RemovalKeepsWays`). No disabled node comes back, by whatever is added to the
  subgraph later (`GraphType`, which also says that the ends of connections are
  nodes and that no connection is there twice).
* *Subgraph.* The walk goes up from the destination. A call at a node the
  trigger leads to keeps its branch (`BranchKept`), and there is a set of nodes,
  with its own among them, that holds what lies before its nodes, except before
  those its branch has visited, and into which no connection is missing
  (`BehindKept`). The first call has an empty branch, so its set is closed and
  holds every way from the trigger (`AllFound`).
* *Start nodes.* The same argument downwards, along connections that carry data
  and not from a node that has to run (`AllStartsFound`); and nothing else is
  added (`StartsAdded`).
* *Components.* `Sane`: ids are distinct, the low link of a node is the id of a
  node it leads to and no larger than its own, what is on the stack has an id.
  A call only puts nodes on the stack that its node leads to (`Stacked`). When
  it completes a component at node `n`, the nodes below `n` have lower ids and
  therefore lower low links, so popping stops at the latest above them; the
  nodes it pops are led to by `n`, and lead to `n` because their low link is
  the id of `n` (`LeftSane`). Nothing in this depends on low links being minimal,
  and they are not (finding 3).
* *Sources.* `Cleaned`: what the steps delete, the data of dirty nodes, of start
  nodes and of all below them, stays deleted until the stack is made, and a
  source on the stack has data.
* *Groups.* The loop keeps `Grouped`, and its count of the connections that are
  `Left` decreases, so it ends with each used once.

### Assumptions, and what is not proved

The theorems use the `ASSUME`s of their modules: `LimitsAssumption` (the
constructor rejects 0), `ExecAssumption` (types, `Run` finite),
`RunnerAssumption`, `BrokerAssumption`, `ElectionAssumption`,
`TrackerAssumption`, `BullAssumption`, `ScalingAssumption`, `PartialAssumption` (types of the
constants, finitely many nodes, and the bounds' being numbers). The bounds of the models (restarts, offers, requests, calls,
starts, faults, events) are constants like the others, so the theorems hold for
every bound.

Only model-checked: liveness (`QueuedIsServed`, `CapacityReturns`,
`ShutdownDrains`, `RequestSettles`, `SlotFreed`, `DrainCompletes`,
`SplitBrainEnds`, `LeaderEmerges`, `WaitingIsResumed`, `DanglingIsSettled`,
`CrashIsNoticed`), as fairness and `ENABLED` are out of the prover's reach.
`CyclesFromTheirStart` is not proved because it is false (finding 3).

## 5. Findings

1. **Stopping a queued execution starts one too many** (`limit_exceeded`).
   `ConcurrencyQueue.remove` gives back the unit the removed item had taken, which
   is right, and then calls `resolveNext`, although no slot came free. With
   limit 1, one running and two queued executions, stopping the first queued
   one leaves two running. `CapacityAccounting` holds throughout, the counter is
   honest about it (-1 with an empty queue). The limit is exceeded by no more
   than the calls that were stopped while they waited (`OverrunBounded`, proved
   for every limit and number of calls).
2. **A waiting execution is deleted in queue mode** (`waiting_deleted`). The
   worker's `job-finished` message carries `waitTill`, and the main reads it when
   it derives the run from the message (`N8N_MINIMIZE_EXECUTION_DATA_FETCHING`),
   but the listener in between (`cli/src/scaling/scaling.service.ts:373-382`)
   does not copy it. The execution counts as successful, and if successful
   executions are not saved, the main deletes its row. It takes no fault: one
   execution that waits is enough.
3. **Some cycles are not found** (`cycle_missed`).
   `getStronglyConnectedComponents` pops nodes only while their low link equals
   the first node's id. In a component of two loops that share a node, low links
   differ: with connections 1-2, 2-3, 3-4, 3-2, 4-3, 4-5 the component {2, 3, 4}
   is never returned, and start node 3 stays in the middle of its cycle.

### Divergences without a run of their own

Each is a property of a module that fails, or an interleaving the model shows.

* **Executions found enqueued at startup are refused.** `runEnqueuedExecutions`
  passes rows of status `new` to `run()` with their id, and `add()` resumes only
  rows that are `waiting` (`cli/src/active-executions.ts:114`). Repeat it:
  `Lifecycle.cfg` with `INVARIANT BootupIsRun` alone.
* **Stopping an execution that is about to wait loses capacity.**
  `putExecutionToWait` sets the entry's status while the node still runs; stop
  or timeout then deletes the entry, and nobody settles the promise that would
  release the reservation (`cli/src/active-executions.ts:212`). Repeat it:
  `LifecycleLive.cfg` with `Waits = TRUE` and `INVARIANT NoLostReservation` alone.
* **A lazily resolved evaluation queue re-enables throttling during shutdown**
  (`cli/src/concurrency/concurrency-control.service.ts:127`). Repeat it:
  `Lifecycle.cfg` with `ModeOf <- MCMixed`, `EvaluationLimit <- MCUnlimited`,
  no symmetry and `PROPERTY ShutdownHoldsBack` alone. In `lifecycle`, where the
  limit is set from the start, the property holds.
* **Timeouts of waiting executions are lost in a leadership change.**
  `stopTracking` clears the timeouts and keeps the entries; after the next
  takeover polls skip executions that have an entry
  (`cli/src/wait-tracker.ts:76`, `176`). Repeat it: `WaitTracker.cfg` with
  `INVARIANT EntriesHaveTimers` alone. `WaitingIsResumed` therefore speaks of the
  time before any lapse or failure.
* **A sub-workflow that completes can leave its parent's timeout behind.**
  `startExecution` deletes the entry of the execution without clearing its
  timeout (`cli/src/wait-tracker.ts:99`), which is right when that timeout has
  just fired. It is also called for the parent of a sub-workflow that completes
  (`:165`). With "run once for each item" one child resumes the parent, the
  parent reaches a Wait of its own and gets a timeout, and another child
  completes: the timeout stays armed, stop and stepdown cannot find it, and it
  resumes the parent from a later wait too early if there is one by then. Repeat
  it: `WaitTracker.cfg` with `INVARIANT TimersHaveEntries` alone.
  `OnlyChildrenLoseTimeouts` is what does hold.
* **A takeover during startup reaches nobody.** The leader check runs before the
  event handlers are registered (`cli/src/commands/start.ts:295`): a restarted
  container finds its own hostId in the key, takes over within seconds of
  `init`, and nothing starts the tracking. Repeat it: `WaitTracker.cfg` with two
  mains, no faults, no lapses and `INVARIANT LeaderTracks` alone.
* **Queue recovery can mark a finished execution as crashed.** Rows and queue
  are read at different moments and `markAsCrashed` writes by id
  (`cli/src/scaling/scaling.service.ts:605-634`): an execution whose job ends
  between the reads, or one that is enqueued late, is marked.
  `RecoverySparesQueued` is what does hold.
* **Queue recovery does not get past its batch.** `getInProgressExecutionIds`
  takes the most recently started rows (`execution.repository.ts:1182-1191`).
  A dangling execution behind `batchSize` younger ones in progress is not read;
  `recoverFromQueue` knows of it and comes back sooner
  (`scaling.service.ts:630-633`), but only if the cycle marked something, and
  then reads the same rows again unless those have ended. Repeat it:
  `ScalingLive.cfg` with `PROPERTY DanglingIsAlwaysSettled` alone.
  `DanglingIsSettled` is what does hold.
* **A cancelled or timed-out job leaves the main's entry.** `processError`
  returns on errors that say "cancelled" before it finalizes
  (`cli/src/workflow-runner.ts:107-113`).
* **An abort before registration is lost.** `JobProcessor.stopJob` returns when
  the job is not in `runningJobs` (`cli/src/scaling/job-processor.ts:430`).
* **A disabled node connected to itself** leaves a connection to a node that is
  gone, on which an assertion fails: the partial execution is refused.

Known to the code, and seen in the model: a task can be accepted for an
expired request (`task-broker.service.ts:598` logs it). The runner's slot stays
taken until its own task timeout; `SlotFreed` and `DrainCompletes` hold because
the runner then reports an error for the task. A main that shuts down clears
the leader key whoever holds it (`multi-main-setup.ee.ts:73`, a TODO); this
takes a lapse first, and `SplitBrainEnds` covers what follows.

## 6. Not modelled, and plan

Not modelled: nodes, editor, REST controllers, AI packages (no concurrent
control state of their own or third-party services); event bus contents;
response promises and streaming; in regular mode save settings other than "save
everything"; the engine's own loop over nodes; the parts of queue mode and
partial execution named with their modules. The repository is for the most part
integrations (`nodes-base`), user interface and AI packages, so the share of its
lines that is modelled stays small whatever is added here.

Next, in this order:

1. The engine's loop: node stack, waiting inputs, retries. It begins where
   `PartialExecution` ends, with the stack it is given.
2. What `rewireGraph` and run indexes add to partial execution.

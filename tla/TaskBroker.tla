------------------------------ MODULE TaskBroker ------------------------------
(***************************************************************************)
(* The broker's half of the task protocol and the requester that shares its*)
(* process (packages/cli/src/task-runners): TaskBroker, LocalTaskRequester *)
(* and the connection handling of TaskBrokerWsServer, joined to the runners*)
(* of TaskRunner.                                                          *)
(*                                                                         *)
(* Requester and broker call each other directly and only await promises   *)
(* that such calls settle, so everything between two WebSocket messages or *)
(* timers is one step: the runner's acceptance of a task, for instance,    *)
(* runs through taskReady and the requester's settings to sendTaskSettings.*)
(***************************************************************************)
EXTENDS TaskRunner

CONSTANTS
  MaxRequests,     \* bound on the calls of startTask
  TypeOfRequest,   \* the task type each request asks for
  TypeOfRunner,    \* the task type each runner offers
  InternalMode     \* taskRunnersConfig.mode = 'internal'

Request == 1 .. MaxRequests

ASSUME BrokerAssumption ==
  /\ MaxRequests \in Nat
  /\ DOMAIN TypeOfRequest = Request
  /\ DOMAIN TypeOfRunner = Runner
  /\ InternalMode \in BOOLEAN

VARIABLES
  knownRunners,
  pendingTaskOffers,
  pendingTaskRequests,  \* in the order of the requests' numbers
  acceptInProgress,     \* requests that carry this flag
  matched,              \* the request an acceptOffer call was made for
  accept,               \* the acceptPromise of that call
  tasks,                \* TaskBroker.tasks
  timed,                \* those whose settings were sent and timer started
  isDraining,
  request               \* where each call of TaskRequester.startTask stands

brokerVars == <<knownRunners, pendingTaskOffers, pendingTaskRequests,
                acceptInProgress, matched, accept, tasks, timed, isDraining,
                request>>
vars == <<runnerVars, brokerVars>>

-----------------------------------------------------------------------------
\* A call of startTask: not made, waiting for a task id, waiting for the
\* result, or settled.
Settled == {"done", "failed", "expired", "cancelled"}
RequestState == {"idle", "requested", "running"} \cup Settled

NoRequest == 0

TypeOfOffer(o) == TypeOfRunner[offeredBy[o]]

Init ==
  /\ RunnerInit
  /\ knownRunners = {}
  /\ pendingTaskOffers = {}
  /\ pendingTaskRequests = {}
  /\ acceptInProgress = {}
  /\ matched = [o \in Offer |-> NoRequest]
  /\ accept = [o \in Offer |-> "none"]
  /\ tasks = {}
  /\ timed = {}
  /\ isDraining = FALSE
  /\ request = [q \in Request |-> "idle"]

\* The same message to each runner of rs whose connection is open.
MessageRunners(rs, type, id) ==
  toRunner' = [r \in Runner |->
                 IF r \in rs \cap knownRunners /\ link[r] = "up"
                 THEN Append(toRunner[r], Msg(type, id)) ELSE toRunner[r]]

-----------------------------------------------------------------------------
(* settleTasks.                                                             *)

\* Mutant of Idle: the acceptInProgress flag is ignored.
IdleIgnoringProgress(requests) == requests

\* The requests the loop does not skip.
Idle(requests) == requests \ acceptInProgress

\* What the loop over the pending requests, first come first, may pair up: as
\* many as there are offers of the type asked for. (Which of several offers
\* of one type is taken makes no difference here.)
Matchings(offers, requests) ==
  {m \in [offers -> Idle(requests) \cup {NoRequest}] :
     /\ \A o, p \in offers : m[o] = m[p] /\ m[o] # NoRequest => o = p
     /\ \A o \in offers :
          m[o] # NoRequest =>
            /\ TypeOfOffer(o) = TypeOfRequest[m[o]]
            /\ \A q \in Idle(requests) :
                 q < m[o] /\ TypeOfRequest[q] = TypeOfRequest[m[o]]
                   => \E p \in offers : m[p] = q
     /\ \A o \in offers, q \in Idle(requests) :
          m[o] = NoRequest /\ TypeOfRequest[q] = TypeOfOffer(o)
            => \E p \in offers : m[p] = q}

\* The messages that ask a runner to take offers s, in the order of the requests
\* m gives them to.
AskMessages(s, m) ==
  [i \in 1 .. Cardinality(s) |->
     Msg("taskofferaccept",
         CHOOSE o \in s : Cardinality({p \in s : m[p] < m[o]}) = i - 1)]

\* settleTasks once the pending offers and requests are these: offers that
\* have expired are dropped, every pair found is taken off the offers and its
\* runner asked (the synchronous part of acceptOffer).
SettleTasks(offers, requests) ==
  \E expired \in SUBSET {o \in offers : offeredBy[o] \notin Launcher} :
    \E m \in Matchings(offers \ expired, requests) :
      LET taken == {o \in offers \ expired : m[o] # NoRequest}
          asked(r) == {o \in taken : offeredBy[o] = r /\ link[r] = "up"}
      IN /\ pendingTaskOffers' = (offers \ expired) \ taken
         /\ pendingTaskRequests' = requests
         /\ acceptInProgress' = acceptInProgress \cup {m[o] : o \in taken}
         /\ matched' = [o \in Offer |-> IF o \in taken THEN m[o] ELSE matched[o]]
         /\ accept' = [o \in Offer |-> IF o \in taken THEN "asking" ELSE accept[o]]
         /\ toRunner' = [r \in Runner |-> toRunner[r] \o AskMessages(asked(r), m)]

-----------------------------------------------------------------------------
(* TaskRequester and its messages to the broker.                            *)

\* startTask: requests are numbered as they come.
StartTask(q) ==
  /\ request[q] = "idle"
  /\ \A p \in Request : p < q => request[p] # "idle"
  /\ IF isDraining
     THEN /\ request' = [request EXCEPT ![q] = "expired"]
          /\ UNCHANGED <<pendingTaskOffers, pendingTaskRequests,
                         acceptInProgress, matched, accept, toRunner>>
     ELSE /\ request' = [request EXCEPT ![q] = "requested"]
          /\ SettleTasks(pendingTaskOffers, pendingTaskRequests \cup {q})
  /\ UNCHANGED <<link, canSendOffers, isShuttingDown, openOffers, offeredBy,
                 nextOffer, taskStatus, toBroker, knownRunners, tasks, timed,
                 isDraining>>

\* Mutant of HandleRequestTimeout: the requester is not told.
HandleRequestTimeoutSilent(q) ==
  /\ q \in pendingTaskRequests
  /\ pendingTaskRequests' = pendingTaskRequests \ {q}
  /\ UNCHANGED <<runnerVars, knownRunners, pendingTaskOffers, acceptInProgress,
                 matched, accept, tasks, timed, isDraining, request>>

\* Mutant of HandleRequestTimeout: the request stays in the queue.
HandleRequestTimeoutQueued(q) ==
  /\ q \in pendingTaskRequests
  /\ request' = [request EXCEPT ![q] = "expired"]
  /\ UNCHANGED <<runnerVars, knownRunners, pendingTaskOffers, pendingTaskRequests,
                 acceptInProgress, matched, accept, tasks, timed, isDraining>>

\* The request's timer: it leaves the queue and startTask rejects, whether or
\* not a runner is being asked at this moment.
HandleRequestTimeout(q) ==
  /\ q \in pendingTaskRequests
  /\ pendingTaskRequests' = pendingTaskRequests \ {q}
  /\ request' = [request EXCEPT ![q] = "expired"]
  /\ UNCHANGED <<runnerVars, knownRunners, pendingTaskOffers, acceptInProgress,
                 matched, accept, tasks, timed, isDraining>>

\* The execution is cancelled: cancelTask of requester and broker. A call that
\* still waits for a task id is not known to cancelTasks.
CancelTask(t) ==
  /\ t \in tasks
  /\ request[matched[t]] = "running"
  /\ request' = [request EXCEPT ![matched[t]] = "cancelled"]
  /\ tasks' = tasks \ {t}
  /\ timed' = timed \ {t}
  /\ MessageRunners({offeredBy[t]}, "taskcancel", t)
  /\ UNCHANGED <<link, canSendOffers, isShuttingDown, openOffers, offeredBy,
                 nextOffer, taskStatus, toBroker, knownRunners,
                 pendingTaskOffers, pendingTaskRequests, acceptInProgress,
                 matched, accept, isDraining>>

-----------------------------------------------------------------------------
(* Messages from the runners.                                               *)

\* The next message of runner r is of this type.
Next4Broker(r, type) ==
  /\ r \in knownRunners
  /\ toBroker[r] # <<>> /\ Head(toBroker[r]).type = type

Receive(r) ==
  /\ toBroker' = [toBroker EXCEPT ![r] = Tail(@)]
  /\ UNCHANGED <<link, canSendOffers, isShuttingDown, openOffers, offeredBy,
                 nextOffer, taskStatus>>

TaskOffered(r) ==
  /\ Next4Broker(r, "taskoffer")
  /\ Receive(r)
  /\ SettleTasks(pendingTaskOffers \cup {Head(toBroker[r]).id}, pendingTaskRequests)
  /\ UNCHANGED <<knownRunners, tasks, timed, isDraining, request>>

\* The answer to acceptOffer call o is in: the entry of runnerAcceptRejects
\* goes; it has an effect only if the call has not given up.
Answered(o) == accept' = [accept EXCEPT ![o] = "over"]

\* handleRunnerAccept. The call goes on: the task is registered, the request
\* leaves the queue and, if the requester still waits for it, its settings are
\* sent and the task's timer is started. If the request is gone from the
\* queue, the task stays registered and nothing else happens.
HandleRunnerAccept(r) ==
  LET t == Head(toBroker[r]).id
      q == matched[t]
      goesOn == accept[t] = "asking"
      ready == goesOn /\ q \in pendingTaskRequests
  IN /\ Next4Broker(r, "taskaccepted")
     /\ Receive(r)
     /\ Answered(t)
     /\ tasks' = IF goesOn THEN tasks \cup {t} ELSE tasks
     /\ IF ready
        THEN /\ pendingTaskRequests' = pendingTaskRequests \ {q}
             /\ request' = [request EXCEPT ![q] = "running"]
             /\ timed' = timed \cup {t}
             /\ MessageRunners({r}, "tasksettings", t)
        ELSE UNCHANGED <<pendingTaskRequests, request, timed, toRunner>>
     /\ UNCHANGED <<knownRunners, pendingTaskOffers, acceptInProgress, matched,
                    isDraining>>

\* handleRunnerReject, and handleRunnerDeferred, which also restarts the
\* request's timer: the request may be matched again.
HandleRunnerReject(r) ==
  LET t == Head(toBroker[r]).id
  IN /\ \/ Next4Broker(r, "taskrejected")
        \/ Next4Broker(r, "taskdeferred")
     /\ Receive(r)
     /\ Answered(t)
     /\ acceptInProgress' = IF accept[t] = "asking"
                            THEN acceptInProgress \ {matched[t]}
                            ELSE acceptInProgress
     /\ UNCHANGED <<toRunner, knownRunners, pendingTaskOffers,
                    pendingTaskRequests, matched, tasks, timed, isDraining,
                    request>>

\* The 2 s timer of acceptOffer. The entry of runnerAcceptRejects stays.
AcceptTimeout(o) ==
  /\ accept[o] = "asking"
  /\ accept' = [accept EXCEPT ![o] = "timedout"]
  /\ acceptInProgress' = acceptInProgress \ {matched[o]}
  /\ UNCHANGED <<runnerVars, knownRunners, pendingTaskOffers,
                 pendingTaskRequests, matched, tasks, timed, isDraining, request>>

\* Mutant of TaskEndsAs: the task is not deleted.
TaskEndsAsKeeps(ts, result) ==
  /\ UNCHANGED <<tasks, timed>>
  /\ request' = [q \in Request |->
                   IF request[q] = "running" /\ \E t \in ts \cap timed : matched[t] = q
                   THEN result ELSE request[q]]

\* Mutant of TaskEndsAs: the requester is not told.
TaskEndsAsSilent(ts, result) ==
  /\ tasks' = tasks \ ts
  /\ timed' = timed \ ts
  /\ UNCHANGED request

\* The broker forgets tasks ts and tells the requester their result, which
\* ignores a task it does not wait for.
TaskEndsAs(ts, result) ==
  /\ tasks' = tasks \ ts
  /\ timed' = timed \ ts
  /\ request' = [q \in Request |->
                   IF request[q] = "running" /\ \E t \in ts \cap timed : matched[t] = q
                   THEN result ELSE request[q]]

\* taskDoneHandler and taskErrorHandler; unknown tasks are ignored.
TaskResult(r) ==
  LET t == Head(toBroker[r]).id
  IN /\ \/ Next4Broker(r, "taskdone") /\ TaskEndsAs({t} \cap tasks, "done")
        \/ Next4Broker(r, "taskerror") /\ TaskEndsAs({t} \cap tasks, "failed")
     /\ Receive(r)
     /\ UNCHANGED <<toRunner, knownRunners, pendingTaskOffers,
                    pendingTaskRequests, acceptInProgress, matched, accept,
                    isDraining>>

\* Mutant of AbortTimedOut: the runner is left alone.
AbortTimedOutSilent(t) == UNCHANGED runnerVars

\* What handleTaskTimeout does to the runner of task t: an internal one is
\* killed, an external one told to cancel.
AbortTimedOut(t) ==
  IF InternalMode
  THEN IF link[offeredBy[t]] = "up"
       THEN Ends(offeredBy[t]) /\ UNCHANGED toBroker
       ELSE UNCHANGED runnerVars
  ELSE /\ MessageRunners({offeredBy[t]}, "taskcancel", t)
       /\ UNCHANGED <<link, canSendOffers, isShuttingDown, openOffers,
                      offeredBy, nextOffer, taskStatus, toBroker>>

\* The timer that sendTaskSettings started.
HandleTaskTimeout(t) ==
  /\ t \in timed
  /\ AbortTimedOut(t)
  /\ TaskEndsAs({t}, "failed")
  /\ UNCHANGED <<knownRunners, pendingTaskOffers, pendingTaskRequests,
                 acceptInProgress, matched, accept, isDraining>>

-----------------------------------------------------------------------------
(* Connections and draining.                                                *)

\* The runner's runner:info arrives on a new connection.
RegisterRunner(r) ==
  /\ link[r] = "off"
  /\ link' = [link EXCEPT ![r] = "up"]
  /\ knownRunners' = knownRunners \cup {r}
  /\ toRunner' = [toRunner EXCEPT ![r] = <<Msg("runnerregistered", 0)>>]
  /\ UNCHANGED <<canSendOffers, isShuttingDown, openOffers, offeredBy,
                 nextOffer, taskStatus, toBroker, pendingTaskOffers,
                 pendingTaskRequests, acceptInProgress, matched, accept, tasks,
                 timed, isDraining, request>>

\* removeConnection: the connection closed, or failed its heartbeat (then the
\* runner exits when it sees the connection close). Its offers and tasks go;
\* acceptOffer calls that wait for it are left to their timer.
DeregisterRunner(r) ==
  /\ r \in knownRunners
  /\ knownRunners' = knownRunners \ {r}
  /\ pendingTaskOffers' = {o \in pendingTaskOffers : offeredBy[o] # r}
  /\ TaskEndsAs({t \in tasks : offeredBy[t] = r}, "failed")
  /\ Ends(r)
  /\ toBroker' = [toBroker EXCEPT ![r] = <<>>]
  /\ UNCHANGED <<pendingTaskRequests, acceptInProgress, matched, accept,
                 isDraining>>

\* drainActiveTasks of the server.
StartDraining ==
  /\ ~isDraining
  /\ isDraining' = TRUE
  /\ MessageRunners(knownRunners, "drain", 0)
  /\ UNCHANGED <<link, canSendOffers, isShuttingDown, openOffers, offeredBy,
                 nextOffer, taskStatus, toBroker, knownRunners,
                 pendingTaskOffers, pendingTaskRequests, acceptInProgress,
                 matched, accept, tasks, timed, request>>

-----------------------------------------------------------------------------
BrokerReceives(r) ==
  TaskOffered(r) \/ HandleRunnerAccept(r) \/ HandleRunnerReject(r) \/ TaskResult(r)

RunnerSide ==
  /\ \/ \E r \in Runner : RunnerReceives(r) \/ RunnerStep(r)
     \/ \E t \in Offer : TaskTimer(t) \/ TaskEnds(t)
  /\ UNCHANGED brokerVars

BrokerSide ==
  \/ \E q \in Request : StartTask(q) \/ HandleRequestTimeout(q)
  \/ \E t \in Offer : CancelTask(t) \/ AcceptTimeout(t) \/ HandleTaskTimeout(t)
  \/ \E r \in Runner : BrokerReceives(r) \/ RegisterRunner(r) \/ DeregisterRunner(r)
  \/ StartDraining

Next == RunnerSide \/ BrokerSide

Spec == Init /\ [][Next]_vars

\* Timers fire, sent messages arrive while the connection lasts, closed
\* connections are noticed, and a task that is aborted ends (the runner races
\* the execution with the abort signal). Nothing is assumed of the code of a
\* task that is not aborted.
Fairness ==
  /\ \A q \in Request : WF_vars(HandleRequestTimeout(q))
  /\ \A t \in Offer : /\ WF_vars(AcceptTimeout(t)) /\ WF_vars(HandleTaskTimeout(t))
                      /\ WF_vars(TaskTimer(t) /\ UNCHANGED brokerVars)
                      /\ WF_vars(/\ taskStatus[t] # "running"
                                 /\ TaskEnds(t) /\ UNCHANGED brokerVars)
  /\ \A r \in Runner :
       /\ WF_vars(RunnerReceives(r) /\ UNCHANGED brokerVars)
       /\ WF_vars(BrokerReceives(r))
       /\ WF_vars(link[r] = "gone" /\ DeregisterRunner(r))

FairSpec == Spec /\ Fairness

-----------------------------------------------------------------------------
(* Correctness properties.                                                  *)

\* Type invariant of runners, connections, broker and requester.
TypeOK ==
  /\ RunnerTypeOK
  /\ knownRunners \subseteq Runner
  /\ pendingTaskOffers \subseteq Offer
  /\ pendingTaskRequests \subseteq Request
  /\ acceptInProgress \subseteq Request
  /\ matched \in [Offer -> Request \cup {NoRequest}]
  /\ accept \in [Offer -> {"none", "asking", "timedout", "over"}]
  /\ tasks \subseteq Offer
  /\ timed \subseteq Offer
  /\ isDraining \in BOOLEAN
  /\ request \in [Request -> RequestState]

\* A runner never promises more than it can do: its open offers and its tasks
\* together fit into maxConcurrency, however late acceptances, expiries and
\* cancellations fall.
NotOvercommitted ==
  \A r \in Runner :
    Cardinality(openOffers[r]) + Cardinality(RunningTasks(r)) <= MaxConcurrency

\* The requester is never left behind: a call that waits for a task id is in
\* the broker's queue, a call that waits for a result has a task at the broker.
RequesterNotAbandoned ==
  \A q \in Request :
    /\ request[q] = "requested" => q \in pendingTaskRequests
    /\ request[q] = "running" => \E t \in timed : matched[t] = q

\* One runner is asked for a request at a time ("This function relies on never
\* yielding", settleTasks): timeouts and rejections never lead to two open
\* questions.
OneAttempt ==
  \A o, p \in Offer :
    accept[o] = "asking" /\ accept[p] = "asking" /\ matched[o] = matched[p] => o = p

\* "These states should never happen": settings never reach a task that is
\* already running or being aborted.
SettingsWhenWaiting ==
  \A r \in Runner : \A i \in DOMAIN toRunner[r] :
    toRunner[r][i].type = "tasksettings"
      => taskStatus[toRunner[r][i].id] \in {"none", "waitingForSettings"}

\* Code does not run on unnoticed: while a connected runner executes a task,
\* the broker waits for it or has already sent the cancellation.
NoZombie ==
  \A t \in Offer :
    taskStatus[t] = "running" =>
      \/ t \in tasks
      \/ \E i \in DOMAIN toRunner[offeredBy[t]] :
           toRunner[offeredBy[t]][i] = Msg("taskcancel", t)

\* A request never hangs (the request timeout "prevents workflows from hanging
\* indefinitely"): every call of startTask settles.
RequestSettles ==
  \A q \in Request : request[q] # "idle" ~> request[q] \in Settled

\* A slot taken for a task is given back, also when the broker has given up on
\* the acceptance and will never send settings.
SlotFreed ==
  \A t \in Offer : taskStatus[t] # "none" ~> taskStatus[t] = "none"

\* Once draining, the broker runs out of tasks.
DrainCompletes == isDraining ~> [](tasks = {})
=============================================================================

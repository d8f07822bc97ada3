------------------------------ MODULE TaskRunner ------------------------------
(***************************************************************************)
(* The runner's half of the task protocol (packages/@n8n/task-runner):     *)
(* offers, slots and the states of a task, and the WebSocket that joins a  *)
(* runner to the broker: one ordered stream each way, lost as a whole when *)
(* the connection goes.                                                    *)
(*                                                                         *)
(* The broker makes up one task id per accepted offer, and accepts an offer*)
(* at most once, so a task is named by the offer it came from.             *)
(***************************************************************************)
EXTENDS Integers, Sequences, FiniteSets

CONSTANTS
  Runner,          \* runner processes; each connects once, under a fresh id
  NoRunner,
  Launcher,        \* those that are launchers (defer every accepted offer)
  MaxConcurrency,  \* tasks a runner takes at a time
  MaxOffers        \* bound on the offers made in a behaviour

ASSUME RunnerAssumption ==
  /\ NoRunner \notin Runner
  /\ Launcher \subseteq Runner
  /\ MaxConcurrency \in Nat \ {0}
  /\ MaxOffers \in Nat

VARIABLES
  link,            \* the runner process and its connection
  canSendOffers,   \* runners whose offer interval is running
  isShuttingDown,  \* runners in stop()
  openOffers,      \* TaskRunner.openOffers, per runner
  offeredBy,       \* the runner that made an offer
  nextOffer,       \* the next fresh offer id
  taskStatus,      \* TaskState.status, "none" when not in runningTasks
  toRunner,        \* messages on their way to a runner
  toBroker         \* messages on their way from a runner

runnerVars == <<link, canSendOffers, isShuttingDown, openOffers, offeredBy,
                nextOffer, taskStatus, toRunner, toBroker>>

-----------------------------------------------------------------------------
Offer == 1 .. MaxOffers

TaskStatus == {"none", "waitingForSettings", "running", "aborting:cancelled",
               "aborting:timeout"}

Msg(type, id) == [type |-> type, id |-> id]

ToRunnerType == {"runnerregistered", "taskofferaccept", "tasksettings",
                 "taskcancel", "drain"}

ToBrokerType == {"taskoffer", "taskaccepted", "taskrejected", "taskdeferred",
                 "taskdone", "taskerror"}

\* Messages that concern no task carry id 0.
ToRunnerMsg == [type : ToRunnerType, id : Offer \cup {0}]
ToBrokerMsg == [type : ToBrokerType, id : Offer]

RunningTasks(r) == {t \in Offer : offeredBy[t] = r /\ taskStatus[t] # "none"}

RunnerInit ==
  /\ link = [r \in Runner |-> "off"]
  /\ canSendOffers = {}
  /\ isShuttingDown = {}
  /\ openOffers = [r \in Runner |-> {}]
  /\ offeredBy = [o \in Offer |-> NoRunner]
  /\ nextOffer = 1
  /\ taskStatus = [o \in Offer |-> "none"]
  /\ toRunner = [r \in Runner |-> <<>>]
  /\ toBroker = [r \in Runner |-> <<>>]

-----------------------------------------------------------------------------
(* Offers.                                                                  *)

\* Mutant of OffersToSend: running tasks are not counted.
OffersToSendIgnoringTasks(open, running) ==
  LET free == MaxConcurrency - Cardinality(open)
  IN {o \in Offer : o >= nextOffer /\ o < nextOffer + free}

\* The fresh offers that fill the slots not taken by open offers or tasks.
OffersToSend(open, running) ==
  LET free == MaxConcurrency - (Cardinality(open) + Cardinality(running))
  IN {o \in Offer : o >= nextOffer /\ o < nextOffer + free}

\* Runner r sends msgs, then sendOffers runs with stale the offers whose
\* validity has passed and running the tasks it has.
SendThenOffer(r, msgs, stale, running) ==
  LET open == openOffers[r] \ stale
      new == IF r \in canSendOffers THEN OffersToSend(open, running) ELSE {}
      offers == [i \in 1 .. Cardinality(new) |-> Msg("taskoffer", nextOffer + i - 1)]
  IN /\ stale \subseteq openOffers[r]
     /\ r \in Launcher => stale = {}
     /\ openOffers' = [openOffers EXCEPT ![r] = open \cup new]
     /\ offeredBy' = [o \in Offer |-> IF o \in new THEN r ELSE offeredBy[o]]
     /\ nextOffer' = nextOffer + Cardinality(new)
     /\ toBroker' = [toBroker EXCEPT ![r] = @ \o msgs \o offers]

\* The 250 ms interval.
SendOffers(r, stale) ==
  /\ link[r] = "up" /\ r \in canSendOffers
  /\ SendThenOffer(r, <<>>, stale, RunningTasks(r))
  /\ UNCHANGED <<link, canSendOffers, isShuttingDown, taskStatus, toRunner>>

\* Runner r sends one message and nothing else about its offers changes.
Send(r, type, t) ==
  /\ toBroker' = [toBroker EXCEPT ![r] = Append(@, Msg(type, t))]
  /\ UNCHANGED <<offeredBy, nextOffer>>

\* finishTask, after sending msgs: the slot is free, new offers go out.
FinishTask(t, msgs, stale) ==
  LET r == offeredBy[t]
  IN /\ taskStatus' = [taskStatus EXCEPT ![t] = "none"]
     /\ SendThenOffer(r, msgs, stale, RunningTasks(r) \ {t})

-----------------------------------------------------------------------------
(* Messages from the broker, in the order they were sent.                   *)

\* The next message for runner r is of this type.
Next4Runner(r, type) ==
  link[r] = "up" /\ toRunner[r] # <<>> /\ Head(toRunner[r]).type = type

Consume(r) == toRunner' = [toRunner EXCEPT ![r] = Tail(@)]

RunnerRegistered(r) ==
  /\ Next4Runner(r, "runnerregistered")
  /\ Consume(r)
  /\ canSendOffers' = canSendOffers \cup {r}
  /\ UNCHANGED <<link, isShuttingDown, openOffers, offeredBy, nextOffer,
                 taskStatus, toBroker>>

Drain(r) ==
  /\ Next4Runner(r, "drain")
  /\ Consume(r)
  /\ canSendOffers' = canSendOffers \ {r}
  /\ UNCHANGED <<link, isShuttingDown, openOffers, offeredBy, nextOffer,
                 taskStatus, toBroker>>

\* Mutant of OfferReply: an answer the protocol does not know.
OfferReplyMisnamed(r, o) ==
  IF o \in openOffers[r] THEN "taskaccepted" ELSE "offerexpired"

\* What offerAccepted answers to the acceptance of offer o.
OfferReply(r, o) ==
  IF r \in isShuttingDown THEN "taskrejected"
  ELSE IF Cardinality(RunningTasks(r)) >= MaxConcurrency THEN "taskrejected"
  ELSE IF o \notin openOffers[r] THEN "taskrejected"
  ELSE "taskaccepted"

OfferAccepted(r) ==
  LET o == Head(toRunner[r]).id
      reply == OfferReply(r, o)
  IN /\ Next4Runner(r, "taskofferaccept") /\ r \notin Launcher
     /\ Consume(r)
     /\ Send(r, reply, o)
     /\ openOffers' = IF r \in isShuttingDown THEN openOffers
                      ELSE [openOffers EXCEPT ![r] = @ \ {o}]
     /\ taskStatus' = IF reply = "taskaccepted"
                      THEN [taskStatus EXCEPT ![o] = "waitingForSettings"]
                      ELSE taskStatus
     /\ UNCHANGED <<link, canSendOffers, isShuttingDown>>

\* A launcher has no slots: it starts a runner and asks the broker to wait.
OfferDeferred(r) ==
  LET o == Head(toRunner[r]).id
  IN /\ Next4Runner(r, "taskofferaccept") /\ r \in Launcher
     /\ Consume(r)
     /\ Send(r, "taskdeferred", o)
     /\ openOffers' = [openOffers EXCEPT ![r] = @ \ {o}]
     /\ UNCHANGED <<link, canSendOffers, isShuttingDown, taskStatus>>

\* receivedSettings starts the task; a task that is gone is ignored.
ReceivedSettings(r) ==
  LET t == Head(toRunner[r]).id
  IN /\ Next4Runner(r, "tasksettings")
     /\ Consume(r)
     /\ taskStatus' = IF taskStatus[t] = "waitingForSettings"
                      THEN [taskStatus EXCEPT ![t] = "running"] ELSE taskStatus
     /\ UNCHANGED <<link, canSendOffers, isShuttingDown, openOffers, offeredBy,
                    nextOffer, toBroker>>

\* taskCancelled: a task without settings is finished, a running one aborted.
TaskCancelled(r, stale) ==
  LET t == Head(toRunner[r]).id
  IN /\ Next4Runner(r, "taskcancel")
     /\ Consume(r)
     /\ \/ taskStatus[t] = "waitingForSettings" /\ FinishTask(t, <<>>, stale)
        \/ /\ taskStatus[t] # "waitingForSettings" /\ stale = {}
           /\ taskStatus' = IF taskStatus[t] = "running"
                            THEN [taskStatus EXCEPT ![t] = "aborting:cancelled"]
                            ELSE taskStatus
           /\ UNCHANGED <<openOffers, offeredBy, nextOffer, toBroker>>
     /\ UNCHANGED <<link, canSendOffers, isShuttingDown>>

-----------------------------------------------------------------------------
(* A task's own timer and its end.                                          *)

\* Mutant of TaskTimedOut: a task without settings is aborted, not finished.
TaskTimedOutAborts(t, stale) ==
  /\ taskStatus[t] \in {"waitingForSettings", "running"} /\ stale = {}
  /\ taskStatus' = [taskStatus EXCEPT ![t] = "aborting:timeout"]
  /\ UNCHANGED <<link, canSendOffers, isShuttingDown, openOffers, offeredBy,
                 nextOffer, toRunner, toBroker>>

\* Mutant of TaskTimedOut: a task without settings is left alone.
TaskTimedOutIgnoresWaiting(t, stale) ==
  /\ taskStatus[t] = "running" /\ stale = {}
  /\ taskStatus' = [taskStatus EXCEPT ![t] = "aborting:timeout"]
  /\ UNCHANGED <<link, canSendOffers, isShuttingDown, openOffers, offeredBy,
                 nextOffer, toRunner, toBroker>>

\* taskTimedOut, from the timer every task is created with.
TaskTimedOut(t, stale) ==
  /\ \/ /\ taskStatus[t] = "waitingForSettings"
        /\ FinishTask(t, <<Msg("taskerror", t)>>, stale)
     \/ /\ taskStatus[t] = "running" /\ stale = {}
        /\ taskStatus' = [taskStatus EXCEPT ![t] = "aborting:timeout"]
        /\ UNCHANGED <<openOffers, offeredBy, nextOffer, toBroker>>
  /\ UNCHANGED <<link, canSendOffers, isShuttingDown, toRunner>>

\* executeTask resolves or rejects: the result is sent unless the task was
\* cancelled.
ExecutionEnds(t, result, stale) ==
  /\ taskStatus[t] \in {"running", "aborting:cancelled", "aborting:timeout"}
  /\ FinishTask(t, IF taskStatus[t] = "aborting:cancelled" THEN <<>>
                   ELSE <<Msg(result, t)>>, stale)
  /\ UNCHANGED <<link, canSendOffers, isShuttingDown, toRunner>>

-----------------------------------------------------------------------------
(* The runner process.                                                      *)

\* stop(): on a signal, or when idle for too long.
StopRunner(r) ==
  /\ link[r] = "up" /\ r \notin isShuttingDown
  /\ isShuttingDown' = isShuttingDown \cup {r}
  /\ canSendOffers' = canSendOffers \ {r}
  /\ openOffers' = [openOffers EXCEPT ![r] = {}]
  /\ UNCHANGED <<link, offeredBy, nextOffer, taskStatus, toRunner, toBroker>>

\* The process of runner r ends. What it sent may still arrive.
Ends(r) ==
  /\ link' = [link EXCEPT ![r] = "gone"]
  /\ canSendOffers' = canSendOffers \ {r}
  /\ isShuttingDown' = isShuttingDown \ {r}
  /\ openOffers' = [openOffers EXCEPT ![r] = {}]
  /\ taskStatus' = [t \in Offer |-> IF offeredBy[t] = r THEN "none" ELSE taskStatus[t]]
  /\ toRunner' = [toRunner EXCEPT ![r] = <<>>]
  /\ UNCHANGED <<offeredBy, nextOffer>>

\* stop() saw its last task end and closes the connection.
CloseConnection(r) ==
  /\ link[r] = "up" /\ r \in isShuttingDown
  /\ RunningTasks(r) = {}
  /\ Ends(r)
  /\ UNCHANGED toBroker

\* A crash, or the shutdown timer of the process.
RunnerDies(r) ==
  /\ link[r] = "up"
  /\ Ends(r)
  /\ UNCHANGED toBroker

-----------------------------------------------------------------------------
RunnerReceives(r) ==
  \/ RunnerRegistered(r) \/ Drain(r) \/ OfferAccepted(r) \/ OfferDeferred(r)
  \/ ReceivedSettings(r)
  \/ \E stale \in SUBSET openOffers[r] : TaskCancelled(r, stale)

TaskTimer(t) ==
  /\ taskStatus[t] # "none"
  /\ \E stale \in SUBSET openOffers[offeredBy[t]] : TaskTimedOut(t, stale)

TaskEnds(t) ==
  /\ taskStatus[t] # "none"
  /\ \E stale \in SUBSET openOffers[offeredBy[t]] :
       \E result \in {"taskdone", "taskerror"} : ExecutionEnds(t, result, stale)

RunnerStep(r) ==
  \/ \E stale \in SUBSET openOffers[r] : SendOffers(r, stale)
  \/ StopRunner(r) \/ CloseConnection(r) \/ RunnerDies(r)

-----------------------------------------------------------------------------
RunnerTypeOK ==
  /\ link \in [Runner -> {"off", "up", "gone"}]
  /\ canSendOffers \subseteq Runner
  /\ isShuttingDown \subseteq Runner
  /\ openOffers \in [Runner -> SUBSET Offer]
  /\ offeredBy \in [Offer -> Runner \cup {NoRunner}]
  /\ nextOffer \in 1 .. MaxOffers + 1
  /\ taskStatus \in [Offer -> TaskStatus]
  /\ toRunner \in [Runner -> Seq(ToRunnerMsg)]
  /\ toBroker \in [Runner -> Seq(ToBrokerMsg)]
=============================================================================

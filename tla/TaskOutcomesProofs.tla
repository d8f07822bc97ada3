-------------------------- MODULE TaskOutcomesProofs --------------------------
(***************************************************************************)
(* Broker, requester and runners keep the promise of startTask for any     *)
(* number of runners, offers and calls: every behaviour of HistorySpec is  *)
(* one of TaskService.                                                     *)
(*                                                                         *)
(* What is needed beyond the life of an offer (BrokerInv) is how often the *)
(* code of a call was begun (ExecInv): not before settings were sent, and  *)
(* settings are sent once per call. All but two kinds of steps are Quiet   *)
(* about that: they begin nothing, send no settings and report no result   *)
(* that is not one.                                                        *)
(***************************************************************************)
EXTENDS TaskOutcomes, TaskBrokerProofs

\* A call no runner has the settings of.
Unsent == {"idle", "requested", "expired"}

\* Settings on their way are the first and only ones of their call.
SettingsInv(t) ==
  \A r \in Runner : ToR(r, "tasksettings", t) =>
    /\ executions[matched[t]] = 0
    /\ request[matched[t]] \notin Unsent
    /\ \A u \in Offer : \A p \in Runner :
         ToR(p, "tasksettings", u) /\ matched[u] = matched[t] => u = t

\* Code that runs, and code that gave a result, was begun.
BegunInv(t) ==
  taskStatus[t] \in Started \/ (\E r \in Runner : ToB(r, "taskdone", t))
    => executions[matched[t]] = 1

CallInv(q) ==
  /\ request[q] \in Unsent => executions[q] = 0
  /\ request[q] = "done" => executions[q] = 1

ExecInv ==
  /\ executions \in [Request -> {0, 1}]
  /\ \A q \in Request : CallInv(q)
  /\ \A t \in Offer : SettingsInv(t) /\ BegunInv(t)

\* The history variable in a step.
Counted == executions' = [q \in Request |->
                            executions[q] + Cardinality({t \in Begun : matched[t] = q})]

-----------------------------------------------------------------------------
\* What a step may do to a call without the code being begun in it.
CallMoves(q) ==
  \/ request'[q] = request[q]
  \/ request[q] = "idle" /\ request'[q] \in {"requested", "expired"}
  \/ request[q] = "requested" /\ request'[q] \in {"running", "expired"}
  \/ request[q] = "running" /\ request'[q] \in {"failed", "cancelled"}
  \/ request[q] = "running" /\ request'[q] = "done" /\ executions[q] = 1

NothingBegins ==
  \A t \in Offer : \/ taskStatus'[t] \notin Started
                   \/ taskStatus'[t] = taskStatus[t]
                   \/ taskStatus[t] \in Started /\ taskStatus'[t] # "running"

NoSettings ==
  \A t \in Offer : \A r \in Runner :
    Has(toRunner'[r], Msg("tasksettings", t)) => ToR(r, "tasksettings", t)

ResultsReal ==
  \A t \in Offer : \A r \in Runner :
    Has(toBroker'[r], Msg("taskdone", t)) => ToB(r, "taskdone", t) \/ taskStatus[t] \in Started

MatchesStay == \A t \in Offer : accept[t] # "none" => matched'[t] = matched[t]

CallsMove == \A q \in Request : CallMoves(q)

LEMMA NoneCounted ==
  ASSUME executions \in [Request -> {0, 1}], NothingBegins, Counted
  PROVE  executions' = executions
<1>1. Begun = {}
  BY DEF NothingBegins, Begun, Started
<1>2. \A q \in Request : {t \in Begun : matched[t] = q} = {}
  BY <1>1
<1>3. Cardinality({}) = 0
  BY FS_EmptySet
<1>4. \A q \in Request : executions[q] + Cardinality({t \in Begun : matched[t] = q}) = executions[q]
  BY <1>2, <1>3
<1> QED BY <1>4 DEF Counted

\* The code of a call with settings, a task or a result is that of one call.
LEMMA MatchedTasks ==
  ASSUME BrokerInv, NEW t \in Offer
  PROVE  /\ accept[t] # "none" => matched[t] \in Request
         /\ \A r \in Runner : ToR(r, "tasksettings", t) => accept[t] # "none"
         /\ taskStatus[t] \in Started => accept[t] # "none"
         /\ \A r \in Runner : ToB(r, "taskdone", t) => accept[t] # "none"
<1>1. Fresh(t)
  BY DEF BrokerInv, OfferLife
<1>2. "tasksettings" \in TaskMsg /\ "taskdone" \in ToBrokerType
  BY DEF TaskMsg, ToBrokerType
<1> QED BY <1>1, <1>2 DEF Fresh, Started

\* A step that moves calls on and begins nothing is one of the service.
LEMMA CallsServed ==
  ASSUME BrokerInv, ExecInv, CallsMove, executions' = executions
  PROVE  Service!Next /\ \A q \in Request : CallInv(q)'
<1>1. request \in [Request -> RequestState] /\ executions \in [Request -> {0, 1}]
  BY DEF BrokerInv, TypeOK, ExecInv
<1>2. ASSUME NEW q \in Request
      PROVE  /\ CallInv(q)'
             /\ Service!Unmoved(q) \/ Service!Called(q) \/ Service!Executed(q) \/ Service!Ended(q)
  <2>1. CallMoves(q) /\ CallInv(q) /\ executions'[q] = executions[q]
    BY DEF CallsMove, ExecInv
  <2>2. CallInv(q)'
    BY <2>1 DEF CallMoves, CallInv, Unsent
  <2>3. /\ Outcome[q] = IF request[q] \in {"requested", "running"} THEN "pending" ELSE request[q]
        /\ Outcome'[q] = IF request'[q] \in {"requested", "running"} THEN "pending" ELSE request'[q]
    BY DEF Outcome
  <2>4. Service!Unmoved(q) \/ Service!Called(q) \/ Service!Ended(q)
    BY <2>1, <2>3 DEF CallMoves, CallInv, Unsent, Service!Unmoved, Service!Called,
                      Service!Ended, Service!Outcome
  <2> QED BY <2>2, <2>4
<1>3. DOMAIN Outcome' = Request /\ DOMAIN executions' = Request
  BY <1>1 DEF Outcome
<1> QED BY <1>2, <1>3 DEF Service!Next

\* A quiet step.
LEMMA QuietStep ==
  ASSUME BrokerInv, ExecInv, Counted,
         NothingBegins, NoSettings, ResultsReal, MatchesStay, CallsMove
  PROVE  ExecInv' /\ Service!Next
<1>1. executions \in [Request -> {0, 1}] /\ executions' = executions
  BY NoneCounted DEF ExecInv
<1>2. Service!Next /\ \A q \in Request : CallInv(q)'
  BY <1>1, CallsServed
<1>3. \A q \in Request : request[q] \notin Unsent => request'[q] \notin Unsent
  BY DEF CallsMove, CallMoves, Unsent
<1>4. ASSUME NEW t \in Offer PROVE SettingsInv(t)'
  <2> SUFFICES ASSUME NEW r \in Runner, Has(toRunner'[r], Msg("tasksettings", t))
               PROVE  /\ executions'[matched'[t]] = 0
                      /\ request'[matched'[t]] \notin Unsent
                      /\ \A u \in Offer : \A p \in Runner :
                           Has(toRunner'[p], Msg("tasksettings", u)) /\ matched'[u] = matched'[t] => u = t
    BY DEF SettingsInv, ToR
  <2>1. ToR(r, "tasksettings", t)
    BY DEF NoSettings
  <2>2. matched[t] \in Request /\ matched'[t] = matched[t]
    BY <2>1, MatchedTasks DEF MatchesStay
  <2>3. \A u \in Offer : \A p \in Runner :
          Has(toRunner'[p], Msg("tasksettings", u)) => ToR(p, "tasksettings", u) /\ matched'[u] = matched[u]
    BY MatchedTasks DEF NoSettings, MatchesStay
  <2> QED BY <1>1, <1>3, <2>1, <2>2, <2>3 DEF ExecInv, SettingsInv
<1>5. ASSUME NEW t \in Offer PROVE BegunInv(t)'
  <2> SUFFICES ASSUME taskStatus'[t] \in Started \/ \E r \in Runner : Has(toBroker'[r], Msg("taskdone", t))
               PROVE  executions'[matched'[t]] = 1
    BY DEF BegunInv, ToB
  <2>1. taskStatus[t] \in Started \/ \E r \in Runner : ToB(r, "taskdone", t)
    BY DEF NothingBegins, ResultsReal
  <2>2. matched'[t] = matched[t]
    BY <2>1, MatchedTasks DEF MatchesStay
  <2> QED BY <1>1, <2>1, <2>2 DEF ExecInv, BegunInv
<1> QED BY <1>1, <1>2, <1>4, <1>5 DEF ExecInv

-----------------------------------------------------------------------------
(* Steps of the runners.                                                    *)

\* The facts a step of a runner leaves to be shown.
Silent == NothingBegins /\ NoSettings /\ ResultsReal

LEMMA BrokerRests ==
  ASSUME UNCHANGED brokerVars
  PROVE  MatchesStay /\ CallsMove
BY DEF brokerVars, MatchesStay, CallsMove, CallMoves

LEMMA TakenNoSettings ==
  ASSUME NEW r, NEW x, Taken(toRunner', toRunner, r, x)
  PROVE  NoSettings
BY DEF Taken, Kept, NoSettings, ToR

LEMMA TakenNoResults ==
  ASSUME NEW r, NEW x, Taken(toBroker', toBroker, r, x)
  PROVE  ResultsReal
BY DEF Taken, Kept, ResultsReal, ToB

LEMMA NothingSentNoResults ==
  ASSUME UNCHANGED toBroker
  PROVE  ResultsReal
BY DEF ResultsReal, ToB

LEMMA NothingReceivedNoSettings ==
  ASSUME UNCHANGED toRunner
  PROVE  NoSettings
BY DEF NoSettings, ToR

LEMMA SameStatus ==
  ASSUME UNCHANGED taskStatus
  PROVE  NothingBegins
BY DEF NothingBegins

\* A message that is not a result.
LEMMA WrittenNoResults ==
  ASSUME NEW rs, NEW type, type # "taskdone", NEW o,
         Written(toBroker', toBroker, rs, Msg(type, o))
  PROVE  ResultsReal
<1>1. \A t : Msg("taskdone", t) # Msg(type, o)
  BY MsgFacts
<1> QED BY <1>1 DEF Written, Kept, ResultsReal, ToB

\* A message that is not settings.
LEMMA MessageNoSettings ==
  ASSUME TypeOK, NEW rs, NEW type \in ToRunnerType, type # "tasksettings", NEW id \in Offer \cup {0},
         MessageRunners(rs, type, id)
  PROVE  NoSettings
<1> DEFINE ps == {r \in Runner : r \in rs \cap knownRunners /\ link[r] = "up"}
<1>1. Written(toRunner', toRunner, ps, Msg(type, id))
  BY MessageFacts
<1> HIDE DEF ps
<1>2. \A t : Msg("tasksettings", t) # Msg(type, id)
  BY MsgFacts
<1> QED BY <1>1, <1>2 DEF Written, Kept, NoSettings, ToR

\* Offers, preceded by reports of tasks that ran, are no new results.
LEMMA OfferingNoResults ==
  ASSUME TypeOK, NEW r \in Runner, NEW stale, NEW running \in SUBSET Offer,
         NEW M \in SUBSET ToBrokerMsg, NEW msgs \in Seq(M),
         SendThenOffer(r, msgs, stale, running),
         \A t \in Offer : Msg("taskdone", t) \in M => taskStatus[t] \in Started
  PROVE  ResultsReal
<1>1. PICK new : Offering(r, M, stale, running, new)
  BY OfferingFacts
<1>2. \A t, o : Msg("taskdone", t) # Msg("taskoffer", o)
  BY MsgFacts
<1>3. \A t \in Offer : Has(toBroker'[r], Msg("taskdone", t)) =>
        Has(toBroker[r], Msg("taskdone", t)) \/ Msg("taskdone", t) \in M
  BY <1>1, <1>2 DEF Offering
<1>4. \A p \in Runner : p # r => toBroker'[p] = toBroker[p]
  BY <1>1 DEF Offering
<1> QED BY <1>3, <1>4 DEF ResultsReal, ToB

LEMMA FinishTaskSilent ==
  ASSUME BrokerInv, NEW t \in Offer, taskStatus[t] # "none",
         NEW type \in {"taskdone", "taskerror"}, type = "taskdone" => taskStatus[t] \in Started,
         NEW msgs \in {<<>>, <<Msg(type, t)>>}, NEW stale, FinishTask(t, msgs, stale)
  PROVE  NothingBegins /\ ResultsReal
<1> DEFINE r == offeredBy[t]
           running == RunningTasks(r) \ {t}
           M == {Msg(type, t)}
<1>1. r \in Runner /\ taskStatus \in [Offer -> TaskStatus] /\ running \in SUBSET Offer
  BY DEF BrokerInv, OfferLife, Fresh, TypeOK, RunnerTypeOK, RunningTasks
<1>2. /\ taskStatus' = [taskStatus EXCEPT ![t] = "none"]
      /\ SendThenOffer(r, msgs, stale, running)
  BY DEF FinishTask
<1>3. NothingBegins
  BY <1>1, <1>2 DEF NothingBegins, Started
<1>4. M \in SUBSET ToBrokerMsg /\ msgs \in Seq(M)
  <2>1. M \in SUBSET ToBrokerMsg
    BY MsgFacts DEF ToBrokerType
  <2>2. <<>> \in Seq(M) /\ <<Msg(type, t)>> \in Seq(M)
    OBVIOUS
  <2> QED BY <2>1, <2>2
<1>5. \A o \in Offer : Msg("taskdone", o) \in M => taskStatus[o] \in Started
  BY MsgFacts
<1> HIDE DEF r, running, M
<1> QED BY <1>1, <1>2, <1>3, <1>4, <1>5, OfferingNoResults DEF BrokerInv

LEMMA EndsSilent ==
  ASSUME BrokerInv, NEW r \in Runner, Ends(r)
  PROVE  NothingBegins /\ NoSettings
<1>1. /\ taskStatus' = [t \in Offer |-> IF offeredBy[t] = r THEN "none" ELSE taskStatus[t]]
      /\ toRunner' = [toRunner EXCEPT ![r] = <<>>]
  BY DEF Ends
<1>2. toRunner \in [Runner -> Seq(ToRunnerMsg)]
  BY DEF BrokerInv, TypeOK, RunnerTypeOK
<1>3. \A p \in Runner : toRunner'[p] = IF p = r THEN <<>> ELSE toRunner[p]
  BY <1>1, <1>2
<1>4. \A x : ~Has(<<>>, x)
  BY DEF Has
<1> QED BY <1>1, <1>3, <1>4 DEF NothingBegins, NoSettings, ToR, Started

LEMMA ReceivesSilent ==
  ASSUME BrokerInv, NEW r \in Runner,
         \/ RunnerRegistered(r) \/ Drain(r) \/ OfferAccepted(r) \/ OfferDeferred(r)
         \/ \E stale : TaskCancelled(r, stale)
  PROVE  Silent
<1>1. taskStatus \in [Offer -> TaskStatus] /\ TypeOK
  BY DEF BrokerInv, TypeOK, RunnerTypeOK
<1>2. PICK type \in ToRunnerType : Next4Runner(r, type) /\ Consume(r) /\ type # "tasksettings"
           /\ (OfferAccepted(r) \/ OfferDeferred(r) => type = "taskofferaccept")
           /\ ((\E stale : TaskCancelled(r, stale)) => type = "taskcancel")
  BY DEF RunnerRegistered, Drain, OfferAccepted, OfferDeferred, TaskCancelled, ToRunnerType, Next4Runner
<1> DEFINE t == Head(toRunner[r]).id
<1>3. Taken(toRunner', toRunner, r, Msg(type, t)) /\ (type \in TaskMsg => t \in Offer)
  BY <1>2, Arrival
<1>4. NoSettings
  BY <1>3, TakenNoSettings
<1> HIDE DEF t
<1>5. CASE RunnerRegistered(r) \/ Drain(r)
  <2>1. UNCHANGED taskStatus /\ UNCHANGED toBroker
    BY <1>5 DEF RunnerRegistered, Drain
  <2> QED BY <1>4, <2>1, SameStatus, NothingSentNoResults DEF Silent
<1>6. CASE OfferAccepted(r) \/ OfferDeferred(r)
  <2>1. t \in Offer
    BY <1>2, <1>3, <1>6 DEF TaskMsg
  <2>2. PICK reply \in {"taskaccepted", "taskrejected", "taskdeferred"} : Send(r, reply, t)
    BY <1>6 DEF OfferAccepted, OfferDeferred, OfferReply, t
  <2>3. reply \in ToBrokerType /\ reply # "taskdone"
    BY DEF ToBrokerType
  <2>4. Written(toBroker', toBroker, {r}, Msg(reply, t))
    BY <1>1, <2>1, <2>2, <2>3, SendFacts
  <2> DEFINE rs == {r}
  <2>5. Written(toBroker', toBroker, rs, Msg(reply, t))
    BY <2>4
  <2> HIDE DEF rs
  <2>6. ResultsReal
    BY <2>3, <2>5, WrittenNoResults
  <2>7. taskStatus' = taskStatus \/ taskStatus' = [taskStatus EXCEPT ![t] = "waitingForSettings"]
    BY <1>6 DEF OfferAccepted, OfferDeferred, t
  <2>8. NothingBegins
    BY <1>1, <2>1, <2>7 DEF NothingBegins, Started
  <2> QED BY <1>4, <2>6, <2>8 DEF Silent
<1>7. CASE \E stale : TaskCancelled(r, stale)
  <2>1. PICK stale : TaskCancelled(r, stale)
    BY <1>7
  <2>2. t \in Offer
    BY <1>2, <1>3, <1>7 DEF TaskMsg
  <2>3. CASE taskStatus[t] = "waitingForSettings" /\ FinishTask(t, <<>>, stale)
    <3>1. PICK y \in {"taskdone", "taskerror"} : y = "taskerror"
      OBVIOUS
    <3>2. PICK msgs \in {<<>>, <<Msg(y, t)>>} : msgs = <<>>
      OBVIOUS
    <3>3. taskStatus[t] # "none" /\ (y = "taskdone" => taskStatus[t] \in Started) /\ FinishTask(t, msgs, stale)
      BY <2>3, <3>1, <3>2
    <3>4. NothingBegins /\ ResultsReal
      BY <2>2, <3>3, FinishTaskSilent
    <3> QED BY <1>4, <3>4 DEF Silent
  <2>4. CASE ~(taskStatus[t] = "waitingForSettings" /\ FinishTask(t, <<>>, stale))
    <3>1. /\ taskStatus' = IF taskStatus[t] = "running"
                           THEN [taskStatus EXCEPT ![t] = "aborting:cancelled"] ELSE taskStatus
          /\ UNCHANGED toBroker
      BY <2>1, <2>4 DEF TaskCancelled, t
    <3>2. NothingBegins
      BY <1>1, <2>2, <3>1 DEF NothingBegins, Started
    <3> QED BY <1>4, <3>1, <3>2, NothingSentNoResults DEF Silent
  <2> QED BY <2>3, <2>4
<1> QED BY <1>5, <1>6, <1>7

LEMMA RunnerStepSilent ==
  ASSUME BrokerInv, NEW r \in Runner, RunnerStep(r)
  PROVE  Silent
<1>1. CASE \E stale \in SUBSET openOffers[r] : SendOffers(r, stale)
  <2>1. PICK stale : SendOffers(r, stale)
    BY <1>1
  <2>2. /\ SendThenOffer(r, <<>>, stale, RunningTasks(r))
        /\ UNCHANGED taskStatus /\ UNCHANGED toRunner
    BY <2>1 DEF SendOffers
  <2>3. {} \in SUBSET ToBrokerMsg /\ <<>> \in Seq({}) /\ RunningTasks(r) \in SUBSET Offer /\ TypeOK
    BY DEF RunningTasks, BrokerInv
  <2>4. ResultsReal
    BY <2>2, <2>3, OfferingNoResults
  <2> QED BY <2>2, <2>4, SameStatus, NothingReceivedNoSettings DEF Silent
<1>2. CASE StopRunner(r)
  <2>1. UNCHANGED taskStatus /\ UNCHANGED toRunner /\ UNCHANGED toBroker
    BY <1>2 DEF StopRunner
  <2> QED BY <2>1, SameStatus, NothingReceivedNoSettings, NothingSentNoResults DEF Silent
<1>3. CASE CloseConnection(r) \/ RunnerDies(r)
  <2>1. Ends(r) /\ UNCHANGED toBroker
    BY <1>3 DEF CloseConnection, RunnerDies
  <2> QED BY <2>1, EndsSilent, NothingSentNoResults DEF Silent
<1> QED BY <1>1, <1>2, <1>3 DEF RunnerStep

LEMMA TaskTimedOutSilent ==
  ASSUME BrokerInv, NEW t \in Offer, NEW stale, TaskTimedOut(t, stale)
  PROVE  Silent
<1>1. UNCHANGED toRunner /\ taskStatus \in [Offer -> TaskStatus]
  BY DEF TaskTimedOut, BrokerInv, TypeOK, RunnerTypeOK
<1>2. CASE taskStatus[t] = "waitingForSettings" /\ FinishTask(t, <<Msg("taskerror", t)>>, stale)
  <2>1. PICK y \in {"taskdone", "taskerror"} : y = "taskerror"
    OBVIOUS
  <2>2. PICK msgs \in {<<>>, <<Msg(y, t)>>} : msgs = <<Msg(y, t)>>
    OBVIOUS
  <2>3. taskStatus[t] # "none" /\ (y = "taskdone" => taskStatus[t] \in Started) /\ FinishTask(t, msgs, stale)
    BY <1>2, <2>1, <2>2
  <2>4. NothingBegins /\ ResultsReal
    BY <2>3, FinishTaskSilent
  <2> QED BY <1>1, <2>4, NothingReceivedNoSettings DEF Silent
<1>3. CASE /\ taskStatus[t] = "running" /\ UNCHANGED toBroker
           /\ taskStatus' = [taskStatus EXCEPT ![t] = "aborting:timeout"]
  <2>1. NothingBegins
    BY <1>1, <1>3 DEF NothingBegins, Started
  <2> QED BY <1>1, <1>3, <2>1, NothingReceivedNoSettings, NothingSentNoResults DEF Silent
<1> QED BY <1>2, <1>3 DEF TaskTimedOut

LEMMA ExecutionEndsSilent ==
  ASSUME BrokerInv, NEW t \in Offer, NEW stale, NEW result \in {"taskdone", "taskerror"},
         ExecutionEnds(t, result, stale)
  PROVE  Silent
<1>1. UNCHANGED toRunner /\ taskStatus[t] \in Started /\ taskStatus[t] # "none"
  BY DEF ExecutionEnds, Started
<1>2. PICK msgs \in {<<>>, <<Msg(result, t)>>} : FinishTask(t, msgs, stale)
  BY DEF ExecutionEnds
<1>3. NothingBegins /\ ResultsReal
  BY <1>1, <1>2, FinishTaskSilent
<1> QED BY <1>1, <1>3, NothingReceivedNoSettings DEF Silent

-----------------------------------------------------------------------------
(* receivedSettings: the code of a call is begun.                           *)

LEMMA OneCounted ==
  ASSUME BrokerInv, ExecInv, Counted, NEW t \in Offer, taskStatus[t] # "running",
         taskStatus' = [taskStatus EXCEPT ![t] = "running"],
         matched[t] \in Request, executions[matched[t]] = 0
  PROVE  /\ executions' \in [Request -> {0, 1}]
         /\ executions'[matched[t]] = 1
         /\ \A q \in Request : q # matched[t] => executions'[q] = executions[q]
<1>1. taskStatus \in [Offer -> TaskStatus] /\ executions \in [Request -> {0, 1}]
  BY DEF BrokerInv, TypeOK, RunnerTypeOK, ExecInv
<1>2. Begun = {t}
  BY <1>1 DEF Begun
<1>3. Cardinality({}) = 0 /\ Cardinality({t}) = 1
  BY FS_EmptySet, FS_Singleton
<1>4. \A q \in Request : {u \in Begun : matched[u] = q} = IF q = matched[t] THEN {t} ELSE {}
  BY <1>2
<1>5. \A q \in Request : executions'[q] = IF q = matched[t] THEN 1 ELSE executions[q]
  BY <1>1, <1>3, <1>4 DEF Counted
<1> QED BY <1>1, <1>5 DEF Counted

LEMMA ReceivedSettingsServed ==
  ASSUME BrokerInv, ExecInv, Counted, UNCHANGED brokerVars, NEW r \in Runner, ReceivedSettings(r)
  PROVE  ExecInv' /\ Service!Next
<1> DEFINE t == Head(toRunner[r]).id
           q == matched[t]
<1>1. /\ Next4Runner(r, "tasksettings") /\ Consume(r) /\ UNCHANGED toBroker
      /\ taskStatus' = IF taskStatus[t] = "waitingForSettings"
                       THEN [taskStatus EXCEPT ![t] = "running"] ELSE taskStatus
  BY DEF ReceivedSettings
<1>2. "tasksettings" \in ToRunnerType /\ "tasksettings" \in TaskMsg
  BY DEF ToRunnerType, TaskMsg
<1>3. /\ Taken(toRunner', toRunner, r, Msg("tasksettings", t))
      /\ t \in Offer /\ ToR(r, "tasksettings", t) /\ offeredBy[t] = r /\ accept[t] # "none"
  BY <1>1, <1>2, Arrival
<1> HIDE DEF t
<1>4. MatchesStay /\ CallsMove /\ matched' = matched /\ request' = request
  BY BrokerRests DEF brokerVars
<1>5. NoSettings
  BY <1>3, TakenNoSettings
<1>6. ResultsReal
  BY <1>1, NothingSentNoResults
<1>7. CASE taskStatus[t] # "waitingForSettings"
  <2>1. NothingBegins
    BY <1>1, <1>7, SameStatus
  <2> QED BY <1>4, <1>5, <1>6, <2>1, QuietStep
<1>8. CASE taskStatus[t] = "waitingForSettings"
  <2>1. taskStatus' = [taskStatus EXCEPT ![t] = "running"] /\ taskStatus[t] # "running"
    BY <1>1, <1>8
  <2>2. /\ q \in Request /\ executions[q] = 0 /\ request[q] \notin Unsent
        /\ \A u \in Offer : \A p \in Runner : ToR(p, "tasksettings", u) /\ matched[u] = q => u = t
    BY <1>3, MatchedTasks DEF ExecInv, SettingsInv
  <2>3. /\ executions' \in [Request -> {0, 1}]
        /\ executions'[q] = 1
        /\ \A p \in Request : p # q => executions'[p] = executions[p]
    BY <1>3, <2>1, <2>2, OneCounted
  <2>4. \A p \in Runner : ~Has(toRunner'[p], Msg("tasksettings", t))
    <3>1. Once(toRunner[r], Msg("tasksettings", t))
      BY <1>3 DEF BrokerInv, OfferLife, SettingsOnce
    <3>2. \A p \in Runner : ToR(p, "tasksettings", t) => p = r
      BY <1>2, <1>3 DEF BrokerInv, OfferLife, Addressed
    <3> QED BY <1>3, <1>5, <3>1, <3>2 DEF Taken, NoSettings
  <2>5. taskStatus \in [Offer -> TaskStatus] /\ request \in [Request -> RequestState]
        /\ executions \in [Request -> {0, 1}]
    BY DEF BrokerInv, TypeOK, RunnerTypeOK, ExecInv
  <2> HIDE DEF q
  <2>6. ASSUME NEW u \in Offer PROVE SettingsInv(u)'
    <3> SUFFICES ASSUME NEW p \in Runner, Has(toRunner'[p], Msg("tasksettings", u))
                 PROVE  /\ executions'[matched[u]] = 0
                        /\ request[matched[u]] \notin Unsent
                        /\ \A v \in Offer : \A s \in Runner :
                             Has(toRunner'[s], Msg("tasksettings", v)) /\ matched[v] = matched[u] => v = u
      BY <1>4 DEF SettingsInv, ToR
    <3>1. ToR(p, "tasksettings", u) /\ u # t
      BY <1>5, <2>4 DEF NoSettings
    <3>2. matched[u] # q /\ matched[u] \in Request
      BY <2>2, <3>1, MatchedTasks
    <3>3. SettingsInv(u)
      BY DEF ExecInv
    <3> QED BY <1>5, <2>3, <3>1, <3>2, <3>3 DEF SettingsInv, NoSettings
  <2>7. ASSUME NEW u \in Offer PROVE BegunInv(u)'
    <3> SUFFICES ASSUME taskStatus'[u] \in Started \/ \E p \in Runner : Has(toBroker'[p], Msg("taskdone", u))
                 PROVE  executions'[matched[u]] = 1
      BY <1>4 DEF BegunInv, ToB
    <3>1. CASE u = t
      BY <2>3, <3>1 DEF q
    <3>2. CASE u # t
      <4>1. taskStatus'[u] = taskStatus[u]
        BY <1>3, <2>1, <2>5, <3>2
      <4>2. taskStatus[u] \in Started \/ \E p \in Runner : ToB(p, "taskdone", u)
        BY <1>6, <4>1 DEF ResultsReal
      <4>3. executions[matched[u]] = 1 /\ matched[u] \in Request
        BY <4>2, MatchedTasks DEF ExecInv, BegunInv
      <4> QED BY <2>3, <4>3
    <3> QED BY <3>1, <3>2
  <2>8. ASSUME NEW p \in Request
        PROVE  CallInv(p)' /\ (Service!Unmoved(p) \/ Service!Executed(p))
    <3>1. CallInv(p) /\ request'[p] = request[p] /\ request[p] \in RequestState
      BY <1>4, <2>5 DEF ExecInv
    <3>2. /\ Outcome[p] = IF request[p] \in {"requested", "running"} THEN "pending" ELSE request[p]
          /\ Outcome'[p] = Outcome[p]
      BY <1>4 DEF Outcome
    <3>3. CASE p # q
      <4>1. executions'[p] = executions[p]
        BY <2>3, <3>3
      <4> QED BY <3>1, <3>2, <4>1 DEF CallInv, Service!Unmoved
    <3>4. CASE p = q
      <4>1. executions[p] = 0 /\ executions'[p] = 1 /\ request[p] \notin Unsent
        BY <2>2, <2>3, <3>4
      <4>2. Outcome[p] \in {"pending", "failed", "cancelled"}
        BY <3>1, <3>2, <4>1 DEF CallInv, Unsent, RequestState, Settled
      <4> QED BY <3>1, <3>2, <4>1, <4>2 DEF CallInv, Service!Executed
    <3> QED BY <3>3, <3>4
  <2>9. DOMAIN Outcome' = Request /\ DOMAIN executions' = Request
    BY <2>3 DEF Outcome
  <2>10. Service!Next
    BY <2>8, <2>9 DEF Service!Next
  <2> QED BY <2>3, <2>6, <2>7, <2>8, <2>10 DEF ExecInv
<1> QED BY <1>7, <1>8

LEMMA RunnerSideServed ==
  ASSUME BrokerInv, ExecInv, Counted, RunnerSide
  PROVE  ExecInv' /\ Service!Next
<1>1. UNCHANGED brokerVars /\ MatchesStay /\ CallsMove
  BY BrokerRests DEF RunnerSide
<1>2. ASSUME Silent PROVE ExecInv' /\ Service!Next
  BY <1>1, <1>2, QuietStep DEF Silent
<1>3. ASSUME NEW r \in Runner, RunnerReceives(r) PROVE ExecInv' /\ Service!Next
  BY <1>1, <1>2, <1>3, ReceivesSilent, ReceivedSettingsServed DEF RunnerReceives
<1>4. ASSUME NEW r \in Runner, RunnerStep(r) PROVE Silent
  BY <1>4, RunnerStepSilent
<1>5. ASSUME NEW t \in Offer, TaskTimer(t) PROVE Silent
  BY <1>5, TaskTimedOutSilent DEF TaskTimer
<1>6. ASSUME NEW t \in Offer, TaskEnds(t) PROVE Silent
  BY <1>6, ExecutionEndsSilent DEF TaskEnds
<1> QED BY <1>2, <1>3, <1>4, <1>5, <1>6 DEF RunnerSide

-----------------------------------------------------------------------------
(* Steps of broker and requester.                                           *)

\* The requester is told a result that is one.
LEMMA ResultServed ==
  ASSUME BrokerInv, NEW ts, NEW result \in {"done", "failed"}, TaskEndsAs(ts, result),
         result = "done" => \A t \in ts : executions[matched[t]] = 1
  PROVE  CallsMove
<1>1. \A q \in Request : request'[q] =
        IF request[q] = "running" /\ \E t \in ts \cap timed : matched[t] = q
        THEN result ELSE request[q]
  BY DEF TaskEndsAs
<1> QED BY <1>1 DEF CallsMove, CallMoves

\* settleTasks asks runners, which begins nothing; it gives new offers to calls.
LEMMA SettleSilent ==
  ASSUME BrokerInv, NEW offers \in SUBSET Offer, NEW requests \in SUBSET Request,
         SettleTasks(offers, requests), \A o \in offers : accept[o] = "none"
  PROVE  NoSettings /\ MatchesStay
<1>1. PICK taken, m : Settling(offers, requests, taken, m)
  BY SettlingFacts DEF BrokerInv
<1>2. \A t, o : Msg("tasksettings", t) # Msg("taskofferaccept", o)
  BY MsgFacts
<1>3. NoSettings
  BY <1>1, <1>2 DEF Settling, NoSettings, ToR
<1>4. MatchesStay
  BY <1>1 DEF Settling, MatchesStay
<1> QED BY <1>3, <1>4

LEMMA StartTaskServed ==
  ASSUME BrokerInv, ExecInv, Counted, NEW q \in Request, StartTask(q)
  PROVE  ExecInv' /\ Service!Next
<1>1. request[q] = "idle" /\ UNCHANGED taskStatus /\ UNCHANGED toBroker
  BY DEF StartTask
<1>2. request \in [Request -> RequestState] /\ pendingTaskOffers \in SUBSET Offer
      /\ pendingTaskRequests \cup {q} \in SUBSET Request
  BY DEF BrokerInv, TypeOK
<1>3. NothingBegins /\ ResultsReal
  BY <1>1, SameStatus, NothingSentNoResults
<1>4. PICK s \in {"requested", "expired"} : request' = [request EXCEPT ![q] = s]
  BY DEF StartTask
<1>5. CallsMove
  BY <1>1, <1>2, <1>4 DEF CallsMove, CallMoves
<1>6. CASE isDraining
  <2>1. UNCHANGED toRunner /\ UNCHANGED matched
    BY <1>6 DEF StartTask
  <2>2. NoSettings /\ MatchesStay
    BY <2>1, NothingReceivedNoSettings DEF MatchesStay
  <2> QED BY <1>3, <1>5, <2>2, QuietStep
<1>7. CASE ~isDraining
  <2>1. SettleTasks(pendingTaskOffers, pendingTaskRequests \cup {q})
    BY <1>7 DEF StartTask
  <2>2. \A o \in pendingTaskOffers : accept[o] = "none"
    BY PendingOffers
  <2> DEFINE requests == pendingTaskRequests \cup {q}
  <2>3. SettleTasks(pendingTaskOffers, requests) /\ requests \in SUBSET Request
    BY <1>2, <2>1
  <2> HIDE DEF requests
  <2>4. NoSettings /\ MatchesStay
    BY <1>2, <2>2, <2>3, SettleSilent
  <2> QED BY <1>3, <1>5, <2>4, QuietStep
<1> QED BY <1>6, <1>7

LEMMA TimersServed ==
  ASSUME BrokerInv, ExecInv, Counted,
         (\E q \in Request : HandleRequestTimeout(q)) \/ (\E t \in Offer : AcceptTimeout(t))
  PROVE  ExecInv' /\ Service!Next
<1>1. UNCHANGED taskStatus /\ UNCHANGED toBroker /\ UNCHANGED toRunner /\ UNCHANGED matched
  BY DEF HandleRequestTimeout, AcceptTimeout, runnerVars
<1>2. NothingBegins /\ ResultsReal /\ NoSettings /\ MatchesStay
  BY <1>1, SameStatus, NothingSentNoResults, NothingReceivedNoSettings DEF MatchesStay
<1>3. CallsMove
  <2>1. CASE \E q \in Request : HandleRequestTimeout(q)
    <3>1. PICK q \in Request : HandleRequestTimeout(q)
      BY <2>1
    <3>2. request[q] = "requested" /\ request' = [request EXCEPT ![q] = "expired"]
      BY <3>1 DEF HandleRequestTimeout, BrokerInv, RequestInv
    <3>3. request \in [Request -> RequestState]
      BY DEF BrokerInv, TypeOK
    <3> QED BY <3>2, <3>3 DEF CallsMove, CallMoves
  <2>2. CASE \E t \in Offer : AcceptTimeout(t)
    BY <2>2 DEF AcceptTimeout, CallsMove, CallMoves
  <2> QED BY <2>1, <2>2
<1> QED BY <1>2, <1>3, QuietStep

LEMMA CancelTaskServed ==
  ASSUME BrokerInv, ExecInv, Counted, NEW t \in Offer, CancelTask(t)
  PROVE  ExecInv' /\ Service!Next
<1>1. /\ request[matched[t]] = "running"
      /\ request' = [request EXCEPT ![matched[t]] = "cancelled"]
      /\ MessageRunners({offeredBy[t]}, "taskcancel", t)
      /\ UNCHANGED taskStatus /\ UNCHANGED toBroker /\ UNCHANGED matched
  BY DEF CancelTask
<1>2. "taskcancel" \in ToRunnerType /\ "taskcancel" # "tasksettings" /\ t \in Offer \cup {0} /\ TypeOK
      /\ request \in [Request -> RequestState]
  BY DEF ToRunnerType, BrokerInv, TypeOK
<1> DEFINE rs == {offeredBy[t]}
<1>3. MessageRunners(rs, "taskcancel", t)
  BY <1>1
<1> HIDE DEF rs
<1>4. NoSettings
  BY <1>2, <1>3, MessageNoSettings
<1>5. NothingBegins /\ ResultsReal /\ MatchesStay
  BY <1>1, SameStatus, NothingSentNoResults DEF MatchesStay
<1>6. CallsMove
  BY <1>1, <1>2 DEF CallsMove, CallMoves
<1> QED BY <1>4, <1>5, <1>6, QuietStep

LEMMA HandleTaskTimeoutServed ==
  ASSUME BrokerInv, ExecInv, Counted, NEW t \in Offer, HandleTaskTimeout(t)
  PROVE  ExecInv' /\ Service!Next
<1>1. t \in timed /\ AbortTimedOut(t) /\ TaskEndsAs({t}, "failed") /\ UNCHANGED matched
  BY DEF HandleTaskTimeout
<1>2. CallsMove /\ MatchesStay
  BY <1>1, ResultServed DEF MatchesStay
<1>3. offeredBy[t] \in Runner
  BY <1>1 DEF BrokerInv, OfferLife, Fresh
<1>4. Silent
  <2>1. CASE InternalMode /\ link[offeredBy[t]] = "up"
    <3>1. PICK r \in Runner : r = offeredBy[t]
      BY <1>3
    <3>2. Ends(r) /\ UNCHANGED toBroker
      BY <1>1, <2>1, <3>1 DEF AbortTimedOut
    <3> QED BY <3>2, EndsSilent, NothingSentNoResults DEF Silent
  <2>2. CASE InternalMode /\ link[offeredBy[t]] # "up"
    <3>1. UNCHANGED taskStatus /\ UNCHANGED toRunner /\ UNCHANGED toBroker
      BY <1>1, <2>2 DEF AbortTimedOut, runnerVars
    <3> QED BY <3>1, SameStatus, NothingReceivedNoSettings, NothingSentNoResults DEF Silent
  <2>3. CASE ~InternalMode
    <3> DEFINE rs == {offeredBy[t]}
    <3>1. /\ MessageRunners(rs, "taskcancel", t)
          /\ UNCHANGED taskStatus /\ UNCHANGED toBroker
      BY <1>1, <2>3 DEF AbortTimedOut
    <3>2. "taskcancel" \in ToRunnerType /\ "taskcancel" # "tasksettings" /\ t \in Offer \cup {0} /\ TypeOK
      BY DEF ToRunnerType, BrokerInv
    <3> HIDE DEF rs
    <3>3. NoSettings
      BY <3>1, <3>2, MessageNoSettings
    <3> QED BY <3>1, <3>3, SameStatus, NothingSentNoResults DEF Silent
  <2> QED BY <2>1, <2>2, <2>3
<1> QED BY <1>2, <1>4, QuietStep DEF Silent

LEMMA ConnectionsServed ==
  ASSUME BrokerInv, ExecInv, Counted, NEW r \in Runner, RegisterRunner(r) \/ DeregisterRunner(r)
  PROVE  ExecInv' /\ Service!Next
<1>1. toRunner \in [Runner -> Seq(ToRunnerMsg)] /\ toBroker \in [Runner -> Seq(ToBrokerMsg)]
  BY DEF BrokerInv, TypeOK, RunnerTypeOK
<1>2. CASE RegisterRunner(r)
  <2>1. /\ toRunner' = [toRunner EXCEPT ![r] = <<Msg("runnerregistered", 0)>>]
        /\ UNCHANGED taskStatus /\ UNCHANGED toBroker /\ UNCHANGED matched /\ UNCHANGED request
    BY <1>2 DEF RegisterRunner
  <2>2. \A t : ~Has(<<Msg("runnerregistered", 0)>>, Msg("tasksettings", t))
    BY MsgFacts DEF Has
  <2>3. \A p \in Runner : toRunner'[p] = IF p = r THEN <<Msg("runnerregistered", 0)>> ELSE toRunner[p]
    BY <1>1, <2>1
  <2>4. NoSettings
    BY <2>2, <2>3 DEF NoSettings, ToR
  <2>5. NothingBegins /\ ResultsReal /\ MatchesStay /\ CallsMove
    BY <2>1, SameStatus, NothingSentNoResults DEF MatchesStay, CallsMove, CallMoves
  <2> QED BY <2>4, <2>5, QuietStep
<1>3. CASE DeregisterRunner(r)
  <2> DEFINE ts == {t \in tasks : offeredBy[t] = r}
  <2>1. /\ TaskEndsAs(ts, "failed") /\ Ends(r) /\ UNCHANGED matched
        /\ toBroker' = [toBroker EXCEPT ![r] = <<>>]
    BY <1>3 DEF DeregisterRunner
  <2> HIDE DEF ts
  <2>2. CallsMove /\ MatchesStay
    BY <2>1, ResultServed DEF MatchesStay
  <2>3. \A x : ~Has(<<>>, x)
    BY DEF Has
  <2>4. \A p \in Runner : toBroker'[p] = IF p = r THEN <<>> ELSE toBroker[p]
    BY <1>1, <2>1
  <2>5. ResultsReal
    BY <2>3, <2>4 DEF ResultsReal, ToB
  <2>6. NothingBegins /\ NoSettings
    BY <2>1, EndsSilent
  <2> QED BY <2>2, <2>5, <2>6, QuietStep
<1> QED BY <1>2, <1>3

LEMMA StartDrainingServed ==
  ASSUME BrokerInv, ExecInv, Counted, StartDraining
  PROVE  ExecInv' /\ Service!Next
<1>1. /\ MessageRunners(knownRunners, "drain", 0)
      /\ UNCHANGED taskStatus /\ UNCHANGED toBroker /\ UNCHANGED matched /\ UNCHANGED request
  BY DEF StartDraining
<1>2. "drain" \in ToRunnerType /\ "drain" # "tasksettings" /\ 0 \in Offer \cup {0} /\ TypeOK
  BY DEF ToRunnerType, BrokerInv
<1>3. NoSettings
  BY <1>1, <1>2, MessageNoSettings
<1>4. NothingBegins /\ ResultsReal /\ MatchesStay /\ CallsMove
  BY <1>1, SameStatus, NothingSentNoResults DEF MatchesStay, CallsMove, CallMoves
<1> QED BY <1>3, <1>4, QuietStep

\* The messages that begin nothing: an offer, a refusal, a result.
LEMMA BrokerReceivesServed ==
  ASSUME BrokerInv, ExecInv, Counted, NEW r \in Runner,
         TaskOffered(r) \/ HandleRunnerReject(r) \/ TaskResult(r)
  PROVE  ExecInv' /\ Service!Next
<1> DEFINE t == Head(toBroker[r]).id
<1>1. PICK type \in ToBrokerType :
        /\ Next4Broker(r, type) /\ Receive(r)
        /\ TaskOffered(r) => type = "taskoffer"
        /\ TaskResult(r) => \/ type = "taskdone" /\ TaskEndsAs({t} \cap tasks, "done")
                            \/ type = "taskerror" /\ TaskEndsAs({t} \cap tasks, "failed")
  BY DEF TaskOffered, HandleRunnerReject, TaskResult, ToBrokerType, Next4Broker
<1>2. /\ Taken(toBroker', toBroker, r, Msg(type, t))
      /\ t \in Offer /\ ToB(r, type, t) /\ UNCHANGED taskStatus
  BY <1>1, BrokerArrival
<1>3. NothingBegins /\ ResultsReal
  BY <1>2, SameStatus, TakenNoResults
<1> HIDE DEF t
<1>4. CASE TaskOffered(r)
  <2> DEFINE offers == pendingTaskOffers \cup {t}
  <2>1. SettleTasks(offers, pendingTaskRequests) /\ UNCHANGED request
    BY <1>4 DEF TaskOffered, t
  <2>2. accept[t] = "none"
    BY <1>1, <1>2, <1>4 DEF BrokerInv, OfferLife, Fresh
  <2>3. /\ offers \in SUBSET Offer /\ pendingTaskRequests \in SUBSET Request
        /\ \A o \in offers : accept[o] = "none"
    BY <1>2, <2>2, PendingOffers DEF BrokerInv, TypeOK
  <2> HIDE DEF offers
  <2>4. NoSettings /\ MatchesStay
    BY <2>1, <2>3, SettleSilent
  <2>5. CallsMove
    BY <2>1 DEF CallsMove, CallMoves
  <2> QED BY <1>3, <2>4, <2>5, QuietStep
<1>5. CASE HandleRunnerReject(r)
  <2>1. UNCHANGED toRunner /\ UNCHANGED matched /\ UNCHANGED request
    BY <1>5 DEF HandleRunnerReject
  <2>2. NoSettings /\ MatchesStay /\ CallsMove
    BY <2>1, NothingReceivedNoSettings DEF MatchesStay, CallsMove, CallMoves
  <2> QED BY <1>3, <2>2, QuietStep
<1>6. CASE TaskResult(r)
  <2>1. UNCHANGED toRunner /\ UNCHANGED matched
    BY <1>6 DEF TaskResult
  <2>2. NoSettings /\ MatchesStay
    BY <2>1, NothingReceivedNoSettings DEF MatchesStay
  <2> DEFINE ts == {t} \cap tasks
  <2>3. PICK result \in {"done", "failed"} :
          TaskEndsAs(ts, result) /\ (result = "done" => type = "taskdone")
    BY <1>1, <1>6
  <2>4. result = "done" => executions[matched[t]] = 1
    BY <1>2, <2>3 DEF ExecInv, BegunInv
  <2>5. result = "done" => \A u \in ts : executions[matched[u]] = 1
    BY <2>4
  <2> HIDE DEF ts
  <2>6. CallsMove
    BY <2>3, <2>5, ResultServed
  <2> QED BY <1>3, <2>2, <2>6, QuietStep
<1> QED BY <1>4, <1>5, <1>6

\* handleRunnerAccept: the settings of a call are sent, and only now.
LEMMA HandleRunnerAcceptServed ==
  ASSUME BrokerInv, ExecInv, Counted, NEW r \in Runner, HandleRunnerAccept(r)
  PROVE  ExecInv' /\ Service!Next
<1> DEFINE t == Head(toBroker[r]).id
           q == matched[t]
           ready == accept[t] = "asking" /\ q \in pendingTaskRequests
<1>1. /\ Next4Broker(r, "taskaccepted") /\ Receive(r)
      /\ IF ready
         THEN /\ request' = [request EXCEPT ![q] = "running"]
              /\ MessageRunners({r}, "tasksettings", t)
         ELSE UNCHANGED request /\ UNCHANGED toRunner
      /\ UNCHANGED matched
  BY DEF HandleRunnerAccept
<1>2. "taskaccepted" \in ToBrokerType /\ "tasksettings" \in ToRunnerType
  BY DEF ToBrokerType, ToRunnerType
<1>3. /\ Taken(toBroker', toBroker, r, Msg("taskaccepted", t))
      /\ t \in Offer /\ UNCHANGED taskStatus
  BY <1>1, <1>2, BrokerArrival
<1>4. NothingBegins /\ ResultsReal /\ MatchesStay
  BY <1>1, <1>3, SameStatus, TakenNoResults DEF MatchesStay
<1> HIDE DEF t
<1>5. CASE ~ready
  <2>1. NoSettings /\ CallsMove
    BY <1>1, <1>5, NothingReceivedNoSettings DEF CallsMove, CallMoves
  <2> QED BY <1>4, <2>1, QuietStep
<1>6. CASE ready
  <2>1. /\ q \in Request /\ request[q] = "requested" /\ executions[q] = 0
        /\ request \in [Request -> RequestState] /\ executions \in [Request -> {0, 1}]
    BY <1>6 DEF BrokerInv, RequestInv, TypeOK, ExecInv, CallInv, Unsent
  <2>2. executions' = executions
    BY <1>4, <2>1, NoneCounted
  <2>3. \A p \in Request : request'[p] = IF p = q THEN "running" ELSE request[p]
    BY <1>1, <1>6, <2>1
  <2>4. CallsMove
    BY <2>1, <2>3 DEF CallsMove, CallMoves
  <2>5. Service!Next /\ \A p \in Request : CallInv(p)'
    BY <2>2, <2>4, CallsServed
\* No other settings are on their way for this call.
  <2>6. \A u \in Offer : \A p \in Runner : ToR(p, "tasksettings", u) => matched[u] # q
    BY <2>1 DEF ExecInv, SettingsInv, Unsent
  <2>7. \A u \in Offer : \A p \in Runner :
          Has(toRunner'[p], Msg("tasksettings", u)) => u = t \/ ToR(p, "tasksettings", u)
    <3> DEFINE rs == {p \in Runner : p \in {r} \cap knownRunners /\ link[p] = "up"}
    <3>1. Written(toRunner', toRunner, rs, Msg("tasksettings", t))
      BY <1>1, <1>2, <1>3, <1>6, MessageFacts DEF BrokerInv
    <3> HIDE DEF rs
    <3>2. \A u : u # t => Msg("tasksettings", u) # Msg("tasksettings", t)
      BY MsgFacts
    <3> QED BY <3>1, <3>2 DEF Written, Kept, ToR
  <2>8. ASSUME NEW u \in Offer PROVE SettingsInv(u)'
    <3> SUFFICES ASSUME NEW p \in Runner, Has(toRunner'[p], Msg("tasksettings", u))
                 PROVE  /\ executions[matched[u]] = 0
                        /\ request'[matched[u]] \notin Unsent
                        /\ \A v \in Offer : \A s \in Runner :
                             Has(toRunner'[s], Msg("tasksettings", v)) /\ matched[v] = matched[u] => v = u
      BY <1>1, <2>2 DEF SettingsInv, ToR
    <3>1. CASE u = t
      <4>1. request'[q] \notin Unsent
        BY <2>1, <2>3 DEF Unsent
      <4> QED BY <2>1, <2>6, <2>7, <3>1, <4>1
    <3>2. CASE u # t
      <4>1. ToR(p, "tasksettings", u) /\ matched[u] # q /\ matched[u] \in Request /\ SettingsInv(u)
        BY <2>6, <2>7, <3>2, MatchedTasks DEF ExecInv
      <4> QED BY <2>3, <2>7, <3>2, <4>1 DEF SettingsInv
    <3> QED BY <3>1, <3>2
  <2>9. ASSUME NEW u \in Offer PROVE BegunInv(u)'
    <3> SUFFICES ASSUME taskStatus'[u] \in Started \/ \E p \in Runner : Has(toBroker'[p], Msg("taskdone", u))
                 PROVE  executions[matched[u]] = 1
      BY <1>1, <2>2 DEF BegunInv, ToB
    <3>1. taskStatus[u] \in Started \/ \E p \in Runner : ToB(p, "taskdone", u)
      BY <1>3, <1>4 DEF ResultsReal
    <3> QED BY <3>1 DEF ExecInv, BegunInv
  <2> QED BY <2>1, <2>2, <2>5, <2>8, <2>9 DEF ExecInv
<1> QED BY <1>5, <1>6

-----------------------------------------------------------------------------
LEMMA BrokerSideServed ==
  ASSUME BrokerInv, ExecInv, Counted, BrokerSide
  PROVE  ExecInv' /\ Service!Next
<1>1. ASSUME NEW q \in Request, StartTask(q) PROVE ExecInv' /\ Service!Next
  BY <1>1, StartTaskServed
<1>2. ASSUME NEW q \in Request, HandleRequestTimeout(q) PROVE ExecInv' /\ Service!Next
  BY <1>2, TimersServed
<1>3. ASSUME NEW t \in Offer, CancelTask(t) PROVE ExecInv' /\ Service!Next
  BY <1>3, CancelTaskServed
<1>4. ASSUME NEW t \in Offer, AcceptTimeout(t) PROVE ExecInv' /\ Service!Next
  BY <1>4, TimersServed
<1>5. ASSUME NEW t \in Offer, HandleTaskTimeout(t) PROVE ExecInv' /\ Service!Next
  BY <1>5, HandleTaskTimeoutServed
<1>6. ASSUME NEW r \in Runner, BrokerReceives(r) PROVE ExecInv' /\ Service!Next
  BY <1>6, BrokerReceivesServed, HandleRunnerAcceptServed DEF BrokerReceives
<1>7. ASSUME NEW r \in Runner, RegisterRunner(r) \/ DeregisterRunner(r) PROVE ExecInv' /\ Service!Next
  BY <1>7, ConnectionsServed
<1>8. ASSUME StartDraining PROVE ExecInv' /\ Service!Next
  BY <1>8, StartDrainingServed
<1> QED BY <1>1, <1>2, <1>3, <1>4, <1>5, <1>6, <1>7, <1>8 DEF BrokerSide

LEMMA ExecInit ==
  ASSUME HistoryInit
  PROVE  ExecInv /\ Service!Init
<1>1. /\ executions = [q \in Request |-> 0] /\ request = [q \in Request |-> "idle"]
      /\ taskStatus = [o \in Offer |-> "none"]
      /\ toRunner = [r \in Runner |-> <<>>] /\ toBroker = [r \in Runner |-> <<>>]
  BY DEF HistoryInit, Init, RunnerInit
<1>2. \A q \in Request : CallInv(q)
  BY <1>1 DEF CallInv
<1>3. \A x : ~Has(<<>>, x)
  BY DEF Has
<1>4. \A t \in Offer : SettingsInv(t) /\ BegunInv(t)
  BY <1>1, <1>3 DEF SettingsInv, BegunInv, ToR, ToB, Started
<1>5. Service!Init
  BY <1>1 DEF Service!Init, Outcome
<1> QED BY <1>1, <1>2, <1>4, <1>5 DEF ExecInv

\* Initial states are initial states of the service and every step, of a runner
\* or of the broker, is a step of the service or leaves it alone.
LEMMA StepServed ==
  ASSUME BrokerInv, ExecInv, [HistoryNext]_<<vars, executions>>
  PROVE  BrokerInv' /\ ExecInv' /\ [Service!Next]_<<Outcome, executions>>
<1>1. CASE HistoryNext
  <2>1. Next /\ Counted
    BY <1>1 DEF HistoryNext, Counted
  <2>2. ExecInv' /\ Service!Next
    BY <2>1, RunnerSideServed, BrokerSideServed DEF Next
  <2>3. BrokerInv'
    BY <2>1, RunnerSideKeeps, BrokerSideKeeps DEF Next
  <2> QED BY <2>2, <2>3
<1>2. CASE UNCHANGED <<vars, executions>>
  <2>1. UNCHANGED vars /\ UNCHANGED executions
    BY <1>2
  <2>2. /\ request' = request /\ matched' = matched /\ taskStatus' = taskStatus
        /\ toRunner' = toRunner /\ toBroker' = toBroker
    BY <2>1 DEF vars, runnerVars, brokerVars
  <2>3. ExecInv'
    BY <2>1, <2>2 DEF ExecInv, CallInv, SettingsInv, BegunInv, ToR, ToB
  <2>4. UNCHANGED <<Outcome, executions>>
    BY <2>1, <2>2 DEF Outcome
  <2> QED BY <2>1, <2>3, <2>4, BrokerStutters
<1> QED BY <1>1, <1>2

\* startTask of the task requester keeps its promise whatever happens to
\* runners, connections and timers: a call has one outcome, its code is begun at
\* most once, was begun if the outcome is a result, and neither was nor will be
\* begun if the call is told that no runner took it (TaskRequestTimeoutError).
THEOREM StartTaskKeepsPromise == HistorySpec => ImplementsTaskService
<1>1. HistoryInit => BrokerInv /\ ExecInv /\ Service!Init
  BY BrokerInit, ExecInit DEF HistoryInit
<1>2. BrokerInv /\ ExecInv /\ [HistoryNext]_<<vars, executions>>
        => BrokerInv' /\ ExecInv' /\ [Service!Next]_<<Outcome, executions>>
  BY StepServed
<1> QED BY <1>1, <1>2, PTL DEF HistorySpec, ImplementsTaskService, Service!Spec

=============================================================================

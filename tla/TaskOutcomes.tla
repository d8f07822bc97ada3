----------------------------- MODULE TaskOutcomes -----------------------------
(***************************************************************************)
(* Broker, requester and runners implement TaskService. How often the code  *)
(* of a call was begun is a history of the runners' steps, which the        *)
(* program does not keep.                                                   *)
(***************************************************************************)
EXTENDS TaskBroker

VARIABLE executions

\* The tasks whose code is begun in this step (receivedSettings).
Begun == {t \in Offer : taskStatus[t] # "running" /\ taskStatus'[t] = "running"}

HistoryInit == Init /\ executions = [q \in Request |-> 0]

HistoryNext ==
  /\ Next
  /\ executions' = [q \in Request |->
                      executions[q] + Cardinality({t \in Begun : matched[t] = q})]

HistorySpec == HistoryInit /\ [][HistoryNext]_<<vars, executions>>

\* The requester does not let its caller see whether a runner was found yet.
Outcome ==
  [q \in Request |-> IF request[q] \in {"requested", "running"}
                     THEN "pending" ELSE request[q]]

Service == INSTANCE TaskService WITH outcome <- Outcome

\* startTask keeps its promise through lost connections, expired offers, late
\* acceptances, timeouts and cancellations: one outcome per call, the code run
\* at most once, exactly once for a result and never for an expired request.
ImplementsTaskService == Service!Spec
=============================================================================

----------------------------- MODULE TaskService -----------------------------
(***************************************************************************)
(* What a call of TaskRequester.startTask may rely on, whatever happens to  *)
(* the runners: it gets one outcome, its code runs at most once, it has run *)
(* when the outcome is a result, and it has not run and never will when the *)
(* call was told that no runner took it (TaskRequestTimeoutError), so that   *)
(* the caller may safely try again.                                         *)
(***************************************************************************)
EXTENDS Naturals

CONSTANT Request

VARIABLES
  outcome,    \* "idle" before the call, "pending", then how the call ended
  executions  \* how often the code of the call was begun

Outcome == {"done", "failed", "expired", "cancelled"}

Init ==
  /\ outcome = [q \in Request |-> "idle"]
  /\ executions = [q \in Request |-> 0]

\* A call is made; it ends at once when the broker is draining.
Called(q) ==
  /\ outcome[q] = "idle" /\ outcome'[q] \in {"pending", "expired"}
  /\ executions'[q] = executions[q]

\* The code begins. The call may have been cancelled or given up on while
\* the code was on its way to the runner.
Executed(q) ==
  /\ outcome[q] \in {"pending", "failed", "cancelled"} /\ outcome'[q] = outcome[q]
  /\ executions[q] = 0 /\ executions'[q] = 1

Ended(q) ==
  /\ outcome[q] = "pending" /\ outcome'[q] \in Outcome
  /\ outcome'[q] = "done" => executions[q] = 1
  /\ outcome'[q] = "expired" => executions[q] = 0
  /\ executions'[q] = executions[q]

Unmoved(q) == outcome'[q] = outcome[q] /\ executions'[q] = executions[q]

\* Calls are independent of each other; some events concern several.
Next ==
  /\ DOMAIN outcome' = Request /\ DOMAIN executions' = Request
  /\ \A q \in Request : Unmoved(q) \/ Called(q) \/ Executed(q) \/ Ended(q)

Spec == Init /\ [][Next]_<<outcome, executions>>
=============================================================================

------------------------- MODULE ConcurrencyControl -------------------------
(***************************************************************************)
(* The in-process throttle of regular mode: ConcurrencyControlService and  *)
(* the ConcurrencyQueue it keeps per queue type                            *)
(* (packages/cli/src/concurrency).                                         *)
(*                                                                         *)
(* A Run is one call of WorkflowRunner.run, that is one async frame that   *)
(* reserves capacity for one execution.  The code's queue holds execution  *)
(* ids together with the resolve callback of the waiting frame; the model's*)
(* queue holds the waiting frame itself.                                   *)
(***************************************************************************)
EXTENDS Integers, Sequences, FiniteSets

CONSTANTS
  Run,                \* calls of WorkflowRunner.run
  ProductionLimit,    \* executions.concurrency.productionLimit
  EvaluationLimit,    \* executions.concurrency.evaluationLimit
  LicensedEvaluation  \* what resolveEvaluationConcurrencyLimit answers later

ASSUME LimitsAssumption ==
  /\ ProductionLimit \in Int \ {0}     \* 0 throws InvalidConcurrencyLimitError
  /\ EvaluationLimit \in Int \ {0}
  /\ LicensedEvaluation \in Int \ {0}

VARIABLES
  isEnabled,          \* ConcurrencyControlService.isEnabled
  queues,             \* the queue types for which a ConcurrencyQueue exists
  evalQueueResolved,  \* the lazy evaluation queue has been decided
  capacity,           \* ConcurrencyQueue.capacity, per queue type
  queue               \* ConcurrencyQueue.queue, per queue type

controlVars == <<isEnabled, queues, evalQueueResolved, capacity, queue>>

-----------------------------------------------------------------------------
QueueType == {"production", "evaluation"}

\* WorkflowExecuteMode, without 'agent': no caller of run() passes it, and
\* getQueue throws on it.
Mode == {"webhook", "trigger", "chat", "evaluation", "manual", "retry",
         "error", "integrated", "cli", "internal"}

\* Limits below -1 mean the same as -1: unlimited.
NormaliseLimit(limit) == IF limit < -1 THEN -1 ELSE limit

\* The queue a mode is throttled by, if any.
GetQueue(mode) ==
  IF mode \in {"webhook", "trigger", "chat"} THEN "production"
  ELSE IF mode = "evaluation" THEN "evaluation"
  ELSE "none"

\* The capacity a queue is constructed with.
Limit(q) ==
  IF q = "production" THEN NormaliseLimit(ProductionLimit)
  ELSE IF NormaliseLimit(EvaluationLimit) > 0 THEN NormaliseLimit(EvaluationLimit)
  ELSE NormaliseLimit(LicensedEvaluation)

\* The queues the constructor builds: an evaluation queue only when the
\* environment itself carries a positive limit.
BootQueues ==
  {q \in QueueType : \/ q = "production" /\ NormaliseLimit(ProductionLimit) > 0
                     \/ q = "evaluation" /\ NormaliseLimit(EvaluationLimit) > 0}

\* The state in which the constructor leaves the service.
ControlBoot(enabled, qs, resolved, cap, waiting) ==
  /\ qs = BootQueues
  /\ enabled = (BootQueues # {})
  /\ resolved = ("evaluation" \in BootQueues)
  /\ cap = [q \in QueueType |-> Limit(q)]
  /\ waiting = [q \in QueueType |-> <<>>]

-----------------------------------------------------------------------------
(* ensureEvalQueueResolved: run first by throttle, release and remove when  *)
(* the mode is evaluation.  It builds the queue and switches the service on.*)

ResolvesEvalQueue(mode) == mode = "evaluation" /\ ~evalQueueResolved

BuildsEvalQueue(mode) ==
  ResolvesEvalQueue(mode) /\ NormaliseLimit(LicensedEvaluation) > 0

EnsureEvalQueueResolved(mode) ==
  /\ evalQueueResolved' = (evalQueueResolved \/ mode = "evaluation")
  /\ queues' = IF BuildsEvalQueue(mode) THEN queues \cup {"evaluation"} ELSE queues
  /\ isEnabled' = (isEnabled \/ BuildsEvalQueue(mode))

\* throttle and release act on a queue only if the service is enabled and the
\* mode is limited (evaluated after ensureEvalQueueResolved).
IsThrottled(mode) ==
  /\ isEnabled \/ BuildsEvalQueue(mode)
  /\ \/ GetQueue(mode) \in queues
     \/ BuildsEvalQueue(mode)

-----------------------------------------------------------------------------
(* ConcurrencyQueue.  Each operator gives the two fields of queue q.        *)

\* Mutant of EnqueueBlocks: capacity compared one too early.
EnqueueBlocksEarly(mode) == IsThrottled(mode) /\ capacity[GetQueue(mode)] - 1 <= 0

\* Mutant of EnqueueBlocks: the undecremented capacity is compared.
EnqueueBlocksLate(mode) == IsThrottled(mode) /\ capacity[GetQueue(mode)] < 0

\* enqueue blocks its caller when the decremented capacity is negative.
EnqueueBlocks(mode) == IsThrottled(mode) /\ capacity[GetQueue(mode)] - 1 < 0

\* throttle({mode, executionId}) on behalf of frame r.
Throttle(r, mode) ==
  /\ EnsureEvalQueueResolved(mode)
  /\ IF IsThrottled(mode)
     THEN /\ capacity' = [capacity EXCEPT ![GetQueue(mode)] = @ - 1]
          /\ queue' = IF EnqueueBlocks(mode)
                      THEN [queue EXCEPT ![GetQueue(mode)] = Append(@, r)]
                      ELSE queue
     ELSE UNCHANGED <<capacity, queue>>

\* Mutant of NextOf: Array.pop in place of Array.shift.
LastOf(s) == IF s = <<>> THEN {} ELSE {s[Len(s)]}

\* The frame resolveNext lets go when the waiting frames are s.
NextOf(s) == IF s = <<>> THEN {} ELSE {Head(s)}

RestOf(s) == IF s = <<>> THEN <<>> ELSE Tail(s)

\* Mutant of ReleasedBy: the resolve callback is not called.
ReleasedByForgets(mode) == {}

\* The frames that release({mode}) lets go: capacity comes back and
\* resolveNext takes the head of the queue.
ReleasedBy(mode) == IF IsThrottled(mode) THEN NextOf(queue[GetQueue(mode)]) ELSE {}

Release(mode) ==
  /\ EnsureEvalQueueResolved(mode)
  /\ IF IsThrottled(mode)
     THEN /\ capacity' = [capacity EXCEPT ![GetQueue(mode)] = @ + 1]
          /\ queue' = [queue EXCEPT ![GetQueue(mode)] = RestOf(@)]
     ELSE UNCHANGED <<capacity, queue>>

\* Mutant of Without: Array.splice(k), which takes all that follow as well.
WithoutRest(s, k) == SubSeq(s, 1, k - 1)

\* s without its k-th item (Array.splice(k, 1)).
Without(s, k) == [i \in 1 .. Len(s) - 1 |-> IF i < k THEN s[i] ELSE s[i + 1]]

\* Mutant of Remove: the capacity of the removed item is not given back.
RemoveKeepsCapacity(q, k) ==
  /\ queue' = [queue EXCEPT ![q] = RestOf(Without(@, k))]
  /\ UNCHANGED <<isEnabled, queues, evalQueueResolved, capacity>>

\* remove(executionId) of the k-th waiting frame of queue q: its capacity is
\* given back and the next waiting frame is let go in its place.
Remove(q, k) ==
  /\ capacity' = [capacity EXCEPT ![q] = @ + 1]
  /\ queue' = [queue EXCEPT ![q] = RestOf(Without(@, k))]
  /\ UNCHANGED <<isEnabled, queues, evalQueueResolved>>

RemoveLetsGo(q, k) == NextOf(Without(queue[q], k))

\* Mutant of Disable: the service stays enabled.
DisableSkipped == UNCHANGED controlVars

Disable ==
  /\ isEnabled' = FALSE
  /\ UNCHANGED <<queues, evalQueueResolved, capacity, queue>>
=============================================================================

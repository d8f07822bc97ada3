------------------------------ MODULE BullQueue ------------------------------
(***************************************************************************)
(* Bull, the job queue in Redis that joins mains and workers in queue mode  *)
(* (a library; modelled from how packages/cli/src/scaling uses it).         *)
(*                                                                         *)
(* A job is waiting until a worker takes it, then active until the worker   *)
(* reports its end. Retries are off and maxStalledCount is 0, so a job      *)
(* whose worker does not renew its lock fails and is never taken again.     *)
(***************************************************************************)
EXTENDS Integers

CONSTANT MaxCalls  \* bound on the jobs

ASSUME BullAssumption == MaxCalls \in Nat

Call == 1 .. MaxCalls

VARIABLE job  \* the state of each job and, when it failed, why

JobState == {"none", "waiting", "active", "completed", "failed", "removed"}
Why == {"none", "cancelled", "stalled", "error"}

\* What findJobsByStatus(['active', 'waiting']) returns.
Queued(c) == job[c].state \in {"active", "waiting"}

JobInit == job = [c \in Call |-> [state |-> "none", why |-> "none"]]

JobBecomes(c, from, to, why) ==
  /\ job[c].state = from
  /\ job' = [job EXCEPT ![c] = [state |-> to, why |-> why]]

Add(c) == JobBecomes(c, "none", "waiting", "none")
Take(c) == JobBecomes(c, "waiting", "active", "none")

\* Mutant of Stall: a stalled job is taken again.
StallRetried(c) == JobBecomes(c, "active", "waiting", "none")

\* The lock is not renewed: the job "stalled more than maxStalledCount".
Stall(c) == JobBecomes(c, "active", "failed", "stalled")

\* The worker's function returned or threw. It has no effect on a job that
\* has failed in the meantime.
Report(c, to, why) ==
  IF job[c].state = "active" THEN JobBecomes(c, "active", to, why) ELSE UNCHANGED job

\* job.remove() fails on an active job; the ends of the others are kept here.
Remove(c) ==
  IF job[c].state = "waiting" THEN JobBecomes(c, "waiting", "removed", "none")
  ELSE UNCHANGED job

BullTypeOK == job \in [Call -> [state : JobState, why : Why]]
=============================================================================

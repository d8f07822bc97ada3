--------------------------- MODULE LifecycleProofs ---------------------------
(***************************************************************************)
(* Who runs an execution, who goes first, and who is held back: proofs that*)
(* an execution has one owner at a time, that the throttle serves first    *)
(* come, first served, that shutdown holds waiting calls back, and that no *)
(* reservation is lost.                                                    *)
(*                                                                         *)
(* SingleOwner is not inductive by itself.  A new execution's call will own*)
(* its row without asking again (setRunning is unconditional), so it has a *)
(* claim on the row from the moment it wrote it; and a row that somebody   *)
(* has a claim on must not read 'waiting', or ResumeRow would add a second *)
(* owner.                                                                  *)
(***************************************************************************)
EXTENDS CapacityProofs

\* A call for a new row that has not yet marked it running.
PreOwner(r) == kind[r] = "new" /\ pc[r] \in {"created", "queued", "reserved"}

\* It runs the execution, or will without another look at the row.
Claims(r) == Owns(r) \/ PreOwner(r)

OneClaim ==
  \A r, s \in Run : Claims(r) /\ Claims(s) /\ exec[r] = exec[s] => r = s

ClaimedRow ==
  \A r \in Run : Claims(r) => db[exec[r]] \notin {"none", "waiting"}

\* Only resumers and the bootup start at "restart".
RestartKind == \A r \in Run : pc[r] = "restart" => kind[r] # "new"

OwnerInv == OneClaim /\ ClaimedRow /\ RestartKind

-----------------------------------------------------------------------------
(* One owner.                                                               *)

\* A step that gives nobody a new claim, and writes neither 'none' nor
\* 'waiting' to a row that stays claimed.
LEMMA OwnerKept ==
  ASSUME OwnerInv, RestartKind',
         \A x \in Run : Claims(x)' => /\ Claims(x) /\ exec'[x] = exec[x]
                                      /\ \/ db'[exec[x]] = db[exec[x]]
                                         \/ db'[exec[x]] \notin {"none", "waiting"}
  PROVE  OwnerInv'
<1>1. OneClaim'
  BY DEF OwnerInv, OneClaim
<1>2. ClaimedRow'
  BY DEF OwnerInv, ClaimedRow
<1> QED BY <1>1, <1>2 DEF OwnerInv

\* A call let go by resolveNext, or moved to where it claims nothing.
LEMMA ClaimMoves ==
  ASSUME kind' = kind, exec' = exec, db' = db, OwnerInv,
         \A x \in Run :
           \/ pc'[x] = pc[x]
           \/ pc[x] = "queued" /\ pc'[x] = "reserved"
           \/ pc'[x] \in {"refused", "failed", "erring", "done", "hung"}
  PROVE  OwnerInv'
<1>1. RestartKind'
  BY DEF OwnerInv, RestartKind
<1>2. ASSUME NEW x \in Run, Claims(x)' PROVE Claims(x)
  BY <1>2 DEF Claims, Owns, PreOwner
<1> QED BY <1>1, <1>2, OwnerKept

LEMMA OwnerReserve ==
  ASSUME BaseInv, OwnerInv, NEW r \in Run, Reserve(r)
  PROVE  OwnerInv'
<1>1. /\ UNCHANGED <<kind, exec, db>> /\ pc[r] \in {"created", "restart"}
      /\ pc' \in {[pc EXCEPT ![r] = "queued"], [pc EXCEPT ![r] = "reserved"]}
  BY DEF Reserve
<1>2. RestartKind'
  BY <1>1 DEF BaseInv, TypeOK, OwnerInv, RestartKind
<1>3. ASSUME NEW x \in Run, Claims(x)' PROVE Claims(x)
  <2>1. CASE x = r
    <3>1. pc'[r] \in {"queued", "reserved"}
      BY <1>1 DEF BaseInv, TypeOK
    <3>2. kind[r] = "new"
      BY <1>1, <1>3, <2>1, <3>1 DEF Claims, Owns, PreOwner
    <3>3. pc[r] = "created"
      BY <1>1, <3>2 DEF OwnerInv, RestartKind
    <3> QED BY <2>1, <3>2, <3>3 DEF Claims, PreOwner
  <2>2. CASE x # r
    BY <1>1, <1>3, <2>2 DEF BaseInv, TypeOK, Claims, Owns, PreOwner
  <2> QED BY <2>1, <2>2
<1> QED BY <1>1, <1>2, <1>3, OwnerKept

\* A call gets a claim on a row only while nobody has one: a new row, which did
\* not exist, or a waiting one, on which ResumeRow insists.
LEMMA OwnerNew ==
  ASSUME BaseInv, OwnerInv, RestartKind', NEW r \in Run, NEW e \in Exec,
         db[e] \in {"none", "waiting"}, db'[e] \notin {"none", "waiting"},
         \A d \in Exec \ {e} : db'[d] = db[d],
         exec'[r] = e,
         \A x \in Run \ {r} : pc'[x] = pc[x] /\ kind'[x] = kind[x] /\ exec'[x] = exec[x]
  PROVE  OwnerInv'
<1>1. ASSUME NEW x \in Run \ {r}, Claims(x)'
      PROVE  Claims(x) /\ exec'[x] = exec[x] /\ exec[x] \in Exec \ {e}
  <2>1. Claims(x)
    BY <1>1 DEF Claims, Owns, PreOwner
  <2>2. exec[x] # e
    BY <2>1 DEF OwnerInv, ClaimedRow
  <2>3. exec[x] \in Exec
    BY <2>1 DEF Claims, Owns, PreOwner, BaseInv, TypeOK
  <2> QED BY <2>1, <2>2, <2>3
<1>2. OneClaim'
  <2> SUFFICES ASSUME NEW x \in Run, NEW y \in Run, Claims(x)', Claims(y)',
                      exec'[x] = exec'[y]
               PROVE  x = y
    BY DEF OneClaim
  <2>1. CASE x # r /\ y # r
    BY <1>1, <2>1 DEF OwnerInv, OneClaim
  <2>2. CASE x = r \/ y = r
    BY <1>1, <2>2
  <2> QED BY <2>1, <2>2
<1>3. ClaimedRow'
  <2> SUFFICES ASSUME NEW x \in Run, Claims(x)'
               PROVE  db'[exec'[x]] \notin {"none", "waiting"}
    BY DEF ClaimedRow
  <2>1. CASE x = r
    BY <2>1
  <2>2. CASE x # r
    <3>1. db'[exec'[x]] = db[exec[x]] /\ Claims(x)
      BY <1>1, <2>2
    <3> QED BY <3>1 DEF OwnerInv, ClaimedRow
  <2> QED BY <2>1, <2>2
<1> QED BY <1>2, <1>3 DEF OwnerInv

LEMMA OwnerBegin ==
  ASSUME BaseInv, OwnerInv, NEW r \in Run, NEW e \in Exec,
         CreateExecution(r, e) \/ ResumeExecution(r, e) \/ RunEnqueuedExecution(r, e)
  PROVE  OwnerInv'
<1> USE DEF BaseInv, TypeOK
<1>1. CASE CreateExecution(r, e)
  <2>1. /\ Begin(r, e, "new", "created") /\ db[e] = "none"
        /\ db' = [db EXCEPT ![e] = "new"]
    BY <1>1 DEF CreateExecution
  <2>2. RestartKind'
    BY <2>1 DEF Begin, OwnerInv, RestartKind
  <2>3. /\ \A x \in Run \ {r} : pc'[x] = pc[x] /\ kind'[x] = kind[x] /\ exec'[x] = exec[x]
        /\ exec'[r] = e
    BY <2>1 DEF Begin
  <2>4. db'[e] \notin {"none", "waiting"} /\ \A d \in Exec \ {e} : db'[d] = db[d]
    BY <2>1
  <2> QED BY <2>1, <2>2, <2>3, <2>4, OwnerNew
<1>2. CASE ResumeExecution(r, e) \/ RunEnqueuedExecution(r, e)
  <2>1. PICK k \in {"resume", "bootup"} : Begin(r, e, k, "restart") /\ db' = db
    BY <1>2 DEF ResumeExecution, RunEnqueuedExecution
  <2>2. RestartKind'
    BY <2>1 DEF Begin, OwnerInv, RestartKind
  <2>3. ASSUME NEW x \in Run, Claims(x)' PROVE Claims(x) /\ exec'[x] = exec[x]
    BY <2>1, <2>3 DEF Begin, Claims, Owns, PreOwner
  <2> QED BY <2>1, <2>2, <2>3, OwnerKept
<1> QED BY <1>1, <1>2

\* The steps of a call that has an owner's claim, or none, and a write to its
\* own row at most.
LEMMA OwnerQuiet ==
  ASSUME BaseInv, OwnerInv, NEW r \in Run, Quiet(r)
  PROVE  OwnerInv'
<1> USE DEF BaseInv, TypeOK
<1>1. CASE ResumeRow(r)
  <2>1. /\ pc[r] = "reserved" /\ db[exec[r]] = "waiting" /\ UNCHANGED <<kind, exec>>
        /\ db' = [db EXCEPT ![exec[r]] = "running"] /\ pc' = [pc EXCEPT ![r] = "marked"]
    BY <1>1 DEF ResumeRow, ClaimsRow
  <2>2. PICK e \in Exec : e = exec[r]
    BY <2>1
  <2>3. RestartKind'
    BY <2>1 DEF OwnerInv, RestartKind
  <2>4. /\ db[e] = "waiting" /\ db'[e] = "running" /\ exec'[r] = e
        /\ \A d \in Exec \ {e} : db'[d] = db[d]
    BY <2>1, <2>2
  <2>5. \A x \in Run \ {r} : pc'[x] = pc[x] /\ kind'[x] = kind[x] /\ exec'[x] = exec[x]
    BY <2>1
  <2> QED BY <2>3, <2>4, <2>5, OwnerNew
<1>2. CASE SetRunning(r)
  <2>1. /\ PreOwner(r) /\ UNCHANGED <<kind, exec>> /\ exec[r] \in Exec
        /\ db' = [db EXCEPT ![exec[r]] = "running"] /\ pc' = [pc EXCEPT ![r] = "marked"]
    BY <1>2 DEF SetRunning, PreOwner
  <2>2. RestartKind'
    BY <2>1 DEF OwnerInv, RestartKind
  <2>3. ASSUME NEW x \in Run, Claims(x)'
        PROVE  /\ Claims(x)
               /\ db'[exec[x]] = db[exec[x]] \/ db'[exec[x]] = "running"
    BY <2>1, <2>3 DEF Claims, Owns, PreOwner
  <2> QED BY <2>1, <2>2, <2>3, OwnerKept
<1>3. CASE Register(r) \/ FailExecution(r) \/ AttachResponseFails(r) \/ StartMainProcess(r)
           \/ StartMainProcessFails(r) \/ Launch(r) \/ LaunchDetached(r) \/ SaveError(r)
  <2>1. /\ UNCHANGED <<kind, exec>>
        /\ pc[r] \in {"marked", "added", "starting", "erring"}
        /\ \/ pc' = [pc EXCEPT ![r] = "done"]
           \/ /\ pc[r] # "erring"
              /\ \E at \in {"added", "saved", "failed", "starting", "executing", "orphan"} :
                   pc' = [pc EXCEPT ![r] = at]
        /\ \/ db' = db
           \/ db' = [db EXCEPT ![exec[r]] = "error"]
           \/ db' = [db EXCEPT ![exec[r]] = "running"]
    BY <1>3 DEF Register, FailExecution, AttachResponseFails, StartMainProcess,
                StartMainProcessFails, Launch, LaunchDetached, SaveError, Saves
  <2>2. exec[r] \in Exec
    BY <2>1
  <2>3. RestartKind'
    BY <2>1 DEF OwnerInv, RestartKind
  <2>4. ASSUME NEW x \in Run, Claims(x)' PROVE Claims(x)
    BY <2>1, <2>4 DEF Claims, Owns, PreOwner
  <2>5. ASSUME NEW x \in Run, Claims(x)
        PROVE  db'[exec[x]] = db[exec[x]] \/ db'[exec[x]] \in {"error", "running"}
    <3>1. exec[x] \in Exec
      BY <2>5 DEF Claims, Owns, PreOwner
    <3> QED BY <2>1, <2>2, <3>1
  <2> QED BY <2>1, <2>3, <2>4, <2>5, OwnerKept
<1>4. CASE PutToWait(r)
  BY <1>4, OwnerKept DEF PutToWait, runVars, OwnerInv, RestartKind, Claims, Owns, PreOwner
<1>5. CASE SaveProgress(r)
  <2>1. /\ UNCHANGED <<pc, kind, exec>> /\ exec[r] \in Exec
        /\ db' = [db EXCEPT ![exec[r]] = "running"]
    BY <1>5 DEF SaveProgress, runVars
  <2>2. \A x \in Run : db'[exec[x]] = db[exec[x]] \/ db'[exec[x]] = "running"
                       \/ exec[x] \notin Exec
    BY <2>1
  <2>3. \A x \in Run : Claims(x) => exec[x] \in Exec
    BY DEF Claims, Owns, PreOwner
  <2> QED BY <2>1, <2>2, <2>3, OwnerKept DEF OwnerInv, RestartKind, Claims, Owns, PreOwner
<1>6. CASE SaveCanceled(r)
  <2>1. /\ UNCHANGED <<pc, kind, exec>>
        /\ db' = db \/ db' = [db EXCEPT ![exec[r]] = "canceled"]
    BY <1>6 DEF SaveCanceled, Saves, runVars
  <2>2. \A x \in Run : db'[exec[x]] = db[exec[x]] \/ db'[exec[x]] = "canceled"
                       \/ exec[x] \notin Exec
    BY <2>1
  <2>3. \A x \in Run : Claims(x) => exec[x] \in Exec
    BY DEF Claims, Owns, PreOwner
  <2> QED BY <2>1, <2>2, <2>3, OwnerKept DEF OwnerInv, RestartKind, Claims, Owns, PreOwner
<1>7. ASSUME NEW o \in DbStatus, FinishWorkflow(r, o) PROVE OwnerInv'
  <2>1. /\ pc[r] \in {"executing", "orphan"} /\ UNCHANGED <<kind, exec>>
        /\ pc' \in {[pc EXCEPT ![r] = "saved"], [pc EXCEPT ![r] = "done"]}
        /\ db' = db \/ db' = [db EXCEPT ![exec[r]] = o]
    BY <1>7 DEF FinishWorkflow, Saves
  <2>2. RestartKind'
    BY <2>1 DEF OwnerInv, RestartKind
  <2>3. ASSUME NEW x \in Run, Claims(x)'
        PROVE  Claims(x) /\ x # r
    BY <2>1, <2>3 DEF Claims, Owns, PreOwner
  <2>4. Claims(r)
    BY <2>1 DEF Claims, Owns
  <2>5. ASSUME NEW x \in Run, Claims(x)' PROVE db'[exec[x]] = db[exec[x]]
    <3>1. exec[x] # exec[r]
      BY <2>3, <2>4, <2>5 DEF OwnerInv, OneClaim
    <3>2. exec[x] \in Exec
      BY <2>3, <2>5 DEF Claims, Owns, PreOwner
    <3> QED BY <2>1, <3>1, <3>2
  <2> QED BY <2>1, <2>2, <2>3, <2>5, OwnerKept
<1> QED BY <1>1, <1>2, <1>3, <1>4, <1>5, <1>6, <1>7 DEF Quiet

\* Call x waits at the head of its queue.
IsHead(x) ==
  LET s == queue[GetQueue(ModeOfRun(x))] IN s # <<>> /\ x = s[1]

\* resolveNext may let somebody go.
Serving == isEnabled \/ BuildsEvalQueue("evaluation")

\* resolveNext lets x go.
LetGo(x) == pc[x] = "queued" /\ pc'[x] = "reserved" /\ IsHead(x) /\ Serving

LEMMA ReleasedHead ==
  ASSUME BaseInv, NEW mode \in Mode, NEW x \in ReleasedBy(mode)
  PROVE  pc[x] = "queued" /\ IsHead(x) /\ Serving
<1>1. pc[x] = "queued" /\ IsHead(x) /\ IsThrottled(mode)
  BY ReleasedCalls DEF IsHead
<1> QED BY <1>1 DEF Serving, IsThrottled, BuildsEvalQueue, ResolvesEvalQueue

\* Where finalizeExecution and a rejected promise move calls.
LEMMA FinalizeMoves ==
  ASSUME BaseInv, NEW e \in Exec, NEW after, FinalizeExecution(e, after), NEW x \in Run
  PROVE  pc'[x] = after[x] \/ LetGo(x)
<1>0. ModeOf[e] \in Mode
  BY ExecAssumption
<1>1. CASE SettleEntry(e, after)
  <2>1. pc' = [y \in Run |-> IF y \in ReleasedBy(ModeOf[e]) THEN "reserved" ELSE after[y]]
    BY <1>1 DEF SettleEntry
  <2>2. x \in ReleasedBy(ModeOf[e]) => pc[x] = "queued" /\ IsHead(x) /\ Serving
    BY <1>0, ReleasedHead
  <2> QED BY <2>1, <2>2 DEF LetGo
<1>2. CASE pc' = after
  BY <1>2
<1> QED BY <1>1, <1>2 DEF FinalizeExecution

\* ... and stopExecution.
LEMMA StopMoves ==
  ASSUME BaseInv, NEW e \in Exec, StopEntry(e), NEW x \in Run
  PROVE  pc'[x] = pc[x] \/ LetGo(x)
<1>1. CASE FinalizeExecution(e, pc)
  BY <1>1, FinalizeMoves
<1>2. CASE pc' = pc
  BY <1>2
<1> QED BY <1>1, <1>2 DEF StopEntry

\* ... and the actions of a call that release capacity.
LEMMA ReleaseMoves ==
  ASSUME BaseInv, NEW r \in Run,
         RefuseResume(r) \/ AddFails(r) \/ LaunchFails(r) \/ FinalizeRun(r) \/ TimeoutRun(r),
         NEW x \in Run
  PROVE  \/ pc'[x] = pc[x] \/ LetGo(x)
         \/ x = r /\ pc'[x] \in {"refused", "failed", "erring", "done"}
<1>1. CASE RefuseResume(r) \/ AddFails(r)
  <2>1. PICK at \in {"refused", "failed"} : pc[r] = "reserved" /\ ReleaseReservation(r, at)
    BY <1>1 DEF RefuseResume, AddFails
  <2>2. PICK mode \in Mode : mode = ModeOfRun(r)
    BY <2>1, ExecAssumption DEF BaseInv, TypeOK, ModeOfRun
  <2>3. pc' = [y \in Run |-> IF y \in ReleasedBy(mode) THEN "reserved"
                             ELSE IF y = r THEN at ELSE pc[y]]
    BY <2>1, <2>2 DEF ReleaseReservation
  <2>4. x \in ReleasedBy(mode) => pc[x] = "queued" /\ IsHead(x) /\ Serving
    BY ReleasedHead
  <2> QED BY <2>3, <2>4 DEF LetGo
<1>2. CASE LaunchFails(r) \/ FinalizeRun(r)
  <2>1. PICK at \in {"erring", "done"} :
          /\ pc[r] \in {"starting", "saved"}
          /\ FinalizeExecution(exec[r], [pc EXCEPT ![r] = at])
    BY <1>2 DEF LaunchFails, FinalizeRun
  <2>2. PICK e \in Exec : e = exec[r]
    BY <2>1 DEF BaseInv, TypeOK
  <2> DEFINE after == [pc EXCEPT ![r] = at]
  <2>3. FinalizeExecution(e, after)
    BY <2>1, <2>2
  <2>4. after[x] = pc[x] \/ (x = r /\ after[x] = at)
    BY DEF BaseInv, TypeOK
  <2> HIDE DEF after
  <2>5. pc'[x] = after[x] \/ LetGo(x)
    BY <2>3, FinalizeMoves
  <2> QED BY <2>4, <2>5
<1>3. CASE TimeoutRun(r)
  <2>1. PICK e \in Exec : e = exec[r] /\ StopEntry(e)
    BY <1>3 DEF TimeoutRun, BaseInv, TypeOK
  <2> QED BY <2>1, StopMoves
<1> QED BY <1>1, <1>2, <1>3

LEMMA OwnerRelease ==
  ASSUME BaseInv, OwnerInv, NEW r \in Run,
         RefuseResume(r) \/ AddFails(r) \/ LaunchFails(r) \/ FinalizeRun(r) \/ TimeoutRun(r)
  PROVE  OwnerInv'
<1>1. UNCHANGED <<kind, exec, db>>
  BY DEF RefuseResume, AddFails, LaunchFails, FinalizeRun, TimeoutRun
<1>2. \A x \in Run : \/ pc'[x] = pc[x] \/ LetGo(x)
                     \/ pc'[x] \in {"refused", "failed", "erring", "done"}
  BY ReleaseMoves
<1> QED BY <1>1, <1>2, ClaimMoves DEF LetGo

LEMMA OwnerStop ==
  ASSUME BaseInv, OwnerInv, NEW e \in Exec, StopStep(e)
  PROVE  OwnerInv'
<1>1. CASE StopRead(e)
  BY <1>1, ClaimMoves DEF StopRead, runVars
<1>2. CASE StopQueued(e)
  <2>1. PICK q \in queues : \E k \in 1 .. Len(queue[q]) :
          /\ Remove(q, k)
          /\ pc' = [x \in Run |-> IF x \in RemoveLetsGo(q, k) THEN "reserved"
                                  ELSE IF x = queue[q][k] THEN "hung" ELSE pc[x]]
    BY <1>2 DEF StopQueued
  <2>2. PICK k \in 1 .. Len(queue[q]) :
          /\ Remove(q, k)
          /\ pc' = [x \in Run |-> IF x \in RemoveLetsGo(q, k) THEN "reserved"
                                  ELSE IF x = queue[q][k] THEN "hung" ELSE pc[x]]
    BY <2>1
  <2>3. UNCHANGED <<kind, exec, db>>
    BY <1>2 DEF StopQueued
  <2>4. q \in QueueType
    BY DEF BaseInv, TypeOK
  <2>5. \A x \in RemoveLetsGo(q, k) : pc[x] = "queued"
    BY <2>2, <2>3, <2>4, RemoveStep
  <2> QED BY <2>2, <2>3, <2>5, ClaimMoves
<1>3. CASE StopActive(e)
  <2>1. StopEntry(e) /\ UNCHANGED <<kind, exec, db>>
    BY <1>3 DEF StopActive
  <2>2. \A x \in Run : pc'[x] = pc[x] \/ LetGo(x)
    BY <2>1, StopMoves
  <2> QED BY <2>1, <2>2, ClaimMoves DEF LetGo
<1>4. CASE StopWrite(e)
  <2>1. /\ UNCHANGED <<pc, kind, exec>>
        /\ db' = db \/ db' = [db EXCEPT ![e] = "canceled"]
    BY <1>4 DEF StopWrite, Saves, runVars
  <2>2. \A x \in Run : Claims(x)' => Claims(x) /\ exec[x] \in Exec
    BY <2>1 DEF Claims, Owns, PreOwner, BaseInv, TypeOK
  <2>3. \A d \in Exec : db'[d] = db[d] \/ db'[d] = "canceled"
    BY <2>1 DEF BaseInv, TypeOK
  <2>4. RestartKind'
    BY <2>1 DEF OwnerInv, RestartKind
  <2> QED BY <2>1, <2>2, <2>3, <2>4, OwnerKept
<1> QED BY <1>1, <1>2, <1>3, <1>4 DEF StopStep

LEMMA OwnerProcess ==
  ASSUME OwnerInv, BeginShutdown \/ Restart
  PROVE  OwnerInv'
<1>1. CASE BeginShutdown
  BY <1>1, ClaimMoves DEF BeginShutdown, runVars
<1>2. CASE Restart
  <2>1. \A x \in Run : pc'[x] \in {"idle", "dead"}
    BY <1>2 DEF Restart
  <2> QED BY <2>1 DEF OwnerInv, OneClaim, ClaimedRow, RestartKind, Claims, Owns, PreOwner
<1> QED BY <1>1, <1>2

LEMMA OwnerStep == BaseInv /\ OwnerInv /\ [Next]_vars => OwnerInv'
<1> SUFFICES ASSUME BaseInv, OwnerInv, [Next]_vars PROVE OwnerInv'
  OBVIOUS
<1>1. CASE Next
  BY <1>1, NextCases, OwnerReserve, OwnerQuiet, OwnerBegin, OwnerRelease, OwnerStop, OwnerProcess
<1>2. CASE UNCHANGED vars
  BY <1>2, ClaimMoves DEF vars, runVars
<1> QED BY <1>1, <1>2

\* An execution is run by one call at a time, for any number of calls, resumers,
\* stops, timeouts, database faults and restarts: whoever marks a row running
\* wrote it as new itself or found it waiting, and a claimed row never waits.
THEOREM SingleOwnerAlways == Spec => []SingleOwner
<1>1. Init => OwnerInv
  BY DEF Init, OwnerInv, OneClaim, ClaimedRow, RestartKind, Claims, Owns, PreOwner
<1>2. OwnerInv => SingleOwner
  BY DEF OwnerInv, OneClaim, SingleOwner, Claims
<1> QED BY <1>1, <1>2, OwnerStep, BaseInvariant, PTL DEF Spec

-----------------------------------------------------------------------------
(* First come, first served.                                                *)

\* x waits second and the head of its queue has just been stopped.
BehindStopped(x) ==
  LET s == queue[GetQueue(ModeOfRun(x))] IN Len(s) >= 2 /\ x = s[2] /\ pc'[s[1]] = "hung"

\* stop of a queued execution lets the head go, or the second if it stopped the
\* head.
LEMMA StopQueuedMoves ==
  ASSUME BaseInv, NEW e \in Exec, StopQueued(e), NEW x \in Run
  PROVE  /\ isEnabled
         /\ \/ pc'[x] = pc[x]
            \/ pc[x] = "queued" /\ pc'[x] = "hung"
            \/ /\ pc[x] = "queued" /\ pc'[x] = "reserved"
               /\ IsHead(x) \/ BehindStopped(x)
<1>0. isEnabled
  BY DEF StopQueued, IsQueued
<1>1. PICK q \in queues : \E k \in 1 .. Len(queue[q]) :
        /\ Remove(q, k)
        /\ pc' = [y \in Run |-> IF y \in RemoveLetsGo(q, k) THEN "reserved"
                                ELSE IF y = queue[q][k] THEN "hung" ELSE pc[y]]
  BY DEF StopQueued
<1>2. PICK k \in 1 .. Len(queue[q]) :
        /\ Remove(q, k)
        /\ pc' = [y \in Run |-> IF y \in RemoveLetsGo(q, k) THEN "reserved"
                                ELSE IF y = queue[q][k] THEN "hung" ELSE pc[y]]
  BY <1>1
<1>3. exec' = exec /\ q \in QueueType
  BY DEF StopQueued, BaseInv, TypeOK
<1>4. \A y \in RemoveLetsGo(q, k) :
        /\ y \in Run /\ pc[y] = "queued" /\ GetQueue(ModeOfRun(y)) = q
        /\ y # queue[q][k]
  BY <1>2, <1>3, RemoveStep
<1>5. pc[queue[q][k]] = "queued" /\ queue[q][k] \in Run /\ queue[q] \in Seq(Run)
  BY <1>3, QueueMembers
<1>6. ASSUME x \in RemoveLetsGo(q, k) PROVE IsHead(x) \/ BehindStopped(x)
  <2> DEFINE s == queue[q]
             w == Without(s, k)
  <2>1. /\ w \in Seq(Run) /\ Len(w) = Len(s) - 1
        /\ \A i \in 1 .. Len(s) - 1 : w[i] = IF i < k THEN s[i] ELSE s[i + 1]
    BY <1>5, WithoutType
  <2>2. x \in NextOf(w)
    BY <1>6 DEF RemoveLetsGo
  <2> HIDE DEF w
  <2>3. w # <<>> /\ x = w[1] /\ Len(w) > 0
    BY <2>1, <2>2, ResolveNext
  <2>4. Len(s) \in Nat /\ Len(s) >= 2 /\ s # <<>> /\ 1 \in 1 .. Len(s) - 1 /\ k \in Nat
    BY <1>5, <2>1, <2>3
  <2>5. x = IF 1 < k THEN s[1] ELSE s[2]
    BY <2>1, <2>3, <2>4
  <2>6. GetQueue(ModeOfRun(x)) = q
    BY <1>4, <1>6
  <2>7. CASE 1 < k
    BY <2>4, <2>5, <2>6, <2>7 DEF IsHead
  <2>8. CASE ~(1 < k)
    <3>1. k = 1 /\ x = s[2]
      BY <2>4, <2>5, <2>8
    <3>2. s[1] \notin RemoveLetsGo(q, k)
      BY <1>4, <3>1
    <3>3. pc'[s[1]] = "hung"
      BY <1>2, <1>5, <3>1, <3>2
    <3> QED BY <2>4, <2>6, <3>1, <3>3 DEF BehindStopped
  <2> QED BY <2>7, <2>8
<1> QED BY <1>0, <1>2, <1>4, <1>5, <1>6

\* The other steps of a call: they move that call alone, and never to the point
\* where it has its reservation.
LEMMA QuietMoves ==
  ASSUME BaseInv, NEW r \in Run, Quiet(r), NEW x \in Run
  PROVE  \/ pc'[x] = pc[x]
         \/ pc[x] \notin {"queued", "created", "restart"} /\ pc'[x] # "reserved"
<1> USE DEF BaseInv, TypeOK, runVars
<1>1. CASE \E o \in DbStatus : FinishWorkflow(r, o)
  BY <1>1 DEF FinishWorkflow
<1>2. CASE SetRunning(r) \/ ResumeRow(r) \/ Register(r) \/ FailExecution(r)
           \/ AttachResponseFails(r) \/ StartMainProcess(r) \/ StartMainProcessFails(r)
  BY <1>2 DEF SetRunning, ResumeRow, Register, FailExecution, AttachResponseFails,
              StartMainProcess, StartMainProcessFails
<1>3. CASE Launch(r) \/ LaunchDetached(r) \/ SaveError(r) \/ PutToWait(r)
           \/ SaveProgress(r) \/ SaveCanceled(r)
  BY <1>3 DEF Launch, LaunchDetached, SaveError, PutToWait, SaveProgress, SaveCanceled
<1> QED BY <1>1, <1>2, <1>3 DEF Quiet

\* Whoever gets a reservation passed throttle without waiting, or was at the
\* head of its queue while the service was on, or stood behind a stopped head.
LEMMA WhoIsGranted ==
  ASSUME BaseInv, Next, NEW x \in Run, pc[x] # "reserved", pc'[x] = "reserved"
  PROVE  \/ Reserve(x)
         \/ pc[x] = "queued" /\ Serving /\ (IsHead(x) \/ BehindStopped(x))
<1>1. ASSUME NEW r \in Run, Reserve(r) PROVE Reserve(x)
  BY <1>1 DEF Reserve, BaseInv, TypeOK
<1>2. ASSUME NEW r \in Run, Quiet(r) PROVE FALSE
  BY <1>2, QuietMoves
<1>3. ASSUME NEW r \in Run, NEW e \in Exec,
             CreateExecution(r, e) \/ ResumeExecution(r, e) \/ RunEnqueuedExecution(r, e)
      PROVE  FALSE
  BY <1>3 DEF CreateExecution, ResumeExecution, RunEnqueuedExecution, Begin, BaseInv, TypeOK
<1>4. ASSUME NEW r \in Run,
             RefuseResume(r) \/ AddFails(r) \/ LaunchFails(r) \/ FinalizeRun(r) \/ TimeoutRun(r)
      PROVE  LetGo(x)
  BY <1>4, ReleaseMoves
<1>5. ASSUME NEW e \in Exec, StopStep(e)
      PROVE  pc[x] = "queued" /\ Serving /\ (IsHead(x) \/ BehindStopped(x))
  <2>1. CASE StopRead(e) \/ StopWrite(e)
    BY <2>1 DEF StopRead, StopWrite, runVars
  <2>2. CASE StopQueued(e)
    BY <2>2, StopQueuedMoves DEF Serving
  <2>3. CASE StopActive(e)
    BY <2>3, StopMoves DEF StopActive, LetGo
  <2> QED BY <1>5, <2>1, <2>2, <2>3 DEF StopStep
<1>6. CASE BeginShutdown \/ Restart
  BY <1>6 DEF BeginShutdown, Restart, runVars
<1> QED BY <1>1, <1>2, <1>3, <1>4, <1>5, <1>6, NextCases DEF LetGo

\* A call that is let through at once found its queue empty.
LEMMA NewcomerFindsNobody ==
  ASSUME BaseInv, ControlInv, NEW r \in Run, Reserve(r), pc'[r] = "reserved",
         GetQueue(ModeOfRun(r)) \in queues
  PROVE  queue[GetQueue(ModeOfRun(r))] = <<>>
<1>1. PICK mode, q : mode = ModeOfRun(r) /\ q = GetQueue(mode)
  OBVIOUS
<1>2. q \in QueueType /\ BooksOf(q) /\ isEnabled
  BY <1>1 DEF BaseInv, TypeOK, ControlInv, Books, EnabledInv
<1>3. ~EnqueueBlocks(mode)
  BY <1>1 DEF Reserve, BaseInv, TypeOK
<1>4. ~(capacity[q] - 1 < 0)
  BY <1>1, <1>2, <1>3 DEF EnqueueBlocks, IsThrottled
<1>5. /\ capacity[q] \in Int /\ queue[q] \in Seq(Run) /\ Limit(q) \in Int
      /\ Cardinality(Holders(q)) \in Nat
  BY <1>2, LimitType, HoldersFinite DEF BaseInv, TypeOK
<1>6. Len(queue[q]) \in Nat /\ (queue[q] # <<>> => Len(queue[q]) > 0)
  BY <1>5
<1>7. queue[q] = <<>>
  BY <1>2, <1>4, <1>5, <1>6 DEF BooksOf
<1> QED BY <1>1, <1>7

\* Throttled executions are served in the order in which they came, for all
\* limits, modes and calls, whatever is stopped, timed out, resumed or fails in
\* between.
THEOREM NobodyOvertakes == Spec => NoOvertaking
<1>1. ASSUME BaseInv, CapacityInv, Next, ~down
      PROVE  /\ \A q \in queues : \A i, j \in DOMAIN queue[q] :
                  i < j /\ pc'[queue[q][j]] = "reserved"
                    => pc'[queue[q][i]] \in {"reserved", "hung", "dead"}
             /\ \A r \in Run :
                  /\ pc[r] \in {"created", "restart"} /\ pc'[r] = "reserved"
                  /\ GetQueue(ModeOfRun(r)) \in queues
                  => queue[GetQueue(ModeOfRun(r))] = <<>>
  <2>1. ASSUME NEW q \in queues, NEW i \in DOMAIN queue[q], NEW j \in DOMAIN queue[q],
               i < j, pc'[queue[q][j]] = "reserved"
        PROVE  pc'[queue[q][i]] = "hung"
    <3>1. q \in QueueType /\ queue[q] \in Seq(Run)
      BY <1>1 DEF BaseInv, TypeOK
    <3>2. /\ i \in 1 .. Len(queue[q]) /\ j \in 1 .. Len(queue[q])
          /\ Len(queue[q]) \in Nat /\ queue[q] # <<>>
      BY <3>1, <2>1
    <3>3. PICK x \in Run : x = queue[q][j] /\ pc[x] = "queued" /\ GetQueue(ModeOfRun(x)) = q
      BY <1>1, <3>1, <3>2, QueueMembers
    <3>4. IsHead(x) \/ BehindStopped(x)
      <4>1. ~Reserve(x)
        BY <3>3 DEF Reserve
      <4> QED BY <1>1, <2>1, <3>3, <4>1, WhoIsGranted
    <3>5. \A k \in 1 .. Len(queue[q]) : queue[q][k] = x => k = j
      BY <1>1, <3>1, <3>2, <3>3 DEF BaseInv, QueueInv
    <3>6. CASE IsHead(x)
      <4>1. queue[q][1] = x /\ 1 \in 1 .. Len(queue[q])
        BY <3>1, <3>2, <3>3, <3>6 DEF IsHead
      <4>2. j = 1
        BY <3>5, <4>1
      <4> QED BY <2>1, <3>2, <4>2
    <3>7. CASE BehindStopped(x)
      <4>1. queue[q][2] = x /\ 2 \in 1 .. Len(queue[q]) /\ pc'[queue[q][1]] = "hung"
        BY <3>1, <3>2, <3>3, <3>7 DEF BehindStopped
      <4>2. j = 2
        BY <3>5, <4>1
      <4>3. i = 1
        BY <2>1, <3>2, <4>2
      <4> QED BY <4>1, <4>3
    <3> QED BY <3>4, <3>6, <3>7
  <2>2. ASSUME NEW r \in Run, pc[r] \in {"created", "restart"}, pc'[r] = "reserved",
               GetQueue(ModeOfRun(r)) \in queues
        PROVE  queue[GetQueue(ModeOfRun(r))] = <<>>
    <3>1. Reserve(r)
      BY <1>1, <2>2, WhoIsGranted
    <3> QED BY <1>1, <2>2, <3>1, NewcomerFindsNobody DEF CapacityInv
  <2> QED BY <2>1, <2>2
<1>2. BaseInv /\ CapacityInv /\ [Next]_vars =>
        [~down /\ ~down' =>
          /\ \A q \in queues : \A i, j \in DOMAIN queue[q] :
               i < j /\ pc'[queue[q][j]] = "reserved"
                 => pc'[queue[q][i]] \in {"reserved", "hung", "dead"}
          /\ \A r \in Run :
               /\ pc[r] \in {"created", "restart"} /\ pc'[r] = "reserved"
               /\ GetQueue(ModeOfRun(r)) \in queues
               => queue[GetQueue(ModeOfRun(r))] = <<>>]_vars
  BY <1>1
<1> QED BY <1>2, BaseInvariant, CapacityInvariant, PTL DEF Spec, NoOvertaking

-----------------------------------------------------------------------------
(* Shutdown holds waiting calls back.                                       *)

\* The evaluation limit is set in the environment, or the licence sets none: the
\* evaluation queue is then decided by the constructor for good.  (Otherwise the
\* first evaluation call after shutdown began builds the queue, which switches
\* throttling on again.)
EvalDecidedAtBoot ==
  NormaliseLimit(EvaluationLimit) > 0 \/ ~(NormaliseLimit(LicensedEvaluation) > 0)

\* ensureEvalQueueResolved has nothing left to build, and shutdown has switched
\* throttling off.
HeldInv ==
  /\ evalQueueResolved \/ ~(NormaliseLimit(LicensedEvaluation) > 0)
  /\ down => ~isEnabled

\* What throttle and release do to the switch.
LEMMA HeldEnsure ==
  ASSUME BaseInv, HeldInv, NEW mode, EnsureEvalQueueResolved(mode), down' = down
  PROVE  HeldInv'
BY DEF HeldInv, EnsureEvalQueueResolved, BuildsEvalQueue, ResolvesEvalQueue, BaseInv, TypeOK

LEMMA HeldUnchanged ==
  ASSUME HeldInv, UNCHANGED <<isEnabled, evalQueueResolved, down>>
  PROVE  HeldInv'
BY DEF HeldInv

\* finalizeExecution and stopExecution release at most.
LEMMA HeldFinalize ==
  ASSUME BaseInv, HeldInv, NEW e, NEW after, FinalizeExecution(e, after), down' = down
  PROVE  HeldInv'
<1>1. CASE SettleEntry(e, after)
  BY <1>1, HeldEnsure DEF SettleEntry, Release
<1>2. CASE UNCHANGED controlVars
  BY <1>2, HeldUnchanged DEF controlVars
<1> QED BY <1>1, <1>2 DEF FinalizeExecution

LEMMA HeldStopEntry ==
  ASSUME BaseInv, HeldInv, NEW e, StopEntry(e), down' = down
  PROVE  HeldInv'
<1>1. CASE FinalizeExecution(e, pc)
  BY <1>1, HeldFinalize
<1>2. CASE UNCHANGED controlVars
  BY <1>2, HeldUnchanged DEF controlVars
<1> QED BY <1>1, <1>2 DEF StopEntry

LEMMA HeldStep == EvalDecidedAtBoot /\ BaseInv /\ HeldInv /\ [Next]_vars => HeldInv'
<1> SUFFICES ASSUME EvalDecidedAtBoot, BaseInv, HeldInv, [Next]_vars PROVE HeldInv'
  OBVIOUS
<1>1. ASSUME NEW r \in Run, Reserve(r) PROVE HeldInv'
  BY <1>1, HeldEnsure DEF Reserve, Throttle, hostVars
<1>2. ASSUME NEW r \in Run, Quiet(r) PROVE HeldInv'
  <2>1. UNCHANGED <<controlVars, hostVars>>
    BY <1>2 DEF Quiet, SetRunning, ResumeRow, Register, FailExecution, AttachResponseFails,
       StartMainProcess, StartMainProcessFails, Launch, LaunchDetached, SaveError,
       PutToWait, SaveProgress, SaveCanceled, FinishWorkflow
  <2> QED BY <2>1, HeldUnchanged DEF controlVars, hostVars
<1>3. ASSUME NEW r \in Run, NEW e \in Exec,
             CreateExecution(r, e) \/ ResumeExecution(r, e) \/ RunEnqueuedExecution(r, e)
      PROVE  HeldInv'
  BY <1>3, HeldUnchanged DEF CreateExecution, ResumeExecution, RunEnqueuedExecution, Begin,
     controlVars
<1>4. ASSUME NEW r \in Run,
             RefuseResume(r) \/ AddFails(r) \/ LaunchFails(r) \/ FinalizeRun(r) \/ TimeoutRun(r)
      PROVE  HeldInv'
  <2>0. down' = down
    BY <1>4 DEF RefuseResume, AddFails, LaunchFails, FinalizeRun, TimeoutRun, hostVars
  <2>1. CASE RefuseResume(r) \/ AddFails(r)
    BY <2>0, <2>1, HeldEnsure DEF RefuseResume, AddFails, ReleaseReservation, Release
  <2>2. CASE LaunchFails(r)
    BY <2>0, <2>2, HeldFinalize DEF LaunchFails
  <2>3. CASE FinalizeRun(r)
    BY <2>0, <2>3, HeldFinalize DEF FinalizeRun
  <2>4. CASE TimeoutRun(r)
    BY <2>0, <2>4, HeldStopEntry DEF TimeoutRun
  <2> QED BY <1>4, <2>1, <2>2, <2>3, <2>4
<1>5. ASSUME NEW e \in Exec, StopStep(e) PROVE HeldInv'
  <2>1. CASE StopRead(e) \/ StopWrite(e)
    BY <2>1, HeldUnchanged DEF StopRead, StopWrite, controlVars
  <2>2. CASE StopQueued(e)
    BY <2>2, HeldUnchanged DEF StopQueued, Remove
  <2>3. CASE StopActive(e)
    BY <2>3, HeldStopEntry DEF StopActive
  <2> QED BY <1>5, <2>1, <2>2, <2>3 DEF StopStep
<1>6. CASE BeginShutdown
  BY <1>6 DEF BeginShutdown, Disable, HeldInv
<1>7. CASE Restart
  <2>1. down' = FALSE /\ evalQueueResolved' = ("evaluation" \in BootQueues)
    BY <1>7 DEF Restart, ControlBoot
  <2> QED BY <2>1 DEF HeldInv, EvalDecidedAtBoot, BootQueues, QueueType
<1>8. CASE UNCHANGED vars
  BY <1>8, HeldUnchanged DEF vars, controlVars, hostVars
<1> QED BY <1>1, <1>2, <1>3, <1>4, <1>5, <1>6, <1>7, <1>8, NextCases

\* Once shutdown has begun no waiting call is let go, whatever is released,
\* stopped or settled meanwhile, provided the evaluation queue was decided at
\* boot.
THEOREM ShutdownAlwaysHoldsBack == EvalDecidedAtBoot => (Spec => ShutdownHoldsBack)
<1> SUFFICES ASSUME EvalDecidedAtBoot PROVE Spec => ShutdownHoldsBack
  OBVIOUS
<1>1. Init => HeldInv
  <2> SUFFICES ASSUME Init PROVE HeldInv
    OBVIOUS
  <2>1. down = FALSE /\ evalQueueResolved = ("evaluation" \in BootQueues)
    BY DEF Init, ControlBoot
  <2> QED BY <2>1 DEF HeldInv, EvalDecidedAtBoot, BootQueues, QueueType
<1>2. BaseInv /\ HeldInv /\ [Next]_vars => HeldInv'
  BY HeldStep
<1>3. BaseInv /\ HeldInv /\ [Next]_vars =>
        [down => \A r \in Run : pc[r] = "queued" => pc'[r] # "reserved"]_vars
  <2> SUFFICES ASSUME BaseInv, HeldInv, Next, down, NEW r \in Run, pc[r] = "queued",
                      pc'[r] = "reserved"
               PROVE  FALSE
    OBVIOUS
  <2>1. ~Serving
    BY DEF HeldInv, Serving, BuildsEvalQueue, ResolvesEvalQueue
  <2>2. ~Reserve(r)
    BY DEF Reserve
  <2> QED BY <2>1, <2>2, WhoIsGranted
<1> QED BY <1>1, <1>2, <1>3, BaseInvariant, PTL DEF Spec, ShutdownHoldsBack

-----------------------------------------------------------------------------
(* No reservation is lost, as long as no workflow puts itself to wait and no *)
(* database call throws (with them it is: see the README).                  *)

\* The call of a new row, from the moment it wrote the row.
Fresh(r) == kind[r] = "new" /\ pc[r] \notin {"idle", "dead"}

\* A row is new once, so it has one such call.
OneFresh ==
  /\ \A r, s \in Run : Fresh(r) /\ Fresh(s) /\ exec[r] = exec[s] => r = s
  /\ \A r \in Run : Fresh(r) => db[exec[r]] # "none"

\* Nothing waits, neither the row nor the entry.
NothingWaits ==
  /\ waits = {}
  /\ \A e \in Exec : db[e] # "waiting"
  /\ \A r \in Run : status[r] = "running"

\* Any other call never gets past its reservation: it finds no waiting row.
OthersStay ==
  \A r \in Run : kind[r] # "new" =>
    pc[r] \in {"restart", "queued", "reserved", "refused", "hung"}

KeepInv == OneFresh /\ NothingWaits /\ OthersStay /\ NoLostReservation

\* Where a call holds its reservation inside add().
InAdd == {"reserved", "marked"}

\* A step that starts nobody and writes no row's first or waiting status.
LEMMA RowsKept ==
  ASSUME OneFresh, NothingWaits, OthersStay, UNCHANGED <<kind, exec, waits, status>>,
         BaseInv,
         \A e \in Exec : db'[e] = db[e] \/ db'[e] \notin {"none", "waiting"},
         \A x \in Run : \/ pc'[x] = pc[x]
                        \/ pc[x] = "queued" /\ pc'[x] \in {"reserved", "hung"}
                        \/ pc[x] = "reserved" /\ pc'[x] = "refused"
                        \/ kind[x] = "new" /\ pc[x] \notin {"idle", "dead"}
  PROVE  OneFresh' /\ NothingWaits' /\ OthersStay'
<1>1. \A x \in Run : Fresh(x)' => Fresh(x)
  BY DEF Fresh
<1>2. \A x \in Run : Fresh(x) => exec[x] \in Exec
  BY DEF Fresh, BaseInv, TypeOK
<1>3. OneFresh'
  BY <1>1, <1>2 DEF OneFresh
<1>4. NothingWaits'
  BY DEF NothingWaits
<1>5. OthersStay'
  BY DEF OthersStay
<1> QED BY <1>3, <1>4, <1>5

\* A step that touches neither entries nor reservations and moves no call off
\* its way.
LEMMA Held ==
  ASSUME NoLostReservation, UNCHANGED <<reserved, active, exec>>,
         \A x \in reserved : \/ pc'[x] = pc[x]
                             \/ pc[x] \in InAdd /\ pc'[x] \in InAdd
                             \/ /\ pc[x] \in {"added", "starting", "executing"}
                                /\ pc'[x] \in {"starting", "executing", "saved"}
  PROVE  NoLostReservation'
BY DEF NoLostReservation, InAdd

\* Settling an entry gives back the reservation of the call that registered it,
\* and of no other.
LEMMA KeepFinalize ==
  ASSUME BaseInv, NothingWaits, NoLostReservation, NEW e \in Exec, NEW after,
         FinalizeExecution(e, after), exec' = exec,
         \A x \in Run : after[x] = pc[x] \/ (exec[x] = e /\ pc[x] \in {"starting", "saved"})
  PROVE  NoLostReservation'
<1>0. ModeOf[e] \in Mode /\ reserved \subseteq Run /\ active \in [Exec -> Run \cup {NoRun}]
  BY ExecAssumption DEF BaseInv, TypeOK
<1>1. \A x \in reserved : exec[x] \in Exec
  BY DEF NoLostReservation, BaseInv, TypeOK
<1>2. CASE SettleEntry(e, after)
  <2>1. PICK p \in Run : p = active[e] /\ p \in reserved
    BY <1>0, <1>2 DEF SettleEntry, Pending
  <2>2. /\ reserved' = (reserved \ {p}) \cup ReleasedBy(ModeOf[e])
        /\ pc' = [x \in Run |-> IF x \in ReleasedBy(ModeOf[e]) THEN "reserved" ELSE after[x]]
        /\ active' = [active EXCEPT ![e] = NoRun]
    BY <1>2, <2>1 DEF SettleEntry, NothingWaits
  <2>3. \A x \in ReleasedBy(ModeOf[e]) : x \in Run
    BY <1>0, ReleasedCalls
  <2> SUFFICES ASSUME NEW x \in reserved'
               PROVE  \/ pc'[x] \in {"reserved", "marked"}
                      \/ /\ active'[exec[x]] = x
                         /\ pc'[x] \in {"added", "starting", "executing", "saved"}
    BY DEF NoLostReservation
  <2>4. CASE x \in ReleasedBy(ModeOf[e])
    BY <2>2, <2>3, <2>4
  <2>5. CASE x \notin ReleasedBy(ModeOf[e])
    <3>1. x \in reserved /\ x # p /\ x \in Run /\ pc'[x] = after[x] /\ exec[x] \in Exec
      BY <1>0, <1>1, <2>2, <2>5
    <3>2. CASE pc[x] \in {"reserved", "marked"}
      BY <3>1, <3>2
    <3>3. CASE pc[x] \notin {"reserved", "marked"}
      <4>1. active[exec[x]] = x /\ pc[x] \in {"added", "starting", "executing", "saved"}
        BY <3>1, <3>3 DEF NoLostReservation
      <4>2. exec[x] # e
        BY <2>1, <3>1, <4>1
      <4>3. active'[exec[x]] = x
        BY <1>0, <2>2, <3>1, <4>1, <4>2
      <4> QED BY <3>1, <4>1, <4>2, <4>3
    <3> QED BY <3>2, <3>3
  <2> QED BY <2>4, <2>5
<1>3. CASE ~Pending(e) /\ pc' = after /\ UNCHANGED <<reserved, active>>
  <2> SUFFICES ASSUME NEW x \in reserved PROVE pc'[x] = pc[x]
    BY <1>3, Held
  <2>1. active[exec[x]] = x => exec[x] # e
    BY <1>0, <1>3, ExecAssumption DEF Pending
  <2>2. pc[x] \in {"starting", "saved"} => active[exec[x]] = x
    BY DEF NoLostReservation
  <2> QED BY <1>0, <1>3, <2>1, <2>2
<1> QED BY <1>2, <1>3 DEF FinalizeExecution

LEMMA KeepStopEntry ==
  ASSUME BaseInv, NothingWaits, NoLostReservation, NEW e \in Exec, StopEntry(e), exec' = exec
  PROVE  NoLostReservation'
<1>1. CASE active[e] = NoRun
  BY <1>1, Held DEF StopEntry
<1>2. CASE active[e] # NoRun
  <2>1. status[active[e]] = "running"
    BY <1>2 DEF NothingWaits, BaseInv, TypeOK
  <2>2. FinalizeExecution(e, pc)
    BY <1>2, <2>1 DEF StopEntry
  <2> QED BY <2>2, KeepFinalize
<1> QED BY <1>1, <1>2

\* The hypotheses of the run that checks NoLostReservation.
Calm == ~Waits /\ ~DbFaults

LEMMA KeepBegin ==
  ASSUME BaseInv, KeepInv, NEW r \in Run, NEW e \in Exec,
         CreateExecution(r, e) \/ ResumeExecution(r, e) \/ RunEnqueuedExecution(r, e)
  PROVE  KeepInv'
<1> USE DEF BaseInv, TypeOK
<1>1. PICK k \in {"new", "bootup"}, at \in {"created", "restart"} :
        /\ Begin(r, e, k, at)
        /\ k = "new" => /\ at = "created" /\ db[e] = "none"
                        /\ db' = [db EXCEPT ![e] = "new"]
        /\ k = "bootup" => at = "restart" /\ db' = db
  <2>1. ~ResumeExecution(r, e)
    BY DEF ResumeExecution, KeepInv, NothingWaits
  <2> QED BY <2>1 DEF CreateExecution, RunEnqueuedExecution
<1>2. /\ pc[r] = "idle" /\ UNCHANGED <<reserved, active, status, waits>>
      /\ pc'[r] = at /\ kind'[r] = k /\ exec'[r] = e
      /\ \A x \in Run \ {r} : pc'[x] = pc[x] /\ kind'[x] = kind[x] /\ exec'[x] = exec[x]
  BY <1>1 DEF Begin, entryVars
<1>3. \A x \in Run \ {r} : Fresh(x)' => Fresh(x) /\ exec[x] \in Exec
  BY <1>2 DEF Fresh
<1>4. NothingWaits'
  BY <1>1, <1>2 DEF KeepInv, NothingWaits
<1>5. OthersStay'
  BY <1>1, <1>2 DEF KeepInv, OthersStay
<1>6. OneFresh'
  <2>1. CASE k = "bootup"
    <3>1. ~Fresh(r)'
      BY <1>2, <2>1 DEF Fresh
    <3> QED BY <1>1, <1>2, <1>3, <2>1, <3>1 DEF KeepInv, OneFresh
  <2>2. CASE k = "new"
    <3>1. /\ db[e] = "none" /\ db'[e] = "new"
          /\ \A d \in Exec \ {e} : db'[d] = db[d]
      BY <1>1, <2>2
    <3>2. \A x \in Run \ {r} : Fresh(x)' => exec[x] # e /\ db[exec[x]] # "none"
      BY <1>3, <3>1 DEF KeepInv, OneFresh
    <3>3. \A x, y \in Run : Fresh(x)' /\ Fresh(y)' /\ exec'[x] = exec'[y] => x = y
      BY <1>2, <1>3, <3>2 DEF KeepInv, OneFresh
    <3>4. \A x \in Run : Fresh(x)' => db'[exec'[x]] # "none"
      BY <1>2, <1>3, <3>1, <3>2
    <3> QED BY <3>3, <3>4 DEF OneFresh
  <2> QED BY <2>1, <2>2
<1>7. NoLostReservation'
  <2>1. r \notin reserved
    BY <1>2 DEF KeepInv, NoLostReservation
  <2>2. \A x \in reserved : pc'[x] = pc[x] /\ exec'[x] = exec[x]
    BY <1>2, <2>1
  <2> QED BY <1>2, <2>2 DEF KeepInv, NoLostReservation
<1> QED BY <1>4, <1>5, <1>6, <1>7 DEF KeepInv

LEMMA KeepReserve ==
  ASSUME BaseInv, KeepInv, NEW r \in Run, Reserve(r)
  PROVE  KeepInv'
<1> USE DEF BaseInv, TypeOK
<1>1. /\ UNCHANGED <<kind, exec, db, waits, status, active>> /\ pc[r] \in {"created", "restart"}
      /\ \/ pc' = [pc EXCEPT ![r] = "queued"] /\ reserved' = reserved
         \/ pc' = [pc EXCEPT ![r] = "reserved"] /\ reserved' = reserved \cup {r}
  BY DEF Reserve, entryVars
<1>2. \A x \in Run : Fresh(x)' => Fresh(x)
  BY <1>1 DEF Fresh
<1>3. OneFresh'
  BY <1>1, <1>2 DEF KeepInv, OneFresh
<1>4. NothingWaits' /\ OthersStay'
  BY <1>1 DEF KeepInv, NothingWaits, OthersStay
<1>5. r \notin reserved
  BY <1>1 DEF KeepInv, NoLostReservation
<1>6. NoLostReservation'
  BY <1>1, <1>5 DEF KeepInv, NoLostReservation
<1> QED BY <1>3, <1>4, <1>6 DEF KeepInv

\* Registering an entry displaces nobody who needs it: the call of the new row
\* is the only one that gets that far.
LEMMA KeepRegister ==
  ASSUME BaseInv, KeepInv, NEW r \in Run, Register(r)
  PROVE  KeepInv'
<1> USE DEF BaseInv, TypeOK
<1>1. /\ pc[r] = "marked" /\ pc' = [pc EXCEPT ![r] = "added"]
      /\ active' = [active EXCEPT ![exec[r]] = r]
      /\ status' = [status EXCEPT ![r] = "running"]
      /\ UNCHANGED <<kind, exec, reserved, waits, db>> /\ exec[r] \in Exec
  BY DEF Register
<1>2. kind[r] = "new" /\ Fresh(r)
  BY <1>1 DEF KeepInv, OthersStay, Fresh
<1>3. status' = status
  BY <1>1 DEF KeepInv, NothingWaits
<1>4. OneFresh' /\ NothingWaits' /\ OthersStay'
  <2>1. \A x \in Run : pc'[x] = pc[x] \/ (kind[x] = "new" /\ pc[x] \notin {"idle", "dead"})
    BY <1>1, <1>2
  <2> QED BY <1>1, <1>3, <2>1, RowsKept DEF KeepInv
<1>5. NoLostReservation'
  <2> SUFFICES ASSUME NEW x \in reserved, x # r
               PROVE  \/ pc[x] \in {"reserved", "marked"}
                      \/ /\ active'[exec[x]] = x
                         /\ pc[x] \in {"added", "starting", "executing", "saved"}
    BY <1>1 DEF NoLostReservation
  <2>1. CASE pc[x] \notin {"reserved", "marked"}
    <3>1. active[exec[x]] = x /\ pc[x] \in {"added", "starting", "executing", "saved"}
          /\ x \in Run /\ exec[x] \in Exec
      BY <2>1 DEF KeepInv, NoLostReservation
    <3>2. Fresh(x)
      BY <3>1 DEF KeepInv, OthersStay, Fresh
    <3>3. exec[x] # exec[r]
      BY <1>2, <3>1, <3>2 DEF KeepInv, OneFresh
    <3> QED BY <1>1, <3>1, <3>3
  <2> QED BY <2>1
<1> QED BY <1>4, <1>5 DEF KeepInv

\* The other steps of the call: it gets on, or has no reservation any more.
LEMMA KeepQuiet ==
  ASSUME Calm, BaseInv, KeepInv, NEW r \in Run, Quiet(r)
  PROVE  KeepInv'
<1> USE DEF BaseInv, TypeOK
<1>1. CASE Register(r)
  BY <1>1, KeepRegister
<1>2. CASE SaveCanceled(r) \/ SaveProgress(r)
  <2>1. /\ UNCHANGED <<pc, kind, exec, reserved, active, waits, status>>
        /\ \A e \in Exec : db'[e] = db[e] \/ db'[e] \in {"canceled", "running"}
    BY <1>2 DEF SaveCanceled, SaveProgress, Saves, runVars, entryVars
  <2> QED BY <2>1, RowsKept, Held DEF KeepInv
<1>3. ~ResumeRow(r) /\ ~PutToWait(r) /\ ~StartMainProcessFails(r)
  <2>1. ~ResumeRow(r)
    <3> SUFFICES ASSUME pc[r] = "reserved" PROVE db[exec[r]] # "waiting"
      BY DEF ResumeRow, ClaimsRow
    <3> QED BY DEF KeepInv, NothingWaits
  <2> QED BY <2>1 DEF Calm, PutToWait, StartMainProcessFails
<1>4. CASE \/ SetRunning(r) \/ FailExecution(r) \/ AttachResponseFails(r)
           \/ StartMainProcess(r) \/ Launch(r) \/ LaunchDetached(r) \/ SaveError(r)
           \/ \E o \in DbStatus : FinishWorkflow(r, o)
  <2>1. /\ UNCHANGED <<kind, exec, reserved, active, waits, status>>
        /\ pc[r] \in {"reserved", "added", "starting", "erring", "executing", "orphan"}
        /\ pc[r] = "reserved" => kind[r] = "new"
        /\ \A x \in Run \ {r} : pc'[x] = pc[x]
    BY <1>4 DEF SetRunning, FailExecution, AttachResponseFails, StartMainProcess, Launch,
       LaunchDetached, SaveError, FinishWorkflow, entryVars
  <2>2. \/ pc[r] = "reserved" /\ pc'[r] = "marked"
        \/ pc[r] = "added" /\ pc'[r] \in {"saved", "starting"}
        \/ pc[r] = "starting" /\ pc'[r] = "executing"
        \/ pc[r] = "executing" /\ pc'[r] = "saved"
        \/ pc[r] \in {"orphan", "erring"}
        \/ pc[r] \in {"added", "starting"} /\ active[exec[r]] = NoRun
    BY <1>4 DEF SetRunning, FailExecution, AttachResponseFails, StartMainProcess, Launch,
       LaunchDetached, SaveError, FinishWorkflow
  <2>3. \A e \in Exec : db'[e] = db[e] \/ db'[e] \notin {"none", "waiting"}
    <3>1. ASSUME NEW o \in DbStatus, FinishWorkflow(r, o)
          PROVE  \A e \in Exec : db'[e] = db[e] \/ db'[e] \notin {"none", "waiting"}
      <4>1. o \in {"success", "error", "canceled"}
        BY <3>1 DEF FinishWorkflow, KeepInv, NothingWaits
      <4>2. db' = db \/ db' = [db EXCEPT ![exec[r]] = o]
        BY <3>1 DEF FinishWorkflow, Saves
      <4> QED BY <4>1, <4>2
    <3>2. CASE \/ SetRunning(r) \/ FailExecution(r) \/ AttachResponseFails(r)
               \/ StartMainProcess(r) \/ Launch(r) \/ LaunchDetached(r) \/ SaveError(r)
      BY <3>2 DEF SetRunning, FailExecution, AttachResponseFails, StartMainProcess, Launch,
         LaunchDetached, SaveError, Saves
    <3> QED BY <1>4, <3>1, <3>2
  <2>4. kind[r] = "new"
    BY <2>1 DEF KeepInv, OthersStay
  <2>5. OneFresh' /\ NothingWaits' /\ OthersStay'
    <3>1. \A x \in Run : pc'[x] = pc[x] \/ (kind[x] = "new" /\ pc[x] \notin {"idle", "dead"})
      BY <2>1, <2>4
    <3> QED BY <2>1, <2>3, <3>1, RowsKept DEF KeepInv
  <2>6. NoLostReservation'
    <3>1. r \in reserved => \/ pc[r] \in {"reserved", "marked"}
                            \/ /\ active[exec[r]] = r
                               /\ pc[r] \in {"added", "starting", "executing", "saved"}
      BY DEF KeepInv, NoLostReservation
    <3>2. r \in reserved => \/ pc[r] \in InAdd /\ pc'[r] \in InAdd
                            \/ /\ pc[r] \in {"added", "starting", "executing"}
                               /\ pc'[r] \in {"starting", "executing", "saved"}
      BY <2>2, <3>1, ExecAssumption DEF InAdd
    <3> QED BY <2>1, <3>2, Held DEF KeepInv
  <2> QED BY <2>5, <2>6 DEF KeepInv
<1> QED BY <1>1, <1>2, <1>3, <1>4 DEF Quiet

\* The steps that release capacity.
LEMMA KeepRelease ==
  ASSUME Calm, BaseInv, KeepInv, NEW r \in Run,
         RefuseResume(r) \/ AddFails(r) \/ LaunchFails(r) \/ FinalizeRun(r) \/ TimeoutRun(r)
  PROVE  KeepInv'
<1>0. ~AddFails(r)
  BY DEF Calm, AddFails
<1>1. UNCHANGED <<kind, exec, db, status>> /\ waits' = {} /\ waits = {}
  BY <1>0 DEF RefuseResume, LaunchFails, FinalizeRun, TimeoutRun, entryVars, KeepInv,
     NothingWaits
<1>2. \A x \in Run : \/ pc'[x] = pc[x]
                     \/ pc[x] = "queued" /\ pc'[x] = "reserved"
                     \/ x = r
  BY ReleaseMoves DEF LetGo
<1>3. \/ pc[r] = "reserved" /\ pc'[r] \in {"reserved", "refused"}
      \/ kind[r] = "new" /\ pc[r] \notin {"idle", "dead"}
  <2>1. CASE RefuseResume(r)
    BY <2>1 DEF RefuseResume, ReleaseReservation
  <2>2. CASE LaunchFails(r) \/ FinalizeRun(r) \/ TimeoutRun(r)
    <3>1. pc[r] \in {"starting", "saved", "executing"}
      BY <2>2 DEF LaunchFails, FinalizeRun, TimeoutRun
    <3> QED BY <3>1 DEF KeepInv, OthersStay
  <2> QED BY <1>0, <2>1, <2>2
<1>4. OneFresh' /\ NothingWaits' /\ OthersStay'
  BY <1>1, <1>2, <1>3, RowsKept DEF KeepInv
<1>5. NoLostReservation'
  <2>1. CASE RefuseResume(r)
    <3>1. PICK mode \in Mode : mode = ModeOfRun(r)
      BY <2>1, ExecAssumption DEF RefuseResume, BaseInv, TypeOK, ModeOfRun
    <3>2. /\ reserved' = (reserved \ {r}) \cup ReleasedBy(mode)
          /\ pc' = [x \in Run |-> IF x \in ReleasedBy(mode) THEN "reserved"
                                  ELSE IF x = r THEN "refused" ELSE pc[x]]
          /\ active' = active /\ exec' = exec
      BY <2>1, <3>1 DEF RefuseResume, ReleaseReservation, entryVars
    <3>3. \A x \in ReleasedBy(mode) : x \in Run
      BY ReleasedCalls
    <3> QED BY <3>2, <3>3 DEF KeepInv, NoLostReservation, BaseInv, TypeOK
  <2>2. CASE LaunchFails(r) \/ FinalizeRun(r)
    <3>1. PICK at \in {"erring", "done"} :
            /\ pc[r] \in {"starting", "saved"}
            /\ FinalizeExecution(exec[r], [pc EXCEPT ![r] = at])
      BY <2>2 DEF LaunchFails, FinalizeRun
    <3>2. PICK e \in Exec : e = exec[r]
      BY <3>1 DEF BaseInv, TypeOK
    <3> DEFINE after == [pc EXCEPT ![r] = at]
    <3>3. FinalizeExecution(e, after)
      BY <3>1, <3>2
    <3>4. \A x \in Run : after[x] = pc[x] \/ (exec[x] = e /\ pc[x] \in {"starting", "saved"})
      BY <3>1, <3>2 DEF BaseInv, TypeOK
    <3> HIDE DEF after
    <3> QED BY <1>1, <3>3, <3>4, KeepFinalize DEF KeepInv
  <2>3. CASE TimeoutRun(r)
    <3>1. PICK e \in Exec : e = exec[r] /\ StopEntry(e)
      BY <2>3 DEF TimeoutRun, BaseInv, TypeOK
    <3> QED BY <1>1, <3>1, KeepStopEntry DEF KeepInv
  <2> QED BY <1>0, <2>1, <2>2, <2>3
<1> QED BY <1>4, <1>5 DEF KeepInv

LEMMA KeepStop ==
  ASSUME BaseInv, KeepInv, NEW e \in Exec, StopStep(e)
  PROVE  KeepInv'
<1>1. CASE StopRead(e) \/ StopWrite(e)
  <2>1. /\ UNCHANGED <<pc, kind, exec, reserved, active, waits, status>>
        /\ \A d \in Exec : db'[d] = db[d] \/ db'[d] = "canceled"
    BY <1>1 DEF StopRead, StopWrite, Saves, runVars, entryVars, BaseInv, TypeOK
  <2> QED BY <2>1, RowsKept, Held DEF KeepInv
<1>2. CASE StopQueued(e)
  <2>1. UNCHANGED <<kind, exec, db, waits, status, active>>
    BY <1>2 DEF StopQueued, entryVars
  <2>2. \A x \in Run : \/ pc'[x] = pc[x]
                       \/ pc[x] = "queued" /\ pc'[x] \in {"reserved", "hung"}
    BY <1>2, StopQueuedMoves
  <2>3. \A x \in reserved' : x \in reserved \/ pc'[x] = "reserved"
    <3>1. PICK q \in queues : \E k \in 1 .. Len(queue[q]) :
            /\ Remove(q, k)
            /\ reserved' = reserved \cup RemoveLetsGo(q, k)
            /\ pc' = [x \in Run |-> IF x \in RemoveLetsGo(q, k) THEN "reserved"
                                    ELSE IF x = queue[q][k] THEN "hung" ELSE pc[x]]
      BY <1>2 DEF StopQueued
    <3>2. PICK k \in 1 .. Len(queue[q]) :
            /\ Remove(q, k)
            /\ reserved' = reserved \cup RemoveLetsGo(q, k)
            /\ pc' = [x \in Run |-> IF x \in RemoveLetsGo(q, k) THEN "reserved"
                                    ELSE IF x = queue[q][k] THEN "hung" ELSE pc[x]]
      BY <3>1
    <3>3. q \in QueueType
      BY DEF BaseInv, TypeOK
    <3>4. RemoveLetsGo(q, k) \subseteq Run
      BY <2>1, <3>2, <3>3, RemoveStep
    <3> QED BY <3>2, <3>4
  <2>4. NoLostReservation'
    BY <2>1, <2>2, <2>3 DEF KeepInv, NoLostReservation, BaseInv, TypeOK
  <2>5. OneFresh' /\ NothingWaits' /\ OthersStay'
    BY <2>1, <2>2, RowsKept DEF KeepInv
  <2> QED BY <2>4, <2>5 DEF KeepInv
<1>3. CASE StopActive(e)
  <2>1. StopEntry(e) /\ UNCHANGED <<kind, exec, db, waits, status>>
    BY <1>3 DEF StopActive
  <2>2. \A x \in Run : pc'[x] = pc[x] \/ (pc[x] = "queued" /\ pc'[x] = "reserved")
    BY <2>1, StopMoves DEF LetGo
  <2>3. OneFresh' /\ NothingWaits' /\ OthersStay'
    BY <2>1, <2>2, RowsKept DEF KeepInv
  <2> QED BY <2>1, <2>3, KeepStopEntry DEF KeepInv
<1> QED BY <1>1, <1>2, <1>3 DEF StopStep

LEMMA KeepProcess ==
  ASSUME BaseInv, KeepInv, BeginShutdown \/ Restart
  PROVE  KeepInv'
<1>1. CASE BeginShutdown
  <2>1. UNCHANGED <<pc, kind, exec, reserved, db, waits, status>>
    BY <1>1 DEF BeginShutdown, runVars
  <2>2. active' = active
    BY <1>1 DEF BeginShutdown, KeepInv, NothingWaits, BaseInv, TypeOK
  <2> QED BY <2>1, <2>2, RowsKept, Held DEF KeepInv
<1>2. CASE Restart
  <2>1. /\ \A x \in Run : pc'[x] \in {"idle", "dead"} /\ kind'[x] = "new" /\ status'[x] = "running"
        /\ reserved' = {} /\ waits' = {}
        /\ \A e \in Exec : db'[e] = db[e] \/ db'[e] = "crashed"
    BY <1>2 DEF Restart
  <2> QED BY <2>1 DEF KeepInv, OneFresh, NothingWaits, OthersStay, NoLostReservation, Fresh
<1> QED BY <1>1, <1>2

LEMMA KeepStep == Calm /\ BaseInv /\ KeepInv /\ [Next]_vars => KeepInv'
<1> SUFFICES ASSUME Calm, BaseInv, KeepInv, [Next]_vars PROVE KeepInv'
  OBVIOUS
<1>1. CASE Next
  BY <1>1, NextCases, KeepReserve, KeepQuiet, KeepBegin, KeepRelease, KeepStop, KeepProcess
<1>2. CASE UNCHANGED vars
  BY <1>2, RowsKept, Held DEF vars, runVars, entryVars, KeepInv
<1> QED BY <1>1, <1>2

\* As long as workflows do not wait and the database answers, a reservation is
\* always in the hands of a call that will give it back: inside add(), or on its
\* way to settling the entry it registered, also during shutdown, under stops,
\* timeouts and restarts, for all limits, modes, calls and executions.
THEOREM NoReservationLost == Calm => (Spec => []NoLostReservation)
<1> SUFFICES ASSUME Calm PROVE Spec => []NoLostReservation
  OBVIOUS
<1>1. Init => KeepInv
  BY DEF Init, KeepInv, OneFresh, NothingWaits, OthersStay, NoLostReservation, Fresh
<1>2. BaseInv /\ KeepInv /\ [Next]_vars => KeepInv'
  BY KeepStep
<1>3. KeepInv => NoLostReservation
  BY DEF KeepInv
<1> QED BY <1>1, <1>2, <1>3, BaseInvariant, PTL DEF Spec


-----------------------------------------------------------------------------
(* The throttle as calls see it.                                            *)

Overrun(q) == Cardinality(Holders(q)) <= Limit(q) + Cardinality(StoppedWaiting(q))

\* A step that is none for the calls of the throttle, or one it promises.
ServiceStep == Service!Next \/ UNCHANGED <<Waiting, Admitted>>

\* What ThrottleService sees of a queue.
LEMMA Seen ==
  ASSUME ~down
  PROVE  /\ Waiting = [q \in QueueType |-> IF q \in queues THEN queue[q] ELSE <<>>]
         /\ Admitted = [q \in QueueType |-> IF q \in queues THEN Holders(q) ELSE {}]
BY DEF Waiting, Admitted, InForce

LEMMA SeenNext ==
  ASSUME ~down'
  PROVE  /\ Waiting' = [q \in QueueType |-> IF q \in queues' THEN queue'[q] ELSE <<>>]
         /\ Admitted' = [q \in QueueType |-> IF q \in queues' THEN Holders(q)' ELSE {}]
BY DEF Waiting, Admitted, InForce

\* A step that concerns one queue.
LEMMA SeenEdit ==
  ASSUME ~down, ~down', NEW q \in QueueType, q \in queues', queues' = queues,
         \A p \in QueueType : p # q => queue'[p] = queue[p] /\ Holders(p)' = Holders(p)
  PROVE  /\ Waiting' = [Waiting EXCEPT ![q] = queue'[q]]
         /\ Admitted' = [Admitted EXCEPT ![q] = Holders(q)']
BY Seen, SeenNext

\* The calls stopped while they waited become more, at most.
LEMMA StoppedStay ==
  ASSUME BaseInv, NEW q,
         \A x \in Run : pc[x] = "hung" => pc'[x] = "hung" /\ exec'[x] = exec[x]
  PROVE  /\ Cardinality(StoppedWaiting(q)) \in Nat /\ Cardinality(StoppedWaiting(q)') \in Nat
         /\ Cardinality(StoppedWaiting(q)) <= Cardinality(StoppedWaiting(q)')
<1>1. StoppedWaiting(q) \subseteq StoppedWaiting(q)' /\ StoppedWaiting(q)' \subseteq Run
  BY DEF StoppedWaiting, ModeOfRun
<1>2. IsFiniteSet(StoppedWaiting(q)')
  BY <1>1, FS_Subset, ExecAssumption
<1> QED BY <1>1, <1>2, FS_Subset, FS_CardinalityType

\* A queue whose holders do not become more.
LEMMA OverrunKept ==
  ASSUME BaseInv, NEW q \in QueueType, Overrun(q), Cardinality(Holders(q)') \in Nat,
         Cardinality(Holders(q)') <= Cardinality(Holders(q)),
         \A x \in Run : pc[x] = "hung" => pc'[x] = "hung" /\ exec'[x] = exec[x]
  PROVE  Overrun(q)'
<1>1. Limit(q) \in Int /\ Limit(q)' = Limit(q)
  BY LimitType DEF Limit
<1>2. Cardinality(Holders(q)) \in Nat
  BY HoldersFinite DEF BaseInv
<1> QED BY <1>1, <1>2, StoppedStay DEF Overrun

LEMMA ServiceIdle ==
  ASSUME BaseInv, ~down, ~down', UNCHANGED <<queues, queue, reserved>>,
         \A x \in reserved : exec'[x] = exec[x],
         \A x \in Run : pc[x] = "hung" => pc'[x] = "hung" /\ exec'[x] = exec[x],
         \A q \in queues : Overrun(q)
  PROVE  ServiceStep /\ \A q \in queues' : Overrun(q)'
<1>1. \A q : Holders(q)' = Holders(q)
  BY DEF Holders, ModeOfRun
<1>2. UNCHANGED <<Waiting, Admitted>>
  BY <1>1, Seen, SeenNext
<1>3. ASSUME NEW q \in queues PROVE Overrun(q)'
  <2>1. q \in QueueType
    BY DEF BaseInv, TypeOK
  <2>2. Cardinality(Holders(q)) \in Nat
    BY HoldersFinite DEF BaseInv
  <2> QED BY <1>1, <2>1, <2>2, OverrunKept
<1> QED BY <1>2, <1>3 DEF ServiceStep

\* The Cardinality of the instance is that of FiniteSets.
LEMMA SameCount == \A S : Service!Cardinality(S) = Cardinality(S)
BY Zenon DEF Cardinality, Service!Cardinality

\* The queue that throttle puts a call into, as ThrottleService sees it, also
\* when ensureEvalQueueResolved has only just built it.
LEMMA ThrottleSees ==
  ASSUME BaseInv, ControlInv, ~down, NEW mode \in Mode, EnsureEvalQueueResolved(mode),
         GetQueue(mode) \in queues', \A p \in queues : Overrun(p)
  PROVE  LET q == GetQueue(mode)
         IN  Waiting[q] = queue[q] /\ Admitted[q] = Holders(q) /\ Overrun(q)
<1>1. PICK q : q = GetQueue(mode)
  OBVIOUS
<1>2. q \in QueueType
  BY <1>1, ThrottleFinds
<1>3. CASE q \in queues
  BY <1>1, <1>2, <1>3, Seen
<1>4. CASE q \notin queues
  <2>1. BuildsEvalQueue(mode) /\ q = "evaluation"
    BY <1>1, <1>4 DEF EnsureEvalQueueResolved
  <2>2. /\ queue[q] = <<>> /\ Holders(q) = {}
        /\ NormaliseLimit(EvaluationLimit) <= 0 /\ NormaliseLimit(LicensedEvaluation) > 0
    BY <2>1 DEF BuildsEvalQueue, ResolvesEvalQueue, ControlInv, EvalInv
  <2>3. Limit(q) \in Int /\ Limit(q) > 0
    BY <1>2, <2>1, <2>2, LimitType, LimitsAssumption DEF Limit, NormaliseLimit
  <2>4. Cardinality(Holders(q)) = 0
    BY <2>2, FS_EmptySet
  <2>5. Cardinality(StoppedWaiting(q)) \in Nat
    <3>1. IsFiniteSet(StoppedWaiting(q))
      BY FS_Subset, ExecAssumption DEF StoppedWaiting
    <3> QED BY <3>1, FS_CardinalityType
  <2>6. Overrun(q)
    BY <2>3, <2>4, <2>5 DEF Overrun
  <2> QED BY <1>1, <1>2, <1>4, <2>2, <2>6, Seen
<1> QED BY <1>3, <1>4

\* Reserve is the arrival of a call, unless its mode is not limited.
LEMMA ServiceReserve ==
  ASSUME BaseInv, ReservedInv, ControlInv, ~down, ~down', NEW r \in Run, Reserve(r),
         \A p \in queues : Overrun(p)
  PROVE  ServiceStep /\ \A p \in queues' : Overrun(p)'
<1>a. PICK mode : mode = ModeOfRun(r)
  OBVIOUS
<1>b. PICK q : q = GetQueue(mode)
  OBVIOUS
<1>1. exec[r] \in Exec /\ mode \in Mode /\ r \in Run \ reserved /\ exec' = exec
  BY <1>a, ExecAssumption DEF Reserve, BaseInv, TypeOK, ModeOfRun, ReservedInv, BeforeGrant
<1>2. EnsureEvalQueueResolved(mode)
  BY <1>a DEF Reserve, Throttle
<1>3. /\ queues' \subseteq queues \cup {q} /\ queues \subseteq queues'
      /\ q \in queues' => IsThrottled(mode) /\ q \in QueueType /\ BooksOf(q)
      /\ IsThrottled(mode) => q \in queues'
  BY <1>b, <1>1, <1>2, ThrottleFinds DEF EnsureEvalQueueResolved
<1>4. /\ capacity \in [QueueType -> Int] /\ queue \in [QueueType -> Seq(Run)]
      /\ queues \subseteq QueueType /\ TypeOK
  BY DEF BaseInv, TypeOK
<1>5. IF IsThrottled(mode)
      THEN queue' = IF EnqueueBlocks(mode) THEN [queue EXCEPT ![q] = Append(@, r)] ELSE queue
      ELSE UNCHANGED queue
  BY <1>a, <1>b DEF Reserve, Throttle
<1>6. IF EnqueueBlocks(mode) THEN reserved' = reserved ELSE reserved' = reserved \cup {r}
  BY <1>a DEF Reserve
<1>7. EnqueueBlocks(mode) <=> IsThrottled(mode) /\ capacity[q] - 1 < 0
  BY <1>b DEF EnqueueBlocks
<1>8. \A p : p # q => Holders(p)' = Holders(p)
  BY <1>a, <1>b, <1>1, <1>6 DEF Holders, ModeOfRun
<1>9. \A x \in Run : pc[x] = "hung" => pc'[x] = "hung" /\ exec'[x] = exec[x]
  BY <1>1 DEF Reserve, BaseInv, TypeOK
<1>10. ASSUME NEW p \in queues', p # q PROVE Overrun(p)'
  <2>1. p \in queues /\ p \in QueueType /\ Holders(p)' = Holders(p)
    BY <1>3, <1>4, <1>8, <1>10
  <2>2. Cardinality(Holders(p)) \in Nat
    BY <1>4, HoldersFinite
  <2> QED BY <1>9, <2>1, <2>2, OverrunKept
<1>11. CASE q \notin queues'
  <2>1. ~IsThrottled(mode) /\ queues' = queues /\ q \notin queues
    BY <1>3, <1>11
  <2>2. queue' = queue
    BY <1>5, <2>1
  <2>3. UNCHANGED <<Waiting, Admitted>>
    BY <1>8, <2>1, <2>2, Seen, SeenNext
  <2> QED BY <1>10, <1>11, <2>3 DEF ServiceStep
<1>12. CASE q \in queues'
  <2>1. IsThrottled(mode) /\ q \in QueueType /\ BooksOf(q)
    BY <1>3, <1>12
  <2>2. Waiting[q] = queue[q] /\ Admitted[q] = Holders(q) /\ Overrun(q)
    BY <1>b, <1>1, <1>2, <1>12, ThrottleSees
  <2>3. /\ Limit(q) \in Int /\ Cardinality(Holders(q)) \in Nat /\ capacity[q] \in Int
        /\ queue[q] \in Seq(Run) /\ Len(queue[q]) \in Nat
        /\ (queue[q] # <<>> => Len(queue[q]) > 0) /\ (queue[q] = <<>> => Len(queue[q]) = 0)
    BY <1>4, <2>1, LimitType, HoldersFinite
  <2>4. ASSUME NEW p \in QueueType PROVE r \notin Admitted[p] /\ ~Service!IsIn(r, Waiting[p])
    <3>1. Admitted[p] \subseteq reserved
      BY Seen DEF Holders
    <3>2. \A i \in 1 .. Len(queue[p]) : pc[queue[p][i]] = "queued"
      BY QueueMembers
    <3>3. pc[r] # "queued"
      BY DEF Reserve
    <3>4. Waiting[p] = queue[p] \/ Waiting[p] = <<>>
      BY Seen
    <3>5. ~Service!IsIn(r, queue[p]) /\ ~Service!IsIn(r, <<>>)
      BY <3>2, <3>3 DEF Service!IsIn
    <3> QED BY <1>1, <3>1, <3>4, <3>5
  <2>5. CASE EnqueueBlocks(mode)
    <3>1. queue' = [queue EXCEPT ![q] = Append(@, r)] /\ \A p : Holders(p)' = Holders(p)
      BY <1>1, <1>5, <1>6, <2>1, <2>5 DEF Holders, ModeOfRun
    <3>2. Waiting' = [Waiting EXCEPT ![q] = Append(@, r)]
      BY <1>3, <1>4, <1>12, <2>1, <2>2, <3>1, Seen, SeenNext
    <3>3. Admitted' = Admitted
      <4>1. \A p \in QueueType : Admitted'[p] = Admitted[p]
        BY <1>3, <1>12, <2>2, <3>1, Seen, SeenNext
      <4> QED BY <4>1, Seen, SeenNext
    <3>4. ~(Waiting[q] = <<>> /\ Cardinality(Admitted[q]) < Limit(q))
      BY <1>7, <2>1, <2>2, <2>3, <2>5 DEF BooksOf
    <3>5. Service!Arrive(r, q)
      BY <2>1, <2>4, <3>2, <3>3, <3>4, SameCount DEF Service!Arrive
    <3>6. Service!Moves(q)
      <4>1. Waiting'[q] = Append(Waiting[q], r)
        BY <2>1, <3>2, Seen
      <4>2. Len(Append(queue[q], r)) = Len(queue[q]) + 1
        BY <2>3
      <4>3. Waiting'[q] # Waiting[q]
        BY <2>2, <2>3, <4>1, <4>2
      <4> QED BY <4>3 DEF Service!Moves
    <3>7. Overrun(q)'
      BY <1>9, <2>1, <2>2, <2>3, <3>1, OverrunKept
    <3> QED BY <1>10, <2>1, <3>5, <3>6, <3>7 DEF ServiceStep, Service!Next
  <2>6. CASE ~EnqueueBlocks(mode)
    <3>1. queue' = queue /\ reserved' = reserved \cup {r}
      BY <1>5, <1>6, <2>1, <2>6
    <3>2. queue[q] = <<>> /\ Cardinality(Holders(q)) < Limit(q)
      BY <1>7, <2>1, <2>3, <2>6 DEF BooksOf
    <3>3. Holders(q)' = Holders(q) \cup {r} /\ r \notin Holders(q)
      BY <1>a, <1>b, <1>1, <3>1 DEF Holders, ModeOfRun
    <3>4. Waiting' = Waiting
      <4>1. \A p \in QueueType : Waiting'[p] = Waiting[p]
        BY <1>3, <1>12, <2>2, <3>1, Seen, SeenNext
      <4> QED BY <4>1, Seen, SeenNext
    <3>5. Admitted' = [Admitted EXCEPT ![q] = @ \cup {r}]
      BY <1>3, <1>8, <1>12, <2>1, <2>2, <3>3, Seen, SeenNext
    <3>6. Service!Arrive(r, q)
      BY <2>1, <2>2, <2>4, <3>2, <3>4, <3>5, SameCount DEF Service!Arrive
    <3>7. Service!Moves(q)
      BY <2>1, <2>2, <3>3, <3>5, Seen DEF Service!Moves
    <3>8. Overrun(q)'
      <4>1. Cardinality(Holders(q)') = Cardinality(Holders(q)) + 1
        BY <1>a, <1>b, <1>1, <1>4, <3>1, HoldersAdd
      <4>2. Cardinality(StoppedWaiting(q)') \in Nat /\ Limit(q)' = Limit(q)
        BY <1>9, StoppedStay DEF Limit
      <4> QED BY <2>3, <3>2, <4>1, <4>2 DEF Overrun
    <3> QED BY <1>10, <2>1, <3>6, <3>7, <3>8 DEF ServiceStep, Service!Next
  <2> QED BY <2>5, <2>6
<1> QED BY <1>11, <1>12

\* release by a call that holds a reservation is its leave, unless its mode is
\* not limited.
LEMMA ServiceRelease ==
  ASSUME BaseInv, ReservedInv, ControlInv, ~down, ~down', NEW c \in reserved,
         NEW mode \in Mode, mode = ModeOfRun(c), Release(mode), exec' = exec,
         reserved' = (reserved \ {c}) \cup ReleasedBy(mode),
         \A x \in Run : pc[x] = "hung" => pc'[x] = "hung",
         \A p \in queues : Overrun(p)
  PROVE  ServiceStep /\ \A p \in queues' : Overrun(p)'
<1>b. PICK q : q = GetQueue(mode)
  OBVIOUS
<1>1. ~BuildsEvalQueue(mode) /\ queues' = queues
  <2>1. mode = "evaluation" => c \in Holders("evaluation")
    BY GetQueueType DEF Holders
  <2>2. mode = "evaluation" => evalQueueResolved
    BY <2>1 DEF ControlInv, EvalInv
  <2> QED BY <2>2 DEF Release, EnsureEvalQueueResolved, BuildsEvalQueue, ResolvesEvalQueue
<1>2. IsThrottled(mode) <=> q \in queues
  BY <1>b, <1>1 DEF IsThrottled, ControlInv, EnabledInv
<1>3. IF q \in queues THEN queue' = [queue EXCEPT ![q] = RestOf(@)] ELSE queue' = queue
  BY <1>b, <1>2 DEF Release
<1>4. ReleasedBy(mode) = IF q \in queues THEN NextOf(queue[q]) ELSE {}
  BY <1>b, <1>2 DEF ReleasedBy
<1>5. \A x \in ReleasedBy(mode) : x \in Run \ reserved /\ GetQueue(ModeOfRun(x)) = q
  BY <1>b, ReleasedCalls DEF ReservedInv, BeforeGrant
<1>6. /\ \A p : p # q => Holders(p)' = Holders(p)
      /\ Holders(q)' = (Holders(q) \ {c}) \cup ReleasedBy(mode)
      /\ c \in Holders(q)
  BY <1>b, <1>5 DEF Holders, ModeOfRun
<1>7. /\ TypeOK /\ queues \subseteq QueueType /\ queue \in [QueueType -> Seq(Run)]
      /\ \A p : Cardinality(Holders(p)) \in Nat
  BY HoldersFinite DEF BaseInv, TypeOK
<1>8. ASSUME NEW p \in queues, p # q PROVE Overrun(p)'
  BY <1>6, <1>7, <1>8, OverrunKept
<1>9. CASE q \notin queues
  <2>1. UNCHANGED <<Waiting, Admitted>>
    BY <1>1, <1>3, <1>6, <1>9, Seen, SeenNext
  <2> QED BY <1>1, <1>8, <1>9, <2>1 DEF ServiceStep
<1>10. CASE q \in queues
  <2>1. q \in QueueType /\ queue[q] \in Seq(Run) /\ ReleasedBy(mode) = NextOf(queue[q])
    BY <1>4, <1>7, <1>10
  <2>2. Waiting[q] = queue[q] /\ Admitted[q] = Holders(q)
    BY <1>10, <2>1, Seen
  <2>3. /\ Service!First(queue[q]) = NextOf(queue[q])
        /\ Service!Others(queue[q]) = RestOf(queue[q])
    BY DEF Service!First, Service!Others, NextOf, RestOf
  <2>a. /\ queue'[q] = RestOf(queue[q])
        /\ \A p \in QueueType : p # q => queue'[p] = queue[p] /\ Holders(p)' = Holders(p)
    BY <1>3, <1>6, <1>7, <1>10, <2>1
  <2>b. /\ Waiting' = [Waiting EXCEPT ![q] = queue'[q]]
        /\ Admitted' = [Admitted EXCEPT ![q] = Holders(q)']
    BY <1>1, <1>10, <2>1, <2>a, SeenEdit
  <2>4. Waiting' = [Waiting EXCEPT ![q] = Service!Others(@)]
    BY <2>2, <2>3, <2>a, <2>b
  <2>5. Admitted' = [Admitted EXCEPT ![q] = (@ \ {c}) \cup Service!First(Waiting[q])]
    BY <1>6, <2>1, <2>2, <2>3, <2>b
  <2>6. Service!Leave(c, q)
    BY <1>6, <2>2, <2>4, <2>5 DEF Service!Leave
  <2>7. Service!Moves(q) /\ Overrun(q)'
    <3>1. CASE queue[q] = <<>>
      <4>1. ReleasedBy(mode) = {}
        BY <2>1, <3>1, ResolveNext
      <4>2. Admitted'[q] = Holders(q) \ {c} /\ reserved' = reserved \ {c}
        BY <2>1, <2>2, <2>3, <2>5, <4>1, Seen
      <4>3. Cardinality(Holders(q)') = Cardinality(Holders(q)) - 1
        BY <1>b, <1>7, <4>2, HoldersRemove
      <4>4. Cardinality(Holders(q)') \in Nat /\ Cardinality(Holders(q)') <= Cardinality(Holders(q))
        <5>1. IsFiniteSet(Holders(q)')
          BY <1>6, <4>1, <1>7, HoldersFinite, FS_Subset
        <5> QED BY <1>7, <4>3, <5>1, FS_CardinalityType
      <4> QED BY <1>6, <1>10, <2>1, <2>2, <4>2, <4>4, OverrunKept DEF Service!Moves
    <3>2. CASE queue[q] # <<>>
      <4>1. PICK x : x = queue[q][1]
        OBVIOUS
      <4>2. ReleasedBy(mode) = {x} /\ Len(RestOf(queue[q])) = Len(queue[q]) - 1
        BY <2>1, <3>2, <4>1, ResolveNext
      <4>3. x \in Run \ reserved /\ GetQueue(ModeOfRun(x)) = q
            /\ reserved' = (reserved \ {c}) \cup {x}
        BY <1>5, <4>2
      <4>4. Cardinality(Holders(q)') = Cardinality(Holders(q))
        BY <1>b, <1>7, <4>3, HoldersSwap
      <4>5. Waiting'[q] = RestOf(queue[q])
        BY <2>1, <2>2, <2>3, <2>4, Seen
      <4>6. Waiting'[q] # Waiting[q]
        BY <2>1, <2>2, <4>2, <4>5
      <4> QED BY <1>7, <1>10, <2>1, <4>4, <4>6, OverrunKept DEF Service!Moves
    <3> QED BY <3>1, <3>2
  <2>8. ServiceStep
    BY <1>7, <2>1, <2>6, <2>7 DEF ServiceStep, Service!Next, TypeOK
  <2> QED BY <1>1, <1>8, <2>7, <2>8
<1> QED BY <1>9, <1>10

\* remove of a waiting call is its withdrawal.
LEMMA ServiceRemove ==
  ASSUME BaseInv, ReservedInv, ControlInv, ~down, ~down', NEW q \in queues,
         NEW k \in 1 .. Len(queue[q]), Remove(q, k), exec' = exec,
         reserved' = reserved \cup RemoveLetsGo(q, k),
         pc' = [x \in Run |-> IF x \in RemoveLetsGo(q, k) THEN "reserved"
                              ELSE IF x = queue[q][k] THEN "hung" ELSE pc[x]],
         \A p \in queues : Overrun(p)
  PROVE  ServiceStep /\ \A p \in queues' : Overrun(p)'
<1> DEFINE s == queue[q]
           w == Without(s, k)
<1>1. /\ TypeOK /\ queues \subseteq QueueType /\ queue \in [QueueType -> Seq(Run)]
      /\ q \in QueueType /\ s \in Seq(Run) /\ Len(s) \in Nat
  BY DEF BaseInv, TypeOK
<1>2. /\ queues' = queues /\ queue' = [queue EXCEPT ![q] = RestOf(Without(@, k))]
      /\ RemoveLetsGo(q, k) = NextOf(w)
  BY DEF Remove, RemoveLetsGo
<1>3. \A x \in RemoveLetsGo(q, k) :
        /\ x \in Run \ reserved /\ pc[x] = "queued" /\ GetQueue(ModeOfRun(x)) = q
        /\ x # queue[q][k]
  BY <1>1, RemoveStep DEF ReservedInv, BeforeGrant
<1>4. queue[q][k] \in Run /\ pc[queue[q][k]] = "queued" /\ GetQueue(ModeOfRun(queue[q][k])) = q
  BY <1>1, QueueMembers
<1>5. /\ \A p : p # q => Holders(p)' = Holders(p)
      /\ Holders(q)' = Holders(q) \cup RemoveLetsGo(q, k)
  BY <1>3 DEF Holders, ModeOfRun
<1>6. \A x \in Run : pc[x] = "hung" => pc'[x] = "hung" /\ exec'[x] = exec[x]
  BY <1>3, <1>4
<1>7. \A p : Cardinality(Holders(p)) \in Nat
  BY <1>1, HoldersFinite
<1>8. ASSUME NEW p \in queues, p # q PROVE Overrun(p)'
  BY <1>1, <1>5, <1>6, <1>7, <1>8, OverrunKept
<1>9. w \in Seq(Run) /\ Len(w) = Len(s) - 1
  BY <1>1, WithoutType
<1>10. Waiting[q] = s /\ Admitted[q] = Holders(q)
  BY <1>1, Seen
<1>11. Service!First(w) = NextOf(w) /\ Service!Others(w) = RestOf(w)
  BY DEF Service!First, Service!Others, NextOf, RestOf
<1>12. w = [i \in 1 .. Len(s) - 1 |-> IF i < k THEN s[i] ELSE s[i + 1]]
  BY DEF Without
<1>13. queue' = [queue EXCEPT ![q] = RestOf(w)]
  BY <1>2
<1> HIDE DEF w
<1>a. /\ queue'[q] = RestOf(w)
      /\ \A p \in QueueType : p # q => queue'[p] = queue[p] /\ Holders(p)' = Holders(p)
  BY <1>1, <1>5, <1>13
<1>b. /\ Waiting' = [Waiting EXCEPT ![q] = queue'[q]]
      /\ Admitted' = [Admitted EXCEPT ![q] = Holders(q)']
  BY <1>1, <1>2, <1>a, SeenEdit
<1>14. Waiting' = [Waiting EXCEPT ![q] = Service!Others(w)]
  BY <1>11, <1>a, <1>b
<1>15. Admitted' = [Admitted EXCEPT ![q] = @ \cup Service!First(w)]
  BY <1>2, <1>5, <1>10, <1>11, <1>b
<1>16. Service!Withdraw(q, k)
  BY <1>1, <1>10, <1>12, <1>14, <1>15 DEF Service!Withdraw
<1>17. Service!Moves(q)
  <2>1. Waiting'[q] = RestOf(w)
    BY <1>1, <1>11, <1>14, Seen
  <2>2. RestOf(w) # s
    BY <1>1, <1>9, ResolveNext
  <2> QED BY <1>10, <2>1, <2>2 DEF Service!Moves
<1>18. ServiceStep
  BY <1>1, <1>10, <1>16, <1>17 DEF ServiceStep, Service!Next
<1>19. Overrun(q)'
  <2>1. Cardinality(Holders(q)') \in Nat
        /\ Cardinality(Holders(q)') <= Cardinality(Holders(q)) + 1
    <3>1. CASE w = <<>>
      <4>1. Holders(q)' = Holders(q)
        BY <1>2, <1>5, <1>9, <3>1, ResolveNext
      <4> QED BY <1>7, <4>1
    <3>2. CASE w # <<>>
      <4>1. PICK x : x = w[1]
        OBVIOUS
      <4>2. RemoveLetsGo(q, k) = {x}
        BY <1>2, <1>9, <3>2, <4>1, ResolveNext
      <4>3. x \in Run \ reserved /\ GetQueue(ModeOfRun(x)) = q /\ reserved' = reserved \cup {x}
        BY <1>3, <4>2
      <4>4. Cardinality(Holders(q)') = Cardinality(Holders(q)) + 1
        BY <1>1, <4>3, HoldersAdd
      <4> QED BY <1>7, <4>4
    <3> QED BY <3>1, <3>2
  <2>2. /\ StoppedWaiting(q)' = StoppedWaiting(q) \cup {queue[q][k]}
        /\ queue[q][k] \notin StoppedWaiting(q)
    BY <1>3, <1>4 DEF StoppedWaiting, ModeOfRun
  <2>3. IsFiniteSet(StoppedWaiting(q)) /\ Cardinality(StoppedWaiting(q)) \in Nat
    BY FS_Subset, FS_CardinalityType, ExecAssumption DEF StoppedWaiting
  <2>4. Cardinality(StoppedWaiting(q)') = Cardinality(StoppedWaiting(q)) + 1
    BY <2>2, <2>3, FS_AddElement
  <2>5. Limit(q)' = Limit(q) /\ Limit(q) \in Int /\ Overrun(q)
    BY <1>1, LimitType DEF Limit
  <2> QED BY <1>7, <2>1, <2>3, <2>4, <2>5 DEF Overrun
<1> QED BY <1>2, <1>8, <1>18, <1>19

\* The steps of a call that leave the throttle alone.
LEMMA ServiceQuiet ==
  ASSUME BaseInv, ~down, ~down', NEW r \in Run, Quiet(r), \A p \in queues : Overrun(p)
  PROVE  ServiceStep /\ \A p \in queues' : Overrun(p)'
<1>1. /\ UNCHANGED <<queues, queue, reserved, exec>>
      /\ \A x \in Run : pc[x] = "hung" => pc'[x] = "hung"
  <2> USE DEF BaseInv, TypeOK, runVars, controlVars
  <2>1. CASE \E o \in DbStatus : FinishWorkflow(r, o)
    BY <2>1 DEF FinishWorkflow
  <2>2. CASE SetRunning(r) \/ ResumeRow(r) \/ Register(r) \/ FailExecution(r)
             \/ AttachResponseFails(r) \/ StartMainProcess(r) \/ StartMainProcessFails(r)
    BY <2>2 DEF SetRunning, ResumeRow, Register, FailExecution, AttachResponseFails,
                StartMainProcess, StartMainProcessFails
  <2>3. CASE Launch(r) \/ LaunchDetached(r) \/ SaveError(r) \/ PutToWait(r)
             \/ SaveProgress(r) \/ SaveCanceled(r)
    BY <2>3 DEF Launch, LaunchDetached, SaveError, PutToWait, SaveProgress, SaveCanceled
  <2> QED BY <2>1, <2>2, <2>3 DEF Quiet
<1> QED BY <1>1, ServiceIdle

LEMMA ServiceBegin ==
  ASSUME BaseInv, ReservedInv, ~down, ~down', NEW r \in Run, NEW e \in Exec,
         CreateExecution(r, e) \/ ResumeExecution(r, e) \/ RunEnqueuedExecution(r, e),
         \A p \in queues : Overrun(p)
  PROVE  ServiceStep /\ \A p \in queues' : Overrun(p)'
<1>1. PICK k, at : Begin(r, e, k, at)
  BY DEF CreateExecution, ResumeExecution, RunEnqueuedExecution
<1>2. /\ pc[r] = "idle" /\ UNCHANGED <<queues, queue, reserved>>
      /\ \A x \in Run \ {r} : pc'[x] = pc[x] /\ exec'[x] = exec[x]
  BY <1>1 DEF Begin, BaseInv, TypeOK, controlVars
<1>3. r \notin reserved /\ reserved \subseteq Run
  BY <1>2 DEF ReservedInv, BeforeGrant, BaseInv, TypeOK
<1> QED BY <1>2, <1>3, ServiceIdle

\* An entry settles, or has settled before: the call registered for e leaves.
LEMMA ServiceFinalize ==
  ASSUME BaseInv, ReservedInv, ActiveInv, ControlInv, ~down, ~down', NEW e \in Exec, NEW after,
         FinalizeExecution(e, after), exec' = exec,
         \A x \in Run : pc[x] = "hung" => after[x] = "hung",
         \A p \in queues : Overrun(p)
  PROVE  ServiceStep /\ \A p \in queues' : Overrun(p)'
<1>0. ModeOf[e] \in Mode
  BY ExecAssumption
<1>1. CASE SettleEntry(e, after)
  <2>1. /\ Release(ModeOf[e]) /\ active[e] # NoRun /\ active[e] \in reserved
        /\ reserved' = (reserved \ {active[e]}) \cup ReleasedBy(ModeOf[e])
        /\ pc' = [x \in Run |-> IF x \in ReleasedBy(ModeOf[e]) THEN "reserved" ELSE after[x]]
    BY <1>1 DEF SettleEntry, Pending
  <2>2. ModeOf[e] = ModeOfRun(active[e])
    BY <2>1 DEF ActiveInv, ModeOfRun
  <2>3. \A x \in Run : pc[x] = "hung" => pc'[x] = "hung"
    BY <1>0, <2>1, ReleasedCalls
  <2> QED BY <1>0, <2>1, <2>2, <2>3, ServiceRelease
<1>2. CASE pc' = after /\ UNCHANGED <<controlVars, reserved, active>>
  BY <1>2, ServiceIdle DEF controlVars, BaseInv, TypeOK
<1> QED BY <1>1, <1>2 DEF FinalizeExecution

LEMMA ServiceStopEntry ==
  ASSUME BaseInv, ReservedInv, ActiveInv, ControlInv, ~down, ~down', NEW e \in Exec,
         StopEntry(e), exec' = exec, \A p \in queues : Overrun(p)
  PROVE  ServiceStep /\ \A p \in queues' : Overrun(p)'
<1>1. CASE UNCHANGED <<controlVars, pc, reserved>>
  BY <1>1, ServiceIdle DEF controlVars
<1>2. CASE FinalizeExecution(e, pc)
  BY <1>2, ServiceFinalize
<1> QED BY <1>1, <1>2 DEF StopEntry

LEMMA ServiceLeave ==
  ASSUME BaseInv, ReservedInv, ActiveInv, ControlInv, ~down, ~down', NEW r \in Run,
         RefuseResume(r) \/ AddFails(r) \/ LaunchFails(r) \/ FinalizeRun(r) \/ TimeoutRun(r),
         \A p \in queues : Overrun(p)
  PROVE  ServiceStep /\ \A p \in queues' : Overrun(p)'
<1>1. CASE RefuseResume(r) \/ AddFails(r)
  <2>1. PICK at \in {"refused", "failed"} :
          pc[r] = "reserved" /\ ReleaseReservation(r, at) /\ exec' = exec
    BY <1>1 DEF RefuseResume, AddFails
  <2>2. PICK mode : mode = ModeOfRun(r)
    OBVIOUS
  <2>3. mode \in Mode /\ r \in reserved
    BY <2>1, <2>2, ExecAssumption DEF BaseInv, TypeOK, ModeOfRun, ReservedInv
  <2>4. /\ Release(mode)
        /\ reserved' = (reserved \ {r}) \cup ReleasedBy(mode)
        /\ pc' = [x \in Run |-> IF x \in ReleasedBy(mode) THEN "reserved"
                                ELSE IF x = r THEN at ELSE pc[x]]
    BY <2>1, <2>2 DEF ReleaseReservation
  <2>5. \A x \in Run : pc[x] = "hung" => pc'[x] = "hung"
    BY <2>1, <2>3, <2>4, ReleasedCalls
  <2> QED BY <2>1, <2>2, <2>3, <2>4, <2>5, ServiceRelease
<1>2. CASE LaunchFails(r) \/ FinalizeRun(r)
  <2>1. PICK at \in {"erring", "done"} :
          /\ pc[r] \in {"starting", "saved"} /\ exec' = exec
          /\ FinalizeExecution(exec[r], [pc EXCEPT ![r] = at])
    BY <1>2 DEF LaunchFails, FinalizeRun
  <2>2. PICK e \in Exec : e = exec[r]
    BY <2>1 DEF BaseInv, TypeOK
  <2>3. PICK after : after = [pc EXCEPT ![r] = at]
    OBVIOUS
  <2>4. \A x \in Run : pc[x] = "hung" => after[x] = "hung"
    BY <2>1, <2>3 DEF BaseInv, TypeOK
  <2>5. FinalizeExecution(e, after) /\ exec' = exec
    BY <2>1, <2>2, <2>3
  <2> QED BY <2>4, <2>5, ServiceFinalize
<1>3. CASE TimeoutRun(r)
  <2>1. PICK e \in Exec : e = exec[r] /\ StopEntry(e) /\ exec' = exec
    BY <1>3 DEF TimeoutRun, BaseInv, TypeOK
  <2> QED BY <2>1, ServiceStopEntry
<1> QED BY <1>1, <1>2, <1>3

LEMMA ServiceStop ==
  ASSUME BaseInv, ReservedInv, ActiveInv, ControlInv, ~down, ~down', NEW e \in Exec,
         StopStep(e), \A p \in queues : Overrun(p)
  PROVE  ServiceStep /\ \A p \in queues' : Overrun(p)'
<1>1. CASE StopRead(e) \/ StopWrite(e)
  BY <1>1, ServiceIdle DEF StopRead, StopWrite, runVars, controlVars
<1>2. CASE StopQueued(e)
  <2>1. PICK q \in queues : \E k \in 1 .. Len(queue[q]) :
          /\ Remove(q, k)
          /\ reserved' = reserved \cup RemoveLetsGo(q, k)
          /\ pc' = [x \in Run |-> IF x \in RemoveLetsGo(q, k) THEN "reserved"
                                  ELSE IF x = queue[q][k] THEN "hung" ELSE pc[x]]
    BY <1>2 DEF StopQueued
  <2>2. exec' = exec
    BY <1>2 DEF StopQueued
  <2> QED BY <2>1, <2>2, ServiceRemove
<1>3. CASE StopActive(e)
  BY <1>3, ServiceStopEntry DEF StopActive
<1> QED BY <1>1, <1>2, <1>3 DEF StopStep

\* Shutdown and restart: whoever was in line is not any more.
LEMMA ServiceReset ==
  ASSUME TypeOK', down' \/ (reserved' = {} /\ \A q \in QueueType : queue'[q] = <<>>)
  PROVE  Service!Next
<1>1. Waiting' = [q \in QueueType |-> <<>>] /\ Admitted' = [q \in QueueType |-> {}]
  BY DEF Waiting, Admitted, InForce, Holders
<1>2. (~down)' \in BOOLEAN
  OBVIOUS
<1> QED BY <1>1, <1>2 DEF Service!Next, Service!Reset, Service!NobodyWaits, Service!NobodyRuns

\* A booted throttle: nobody is in, and every queue that exists has room.
LEMMA OverrunBoot == Booted => \A q \in queues : Overrun(q)
<1> SUFFICES ASSUME Booted, NEW q \in queues PROVE Overrun(q)
  OBVIOUS
<1>1. q \in BootQueues /\ q \in QueueType
  BY DEF Booted, ControlBoot, BootQueues
<1>2. Limit(q) \in Int /\ Limit(q) > 0
  BY <1>1, LimitType
<1>3. Cardinality(Holders(q)) = 0 /\ Cardinality(StoppedWaiting(q)) = 0
  <2>1. Holders(q) = {} /\ StoppedWaiting(q) = {}
    BY DEF Booted, Holders, StoppedWaiting
  <2> QED BY <2>1, FS_EmptySet
<1> QED BY <1>2, <1>3 DEF Overrun

\* Every step keeps the overrun within bounds, and is one the service promises.
LEMMA ThrottleStep ==
  ASSUME BaseInv, BaseInv', CapacityInv, OverrunBounded, [Next]_vars
  PROVE  OverrunBounded' /\ [Service!Next]_<<~down, Waiting, Admitted>>
<1>0. OverrunBounded <=> (~down => \A q \in queues : Overrun(q))
  BY DEF OverrunBounded, Overrun
<1>0p. OverrunBounded' <=> (~down' => \A q \in queues' : Overrun(q)')
  BY DEF OverrunBounded, Overrun
<1>1. CASE Restart
  <2>1. ControlBoot(isEnabled', queues', evalQueueResolved', capacity', queue')
        /\ reserved' = {} /\ (\A e \in Exec : active'[e] = NoRun)
        /\ \A r \in Run : pc'[r] \in {"idle", "dead"}
    BY <1>1 DEF Restart
  <2>2. Booted'
    BY <2>1 DEF Booted, ControlBoot, Limit
  <2>3. (\A q \in queues : Overrun(q))'
    BY <2>2, OverrunBoot, PTL
  <2>4. \A q \in QueueType : queue'[q] = <<>>
    BY <2>1 DEF ControlBoot
  <2>5. Service!Next
    BY <2>1, <2>4, ServiceReset DEF BaseInv
  <2> QED BY <1>0p, <2>3, <2>5
<1>2. CASE down'
  <2>1. Service!Next
    BY <1>2, ServiceReset DEF BaseInv
  <2> QED BY <1>0p, <1>2, <2>1
<1>3. CASE ~Restart /\ Next /\ ~down'
  <2>1. ~BeginShutdown
    BY <1>3 DEF BeginShutdown
  <2>2. ~down
    BY <1>3, <2>1, DownKept
  <2>3. ReservedInv /\ ActiveInv /\ ControlInv /\ \A q \in queues : Overrun(q)
    BY <1>0, <2>2 DEF CapacityInv
  <2>4. ServiceStep /\ \A q \in queues' : Overrun(q)'
    BY <1>3, <2>1, <2>2, <2>3, NextCases, ServiceReserve, ServiceQuiet, ServiceBegin,
       ServiceLeave, ServiceStop
  <2> QED BY <1>0p, <1>3, <2>2, <2>4 DEF ServiceStep
<1>4. CASE UNCHANGED vars /\ ~down'
  <2>1. UNCHANGED <<queues, queue, reserved, exec, pc, down>>
    BY <1>4 DEF vars, runVars, controlVars, hostVars
  <2>2. ServiceStep /\ \A q \in queues' : Overrun(q)'
    BY <1>0, <1>4, <2>1, ServiceIdle
  <2> QED BY <1>0p, <2>1, <2>2 DEF ServiceStep
<1> QED BY <1>1, <1>2, <1>3, <1>4

LEMMA ThrottleInit == Init => OverrunBounded /\ Service!Init
<1> SUFFICES ASSUME Init PROVE OverrunBounded /\ Service!Init
  OBVIOUS
<1>1. Booted
  BY DEF Init, Booted
<1>2. OverrunBounded
  BY <1>1, OverrunBoot DEF OverrunBounded, Overrun
<1>3. Service!Init
  <2>1. ~down /\ reserved = {} /\ queue = [q \in QueueType |-> <<>>]
    BY DEF Init, ControlBoot
  <2>2. Waiting = [q \in QueueType |-> <<>>] /\ Admitted = [q \in QueueType |-> {}]
    BY <2>1, Seen DEF Holders
  <2> QED BY <2>1, <2>2 DEF Service!Init, Service!NobodyWaits, Service!NobodyRuns
<1> QED BY <1>2, <1>3

\* The concurrency limit is exceeded by no more calls than were stopped while
\* they waited, for all limits, modes and numbers of calls, whatever resumes,
\* failures, timeouts, late results and crashes come in between.
THEOREM LimitOverrunBounded == Spec => []OverrunBounded
<1>1. BaseInv /\ BaseInv' /\ CapacityInv /\ OverrunBounded /\ [Next]_vars => OverrunBounded'
  BY ThrottleStep
<1> QED BY <1>1, ThrottleInit, BaseInvariant, CapacityInvariant, PTL DEF Spec

\* The detailed specification implements the throttle: whichever handler settles
\* an entry, refuses a resume, gives up or stops a call, the calls see somebody
\* arrive, leave and hand over to the first in line, or withdraw.
THEOREM ThrottleKeepsPromise == Spec => ImplementsThrottleService
<1>1. BaseInv /\ BaseInv' /\ CapacityInv /\ OverrunBounded /\ [Next]_vars
        => [Service!Next]_<<~down, Waiting, Admitted>>
  BY ThrottleStep
<1> QED BY <1>1, ThrottleInit, LimitOverrunBounded, BaseInvariant, CapacityInvariant, PTL
        DEF Spec, ImplementsThrottleService, Service!Spec
=============================================================================

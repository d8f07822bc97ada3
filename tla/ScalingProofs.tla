---------------------------- MODULE ScalingProofs ----------------------------
(***************************************************************************)
(* Proofs about queue mode, for any number of mains, workers, executions   *)
(* and jobs: an execution is run by one worker at a time, and recovery     *)
(* spares what is in the queue.                                            *)
(***************************************************************************)
EXTENDS ScalingQueue, TLAPS

-----------------------------------------------------------------------------
(* Types.                                                                  *)

CallRecord == [exec : Exec \cup {0}, main : Main \cup {NoMain}, step : CallStep,
               stop : StopStep, status : Status]
EntryRecord == [call : Call \cup {0}, run : Call \cup {0}]
NewsRecord == [to : SUBSET Main, status : Status]
ProcRecord == [worker : Worker \cup {NoWorker}, step : ProcStep, status : Status]
CycleRecord == [step : {"off", "timer", "stored", "marking"},
                ids : SUBSET Exec, queued : SUBSET Call]
JobRecord == [state : JobState, why : Why]

\* The types of what the actions of mains, of workers and of recovery change.
MainTypeOK ==
  /\ call \in [Call -> CallRecord]
  /\ entry \in [Main -> [Exec -> EntryRecord]]
  /\ stopping \in [Main -> SUBSET Exec]
  /\ results \in [Main -> [Exec -> Status]]
  /\ news \in [Call -> NewsRecord]

WorkerTypeOK ==
  /\ proc \in [Call -> ProcRecord]
  /\ abort \subseteq Call /\ runningJobs \subseteq Call /\ cancelSave \subseteq Call
  /\ worker \in [Worker -> {"up", "stopping", "down"}]

RecoveryTypeOK ==
  /\ leader \in Main \cup {NoMain}
  /\ recovery \in [Main -> [Cycle -> CycleRecord]]
  /\ handle \in [Main -> Cycle \cup {0}]

CommonTypeOK ==
  /\ row \in [Exec -> Status]
  /\ job \in [Call -> JobRecord]
  /\ up \subseteq Main
  /\ events \in 0 .. MaxEvents

TypesOK == CommonTypeOK /\ MainTypeOK /\ WorkerTypeOK /\ RecoveryTypeOK

LEMMA TypesAreTypeOK == TypesOK /\ started \in Seq(Exec) <=> TypeOK
BY DEF TypesOK, CommonTypeOK, MainTypeOK, WorkerTypeOK, RecoveryTypeOK, TypeOK, BullTypeOK,
       CallRecord, EntryRecord, NewsRecord, ProcRecord, CycleRecord, JobRecord

LEMMA NothingTyped ==
  /\ NoProc \in ProcRecord /\ NoCycle \in CycleRecord /\ NoEntry \in EntryRecord
  /\ NoNews \in NewsRecord
  /\ [NoCycle EXCEPT !.step = "timer"] \in CycleRecord
BY DEF NoProc, NoCycle, NoEntry, NoNews, ProcRecord, CycleRecord, EntryRecord, NewsRecord,
       ProcStep, Status

LEMMA TypesInit == Init => TypesOK
<1> SUFFICES ASSUME Init PROVE TypesOK
  OBVIOUS
<1>1. CommonTypeOK
  BY ScalingAssumption DEF Init, CommonTypeOK, JobInit, JobRecord, JobState, Why, Status
<1>2. MainTypeOK
  BY NothingTyped DEF Init, MainTypeOK, CallRecord, CallStep, StopStep, Status
<1>3. WorkerTypeOK
  BY NothingTyped DEF Init, WorkerTypeOK
<1>4. RecoveryTypeOK
  BY NothingTyped DEF Init, RecoveryTypeOK
<1> QED BY <1>1, <1>2, <1>3, <1>4 DEF TypesOK

LEMMA WriteTyped ==
  ASSUME CommonTypeOK, NEW es, NEW status \in Status, Write(es, status)
  PROVE  row' \in [Exec -> Status]
BY DEF CommonTypeOK, Write

LEMMA EventTyped ==
  ASSUME CommonTypeOK, Event
  PROVE  events' \in 0 .. MaxEvents
BY ScalingAssumption DEF CommonTypeOK, Event

LEMMA JobTyped ==
  ASSUME CommonTypeOK, NEW c \in Call, NEW from, NEW to \in JobState, NEW why \in Why,
         JobBecomes(c, from, to, why)
  PROVE  job' \in [Call -> JobRecord]
BY DEF CommonTypeOK, JobBecomes, JobRecord

LEMMA StepTyped ==
  ASSUME MainTypeOK, NEW c \in Call, NEW from, NEW to \in CallStep, Step(c, from, to)
  PROVE  call' \in [Call -> CallRecord]
BY ZenonT(30) DEF MainTypeOK, CallRecord, Step

LEMMA FinalizeTyped ==
  ASSUME MainTypeOK, NEW c \in Call, Finalize(c)
  PROVE  entry' \in [Main -> [Exec -> EntryRecord]]
BY NothingTyped DEF MainTypeOK, Finalize

LEMMA CallStepTyped ==
  ASSUME MainTypeOK, NEW c \in Call, NEW x \in CallStep
  PROVE  [call EXCEPT ![c].step = x] \in [Call -> CallRecord]
BY DEF MainTypeOK, CallRecord

LEMMA CallStopTyped ==
  ASSUME MainTypeOK, NEW c \in Call, NEW x \in StopStep
  PROVE  [call EXCEPT ![c].stop = x] \in [Call -> CallRecord]
BY DEF MainTypeOK, CallRecord

LEMMA CallStatusTyped ==
  ASSUME MainTypeOK, NEW c \in Call, NEW x \in CallStep, NEW z \in Status
  PROVE  [call EXCEPT ![c].step = x, ![c].status = z] \in [Call -> CallRecord]
<1> DEFINE f == [call EXCEPT ![c].step = x]
<1>1. f \in [Call -> CallRecord]
  BY CallStepTyped
<1>2. \A g \in [Call -> CallRecord] : [g EXCEPT ![c].status = z] \in [Call -> CallRecord]
  BY DEF CallRecord
<1> QED BY <1>1, <1>2

LEMMA ProcessErrorTyped ==
  ASSUME MainTypeOK, NEW c \in Call, NEW step \in CallStep, ProcessError(c, step)
  PROVE  call' \in [Call -> CallRecord] /\ entry' \in [Main -> [Exec -> EntryRecord]]
<1>1. "over" \in CallStep
  BY DEF CallStep
<1>2. CASE row[call[c].exec] = "success"
  BY <1>1, <1>2, CallStepTyped DEF MainTypeOK, ProcessError
<1>3. CASE row[call[c].exec] # "success"
  BY <1>1, <1>3, CallStepTyped, FinalizeTyped, ZenonT(30) DEF ProcessError
<1> QED BY <1>2, <1>3

LEMMA PopTyped ==
  ASSUME MainTypeOK, NEW c \in Call, PopJobResult(c) \/ UNCHANGED results
  PROVE  results' \in [Main -> [Exec -> Status]]
<1>1. CASE PopJobResult(c)
  BY <1>1 DEF PopJobResult, MainTypeOK, Status
<1>2. CASE UNCHANGED results
  BY <1>2 DEF MainTypeOK
<1> QED BY <1>1, <1>2

LEMMA WithoutTyped ==
  ASSUME NEW x \in NewsRecord, NEW m
  PROVE  Without(x, m) \in NewsRecord
BY NothingTyped DEF Without, NewsRecord

LEMMA ProcStepTyped ==
  ASSUME WorkerTypeOK, NEW c \in Call, NEW from, NEW to \in ProcStep, ProcStepTo(c, from, to)
  PROVE  proc' \in [Call -> ProcRecord]
BY DEF WorkerTypeOK, ProcStepTo, ProcRecord

LEMMA ScheduleTyped ==
  ASSUME RecoveryTypeOK, NEW m \in Main, NEW k \in Cycle, Schedule(m, k)
  PROVE  recovery' \in [Main -> [Cycle -> CycleRecord]] /\ handle' \in [Main -> Cycle \cup {0}]
BY NothingTyped DEF RecoveryTypeOK, Schedule, Cycle

LEMMA RunTyped ==
  ASSUME TypesOK, NEW m \in Main, NEW c \in Call, NEW e \in Exec,
         Run(m, c, e) \/ Resume(m, c, e)
  PROVE  TypesOK'
<1> USE DEF TypesOK
<1>1. row' \in [Exec -> Status]
  BY DEF Run, Resume, CommonTypeOK, Status
<1>2. Added(m, c, e)
  BY DEF Run, Resume
<1>3. call' \in [Call -> CallRecord]
  BY <1>2 DEF Added, MainTypeOK, CallRecord, CallStep, StopStep, Status
<1>4. entry' \in [Main -> [Exec -> EntryRecord]]
  BY <1>2 DEF Added, MainTypeOK, EntryRecord
<1> QED BY <1>1, <1>2, <1>3, <1>4 DEF Added, CommonTypeOK, MainTypeOK, WorkerTypeOK,
           RecoveryTypeOK, workerVars, recoveryVars

LEMMA StopTyped ==
  ASSUME TypesOK, NEW m \in Main, NEW e \in Exec, Stop(m, e) \/ StopDuringRun(m, e)
  PROVE  TypesOK'
<1> USE DEF TypesOK
<1>1. CASE Stop(m, e)
  <2>1. events' \in 0 .. MaxEvents
    BY <1>1, EventTyped DEF Stop
  <2>2. entry' \in [Main -> [Exec -> EntryRecord]]
    BY <1>1, NothingTyped DEF Stop, MainTypeOK
  <2>3. entry[m][e].run \in Call \cup {0}
    BY DEF MainTypeOK, EntryRecord
  <2>4. call' \in [Call -> CallRecord]
    BY <1>1, <2>3, CallStopTyped DEF Stop, MainTypeOK, StopStep
  <2> QED BY <1>1, <2>1, <2>2, <2>4 DEF Stop, CommonTypeOK, MainTypeOK, WorkerTypeOK,
             RecoveryTypeOK, workerVars, recoveryVars
<1>2. CASE StopDuringRun(m, e)
  <2>1. row' \in [Exec -> Status]
    BY <1>2, WriteTyped DEF StopDuringRun, Status
  <2> QED BY <1>2, <2>1 DEF StopDuringRun, CommonTypeOK, MainTypeOK, WorkerTypeOK,
             RecoveryTypeOK, workerVars, recoveryVars
<1> QED BY <1>1, <1>2

LEMMA RunStepsTyped ==
  ASSUME TypesOK, NEW c \in Call, RunSteps(c) \/ FailExecution(c) \/ EnqueueFails(c)
  PROVE  TypesOK'
<1> USE DEF TypesOK
<1>1. CASE AddJob(c)
  <2>1. job' \in [Call -> JobRecord]
    BY <1>1, JobTyped DEF AddJob, Add, JobState, Why
  <2>2. call' \in [Call -> CallRecord]
    BY <1>1, StepTyped DEF AddJob, CallStep
  <2> QED BY <1>1, <2>1, <2>2 DEF AddJob, CommonTypeOK, MainTypeOK, WorkerTypeOK,
             RecoveryTypeOK, workerVars, recoveryVars
<1>2. CASE FailExecutionEnds(c)
  <2>1. call' \in [Call -> CallRecord]
    BY <1>2, StepTyped DEF FailExecutionEnds, CallStep
  <2>2. entry' \in [Main -> [Exec -> EntryRecord]]
    BY <1>2, FinalizeTyped DEF FailExecutionEnds
  <2> QED BY <1>2, <2>1, <2>2 DEF FailExecutionEnds, CommonTypeOK, MainTypeOK, WorkerTypeOK,
             RecoveryTypeOK, workerVars, recoveryVars
<1>3. CASE Attach(c)
  <2>1. call' \in [Call -> CallRecord]
    BY <1>3, StepTyped DEF Attach, CallStep
  <2>2. entry' \in [Main -> [Exec -> EntryRecord]]
    <3>1. \A x \in EntryRecord : [x EXCEPT !.run = c] \in EntryRecord
      BY DEF EntryRecord
    <3>2. CASE entry[call[c].main][call[c].exec].call = 0
      BY <1>3, <3>2 DEF Attach, MainTypeOK
    <3>3. CASE entry[call[c].main][call[c].exec].call # 0
      <4>1. entry' = [entry EXCEPT ![call[c].main][call[c].exec].run = c]
        BY <1>3, <3>3 DEF Attach
      <4>2. CASE call[c].main \in Main /\ call[c].exec \in Exec
        <5> DEFINE m == call[c].main
                   e == call[c].exec
        <5>1. [entry[m][e] EXCEPT !.run = c] \in EntryRecord
          BY <3>1, <4>2 DEF MainTypeOK
        <5>2. [entry[m] EXCEPT ![e] = [entry[m][e] EXCEPT !.run = c]] \in [Exec -> EntryRecord]
          BY <4>2, <5>1 DEF MainTypeOK
        <5> QED BY <4>1, <4>2, <5>2 DEF MainTypeOK
      <4>3. CASE call[c].main \notin Main
        BY <4>1, <4>3 DEF MainTypeOK
      <4>4. CASE call[c].exec \notin Exec
        BY <4>1, <4>4 DEF MainTypeOK
      <4> QED BY <4>2, <4>3, <4>4
    <3> QED BY <3>2, <3>3
  <2> QED BY <1>3, <2>1, <2>2 DEF Attach, CommonTypeOK, MainTypeOK, WorkerTypeOK,
             RecoveryTypeOK, workerVars, recoveryVars
<1>4. CASE WriteError(c)
  <2>1. call' \in [Call -> CallRecord]
    BY <1>4, StepTyped DEF WriteError, CallStep
  <2>2. row' \in [Exec -> Status]
    BY <1>4, WriteTyped DEF WriteError, Status
  <2>3. results' \in [Main -> [Exec -> Status]]
    BY <1>4, PopTyped DEF WriteError
  <2> QED BY <1>4, <2>1, <2>2, <2>3 DEF WriteError, CommonTypeOK, MainTypeOK, WorkerTypeOK,
             RecoveryTypeOK, workerVars, recoveryVars
<1>5. CASE JobFailed(c)
  <2>1. results' \in [Main -> [Exec -> Status]]
    BY <1>5, PopTyped DEF JobFailed
  <2>2. call' \in [Call -> CallRecord] /\ entry' \in [Main -> [Exec -> EntryRecord]]
    <3>1. CASE job[c].why = "cancelled"
      BY <1>5, <3>1, CallStepTyped DEF JobFailed, MainTypeOK, CallStep
    <3>2. CASE job[c].why # "cancelled"
      BY <1>5, <3>2, ProcessErrorTyped DEF JobFailed, CallStep
    <3> QED BY <3>1, <3>2
  <2> QED BY <1>5, <2>1, <2>2 DEF JobFailed, CommonTypeOK, MainTypeOK, WorkerTypeOK,
             RecoveryTypeOK, workerVars, recoveryVars
<1>6. CASE JobCompleted(c)
  <2>1. results' \in [Main -> [Exec -> Status]]
    BY <1>6, PopTyped DEF JobCompleted
  <2>2. \A x, y : FinalStatus(x, y) \in Status
    BY DEF FinalStatus, Status
  <2>3. call' \in [Call -> CallRecord]
    <3>1. \/ call' = [call EXCEPT ![c].step = "over"]
          \/ \E z \in Status : call' = [call EXCEPT ![c].step = "after", ![c].status = z]
      BY <1>6, <2>2 DEF JobCompleted
    <3>2. "over" \in CallStep /\ "after" \in CallStep
      BY DEF CallStep
    <3>3. CASE call' = [call EXCEPT ![c].step = "over"]
      BY <3>2, <3>3, CallStepTyped
    <3>4. CASE \E z \in Status : call' = [call EXCEPT ![c].step = "after", ![c].status = z]
      <4>1. PICK z \in Status : call' = [call EXCEPT ![c].step = "after", ![c].status = z]
        BY <3>4
      <4> QED BY <3>2, <4>1, CallStatusTyped
    <3> QED BY <3>1, <3>3, <3>4
  <2>4. entry' \in [Main -> [Exec -> EntryRecord]]
    BY <1>6, FinalizeTyped DEF JobCompleted, MainTypeOK
  <2> QED BY <1>6, <2>1, <2>3, <2>4 DEF JobCompleted, CommonTypeOK, MainTypeOK, WorkerTypeOK,
             RecoveryTypeOK, workerVars, recoveryVars
<1>7. CASE AfterHook(c)
  <2>1. call' \in [Call -> CallRecord]
    BY <1>7, CallStatusTyped DEF AfterHook, CallStep, Status
  <2>2. row' \in [Exec -> Status]
    BY <1>7, WriteTyped DEF AfterHook, CommonTypeOK, Status
  <2> QED BY <1>7, <2>1, <2>2 DEF AfterHook, CommonTypeOK, MainTypeOK, WorkerTypeOK,
             RecoveryTypeOK, workerVars, recoveryVars
<1>8. CASE StopJob(c)
  <2>1. call' \in [Call -> CallRecord] /\ abort' \subseteq Call
    BY <1>8, CallStopTyped DEF StopJob, WorkerTypeOK, StopStep
  <2> QED BY <1>8, <2>1 DEF StopJob, CommonTypeOK, MainTypeOK, WorkerTypeOK,
             RecoveryTypeOK, recoveryVars
<1>9. CASE StopJobRemoves(c)
  <2>1. call' \in [Call -> CallRecord]
    BY <1>9, CallStopTyped DEF StopJobRemoves, StopStep
  <2>2. job' \in [Call -> JobRecord]
    BY <1>9, JobTyped DEF StopJobRemoves, Remove, CommonTypeOK, JobState, Why
  <2> QED BY <1>9, <2>1, <2>2 DEF StopJobRemoves, CommonTypeOK, MainTypeOK, WorkerTypeOK,
             RecoveryTypeOK, workerVars, recoveryVars
<1>10. CASE \E m \in Main : JobFinishedArrives(m, c)
  <2> PICK m \in Main : JobFinishedArrives(m, c)
    BY <1>10
  <2>1. news[c] \in NewsRecord /\ news[c].status \in Status
    BY DEF MainTypeOK, NewsRecord
  <2>2. news' \in [Call -> NewsRecord]
    BY <2>1, WithoutTyped DEF JobFinishedArrives, MainTypeOK
  <2>3. results' \in [Main -> [Exec -> Status]]
    BY <2>1 DEF JobFinishedArrives, MainTypeOK
  <2> QED BY <2>2, <2>3 DEF JobFinishedArrives, CommonTypeOK, MainTypeOK, WorkerTypeOK,
             RecoveryTypeOK, workerVars, recoveryVars
<1>11. CASE FailExecution(c)
  <2>1. call' \in [Call -> CallRecord]
    BY <1>11, StepTyped DEF FailExecution, CallStep
  <2>2. row' \in [Exec -> Status]
    BY <1>11, WriteTyped DEF FailExecution, Status
  <2>3. events' \in 0 .. MaxEvents
    BY <1>11, EventTyped DEF FailExecution
  <2> QED BY <1>11, <2>1, <2>2, <2>3 DEF FailExecution, CommonTypeOK, MainTypeOK, WorkerTypeOK,
             RecoveryTypeOK, workerVars, recoveryVars
<1>12. CASE EnqueueFails(c)
  <2>1. events' \in 0 .. MaxEvents
    BY <1>12, EventTyped DEF EnqueueFails
  <2>2. call' \in [Call -> CallRecord] /\ entry' \in [Main -> [Exec -> EntryRecord]]
    BY <1>12, ProcessErrorTyped DEF EnqueueFails, CallStep
  <2> QED BY <1>12, <2>1, <2>2 DEF EnqueueFails, CommonTypeOK, MainTypeOK, WorkerTypeOK,
             RecoveryTypeOK, workerVars, recoveryVars
<1> QED BY <1>1, <1>2, <1>3, <1>4, <1>5, <1>6, <1>7, <1>8, <1>9, <1>10, <1>11, <1>12
        DEF RunSteps

LEMMA ProcStatusTyped ==
  ASSUME WorkerTypeOK, NEW c \in Call, NEW x \in ProcStep, NEW z \in Status
  PROVE  [proc EXCEPT ![c].step = x, ![c].status = z] \in [Call -> ProcRecord]
<1> DEFINE f == [proc EXCEPT ![c].step = x]
<1>1. f \in [Call -> ProcRecord]
  BY DEF WorkerTypeOK, ProcRecord
<1>2. \A g \in [Call -> ProcRecord] : [g EXCEPT ![c].status = z] \in [Call -> ProcRecord]
  BY DEF ProcRecord
<1> QED BY <1>1, <1>2

LEMMA GoneTyped ==
  ASSUME WorkerTypeOK, NEW cs, Gone(cs)
  PROVE  proc' \in [Call -> ProcRecord]
BY NothingTyped DEF WorkerTypeOK, Gone

LEMMA ProcessStepsTyped ==
  ASSUME TypesOK, NEW c \in Call,
         \/ ProcessSteps(c) \/ StartFails(c) \/ SaveProgress(c) \/ JobStalls(c)
         \/ \E status \in Ends : EngineEnds(c, status)
         \/ \E w \in Worker : Pick(w, c)
  PROVE  TypesOK'
<1> USE DEF TypesOK
<1>1. CASE ReadExecution(c)
  <2>1. proc' \in [Call -> ProcRecord]
    <3>1. PICK to \in {"throwing", "returning", "read"} : ProcStepTo(c, "picked", to)
      BY <1>1 DEF ReadExecution
    <3> QED BY <3>1, ProcStepTyped DEF ProcStep
  <2> QED BY <1>1, <2>1 DEF ReadExecution, CommonTypeOK, MainTypeOK, WorkerTypeOK,
             RecoveryTypeOK, workerRest, mainVars, recoveryVars
<1>2. CASE SetRunning(c)
  <2>1. proc' \in [Call -> ProcRecord]
    BY <1>2, ProcStepTyped DEF SetRunning, ProcStep
  <2>2. row' \in [Exec -> Status]
    BY <1>2, WriteTyped DEF SetRunning, Status
  <2> QED BY <1>2, <2>1, <2>2 DEF SetRunning, CommonTypeOK, MainTypeOK, WorkerTypeOK,
             RecoveryTypeOK, mainVars, recoveryVars
<1>3. CASE Register(c)
  <2>1. proc' \in [Call -> ProcRecord]
    BY <1>3, ProcStepTyped DEF Register, ProcStep
  <2> QED BY <1>3, <2>1 DEF Register, CommonTypeOK, MainTypeOK, WorkerTypeOK,
             RecoveryTypeOK, workerRest, mainVars, recoveryVars
<1>4. CASE SaveRun(c)
  <2>1. proc' \in [Call -> ProcRecord]
    BY <1>4, ProcStepTyped DEF SaveRun, ProcStep
  <2>2. proc[c].status \in Status
    BY DEF WorkerTypeOK, ProcRecord
  <2>3. row' \in [Exec -> Status]
    BY <1>4, <2>2, WriteTyped DEF SaveRun
  <2> QED BY <1>4, <2>1, <2>3 DEF SaveRun, CommonTypeOK, MainTypeOK, WorkerTypeOK,
             RecoveryTypeOK, workerRest, mainVars, recoveryVars
<1>5. CASE StopRunningJob(c)
  <2>1. [proc EXCEPT ![c].step = "aborted"] \in [Call -> ProcRecord]
    BY DEF WorkerTypeOK, ProcRecord, ProcStep
  <2> QED BY <1>5, <2>1 DEF StopRunningJob, CommonTypeOK, MainTypeOK, WorkerTypeOK,
             RecoveryTypeOK, workerRest, mainVars, recoveryVars
<1>6. CASE SaveCancelled(c)
  <2>1. row' \in [Exec -> Status]
    BY <1>6, WriteTyped DEF SaveCancelled, Status
  <2> QED BY <1>6, <2>1 DEF SaveCancelled, CommonTypeOK, MainTypeOK, WorkerTypeOK,
             RecoveryTypeOK, workerRest, mainVars, recoveryVars
<1>7. CASE AbortedEnds(c)
  <2>1. proc' \in [Call -> ProcRecord]
    BY <1>7, ProcStatusTyped DEF AbortedEnds, ProcStep, Status
  <2> QED BY <1>7, <2>1 DEF AbortedEnds, CommonTypeOK, MainTypeOK, WorkerTypeOK,
             RecoveryTypeOK, workerRest, mainVars, recoveryVars
<1>8. CASE ReportRun(c)
  <2>1. proc' \in [Call -> ProcRecord]
    BY <1>8, ProcStepTyped DEF ReportRun, ProcStep
  <2>2. [to |-> up, status |-> proc[c].status] \in NewsRecord
    BY DEF CommonTypeOK, WorkerTypeOK, ProcRecord, NewsRecord
  <2>3. news' \in [Call -> NewsRecord]
    BY <1>8, <2>2 DEF ReportRun, MainTypeOK
  <2> QED BY <1>8, <2>1, <2>3 DEF ReportRun, CommonTypeOK, MainTypeOK, WorkerTypeOK,
             RecoveryTypeOK, recoveryVars
<1>9. CASE JobEnds(c)
  <2>1. proc' \in [Call -> ProcRecord]
    BY <1>9, GoneTyped DEF JobEnds
  <2>2. job' \in [Call -> JobRecord]
    <3>1. PICK to \in {"completed", "failed"}, why \in {"none", "cancelled", "error"} :
            Report(c, to, why)
      BY <1>9 DEF JobEnds
    <3> QED BY <3>1, JobTyped DEF Report, CommonTypeOK, JobState, Why
  <2> QED BY <1>9, <2>1, <2>2 DEF JobEnds, CommonTypeOK, MainTypeOK, WorkerTypeOK,
             RecoveryTypeOK, workerRest, mainVars, recoveryVars
<1>10. CASE StartFails(c)
  <2>1. proc' \in [Call -> ProcRecord]
    BY <1>10, ProcStepTyped DEF StartFails, ProcStep
  <2>2. events' \in 0 .. MaxEvents
    BY <1>10, EventTyped DEF StartFails
  <2> QED BY <1>10, <2>1, <2>2 DEF StartFails, CommonTypeOK, MainTypeOK, WorkerTypeOK,
             RecoveryTypeOK, mainVars, recoveryVars
<1>11. CASE SaveProgress(c)
  <2>1. row' \in [Exec -> Status]
    BY <1>11, WriteTyped DEF SaveProgress, Status
  <2> QED BY <1>11, <2>1 DEF SaveProgress, CommonTypeOK, MainTypeOK, WorkerTypeOK,
             RecoveryTypeOK, workerVars, workerRest, mainVars, recoveryVars
<1>12. CASE JobStalls(c)
  <2>1. events' \in 0 .. MaxEvents
    BY <1>12, EventTyped DEF JobStalls, CommonTypeOK
  <2>2. job' \in [Call -> JobRecord]
    BY <1>12, JobTyped DEF JobStalls, Stall, JobState, Why
  <2> QED BY <1>12, <2>1, <2>2 DEF JobStalls, CommonTypeOK, MainTypeOK, WorkerTypeOK,
             RecoveryTypeOK, workerVars, mainVars, recoveryVars
<1>13. CASE \E status \in Ends : EngineEnds(c, status)
  <2>1. proc' \in [Call -> ProcRecord]
    <3>1. PICK status \in Ends :
            proc' = [proc EXCEPT ![c].step = "saving", ![c].status = status]
      BY <1>13 DEF EngineEnds
    <3>2. "saving" \in ProcStep /\ status \in Status
      BY DEF ProcStep, Status, Ends
    <3> QED BY <3>1, <3>2, ProcStatusTyped
  <2> QED BY <1>13, <2>1 DEF EngineEnds, CommonTypeOK, MainTypeOK, WorkerTypeOK,
             RecoveryTypeOK, workerRest, mainVars, recoveryVars
<1>14. CASE \E w \in Worker : Pick(w, c)
  <2>1. job' \in [Call -> JobRecord]
    BY <1>14, JobTyped DEF Pick, Take, JobState, Why
  <2>2. proc' \in [Call -> ProcRecord]
    BY <1>14 DEF Pick, WorkerTypeOK, ProcRecord, ProcStep, Status
  <2> QED BY <1>14, <2>1, <2>2 DEF Pick, CommonTypeOK, MainTypeOK, WorkerTypeOK,
             RecoveryTypeOK, workerRest, mainVars, recoveryVars
<1> QED BY <1>1, <1>2, <1>3, <1>4, <1>5, <1>6, <1>7, <1>8, <1>9, <1>10, <1>11, <1>12,
           <1>13, <1>14 DEF ProcessSteps

LEMMA WorkerTyped ==
  ASSUME TypesOK, NEW w \in Worker,
         WorkerCrashes(w) \/ StopWorker(w) \/ WorkerExits(w) \/ WorkerStarts(w)
  PROVE  TypesOK'
<1> USE DEF TypesOK
<1>1. CASE WorkerCrashes(w) \/ WorkerExits(w)
  <2>1. WorkerGoes(w)
    BY <1>1 DEF WorkerCrashes, WorkerExits
  <2>2. events' \in 0 .. MaxEvents
    BY <1>1, EventTyped DEF WorkerCrashes, WorkerExits, CommonTypeOK
  <2>3. proc' \in [Call -> ProcRecord]
    BY <2>1, GoneTyped DEF WorkerGoes
  <2> QED BY <2>1, <2>2, <2>3 DEF WorkerGoes, CommonTypeOK, MainTypeOK, WorkerTypeOK,
             RecoveryTypeOK, mainVars, recoveryVars
<1>2. CASE StopWorker(w)
  <2>1. events' \in 0 .. MaxEvents
    BY <1>2, EventTyped DEF StopWorker
  <2> QED BY <1>2, <2>1 DEF StopWorker, CommonTypeOK, MainTypeOK, WorkerTypeOK,
             RecoveryTypeOK, mainVars, recoveryVars
<1>3. CASE WorkerStarts(w)
  BY <1>3 DEF WorkerStarts, CommonTypeOK, MainTypeOK, WorkerTypeOK,
              RecoveryTypeOK, workerRest, mainVars, recoveryVars
<1> QED BY <1>1, <1>2, <1>3

LEMMA RecoveryTyped ==
  ASSUME TypesOK, NEW m \in Main, NEW k \in Cycle, RecoverySteps(m, k) \/ RecoveryFails(m, k)
  PROVE  TypesOK'
<1> USE DEF TypesOK
<1>1. CASE ReadStored(m, k)
  <2> DEFINE stored == {e \in Exec : InProgress(e)}
  <2>1. CASE stored = {}
    BY <1>1, <2>1, ScheduleTyped DEF ReadStored, CycleStep, CommonTypeOK, MainTypeOK,
       WorkerTypeOK, RecoveryTypeOK, recoveryRest, workerVars, mainVars
  <2>2. CASE stored # {}
    <3>1. PICK ids \in SUBSET stored :
            recovery' = [recovery EXCEPT ![m][k] =
                    [step |-> "stored", ids |-> ids, queued |-> {c \in Call : Queued(c)}]]
      BY <1>1, <2>2 DEF ReadStored, Batches, kSubset
    <3>2. [step |-> "stored", ids |-> ids, queued |-> {c \in Call : Queued(c)}] \in CycleRecord
      BY DEF CycleRecord
    <3>3. recovery' \in [Main -> [Cycle -> CycleRecord]]
      BY <3>1, <3>2 DEF RecoveryTypeOK
    <3>4. /\ UNCHANGED <<row, recoveryRest, events>>
          /\ UNCHANGED handle
          /\ UNCHANGED leader
      BY <1>1, <2>2 DEF ReadStored, CycleStep
    <3> QED BY <3>3, <3>4 DEF CommonTypeOK, MainTypeOK,
               WorkerTypeOK, RecoveryTypeOK, recoveryRest, workerVars, mainVars
  <2> QED BY <2>1, <2>2
<1>2. CASE ReadQueue(m, k)
  <2>1. CASE recovery[m][k].ids \ QueuedIds = {}
    BY <1>2, <2>1, ScheduleTyped DEF ReadQueue, CycleStep, CommonTypeOK, MainTypeOK,
       WorkerTypeOK, RecoveryTypeOK, recoveryRest, workerVars, mainVars
  <2>2. CASE recovery[m][k].ids \ QueuedIds # {}
    <3> DEFINE x == recovery[m][k]
               y == [x EXCEPT !.step = "marking", !.ids = x.ids \ QueuedIds]
    <3>1. recovery' = [recovery EXCEPT ![m][k].step = "marking", ![m][k].ids = x.ids \ QueuedIds]
      BY <1>2, <2>2 DEF ReadQueue
    <3>2. x \in CycleRecord
      BY DEF RecoveryTypeOK
    <3>3. y \in CycleRecord
      BY <3>2 DEF CycleRecord
    <3>4. recovery' = [recovery EXCEPT ![m] = [recovery[m] EXCEPT ![k] = y]]
      BY <3>1 DEF RecoveryTypeOK
    <3>5. recovery' \in [Main -> [Cycle -> CycleRecord]]
      BY <3>3, <3>4 DEF RecoveryTypeOK
    <3>6. /\ UNCHANGED <<row, recoveryRest, events>>
          /\ UNCHANGED handle
          /\ UNCHANGED leader
      BY <1>2, <2>2 DEF ReadQueue, CycleStep
    <3> QED BY <3>5, <3>6 DEF CommonTypeOK, MainTypeOK,
               WorkerTypeOK, RecoveryTypeOK, recoveryRest, workerVars, mainVars
  <2> QED BY <2>1, <2>2
<1>3. CASE MarkAsCrashed(m, k)
  <2>1. row' \in [Exec -> Status]
    BY <1>3, WriteTyped DEF MarkAsCrashed, Status
  <2> QED BY <1>3, <2>1, ScheduleTyped DEF MarkAsCrashed, CycleStep, CommonTypeOK, MainTypeOK,
             WorkerTypeOK, RecoveryTypeOK, recoveryRest, workerVars, mainVars
<1>4. CASE RecoveryFails(m, k)
  BY <1>4, ScheduleTyped DEF RecoveryFails, CycleStep, CommonTypeOK, MainTypeOK,
     WorkerTypeOK, RecoveryTypeOK, recoveryRest, workerVars, mainVars
<1> QED BY <1>1, <1>2, <1>3, <1>4 DEF RecoverySteps

LEMMA LeaderTyped ==
  ASSUME TypesOK, NEW m \in Main,
         Takeover(m) \/ Stepdown(m) \/ MainCrashes(m) \/ MainStarts(m)
  PROVE  TypesOK'
<1> USE DEF TypesOK
<1>1. CASE Takeover(m)
  <2>1. PICK k \in Cycle : Schedule(m, k)
    BY <1>1 DEF Takeover
  <2> QED BY <1>1, <2>1, ScheduleTyped DEF Takeover, CommonTypeOK, MainTypeOK,
             WorkerTypeOK, RecoveryTypeOK, recoveryRest, workerVars, mainVars
<1>2. CASE Stepdown(m)
  <2>1. events' \in 0 .. MaxEvents
    BY <1>2, EventTyped DEF Stepdown
  <2>2. recovery' \in [Main -> [Cycle -> CycleRecord]] /\ handle' \in [Main -> Cycle \cup {0}]
    <3>1. CASE recovery[m][handle[m]].step = "timer"
      <4>1. /\ recovery' = [recovery EXCEPT ![m][handle[m]] = NoCycle]
            /\ handle' = [handle EXCEPT ![m] = 0]
        BY <1>2, <3>1 DEF Stepdown
      <4> QED BY <4>1, NothingTyped DEF RecoveryTypeOK
    <3>2. CASE recovery[m][handle[m]].step # "timer"
      BY <1>2, <3>2 DEF Stepdown, RecoveryTypeOK
    <3> QED BY <3>1, <3>2
  <2> QED BY <1>2, <2>1, <2>2 DEF Stepdown, CommonTypeOK, MainTypeOK,
             WorkerTypeOK, RecoveryTypeOK, recoveryRest, workerVars, mainVars
<1>3. CASE MainCrashes(m)
  <2>1. events' \in 0 .. MaxEvents
    BY <1>3, EventTyped DEF MainCrashes
  <2>2. call' \in [Call -> CallRecord]
    <3>1. \A x \in CallRecord :
            [x EXCEPT !.step = "over", !.stop = "none", !.status = "none"] \in CallRecord
      <4> TAKE x \in CallRecord
      <4> DEFINE y == [x EXCEPT !.step = "over"]
                 z == [y EXCEPT !.stop = "none"]
      <4>1. y \in CallRecord
        BY DEF CallRecord, CallStep
      <4>2. z \in CallRecord
        BY <4>1 DEF CallRecord, StopStep
      <4>3. [z EXCEPT !.status = "none"] \in CallRecord
        BY <4>2 DEF CallRecord, Status
      <4> QED BY <4>3
    <3> QED BY <1>3, <3>1 DEF MainCrashes, MainTypeOK
  <2>3. news' \in [Call -> NewsRecord]
    BY <1>3, WithoutTyped DEF MainCrashes, MainTypeOK
  <2>4. /\ entry' \in [Main -> [Exec -> EntryRecord]]
        /\ results' \in [Main -> [Exec -> Status]]
        /\ stopping' \in [Main -> SUBSET Exec]
    BY <1>3, NothingTyped DEF MainCrashes, MainTypeOK, Status
  <2>5. RecoveryTypeOK'
    BY <1>3, NothingTyped DEF MainCrashes, RecoveryTypeOK
  <2> QED BY <1>3, <2>1, <2>2, <2>3, <2>4, <2>5 DEF MainCrashes, CommonTypeOK, MainTypeOK,
             WorkerTypeOK, workerVars
<1>4. CASE MainStarts(m)
  BY <1>4 DEF MainStarts, CommonTypeOK, MainTypeOK, WorkerTypeOK, RecoveryTypeOK,
              workerVars, mainVars, recoveryVars
<1> QED BY <1>1, <1>2, <1>3, <1>4

LEMMA ElsewhereTyped ==
  ASSUME TypesOK, NEW e \in Exec, ElsewhereStarts(e) \/ ElsewhereEnds(e)
  PROVE  TypesOK'
<1> USE DEF TypesOK
<1>1. row' \in [Exec -> Status]
  BY DEF ElsewhereStarts, ElsewhereEnds, CommonTypeOK, Status
<1> QED BY <1>1 DEF ElsewhereStarts, ElsewhereEnds, elsewhereRest, CommonTypeOK, MainTypeOK,
           WorkerTypeOK, RecoveryTypeOK, workerVars, mainVars, recoveryVars

LEMMA TypesStep == TypesOK /\ [Next]_vars => TypesOK'
<1> SUFFICES ASSUME TypesOK, [Next]_vars PROVE TypesOK'
  OBVIOUS
<1>1. CASE UNCHANGED vars
  BY <1>1 DEF TypesOK, CommonTypeOK, MainTypeOK, WorkerTypeOK, RecoveryTypeOK,
              vars, workerVars, mainVars, recoveryVars
<1>2. CASE Next
  BY <1>2, RunTyped, StopTyped, ElsewhereTyped, RunStepsTyped, ProcessStepsTyped, WorkerTyped,
     LeaderTyped, RecoveryTyped DEF Next
<1> QED BY <1>1, <1>2

-----------------------------------------------------------------------------
(* The inductive invariant.                                                 *)

\* processJob may still run the workflow, or runs it.
Underway == {"picked", "read", "starting", "running", "aborted", "saving"}

\* Call c is going to run its execution, or runs it: it has not made its job
\* yet, or no worker has taken the job yet, or a worker is at it.
MayRun(c) ==
  \/ call[c].step = "added"
  \/ job[c].state = "waiting"
  \/ proc[c].step \in Underway

\* Calls, their jobs and who processes these go together.
JobInv ==
  \A c \in Call :
    /\ call[c].step # "unused" => call[c].exec \in Exec
    /\ call[c].step \in {"unused", "added"} => job[c].state = "none"
    /\ proc[c].step # "none" => job[c].state \notin {"none", "waiting"}

\* The right to run an execution is in one place: in its row when that is to be
\* created or resumed, or in one call.
RightInv ==
  \A c \in Call :
    MayRun(c) => /\ row[call[c].exec] \notin {"none", "waiting"}
                 /\ \A d \in Call : MayRun(d) /\ call[c].exec = call[d].exec => c = d

\* What a recovery cycle has seen in the queue has been a job.
SeenInv ==
  \A m \in Main, k \in Cycle : \A c \in recovery[m][k].queued : job[c].state # "none"

\* Only executions are started: workers process jobs of calls that have one.
StartedInv == started \in Seq(Exec)

ScalingInv ==
  TypesOK /\ StartedInv /\ JobInv /\ RightInv /\ SeenInv /\ RecoverySparesQueued

LEMMA ScalingInvIsSafe == ScalingInv => SingleRunner
BY DEF ScalingInv, RightInv, MayRun, Underway, SingleRunner

LEMMA ScalingInvInit == Init => ScalingInv
<1> SUFFICES ASSUME Init PROVE ScalingInv
  OBVIOUS
<1>1. \A c \in Call : call[c].step = "unused" /\ job[c].state = "none" /\ proc[c].step = "none"
  BY DEF Init, JobInit, NoProc
<1>2. JobInv /\ RightInv
  BY <1>1 DEF JobInv, RightInv, MayRun, Underway
<1>3. \A m \in Main, k \in Cycle : recovery[m][k].queued = {} /\ recovery[m][k].step = "off"
  BY DEF Init, NoCycle
<1>4. SeenInv /\ RecoverySparesQueued
  BY <1>3 DEF SeenInv, RecoverySparesQueued
<1>5. StartedInv
  BY DEF Init, StartedInv
<1> QED BY <1>2, <1>4, <1>5, TypesInit DEF ScalingInv

-----------------------------------------------------------------------------
(* Most steps give nobody the right to run anything.                        *)

\* No call begins, none goes back.
CallsCalm ==
  \A c \in Call :
    /\ call'[c].exec = call[c].exec
    /\ call'[c].step = "unused" <=> call[c].step = "unused"
    /\ call'[c].step = "added" => call[c].step = "added"

\* No job is added, and none returns to the queue.
JobsCalm ==
  \A c \in Call :
    \/ job'[c].state = job[c].state
    \/ /\ job[c].state \in {"waiting", "active"}
       /\ job'[c].state \in {"active", "completed", "failed", "removed"}

\* No worker takes a job or runs one again.
ProcsCalm ==
  \A c \in Call :
    \/ proc'[c].step \in {"none", proc[c].step}
    \/ proc[c].step # "none" /\ (proc'[c].step \in Underway => proc[c].step \in Underway)

\* No row begins to wait.
RowsCalm ==
  \A e \in Exec : row'[e] \in {"none", "waiting"} => row'[e] = row[e]

\* A recovery cycle goes on with what it has seen, or forgets it.
CyclesCalm ==
  \A m \in Main, k \in Cycle :
    \/ recovery'[m][k] = recovery[m][k]
    \/ recovery'[m][k].queued = {} /\ recovery'[m][k].step # "marking"

LEMMA CalmKeepsRights ==
  ASSUME JobInv, RightInv, CallsCalm, JobsCalm, ProcsCalm, RowsCalm
  PROVE  JobInv' /\ RightInv'
<1>1. \A c \in Call : MayRun(c)' => MayRun(c) /\ call'[c].exec = call[c].exec
  BY DEF MayRun, CallsCalm, JobsCalm, ProcsCalm, Underway
<1>2. JobInv'
  BY DEF JobInv, CallsCalm, JobsCalm, ProcsCalm
<1>3. \A c \in Call : MayRun(c) => call[c].exec \in Exec
  BY DEF MayRun, JobInv, Underway
<1>4. RightInv'
  BY <1>1, <1>3 DEF RightInv, RowsCalm
<1> QED BY <1>2, <1>4

\* Who is seen keeps its execution and does not return to the queue.
SeenCalm ==
  \A c \in Call :
    job[c].state # "none" => /\ job'[c].state # "none"
                             /\ Queued(c)' => Queued(c)
                             /\ call'[c].exec = call[c].exec

LEMMA CalmKeepsSeen ==
  ASSUME TypesOK, SeenInv, RecoverySparesQueued, SeenCalm, CyclesCalm
  PROVE  SeenInv' /\ RecoverySparesQueued'
<1>1. \A m \in Main, k \in Cycle : recovery[m][k].queued \subseteq Call
  BY DEF TypesOK, RecoveryTypeOK, CycleRecord
<1>2. SeenInv'
  BY <1>1 DEF SeenInv, SeenCalm, CyclesCalm
<1>3. RecoverySparesQueued'
  <2> SUFFICES ASSUME NEW m \in Main, NEW k \in Cycle, recovery'[m][k].step = "marking",
                      NEW c \in recovery'[m][k].queued, Queued(c)'
               PROVE  call'[c].exec \notin recovery'[m][k].ids
    BY DEF RecoverySparesQueued
  <2>1. recovery'[m][k] = recovery[m][k]
    BY DEF CyclesCalm
  <2>2. c \in Call /\ job[c].state # "none"
    BY <1>1, <2>1 DEF SeenInv
  <2>3. Queued(c) /\ call'[c].exec = call[c].exec
    BY <2>2 DEF SeenCalm
  <2> QED BY <2>1, <2>3 DEF RecoverySparesQueued
<1> QED BY <1>2, <1>3

LEMMA CalmIsSeenCalm ==
  ASSUME CallsCalm, JobsCalm
  PROVE  SeenCalm
BY DEF CallsCalm, JobsCalm, SeenCalm, Queued

LEMMA CalmStep ==
  ASSUME ScalingInv, CallsCalm, JobsCalm, ProcsCalm, RowsCalm, CyclesCalm
  PROVE  JobInv' /\ RightInv' /\ SeenInv' /\ RecoverySparesQueued'
BY CalmKeepsRights, CalmIsSeenCalm, CalmKeepsSeen DEF ScalingInv

LEMMA UnchangedIsCalm ==
  /\ call' = call => CallsCalm
  /\ job' = job => JobsCalm
  /\ proc' = proc => ProcsCalm
  /\ row' = row => RowsCalm
  /\ recovery' = recovery => CyclesCalm
<1>1. call' = call => CallsCalm
  BY DEF CallsCalm
<1>2. job' = job => JobsCalm
  BY DEF JobsCalm
<1>3. proc' = proc => ProcsCalm
  BY DEF ProcsCalm
<1>4. row' = row => RowsCalm
  BY DEF RowsCalm
<1>5. recovery' = recovery => CyclesCalm
  BY DEF CyclesCalm
<1> QED BY <1>1, <1>2, <1>3, <1>4, <1>5

LEMMA WriteIsCalm ==
  ASSUME TypesOK, NEW es, NEW status \in Status \ {"none", "waiting"}, Write(es, status)
  PROVE  RowsCalm
BY DEF RowsCalm, Write, TypesOK, CommonTypeOK

LEMMA CallStepIsCalm ==
  ASSUME TypesOK, NEW c \in Call, call[c].step # "unused", NEW x \in CallStep \ {"unused", "added"},
         \/ call' = [call EXCEPT ![c].step = x]
         \/ \E z : call' = [call EXCEPT ![c].step = x, ![c].status = z]
  PROVE  CallsCalm
<1>1. call \in [Call -> CallRecord] /\ \A r \in CallRecord : DOMAIN r = {"exec", "main", "step", "stop", "status"}
  BY DEF TypesOK, MainTypeOK, CallRecord
<1>2. \A d \in Call : d # c => call'[d] = call[d]
  BY <1>1
<1>3. call'[c].step = x /\ call'[c].exec = call[c].exec
  BY <1>1 DEF CallRecord
<1> QED BY <1>2, <1>3 DEF CallsCalm

LEMMA CallStopIsCalm ==
  ASSUME TypesOK, NEW c \in Call, NEW x, call' = [call EXCEPT ![c].stop = x]
  PROVE  CallsCalm
BY DEF CallsCalm, TypesOK, MainTypeOK, CallRecord

LEMMA JobIsCalm ==
  ASSUME TypesOK, NEW c \in Call, NEW from \in {"waiting", "active"},
         NEW to \in {"active", "completed", "failed", "removed"}, NEW why,
         JobBecomes(c, from, to, why)
  PROVE  JobsCalm
BY DEF JobsCalm, TypesOK, CommonTypeOK, JobRecord, JobBecomes

LEMMA ProcIsCalm ==
  ASSUME TypesOK, NEW c \in Call, proc[c].step # "none",
         NEW to, to \in Underway => proc[c].step \in Underway,
         \/ proc' = [proc EXCEPT ![c].step = to]
         \/ \E z : proc' = [proc EXCEPT ![c].step = to, ![c].status = z]
  PROVE  ProcsCalm
BY DEF ProcsCalm, TypesOK, WorkerTypeOK, ProcRecord

LEMMA GoneIsCalm ==
  ASSUME TypesOK, NEW cs, Gone(cs)
  PROVE  ProcsCalm
BY DEF ProcsCalm, TypesOK, WorkerTypeOK, Gone, NoProc

LEMMA ScheduleIsCalm ==
  ASSUME TypesOK, NEW m \in Main, NEW k \in Cycle, Schedule(m, k)
  PROVE  CyclesCalm
<1>1. recovery \in [Main -> [Cycle -> CycleRecord]]
  BY DEF TypesOK, RecoveryTypeOK
<1>2. \A n \in Main, l \in Cycle : (n # m \/ l # k) => recovery'[n][l] = recovery[n][l]
  BY <1>1 DEF Schedule
<1>3. recovery'[m][k] = [NoCycle EXCEPT !.step = "timer"]
  BY <1>1 DEF Schedule
<1> QED BY <1>2, <1>3 DEF CyclesCalm, NoCycle

LEMMA ProcessErrorIsCalm ==
  ASSUME TypesOK, NEW c \in Call, call[c].step # "unused",
         NEW step \in {"writing", "rejecting"}, ProcessError(c, step)
  PROVE  CallsCalm
<1>1. PICK x \in {"over", "writing", "rejecting"} : call' = [call EXCEPT ![c].step = x]
  BY DEF ProcessError
<1> QED BY <1>1, CallStepIsCalm DEF CallStep

-----------------------------------------------------------------------------
(* The steps.                                                               *)

\* All but the types.
RunInv == JobInv /\ RightInv /\ SeenInv /\ RecoverySparesQueued

LEMMA RunKept ==
  ASSUME ScalingInv, NEW m \in Main, NEW c \in Call, NEW e \in Exec,
         Run(m, c, e) \/ Resume(m, c, e)
  PROVE  RunInv'
<1> USE DEF ScalingInv
<1>1. Added(m, c, e) /\ row[e] \in {"none", "waiting"} /\ row' = [row EXCEPT ![e] = row'[e]]
      /\ row'[e] \in {"new", "running"}
  BY DEF Run, Resume, TypesOK, CommonTypeOK
<1>2. /\ call[c].step = "unused"
      /\ call' = [call EXCEPT ![c] = [exec |-> e, main |-> m, step |-> "added",
                                      stop |-> "none", status |-> "none"]]
      /\ job' = job /\ proc' = proc /\ recovery' = recovery
  BY <1>1 DEF Added, workerVars, recoveryVars
<1>3. call'[c].exec = e /\ call'[c].step = "added" /\ \A d \in Call \ {c} : call'[d] = call[d]
  BY <1>2 DEF TypesOK, MainTypeOK
<1>4. job[c].state = "none" /\ proc[c].step = "none"
  BY <1>2 DEF JobInv
<1>5. JobInv'
  BY <1>2, <1>3, <1>4 DEF JobInv
<1>6. \A d \in Call \ {c} : MayRun(d)' => MayRun(d) /\ call[d].exec # e
  BY <1>1, <1>2, <1>3 DEF MayRun, RightInv
<1>7. \A d \in Call : MayRun(d) => call[d].exec \in Exec
  BY DEF MayRun, JobInv, Underway
<1>8. \A x \in Exec : x # e => row'[x] = row[x]
  BY <1>1 DEF TypesOK, CommonTypeOK
<1>9. RightInv'
  <2> SUFFICES ASSUME NEW d \in Call, MayRun(d)'
               PROVE  /\ row'[call'[d].exec] \notin {"none", "waiting"}
                      /\ \A b \in Call : MayRun(b)' /\ call'[d].exec = call'[b].exec => d = b
    BY DEF RightInv
  <2>1. CASE d = c
    BY <1>1, <1>3, <1>6, <2>1
  <2>2. CASE d # c
    <3>1. MayRun(d) /\ call[d].exec # e /\ call'[d] = call[d] /\ call[d].exec \in Exec
      BY <1>3, <1>6, <1>7, <2>2
    <3>2. row'[call[d].exec] \notin {"none", "waiting"}
      BY <1>8, <3>1 DEF RightInv
    <3>3. \A b \in Call : MayRun(b)' /\ call'[d].exec = call'[b].exec => d = b
      BY <1>3, <1>6, <3>1 DEF RightInv
    <3> QED BY <3>1, <3>2, <3>3
  <2> QED BY <2>1, <2>2
<1>10. SeenCalm
  BY <1>2, <1>3, <1>4 DEF SeenCalm, Queued
<1>11. SeenInv' /\ RecoverySparesQueued'
  BY <1>2, <1>10, CalmKeepsSeen, UnchangedIsCalm
<1> QED BY <1>5, <1>9, <1>11 DEF RunInv

LEMMA StopKept ==
  ASSUME ScalingInv, NEW m \in Main, NEW e \in Exec, Stop(m, e) \/ StopDuringRun(m, e)
  PROVE  RunInv'
<1> USE DEF ScalingInv
<1>1. JobsCalm /\ ProcsCalm /\ CyclesCalm
  BY UnchangedIsCalm DEF Stop, StopDuringRun, workerVars, recoveryVars
<1>2. CASE Stop(m, e)
  <2>1. entry[m][e].run \in Call \cup {0}
    BY DEF TypesOK, MainTypeOK, EntryRecord
  <2>2. CallsCalm
    BY <1>2, <2>1, CallStopIsCalm, UnchangedIsCalm DEF Stop
  <2> QED BY <1>1, <1>2, <2>2, CalmStep, UnchangedIsCalm DEF Stop, RunInv
<1>3. CASE StopDuringRun(m, e)
  <2>1. RowsCalm
    BY <1>3, WriteIsCalm DEF StopDuringRun, Status
  <2> QED BY <1>1, <1>3, <2>1, CalmStep, UnchangedIsCalm DEF StopDuringRun, RunInv
<1> QED BY <1>2, <1>3

LEMMA AddJobKept ==
  ASSUME ScalingInv, NEW c \in Call, AddJob(c)
  PROVE  RunInv'
<1> USE DEF ScalingInv
<1>1. /\ call[c].step = "added" /\ job[c].state = "none"
      /\ call' = [call EXCEPT ![c].step = "enqueued"]
      /\ job' = [job EXCEPT ![c] = [state |-> "waiting", why |-> "none"]]
      /\ row' = row /\ proc' = proc /\ recovery' = recovery
  BY DEF AddJob, Step, Add, JobBecomes, workerVars, recoveryVars
<1>2. /\ call'[c].step = "enqueued" /\ call'[c].exec = call[c].exec
      /\ job'[c].state = "waiting"
      /\ \A d \in Call \ {c} : call'[d] = call[d] /\ job'[d] = job[d]
  BY <1>1 DEF TypesOK, MainTypeOK, CommonTypeOK, CallRecord
<1>3. JobInv'
  BY <1>1, <1>2 DEF JobInv
<1>4. \A d \in Call : (MayRun(d)' => MayRun(d)) /\ call'[d].exec = call[d].exec
  BY <1>1, <1>2 DEF MayRun
<1>5. RightInv'
  BY <1>1, <1>4 DEF RightInv
<1>6. SeenCalm
  BY <1>1, <1>2 DEF SeenCalm, Queued
<1>7. SeenInv' /\ RecoverySparesQueued'
  BY <1>1, <1>6, CalmKeepsSeen, UnchangedIsCalm
<1> QED BY <1>3, <1>5, <1>7 DEF RunInv

LEMMA RunStepsKept ==
  ASSUME ScalingInv, NEW c \in Call, RunSteps(c) \/ FailExecution(c) \/ EnqueueFails(c)
  PROVE  RunInv'
<1> USE DEF ScalingInv
<1>1. CASE AddJob(c)
  BY <1>1, AddJobKept
<1>2. CASE FailExecutionEnds(c) \/ Attach(c)
  <2>1. /\ call[c].step # "unused"
        /\ \E x \in {"over", "awaiting"} : call' = [call EXCEPT ![c].step = x]
        /\ UNCHANGED <<row, job, proc, recovery>>
    BY <1>2 DEF FailExecutionEnds, Attach, Step, workerVars, recoveryVars
  <2>2. CallsCalm
    BY <2>1, CallStepIsCalm DEF CallStep
  <2> QED BY <2>1, <2>2, CalmStep, UnchangedIsCalm DEF RunInv
<1>3. CASE WriteError(c) \/ FailExecution(c)
  <2>1. /\ call[c].step # "unused"
        /\ \E x \in {"over", "refused"} : call' = [call EXCEPT ![c].step = x]
        /\ \E st \in {"error", "deleted"} : Write({call[c].exec}, st)
        /\ UNCHANGED <<job, proc, recovery>>
    BY <1>3 DEF WriteError, FailExecution, Step, workerVars, recoveryVars
  <2>2. CallsCalm
    BY <2>1, CallStepIsCalm DEF CallStep
  <2>3. RowsCalm
    BY <2>1, WriteIsCalm DEF Status
  <2> QED BY <2>1, <2>2, <2>3, CalmStep, UnchangedIsCalm DEF RunInv
<1>4. CASE JobFailed(c)
  <2>1. CallsCalm
    <3>1. CASE job[c].why = "cancelled"
      <4>1. call' = [call EXCEPT ![c].step = "over"] /\ call[c].step # "unused"
        BY <1>4, <3>1 DEF JobFailed
      <4>2. "over" \in CallStep \ {"unused", "added"}
        BY DEF CallStep
      <4> QED BY <4>1, <4>2, CallStepIsCalm
    <3>2. CASE job[c].why # "cancelled"
      BY <1>4, <3>2, ProcessErrorIsCalm DEF JobFailed
    <3> QED BY <3>1, <3>2
  <2>2. UNCHANGED <<row, job, proc, recovery>>
    BY <1>4 DEF JobFailed, workerVars, recoveryVars
  <2> QED BY <2>1, <2>2, CalmStep, UnchangedIsCalm DEF RunInv
<1>5. CASE JobCompleted(c)
  <2>1. /\ call[c].step # "unused"
        /\ \/ call' = [call EXCEPT ![c].step = "over"]
           \/ \E z : call' = [call EXCEPT ![c].step = "after", ![c].status = z]
    BY <1>5 DEF JobCompleted
  <2>2. CallsCalm
    <3>1. "over" \in CallStep \ {"unused", "added"} /\ "after" \in CallStep \ {"unused", "added"}
      BY DEF CallStep
    <3>2. CASE call' = [call EXCEPT ![c].step = "over"]
      BY <2>1, <3>1, <3>2, CallStepIsCalm
    <3>3. CASE \E z : call' = [call EXCEPT ![c].step = "after", ![c].status = z]
      BY <2>1, <3>1, <3>3, CallStepIsCalm
    <3> QED BY <2>1, <3>2, <3>3
  <2>3. UNCHANGED <<row, job, proc, recovery>>
    BY <1>5 DEF JobCompleted, workerVars, recoveryVars
  <2> QED BY <2>2, <2>3, CalmStep, UnchangedIsCalm DEF RunInv
<1>6. CASE AfterHook(c)
  <2>1. CallsCalm
    BY <1>6, CallStepIsCalm DEF AfterHook, CallStep
  <2>2. RowsCalm
    BY <1>6, WriteIsCalm, UnchangedIsCalm DEF AfterHook, Status
  <2>3. UNCHANGED <<job, proc, recovery>>
    BY <1>6 DEF AfterHook, workerVars, recoveryVars
  <2> QED BY <2>1, <2>2, <2>3, CalmStep, UnchangedIsCalm DEF RunInv
<1>7. CASE StopJob(c)
  <2>1. CallsCalm
    BY <1>7, CallStopIsCalm DEF StopJob
  <2> QED BY <1>7, <2>1, CalmStep, UnchangedIsCalm DEF StopJob, RunInv, recoveryVars
<1>8. CASE StopJobRemoves(c)
  <2>1. CallsCalm
    BY <1>8, CallStopIsCalm DEF StopJobRemoves
  <2>2. JobsCalm
    BY <1>8, JobIsCalm, UnchangedIsCalm DEF StopJobRemoves, Remove
  <2> QED BY <1>8, <2>1, <2>2, CalmStep, UnchangedIsCalm
          DEF StopJobRemoves, RunInv, workerVars, recoveryVars
<1>9. CASE \E m \in Main : JobFinishedArrives(m, c)
  BY <1>9, CalmStep, UnchangedIsCalm
  DEF JobFinishedArrives, RunInv, workerVars, recoveryVars
<1>10. CASE EnqueueFails(c)
  <2>1. CallsCalm
    BY <1>10, ProcessErrorIsCalm DEF EnqueueFails
  <2> QED BY <1>10, <2>1, CalmStep, UnchangedIsCalm
          DEF EnqueueFails, RunInv, workerVars, recoveryVars
<1> QED BY <1>1, <1>2, <1>3, <1>4, <1>5, <1>6, <1>7, <1>8, <1>9, <1>10 DEF RunSteps

LEMMA PickKept ==
  ASSUME ScalingInv, NEW c \in Call, NEW w \in Worker, Pick(w, c)
  PROVE  RunInv'
<1> USE DEF ScalingInv
<1>1. /\ job[c].state = "waiting"
      /\ job' = [job EXCEPT ![c] = [state |-> "active", why |-> "none"]]
      /\ proc' = [proc EXCEPT ![c] = [worker |-> w, step |-> "picked", status |-> "none"]]
      /\ row' = row /\ call' = call /\ recovery' = recovery
  BY DEF Pick, Take, JobBecomes, workerRest, mainVars, recoveryVars
<1>2. /\ job'[c].state = "active" /\ proc'[c].step = "picked"
      /\ \A d \in Call \ {c} : proc'[d] = proc[d] /\ job'[d] = job[d]
  BY <1>1 DEF TypesOK, WorkerTypeOK, CommonTypeOK
<1>3. JobInv'
  BY <1>1, <1>2 DEF JobInv
<1>4. \A d \in Call : MayRun(d)' => MayRun(d)
  BY <1>1, <1>2 DEF MayRun
<1>5. RightInv'
  BY <1>1, <1>4 DEF RightInv
<1>6. SeenCalm
  BY <1>1, <1>2 DEF SeenCalm, Queued
<1>7. SeenInv' /\ RecoverySparesQueued'
  BY <1>1, <1>6, CalmKeepsSeen, UnchangedIsCalm
<1> QED BY <1>3, <1>5, <1>7 DEF RunInv

\* The run that is saved loses the right to run, and the row may get it.
LEMMA SaveRunKept ==
  ASSUME ScalingInv, NEW c \in Call, SaveRun(c)
  PROVE  RunInv'
<1> USE DEF ScalingInv
<1>1. /\ proc[c].step = "saving"
      /\ proc' = [proc EXCEPT ![c].step = "saved"]
      /\ Write({call[c].exec}, proc[c].status)
      /\ job' = job /\ call' = call /\ recovery' = recovery
  BY DEF SaveRun, ProcStepTo, workerRest, mainVars, recoveryVars
<1>2. proc'[c].step = "saved" /\ \A d \in Call \ {c} : proc'[d] = proc[d]
  BY <1>1 DEF TypesOK, WorkerTypeOK, ProcRecord
<1>3. MayRun(c) /\ ~MayRun(c)'
  BY <1>1, <1>2 DEF MayRun, JobInv, Underway
<1>4. \A d \in Call : MayRun(d)' => MayRun(d) /\ call[d].exec # call[c].exec
  BY <1>1, <1>2, <1>3 DEF MayRun, RightInv
<1>5. \A x \in Exec : x # call[c].exec => row'[x] = row[x]
  BY <1>1 DEF Write
<1>6. \A d \in Call : MayRun(d) => call[d].exec \in Exec
  BY DEF MayRun, JobInv, Underway
<1>7. RightInv'
  BY <1>1, <1>4, <1>5, <1>6 DEF RightInv
<1>8. JobInv'
  BY <1>1, <1>2 DEF JobInv
<1>9. SeenInv' /\ RecoverySparesQueued'
  BY <1>1, CalmKeepsSeen, UnchangedIsCalm, CalmIsSeenCalm
<1> QED BY <1>7, <1>8, <1>9 DEF RunInv

LEMMA ProcessStepsKept ==
  ASSUME ScalingInv, NEW c \in Call,
         \/ ProcessSteps(c) \/ StartFails(c) \/ SaveProgress(c) \/ JobStalls(c)
         \/ \E status \in Ends : EngineEnds(c, status)
         \/ \E w \in Worker : Pick(w, c)
  PROVE  RunInv'
<1> USE DEF ScalingInv
<1>1. CASE ReadExecution(c) \/ Register(c) \/ StartFails(c)
  <2>1. /\ UNCHANGED <<row, job, call, recovery>>
        /\ proc[c].step \in {"picked", "starting"}
        /\ \E to \in {"throwing", "returning", "read", "running"} :
             proc' = [proc EXCEPT ![c].step = to]
    BY <1>1 DEF ReadExecution, Register, StartFails, ProcStepTo, workerRest, mainVars,
       recoveryVars
  <2>2. ProcsCalm
    BY <2>1, ProcIsCalm DEF Underway
  <2> QED BY <2>1, <2>2, CalmStep, UnchangedIsCalm DEF RunInv
<1>2. CASE SetRunning(c)
  <2>1. /\ UNCHANGED <<job, call, recovery>>
        /\ proc[c].step = "read" /\ proc' = [proc EXCEPT ![c].step = "starting"]
    BY <1>2 DEF SetRunning, ProcStepTo, mainVars, recoveryVars
  <2>2. ProcsCalm
    BY <2>1, ProcIsCalm DEF Underway
  <2>3. RowsCalm
    BY <1>2, WriteIsCalm DEF SetRunning, Status
  <2> QED BY <2>1, <2>2, <2>3, CalmStep, UnchangedIsCalm DEF RunInv
<1>3. CASE SaveRun(c)
  BY <1>3, SaveRunKept
<1>4. CASE StopRunningJob(c)
  <2>1. UNCHANGED <<row, job, call, recovery>>
    BY <1>4 DEF StopRunningJob, workerRest, mainVars, recoveryVars
  <2>2. \/ proc' = proc
        \/ proc[c].step = "running" /\ proc' = [proc EXCEPT ![c].step = "aborted"]
    BY <1>4 DEF StopRunningJob
  <2>3. ProcsCalm
    BY <2>2, ProcIsCalm, UnchangedIsCalm DEF Underway
  <2> QED BY <2>1, <2>3, CalmStep, UnchangedIsCalm DEF RunInv
<1>5. CASE SaveCancelled(c) \/ SaveProgress(c)
  <2>1. UNCHANGED <<job, call, proc, recovery>>
    BY <1>5 DEF SaveCancelled, SaveProgress, workerVars, workerRest, mainVars, recoveryVars
  <2>2. RowsCalm
    BY <1>5, WriteIsCalm DEF SaveCancelled, SaveProgress, Status
  <2> QED BY <2>1, <2>2, CalmStep, UnchangedIsCalm DEF RunInv
<1>6. CASE AbortedEnds(c) \/ \E status \in Ends : EngineEnds(c, status)
  <2>1. /\ UNCHANGED <<row, job, call, recovery>>
        /\ proc[c].step \in {"aborted", "running"}
        /\ \E to \in {"saved", "saving"}, z \in Status :
             proc' = [proc EXCEPT ![c].step = to, ![c].status = z]
    BY <1>6 DEF AbortedEnds, EngineEnds, Ends, Status, workerRest, mainVars, recoveryVars
  <2>2. ProcsCalm
    BY <2>1, ProcIsCalm DEF Underway
  <2> QED BY <2>1, <2>2, CalmStep, UnchangedIsCalm DEF RunInv
<1>7. CASE ReportRun(c)
  <2>1. /\ UNCHANGED <<row, job, call, recovery>>
        /\ proc[c].step = "saved"
        /\ \E to \in {"throwing", "returning"} : proc' = [proc EXCEPT ![c].step = to]
    BY <1>7 DEF ReportRun, ProcStepTo, recoveryVars
  <2>2. ProcsCalm
    BY <2>1, ProcIsCalm DEF Underway
  <2> QED BY <2>1, <2>2, CalmStep, UnchangedIsCalm DEF RunInv
<1>8. CASE JobEnds(c)
  <2>1. UNCHANGED <<row, call, recovery>>
    BY <1>8 DEF JobEnds, workerRest, mainVars, recoveryVars
  <2>2. ProcsCalm
    BY <1>8, GoneIsCalm DEF JobEnds
  <2>3. JobsCalm
    <3>1. PICK to \in {"completed", "failed"}, why \in {"none", "cancelled", "error"} :
            Report(c, to, why)
      BY <1>8 DEF JobEnds
    <3> QED BY <3>1, JobIsCalm, UnchangedIsCalm DEF Report
  <2> QED BY <2>1, <2>2, <2>3, CalmStep, UnchangedIsCalm DEF RunInv
<1>9. CASE JobStalls(c)
  <2>1. UNCHANGED <<row, call, proc, recovery>>
    BY <1>9 DEF JobStalls, mainVars, workerVars, recoveryVars
  <2>2. JobsCalm
    BY <1>9, JobIsCalm DEF JobStalls, Stall
  <2> QED BY <2>1, <2>2, CalmStep, UnchangedIsCalm DEF RunInv
<1>10. CASE \E w \in Worker : Pick(w, c)
  BY <1>10, PickKept
<1> QED BY <1>1, <1>2, <1>3, <1>4, <1>5, <1>6, <1>7, <1>8, <1>9, <1>10 DEF ProcessSteps

LEMMA WorkerKept ==
  ASSUME ScalingInv, NEW w \in Worker,
         WorkerCrashes(w) \/ StopWorker(w) \/ WorkerExits(w) \/ WorkerStarts(w)
  PROVE  RunInv'
<1> USE DEF ScalingInv
<1>1. UNCHANGED <<row, job, call, recovery>>
  BY DEF WorkerCrashes, StopWorker, WorkerExits, WorkerStarts, WorkerGoes, workerRest,
         mainVars, recoveryVars
<1>2. ProcsCalm
  BY GoneIsCalm, UnchangedIsCalm
  DEF WorkerCrashes, StopWorker, WorkerExits, WorkerStarts, WorkerGoes
<1> QED BY <1>1, <1>2, CalmStep, UnchangedIsCalm DEF RunInv

LEMMA LeaderKept ==
  ASSUME ScalingInv, NEW m \in Main,
         Takeover(m) \/ Stepdown(m) \/ MainCrashes(m) \/ MainStarts(m)
  PROVE  RunInv'
<1> USE DEF ScalingInv
<1>1. UNCHANGED <<row, job, proc>>
  BY DEF Takeover, Stepdown, MainCrashes, MainStarts, recoveryRest, workerVars
<1>2. CASE Takeover(m)
  <2>1. CyclesCalm
    BY <1>2, ScheduleIsCalm DEF Takeover
  <2> QED BY <1>1, <1>2, <2>1, CalmStep, UnchangedIsCalm
          DEF Takeover, RunInv, recoveryRest, mainVars
<1>3. CASE Stepdown(m)
  <2>1. CyclesCalm
    <3>1. CASE recovery[m][handle[m]].step = "timer"
      <4>1. recovery' = [recovery EXCEPT ![m][handle[m]] = NoCycle]
        BY <1>3, <3>1 DEF Stepdown
      <4>2. recovery \in [Main -> [Cycle -> CycleRecord]]
        BY DEF TypesOK, RecoveryTypeOK
      <4>3. \A n \in Main, l \in Cycle :
              recovery'[n][l] = recovery[n][l] \/ recovery'[n][l] = NoCycle
        BY <4>1, <4>2
      <4> QED BY <4>3 DEF CyclesCalm, NoCycle
    <3>2. CASE recovery[m][handle[m]].step # "timer"
      BY <1>3, <3>2, UnchangedIsCalm DEF Stepdown
    <3> QED BY <3>1, <3>2
  <2> QED BY <1>1, <1>3, <2>1, CalmStep, UnchangedIsCalm
          DEF Stepdown, RunInv, recoveryRest, mainVars
<1>4. CASE MainCrashes(m)
  <2>1. CallsCalm
    <3>1. \A x \in CallRecord :
            LET y == [x EXCEPT !.step = "over", !.stop = "none", !.status = "none"]
            IN  y.step = "over" /\ y.exec = x.exec
      BY DEF CallRecord
    <3>2. \A c \in Call : \/ call'[c] = call[c]
                          \/ /\ call[c].step # "unused"
                             /\ call'[c].step = "over" /\ call'[c].exec = call[c].exec
      BY <1>4, <3>1 DEF MainCrashes, TypesOK, MainTypeOK
    <3> QED BY <3>2 DEF CallsCalm
  <2>2. CyclesCalm
    <3>1. \A n \in Main, l \in Cycle :
            recovery'[n][l] = recovery[n][l] \/ recovery'[n][l] = NoCycle
      BY <1>4 DEF MainCrashes, TypesOK, RecoveryTypeOK
    <3> QED BY <3>1 DEF CyclesCalm, NoCycle
  <2> QED BY <1>1, <2>1, <2>2, CalmStep, UnchangedIsCalm DEF RunInv
<1>5. CASE MainStarts(m)
  BY <1>1, <1>5, CalmStep, UnchangedIsCalm DEF MainStarts, RunInv, mainVars, recoveryVars
<1> QED BY <1>2, <1>3, <1>4, <1>5

LEMMA RecoveryKept ==
  ASSUME ScalingInv, NEW m \in Main, NEW k \in Cycle, RecoverySteps(m, k) \/ RecoveryFails(m, k)
  PROVE  RunInv'
<1> USE DEF ScalingInv
<1>1. UNCHANGED <<job, call, proc>>
  BY DEF RecoverySteps, ReadStored, ReadQueue, MarkAsCrashed, RecoveryFails, recoveryRest,
         mainVars, workerVars
<1>2. recovery \in [Main -> [Cycle -> CycleRecord]]
  BY DEF TypesOK, RecoveryTypeOK
<1>3. CASE Schedule(m, k)
  <2>1. RowsCalm
    BY WriteIsCalm, UnchangedIsCalm
    DEF RecoverySteps, ReadStored, ReadQueue, MarkAsCrashed, RecoveryFails, Status
  <2>2. CyclesCalm
    BY <1>3, ScheduleIsCalm
  <2> QED BY <1>1, <2>1, <2>2, CalmStep, UnchangedIsCalm DEF RunInv
<1>4. CASE ReadStored(m, k) /\ ~Schedule(m, k)
  <2>1. row' = row
    BY <1>4 DEF ReadStored
  <2>2. JobInv' /\ RightInv'
    BY <1>1, <2>1, CalmKeepsRights, UnchangedIsCalm
  <2>3. PICK ids : recovery' = [recovery EXCEPT ![m][k] =
                    [step |-> "stored", ids |-> ids, queued |-> {c \in Call : Queued(c)}]]
    BY <1>4 DEF ReadStored
  <2>4. /\ recovery'[m][k].step = "stored"
        /\ recovery'[m][k].queued = {c \in Call : Queued(c)}
        /\ \A n \in Main, l \in Cycle : n # m \/ l # k => recovery'[n][l] = recovery[n][l]
    BY <1>2, <2>3
  <2>5. SeenInv'
    BY <1>1, <2>4 DEF SeenInv, Queued
  <2>6. RecoverySparesQueued'
    BY <1>1, <2>4 DEF RecoverySparesQueued, Queued
  <2> QED BY <2>2, <2>5, <2>6 DEF RunInv
<1>5. CASE ReadQueue(m, k) /\ ~Schedule(m, k)
  <2> DEFINE x == recovery[m][k]
  <2>1. row' = row
    BY <1>5 DEF ReadQueue
  <2>2. JobInv' /\ RightInv'
    BY <1>1, <2>1, CalmKeepsRights, UnchangedIsCalm
  <2>3. recovery' = [recovery EXCEPT ![m][k].step = "marking", ![m][k].ids = x.ids \ QueuedIds]
    BY <1>5 DEF ReadQueue
  <2>4. x \in CycleRecord
    BY <1>2
  <2>5. recovery' = [recovery EXCEPT ![m] = [recovery[m] EXCEPT
                       ![k] = [x EXCEPT !.step = "marking", !.ids = x.ids \ QueuedIds]]]
    BY <1>2, <2>3
  <2>6. /\ recovery'[m][k].ids = x.ids \ QueuedIds
        /\ recovery'[m][k].queued = x.queued
        /\ \A n \in Main, l \in Cycle : n # m \/ l # k => recovery'[n][l] = recovery[n][l]
    BY <1>2, <2>4, <2>5 DEF CycleRecord
  <2>7. x.queued \subseteq Call
    BY <2>4 DEF CycleRecord
  <2>8. SeenInv'
    BY <1>1, <2>6 DEF SeenInv
  <2>9. RecoverySparesQueued'
    BY <1>1, <2>6, <2>7 DEF RecoverySparesQueued, Queued, QueuedIds
  <2> QED BY <2>2, <2>8, <2>9 DEF RunInv
<1> QED BY <1>3, <1>4, <1>5 DEF RecoverySteps, MarkAsCrashed, RecoveryFails

LEMMA ElsewhereKept ==
  ASSUME ScalingInv, NEW e \in Exec, ElsewhereStarts(e) \/ ElsewhereEnds(e)
  PROVE  RunInv'
<1> USE DEF ScalingInv
<1>1. UNCHANGED <<job, call, proc, recovery>>
  BY DEF ElsewhereStarts, ElsewhereEnds, elsewhereRest, mainVars, workerVars, recoveryVars
<1>2. RowsCalm
  BY DEF ElsewhereStarts, ElsewhereEnds, RowsCalm, TypesOK, CommonTypeOK
<1> QED BY <1>1, <1>2, CalmStep, UnchangedIsCalm DEF RunInv

LEMMA StartedKept ==
  ASSUME ScalingInv, Next
  PROVE  StartedInv'
<1> USE DEF ScalingInv
<1>1. ASSUME NEW m \in Main, NEW c \in Call, NEW e \in Exec, Run(m, c, e) \/ Resume(m, c, e)
      PROVE  started' = started
  BY <1>1 DEF Run, Resume, Added
<1>2. ASSUME NEW m \in Main, NEW e \in Exec, Stop(m, e) \/ StopDuringRun(m, e)
      PROVE  started' = started
  BY <1>2 DEF Stop, StopDuringRun
<1>3. ASSUME NEW c \in Call, RunSteps(c) \/ FailExecution(c) \/ EnqueueFails(c)
      PROVE  started' = started
  BY <1>3 DEF RunSteps, AddJob, FailExecutionEnds, Attach, WriteError, JobFailed, JobCompleted,
     AfterHook, StopJob, StopJobRemoves, JobFinishedArrives, FailExecution, EnqueueFails
<1>4. ASSUME NEW c \in Call, SetRunning(c)
      PROVE  StartedInv'
  <2>1. call[c].exec \in Exec
    BY <1>4 DEF SetRunning, ProcStepTo, JobInv
  <2> QED BY <1>4, <2>1 DEF SetRunning, StartedInv
<1>5. ASSUME NEW c \in Call,
             \/ ProcessSteps(c) \/ StartFails(c) \/ SaveProgress(c) \/ JobStalls(c)
             \/ \E status \in Ends : EngineEnds(c, status)
             \/ \E w \in Worker : Pick(w, c),
             ~SetRunning(c)
      PROVE  started' = started
  BY <1>5 DEF ProcessSteps, ReadExecution, Register, SaveRun, StopRunningJob, SaveCancelled,
     AbortedEnds, ReportRun, JobEnds, StartFails, SaveProgress, JobStalls, EngineEnds, Pick,
     workerRest
<1>6. ASSUME NEW w \in Worker,
             WorkerCrashes(w) \/ StopWorker(w) \/ WorkerExits(w) \/ WorkerStarts(w)
      PROVE  started' = started
  BY <1>6 DEF WorkerCrashes, WorkerExits, WorkerGoes, StopWorker, WorkerStarts, workerRest
<1>7. ASSUME NEW m \in Main, Takeover(m) \/ Stepdown(m) \/ MainCrashes(m) \/ MainStarts(m)
      PROVE  started' = started
  BY <1>7 DEF Takeover, Stepdown, MainCrashes, MainStarts, recoveryRest
<1>8. ASSUME NEW m \in Main, NEW k \in Cycle, RecoverySteps(m, k) \/ RecoveryFails(m, k)
      PROVE  started' = started
  BY <1>8 DEF RecoverySteps, ReadStored, ReadQueue, MarkAsCrashed, RecoveryFails, recoveryRest
<1>9. ASSUME NEW e \in Exec, ElsewhereStarts(e) \/ ElsewhereEnds(e)
      PROVE  StartedInv'
  BY <1>9 DEF ElsewhereStarts, ElsewhereEnds, StartedInv
<1>10. started' = started => StartedInv'
  BY DEF StartedInv
<1> QED BY <1>1, <1>2, <1>3, <1>4, <1>5, <1>6, <1>7, <1>8, <1>9, <1>10 DEF Next

LEMMA ScalingInvStep == ScalingInv /\ [Next]_vars => ScalingInv'
<1> SUFFICES ASSUME ScalingInv, [Next]_vars PROVE ScalingInv'
  OBVIOUS
<1>1. TypesOK'
  BY TypesStep DEF ScalingInv
<1>2. RunInv'
  <2>1. CASE UNCHANGED vars
    BY <2>1, CalmStep, UnchangedIsCalm DEF vars, mainVars, workerVars, recoveryVars, RunInv
  <2>2. CASE Next
    BY <2>2, RunKept, StopKept, ElsewhereKept, RunStepsKept, ProcessStepsKept, WorkerKept,
       LeaderKept, RecoveryKept DEF Next
  <2> QED BY <2>1, <2>2
<1>3. StartedInv'
  BY StartedKept DEF ScalingInv, StartedInv, vars
<1> QED BY <1>1, <1>2, <1>3 DEF ScalingInv, RunInv

LEMMA ScalingInvAlways == Spec => []ScalingInv
BY ScalingInvInit, ScalingInvStep, PTL DEF Spec

\* Types of rows, jobs, mains, workers and recovery cycles.
THEOREM ScalingTypeCorrect == Spec => []TypeOK
<1>1. ScalingInv => TypeOK
  BY TypesAreTypeOK DEF ScalingInv, StartedInv
<1> QED BY ScalingInvAlways, <1>1, PTL

\* An execution runs on one worker at a time, however it is stopped, stalled,
\* recovered and resumed: for any number of workers, mains, calls and faults.
THEOREM SingleRunnerAlways == Spec => []SingleRunner
BY ScalingInvAlways, ScalingInvIsSafe, PTL

\* A recovery cycle never marks an execution whose job was in the queue at both
\* of its reads and still is, whatever the batch size and the number of cycles.
THEOREM RecoveryAlwaysSparesQueued == Spec => []RecoverySparesQueued
<1>1. ScalingInv => RecoverySparesQueued
  BY DEF ScalingInv
<1> QED BY ScalingInvAlways, <1>1, PTL
=============================================================================

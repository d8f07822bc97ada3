----------------------------- MODULE WaitTracker -----------------------------
(***************************************************************************)
(* The timers of waiting executions (packages/cli/src/wait-tracker.ts) on   *)
(* the mains of LeaderElection: started and stopped at startup, shutdown    *)
(* and when leadership changes, provided that the event handlers are        *)
(* already registered (commands/start.ts registers them last).              *)
(***************************************************************************)
EXTENDS LeaderElection

CONSTANTS
  Exec,        \* executions that are due within the poll's 70 seconds
  MaxChildren  \* bound on the sub-workflows that complete, per main and parent

ASSUME TrackerAssumption == MaxChildren \in Nat

\* The timeouts a main can have armed for one execution, told apart as
\* clearTimeout tells them apart.
Timeout == 1 .. MaxChildren + 1
NoTimeout == 0

VARIABLES
  mainTimer,  \* mains whose current poll interval runs
  leaked,     \* mains with an earlier interval that nothing clears any more
  poll,       \* getWaitingExecutions: not running, called, or holding rows
  found,      \* those rows
  entries,    \* waitingExecutions: the timeout that each entry holds
  timers,     \* the timeouts of each execution that are armed
  resuming,   \* startExecution has been called, run() has not claimed the row
  stopping,   \* ExecutionService.stop is about to write the row
  children,   \* counts the sub-workflows whose completion resumed the parent
  db          \* the status column

trackerVars == <<mainTimer, leaked, poll, found, entries, timers, resuming, stopping,
                 children>>
vars == <<electionVars, trackerVars, db>>

Init ==
  /\ ElectionInit
  /\ mainTimer = {} /\ leaked = {}
  /\ poll = [m \in Main |-> "none"]
  /\ found = [m \in Main |-> {}]
  /\ entries = [m \in Main |-> [e \in Exec |-> NoTimeout]]
  /\ timers = [m \in Main |-> [e \in Exec |-> {}]]
  /\ resuming = [m \in Main |-> {}]
  /\ stopping = [m \in Main |-> {}]
  /\ children = [m \in Main |-> [e \in Exec |-> 0]]
  /\ db = [e \in Exec |-> "waiting"]

-----------------------------------------------------------------------------
(* Starting and stopping to track.                                          *)

\* startTracking: a new interval in the field mainTimer, and a first poll.
StartTracking(m) ==
  /\ leaked' = IF m \in mainTimer THEN leaked \cup {m} ELSE leaked
  /\ mainTimer' = mainTimer \cup {m}
  /\ poll' = [poll EXCEPT ![m] = IF @ = "none" THEN "called" ELSE @]
  /\ UNCHANGED <<found, entries, timers, resuming, stopping, children>>

\* stopTracking clears the interval and the timeout of every entry.
StopTracking(m) ==
  /\ mainTimer' = mainTimer \ {m}
  /\ timers' = [timers EXCEPT ![m] = [e \in Exec |-> @[e] \ {entries[m][e]}]]
  /\ UNCHANGED <<leaked, poll, found, entries, resuming, stopping, children>>

\* The handlers of leader-takeover and leader-stepdown are registered.
HandlesEvents(m) == proc[m] \in {"up", "stopping", "closing"}

\* A step of the election, and what the tracker does on the event it emits.
Elects(m) ==
  /\ ElectionStep(m)
  /\ IF HandlesEvents(m) /\ role[m] = "follower" /\ role'[m] = "leader"
     THEN StartTracking(m)
     ELSE IF HandlesEvents(m) /\ role[m] = "leader" /\ role'[m] = "follower"
     THEN StopTracking(m)
     ELSE UNCHANGED trackerVars
  /\ UNCHANGED db

\* WaitTracker.init.
InitTracker(m) ==
  /\ Proceeds(m, "boot", "ready")
  /\ IF role[m] = "leader" THEN StartTracking(m) ELSE UNCHANGED trackerVars
  /\ UNCHANGED db

\* MultiMainSetup.registerEventHandlers, after several other services.
RegisterEventHandlers(m) ==
  /\ Proceeds(m, "ready", "up")
  /\ UNCHANGED <<trackerVars, db>>

\* stopProcess: stopTracking first, the election only afterwards.
StopProcess(m) ==
  /\ Proceeds(m, "up", "stopping")
  /\ StopTracking(m)
  /\ UNCHANGED db

\* Everything of the process is gone.
Ends(m) ==
  /\ ProcessEnds(m)
  /\ mainTimer' = mainTimer \ {m}
  /\ leaked' = leaked \ {m}
  /\ poll' = [poll EXCEPT ![m] = "none"]
  /\ found' = [found EXCEPT ![m] = {}]
  /\ entries' = [entries EXCEPT ![m] = [e \in Exec |-> NoTimeout]]
  /\ timers' = [timers EXCEPT ![m] = [e \in Exec |-> {}]]
  /\ resuming' = [resuming EXCEPT ![m] = {}]
  /\ stopping' = [stopping EXCEPT ![m] = {}]
  /\ children' = [children EXCEPT ![m] = [e \in Exec |-> 0]]
  /\ UNCHANGED db

-----------------------------------------------------------------------------
(* Polling and resuming.  (The model has one poll per main at a time.)      *)

Interval(m) ==
  /\ m \in mainTimer \cup leaked
  /\ poll[m] = "none"
  /\ poll' = [poll EXCEPT ![m] = "called"]
  /\ UNCHANGED <<electionVars, mainTimer, leaked, found, entries, timers,
                 resuming, stopping, children, db>>

GetWaitingExecutions(m) ==
  /\ poll[m] = "called"
  /\ poll' = [poll EXCEPT ![m] = "read"]
  /\ found' = [found EXCEPT ![m] = {e \in Exec : db[e] = "waiting"}]
  /\ UNCHANGED <<electionVars, mainTimer, leaked, entries, timers, resuming,
                 stopping, children, db>>

\* A new timeout takes the first number that no armed one has.
IsFirstFree(n, armed) == n \notin armed /\ 1 .. (n - 1) \subseteq armed

\* Each row found that has no entry gets an entry and a timeout.
SetTimers(m) ==
  LET new == {e \in found[m] : entries[m][e] = NoTimeout}
  IN /\ poll[m] = "read"
     /\ poll' = [poll EXCEPT ![m] = "none"]
     /\ found' = [found EXCEPT ![m] = {}]
     /\ \E id \in [new -> Timeout] :
          /\ \A e \in new : IsFirstFree(id[e], timers[m][e])
          /\ entries' = [entries EXCEPT ![m] =
               [e \in Exec |-> IF e \in new THEN id[e] ELSE @[e]]]
          /\ timers' = [timers EXCEPT ![m] =
               [e \in Exec |-> IF e \in new THEN @[e] \cup {id[e]} ELSE @[e]]]
     /\ UNCHANGED <<electionVars, mainTimer, leaked, resuming, stopping, children, db>>

\* Mutant of StartExecution: the entry stays.
StartExecutionKeepsEntry(m, e) ==
  /\ resuming' = [resuming EXCEPT ![m] = @ \cup {e}]
  /\ UNCHANGED <<electionVars, mainTimer, leaked, poll, found, entries, stopping, db>>

\* startExecution, up to its first await: the entry goes. Whatever timeout it
\* holds is not cleared.
StartExecution(m, e) ==
  /\ entries' = [entries EXCEPT ![m][e] = NoTimeout]
  /\ resuming' = [resuming EXCEPT ![m] = @ \cup {e}]
  /\ UNCHANGED <<electionVars, mainTimer, leaked, poll, found, stopping, db>>

\* A timeout fires, be it the one of the entry or not.
TimeoutFires(m, e, n) ==
  /\ n \in timers[m][e]
  /\ timers' = [timers EXCEPT ![m][e] = @ \ {n}]
  /\ StartExecution(m, e)
  /\ UNCHANGED children

\* A sub-workflow that was resumed or started here completes and resumes its
\* parent e, also when the parent already waits for something else.
ChildCompletes(m, e) ==
  /\ proc[m] \notin {"off", "init", "boot"}
  /\ children[m][e] < MaxChildren
  /\ children' = [children EXCEPT ![m][e] = @ + 1]
  /\ StartExecution(m, e)
  /\ UNCHANGED timers

\* run() claims the row, if it is still waiting (see ActiveExecutions).
RunClaims(m, e) ==
  /\ e \in resuming[m]
  /\ resuming' = [resuming EXCEPT ![m] = @ \ {e}]
  /\ db' = IF db[e] = "waiting" THEN [db EXCEPT ![e] = "running"] ELSE db
  /\ UNCHANGED <<electionVars, mainTimer, leaked, poll, found, entries, timers,
                 stopping, children>>

\* Others move the row: a waiting webhook or another process resumes it, the
\* execution goes on, waits again or ends.
RowMoves(e) ==
  /\ \/ db[e] = "waiting" /\ db' = [db EXCEPT ![e] = "running"]
     \/ db[e] = "running" /\ \E st \in {"waiting", "done"} : db' = [db EXCEPT ![e] = st]
  /\ UNCHANGED <<electionVars, trackerVars>>

-----------------------------------------------------------------------------
(* ExecutionService.stop on main m.                                         *)

\* Mutant of StopExecution: the timeout is not cleared.
StopExecutionForgets(m, e) ==
  /\ proc[m] = "up"
  /\ db[e] \in {"waiting", "running"}
  /\ entries' = [entries EXCEPT ![m][e] = NoTimeout]
  /\ stopping' = [stopping EXCEPT ![m] = @ \cup {e}]
  /\ UNCHANGED <<electionVars, mainTimer, leaked, poll, found, timers, resuming,
                 children, db>>

\* A timeout is found, and cleared, through the entry only.
StopExecution(m, e) ==
  /\ proc[m] = "up"
  /\ db[e] \in {"waiting", "running"}
  /\ timers' = [timers EXCEPT ![m][e] = @ \ {entries[m][e]}]
  /\ entries' = [entries EXCEPT ![m][e] = NoTimeout]
  /\ stopping' = [stopping EXCEPT ![m] = @ \cup {e}]
  /\ UNCHANGED <<electionVars, mainTimer, leaked, poll, found, resuming, children, db>>

StopDuringRun(m, e) ==
  /\ e \in stopping[m]
  /\ stopping' = [stopping EXCEPT ![m] = @ \ {e}]
  /\ db' = [db EXCEPT ![e] = "canceled"]
  /\ UNCHANGED <<electionVars, mainTimer, leaked, poll, found, entries, timers,
                 resuming, children>>

-----------------------------------------------------------------------------
Polls(m) == Interval(m) \/ GetWaitingExecutions(m) \/ SetTimers(m)

TrackerStep(m) ==
  \/ InitTracker(m) \/ RegisterEventHandlers(m) \/ Polls(m)
  \/ \E e \in Exec : \/ RunClaims(m, e) \/ StopDuringRun(m, e)
                     \/ \E n \in Timeout : TimeoutFires(m, e, n)

Next ==
  \/ \E m \in Main : Elects(m) \/ TrackerStep(m) \/ StopProcess(m) \/ Ends(m)
  \/ \E m \in Main, e \in Exec : StopExecution(m, e) \/ ChildCompletes(m, e)
  \/ \E e \in Exec : RowMoves(e)

Spec == Init /\ [][Next]_vars

\* Redis executes what it is sent and drops keys that nobody renews; answers
\* arrive; intervals, timeouts and database calls come to pass. Nothing is
\* assumed of starts, of the end of processes, of users, of
\* sub-workflows and of other resumers.
Fairness ==
  \A m \in Main :
    /\ WF_vars(RedisExecutes(m) /\ Elects(m))
    /\ WF_vars(~Checking(m) /\ KeyExpires(m) /\ Elects(m))
    /\ WF_vars(AnswerStep(m) /\ Elects(m))
    /\ WF_vars(CheckLeader(m) /\ Elects(m))
    /\ WF_vars(Polls(m))
    /\ \A e \in Exec : /\ \A n \in Timeout : WF_vars(TimeoutFires(m, e, n))
                       /\ WF_vars(RunClaims(m, e))
                       /\ WF_vars(StopDuringRun(m, e))

FairSpec == Spec /\ Fairness

-----------------------------------------------------------------------------
(* Correctness properties.                                                  *)

\* Type invariant of mains, key and trackers.
TypeOK ==
  /\ ElectionTypeOK
  /\ mainTimer \subseteq Main /\ leaked \subseteq Main
  /\ poll \in [Main -> {"none", "called", "read"}]
  /\ found \in [Main -> SUBSET Exec]
  /\ entries \in [Main -> [Exec -> Timeout \cup {NoTimeout}]]
  /\ timers \in [Main -> [Exec -> SUBSET Timeout]]
  /\ resuming \in [Main -> SUBSET Exec]
  /\ stopping \in [Main -> SUBSET Exec]
  /\ children \in [Main -> [Exec -> 0 .. MaxChildren]]
  /\ db \in [Exec -> {"waiting", "running", "done", "canceled"}]

\* Timeouts that stop and stepdown cannot reach: no entry holds them.
Lost(m, e) == timers[m][e] \ {entries[m][e]}

\* The completion of a sub-workflow is the only way to lose a timeout, and it
\* loses one at most: whatever polls, stops, takeovers and stepdowns are under
\* way, an execution has no more lost timeouts than sub-workflows completed.
OnlyChildrenLoseTimeouts ==
  \A m \in Main, e \in Exec : Cardinality(Lost(m, e)) <= children[m][e]

\* As long as leadership is not disturbed, a waiting execution is resumed while
\* some main polls, also one that was resumed and waits again.
WaitingIsResumed ==
  \A e \in Exec :
    db[e] = "waiting" ~>
      db[e] # "waiting" \/ mainTimer = {} \/ lapses + faults > 0

\* 'leader-takeover' is "Emitted when this instance gains leadership. In
\* response, its various services will start [...] wait-tracking": a leader
\* that has started up polls for waiting executions.
LeaderTracks ==
  \A m \in Main : proc[m] = "up" /\ role[m] = "leader" => m \in mainTimer \cup leaked

\* "Add timers for each waiting execution that they get started at the correct
\* time" (getWaitingExecutions): a leader that polls has a timeout for every
\* execution it has an entry for.
EntriesHaveTimers ==
  \A m \in Main :
    proc[m] = "up" /\ role[m] = "leader" /\ m \in mainTimer
      => \A e \in Exec : entries[m][e] = NoTimeout \/ entries[m][e] \in timers[m][e]

\* stopExecution and stopTracking clear timeouts of entries only, as if every
\* armed timeout had its entry.
TimersHaveEntries ==
  \A m \in Main, e \in Exec : Lost(m, e) = {}
=============================================================================

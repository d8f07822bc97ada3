---------------------------- MODULE LeaderElection ----------------------------
(***************************************************************************)
(* Which of several main processes is the leader: MultiMainSetup and        *)
(* LeaderElectionClient (packages/cli/src/scaling) over one Redis key with  *)
(* a time to live, from a main's start to its shutdown.                     *)
(*                                                                         *)
(* A command is sent, executed by Redis and answered at three moments. The  *)
(* commands of one connection are executed in order. A command whose answer *)
(* does not come in time (commandTimeout) fails for its sender, but may     *)
(* have been executed or be executed later.                                 *)
(***************************************************************************)
EXTENDS Integers, Sequences, FiniteSets

CONSTANTS
  Main,        \* hostIds; a container keeps its id when it starts again
  NoMain,
  MaxStarts,   \* bound on the starts of processes
  MaxFaults,   \* bound on the commands that fail
  MaxLapses    \* bound on the leases that run out while their holder lives

ASSUME ElectionAssumption ==
  /\ NoMain \notin Main
  /\ MaxStarts \in Nat /\ MaxFaults \in Nat /\ MaxLapses \in Nat

VARIABLES
  key,         \* the leader key in Redis
  proc,        \* how far each process has come
  role,        \* instanceSettings.instanceRole
  wire,        \* commands sent and not yet executed
  await,       \* the answer that init or a leader check waits for
  reply,       \* that answer, once Redis has given it
  starts, faults, lapses

electionVars == <<key, proc, role, wire, await, reply, starts, faults, lapses>>

-----------------------------------------------------------------------------
Command == {"set", "renew", "get", "del"}
Await == {"none", "init", "renew", "reclaim", "get", "claim"}
Reply == {"none", "ok", "taken", "missing", "other", "self", "vacant"}

\* init: MultiMainSetup.init has not returned; boot: the wait tracker is not
\* initialised; ready: it is, event handlers are not registered; up; stopping:
\* stopProcess has begun; closing: the key is being cleared; closed: the Redis
\* client is destroyed.
Proc == {"off", "init", "boot", "ready", "up", "stopping", "closing", "closed"}

\* The leader check interval is running.
Checking(m) == proc[m] \in {"boot", "ready", "up", "stopping"}

\* m acts as the leader.
Leads(m) == Checking(m) /\ role[m] = "leader"

ElectionInit ==
  /\ key = NoMain
  /\ proc = [m \in Main |-> "off"]
  /\ role = [m \in Main |-> "unset"]
  /\ wire = [m \in Main |-> <<>>]
  /\ await = [m \in Main |-> "none"]
  /\ reply = [m \in Main |-> "none"]
  /\ starts = 0 /\ faults = 0 /\ lapses = 0

-----------------------------------------------------------------------------
(* Redis.                                                                   *)

\* The key after command c of main m: SET NX, DEL, or no change.
KeyAfter(c, m) ==
  CASE c = "set" -> IF key = NoMain THEN m ELSE key
    [] c = "del" -> NoMain
    [] OTHER -> key

\* Mutant of AnswerTo: a renewal answers what the client does not expect.
AnswerToUnexpected(c, m) ==
  CASE c = "set" -> IF key = NoMain THEN "ok" ELSE "taken"
    [] c = "renew" -> IF key = m THEN "renewed" ELSE IF key = NoMain THEN "missing" ELSE "other"
    [] c = "get" -> IF key = m THEN "self" ELSE IF key = NoMain THEN "vacant" ELSE "other"
    [] c = "del" -> "ok"

\* The answer to command c of main m.
AnswerTo(c, m) ==
  CASE c = "set" -> IF key = NoMain THEN "ok" ELSE "taken"
    [] c = "renew" -> IF key = m THEN "ok" ELSE IF key = NoMain THEN "missing" ELSE "other"
    [] c = "get" -> IF key = m THEN "self" ELSE IF key = NoMain THEN "vacant" ELSE "other"
    [] c = "del" -> "ok"

\* The head of m's commands is the one init or the check waits for: that is
\* the last one sent but for shutdown's DEL.
HeadAwaited(m) ==
  /\ await[m] # "none" /\ reply[m] = "none"
  /\ Head(wire[m]) # "del"
  /\ \A i \in 2 .. Len(wire[m]) : wire[m][i] = "del"

RedisExecutes(m) ==
  /\ wire[m] # <<>>
  /\ key' = KeyAfter(Head(wire[m]), m)
  /\ reply' = IF HeadAwaited(m)
              THEN [reply EXCEPT ![m] = AnswerTo(Head(wire[m]), m)] ELSE reply
  /\ wire' = [wire EXCEPT ![m] = Tail(@)]
  /\ UNCHANGED <<proc, role, await, starts, faults, lapses>>

\* The key's time to live is over. A holder that renews it is late (its event
\* loop was blocked, or Redis was out of reach); of a holder that is gone, all
\* commands have long arrived.
KeyExpires(m) ==
  /\ key = m
  /\ \/ (Checking(m) \/ proc[m] = "init") /\ lapses < MaxLapses /\ lapses' = lapses + 1
     \/ ~(Checking(m) \/ proc[m] = "init") /\ wire[m] = <<>> /\ UNCHANGED lapses
  /\ key' = NoMain
  /\ UNCHANGED <<proc, role, wire, await, reply, starts, faults>>

-----------------------------------------------------------------------------
(* The client: commands and their answers.                                  *)

\* m sends command c, and what it waits for is w.
Send(m, c, w) ==
  /\ wire' = [wire EXCEPT ![m] = Append(@, c)]
  /\ await' = [await EXCEPT ![m] = w]

\* What m waited for as w is answered by a, or fails.
Answered(m, w, a) ==
  /\ await[m] = w
  /\ \/ a # "none" /\ a = reply[m] /\ UNCHANGED faults
     \/ a = "error" /\ faults < MaxFaults /\ faults' = faults + 1
  /\ reply' = [reply EXCEPT ![m] = "none"]
  /\ UNCHANGED <<key, starts, lapses>>

Answer == Reply \cup {"error"}

\* The check is over and leaves m in role x.
CheckEnds(m, x) ==
  /\ await' = [await EXCEPT ![m] = "none"]
  /\ role' = [role EXCEPT ![m] = x]
  /\ UNCHANGED <<proc, wire>>

-----------------------------------------------------------------------------
(* MultiMainSetup.                                                          *)

\* A process starts and gets as far as init's attempt to set the key.
Start(m) ==
  /\ proc[m] = "off" /\ wire[m] = <<>>
  /\ starts < MaxStarts
  /\ starts' = starts + 1
  /\ proc' = [proc EXCEPT ![m] = "init"]
  /\ Send(m, "set", "init")
  /\ UNCHANGED <<key, role, reply, faults, lapses>>

InitAnswered(m) ==
  \E a \in Answer :
    /\ Answered(m, "init", a)
    /\ role' = [role EXCEPT ![m] = IF a = "ok" THEN "leader" ELSE "follower"]
    /\ proc' = [proc EXCEPT ![m] = "boot"]
    /\ await' = [await EXCEPT ![m] = "none"]
    /\ UNCHANGED wire

\* Mutant of CheckLeader: a leader does not renew.
CheckLeaderFollowersOnly(m) ==
  /\ Checking(m) /\ await[m] = "none"
  /\ role[m] = "follower"
  /\ Send(m, "get", "get")
  /\ UNCHANGED <<key, proc, role, reply, starts, faults, lapses>>

\* The interval: a check is skipped while the previous one is in progress.
CheckLeader(m) ==
  /\ Checking(m) /\ await[m] = "none"
  /\ IF role[m] = "leader" THEN Send(m, "renew", "renew") ELSE Send(m, "get", "get")
  /\ UNCHANGED <<key, proc, role, reply, starts, faults, lapses>>

\* checkAreWeStillLeader. A failed command changes nothing; a missing key is
\* claimed again.
RenewAnswered(m) ==
  \E a \in Answer :
    /\ Answered(m, "renew", a)
    /\ IF a = "missing"
       THEN Send(m, "set", "reclaim") /\ UNCHANGED <<proc, role>>
       ELSE CheckEnds(m, IF a = "other" THEN "follower" ELSE role[m])

ReclaimAnswered(m) ==
  \E a \in Answer :
    /\ Answered(m, "reclaim", a)
    /\ CheckEnds(m, IF a = "ok" THEN "leader" ELSE "follower")

\* Mutant of GetAnswered: a vacant leadership is taken without setting the key.
GetAnsweredUnclaimed(m) ==
  \E a \in Answer :
    /\ Answered(m, "get", a)
    /\ CheckEnds(m, IF a \in {"self", "vacant"} THEN "leader" ELSE role[m])

\* Mutant of GetAnswered: a key with the own hostId is taken for another's.
GetAnsweredNoMismatch(m) ==
  \E a \in Answer :
    /\ Answered(m, "get", a)
    /\ IF a = "vacant"
       THEN Send(m, "set", "claim") /\ UNCHANGED <<proc, role>>
       ELSE CheckEnds(m, role[m])

\* checkCanBecomeLeader. The key may carry the own hostId already (mismatch).
GetAnswered(m) ==
  \E a \in Answer :
    /\ Answered(m, "get", a)
    /\ IF a = "vacant"
       THEN Send(m, "set", "claim") /\ UNCHANGED <<proc, role>>
       ELSE CheckEnds(m, IF a = "self" THEN "leader" ELSE role[m])

ClaimAnswered(m) ==
  \E a \in Answer :
    /\ Answered(m, "claim", a)
    /\ CheckEnds(m, IF a = "ok" THEN "leader" ELSE role[m])

-----------------------------------------------------------------------------
(* The process ends.                                                        *)

\* What is on the wire of m when its connection goes is lost or arrives.
WireCut(m) == \E w \in {<<>>, wire[m]} : wire' = [wire EXCEPT ![m] = w]

\* client.destroy() rejects what a check in progress waits for: a leader that
\* was claiming the key again steps down.
Destroyed(m) ==
  /\ proc' = [proc EXCEPT ![m] = "closed"]
  /\ role' = IF await[m] = "reclaim" THEN [role EXCEPT ![m] = "follower"] ELSE role
  /\ await' = [await EXCEPT ![m] = "none"]
  /\ reply' = [reply EXCEPT ![m] = "none"]

\* shutdown: the leader clears the key, whoever holds it by then.
Shutdown(m) ==
  /\ proc[m] = "stopping"
  /\ IF role[m] = "leader"
     THEN /\ proc' = [proc EXCEPT ![m] = "closing"]
          /\ wire' = [wire EXCEPT ![m] = Append(@, "del")]
          /\ UNCHANGED <<role, await, reply>>
     ELSE Destroyed(m) /\ WireCut(m)
  /\ UNCHANGED <<key, starts, faults, lapses>>

\* The key is cleared, or the command failed.
Cleared(m) ==
  /\ proc[m] = "closing"
  /\ IF \E i \in DOMAIN wire[m] : wire[m][i] = "del"
     THEN faults < MaxFaults /\ faults' = faults + 1
     ELSE UNCHANGED faults
  /\ Destroyed(m) /\ WireCut(m)
  /\ UNCHANGED <<key, starts, lapses>>

\* The process exits, or crashes at any moment.
ProcessEnds(m) ==
  /\ proc[m] # "off"
  /\ proc' = [proc EXCEPT ![m] = "off"]
  /\ role' = [role EXCEPT ![m] = "unset"]
  /\ await' = [await EXCEPT ![m] = "none"]
  /\ reply' = [reply EXCEPT ![m] = "none"]
  /\ WireCut(m)
  /\ UNCHANGED <<key, starts, faults, lapses>>

\* The startup goes on in other services.
Proceeds(m, from, to) ==
  /\ proc[m] = from
  /\ proc' = [proc EXCEPT ![m] = to]
  /\ UNCHANGED <<key, role, wire, await, reply, starts, faults, lapses>>

-----------------------------------------------------------------------------
AnswerStep(m) ==
  InitAnswered(m) \/ RenewAnswered(m) \/ ReclaimAnswered(m) \/ GetAnswered(m)
    \/ ClaimAnswered(m)

ElectionStep(m) ==
  \/ RedisExecutes(m) \/ KeyExpires(m)
  \/ Start(m) \/ CheckLeader(m) \/ AnswerStep(m) \/ Shutdown(m) \/ Cleared(m)

\* The startup and shutdown of everything else, for the election on its own.
Startup(m) == Proceeds(m, "boot", "ready") \/ Proceeds(m, "ready", "up")

ElectionNext ==
  \E m \in Main :
    ElectionStep(m) \/ Startup(m) \/ Proceeds(m, "up", "stopping") \/ ProcessEnds(m)

\* Redis executes what it is sent and drops keys that nobody renews; answers
\* arrive and the interval ticks. Nothing is assumed of starts, of the end of
\* processes and of living leases.
ElectionFairness ==
  \A m \in Main :
    /\ WF_electionVars(RedisExecutes(m))
    /\ WF_electionVars(~Checking(m) /\ KeyExpires(m))
    /\ WF_electionVars(AnswerStep(m))
    /\ WF_electionVars(CheckLeader(m))

ElectionSpec == ElectionInit /\ [][ElectionNext]_electionVars /\ ElectionFairness

ElectionTypeOK ==
  /\ key \in Main \cup {NoMain}
  /\ proc \in [Main -> Proc]
  /\ role \in [Main -> {"unset", "leader", "follower"}]
  /\ wire \in [Main -> Seq(Command)]
  /\ await \in [Main -> Await]
  /\ reply \in [Main -> Reply]
  /\ starts \in Nat /\ faults \in Nat /\ lapses \in Nat

-----------------------------------------------------------------------------
(* Correctness properties.                                                  *)

\* At most one main leads as long as no lease runs out under a living holder
\* and no command fails: claims, mismatch recovery, restarts under the same
\* hostId and the shutdown of a leader never make a second one.
OneLeader ==
  lapses = 0 /\ faults = 0 => \A m, n \in Main : Leads(m) /\ Leads(n) => m = n

\* "For now we accept that this might cause some inconsistencies [...] but
\* eventually the system will recover" (checkAreWeStillLeader): who leads
\* without the key steps down, or gets the key back.
SplitBrainEnds ==
  \A m \in Main : Leads(m) /\ key # m ~> ~Leads(m) \/ key = m

\* While a main is running, there comes a leader that holds the key, however
\* the last one went.
LeaderEmerges ==
  (\E m \in Main : Checking(m)) ~>
    \/ \E m \in Main : Leads(m) /\ key = m
    \/ \A m \in Main : ~Checking(m)
=============================================================================

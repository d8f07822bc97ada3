---------------------------- MODULE ElectionProofs ----------------------------
(***************************************************************************)
(* Proofs about the leader election and the wait tracker that follows it:  *)
(* there is one leader as long as no lease runs out and no command fails,  *)
(* and no more timeouts of a waiting execution escape their entry than      *)
(* sub-workflows of it complete.                                           *)
(*                                                                         *)
(* OneLeader is not inductive. What makes it true is the key: who leads    *)
(* holds it, who has been told so but has not read the answer holds it too,*)
(* and a leader that shuts down still holds it while its DEL is on the wire,*)
(* so that the DEL of a former leader never hits the key of a new one.     *)
(***************************************************************************)
EXTENDS WaitTracker, FiniteSetTheorems, TLAPS

\* A DEL of m has been sent and not been executed.
Clears(m) == \E i \in DOMAIN wire[m] : wire[m][i] = "del"

\* There is at most one such DEL.
ClearsOnce(m) ==
  \A i, j \in DOMAIN wire[m] : wire[m][i] = "del" /\ wire[m][j] = "del" => i = j

\* A process that is off waits for nothing, init's answer is read by a process
\* that is in init, and only a main in shutdown clears the key, once.
ProcessInv ==
  \A m \in Main :
    /\ proc[m] = "off" => await[m] = "none" /\ reply[m] = "none"
    /\ await[m] = "init" => proc[m] = "init"
    /\ Clears(m) => proc[m] \in {"closing", "closed", "off"}
    /\ ClearsOnce(m)

\* m leads, is about to learn that it does, or is about to clear the key.
Holds(m) ==
  \/ Leads(m)
  \/ (Checking(m) \/ proc[m] = "init") /\ reply[m] \in {"ok", "self"}
  \/ Clears(m)

KeyInv == lapses = 0 /\ faults = 0 => \A m \in Main : Holds(m) => key = m

ElectionInv == ElectionTypeOK /\ ProcessInv /\ KeyInv

-----------------------------------------------------------------------------
(* Types.                                                                   *)

LEMMA ElectionTypeInit == ElectionInit => ElectionTypeOK
BY DEF ElectionInit, ElectionTypeOK, Proc, Await, Reply

LEMMA SendTyped ==
  ASSUME ElectionTypeOK, NEW m \in Main, NEW c \in Command, NEW w \in Await,
         Send(m, c, w)
  PROVE  wire' \in [Main -> Seq(Command)] /\ await' \in [Main -> Await]
BY DEF ElectionTypeOK, Send

LEMMA WireCutTyped ==
  ASSUME ElectionTypeOK, NEW m \in Main, WireCut(m)
  PROVE  wire' \in [Main -> Seq(Command)]
<1>1. PICK w \in {<<>>, wire[m]} : wire' = [wire EXCEPT ![m] = w]
  BY DEF WireCut
<1>2. <<>> \in Seq(Command) /\ wire[m] \in Seq(Command)
  BY DEF ElectionTypeOK
<1> QED BY <1>1, <1>2 DEF ElectionTypeOK

LEMMA AnsweredTyped ==
  ASSUME ElectionTypeOK, NEW m \in Main, NEW w \in Await, NEW a \in Answer,
         Answered(m, w, a)
  PROVE  /\ key' = key /\ starts' = starts /\ lapses' = lapses
         /\ faults' \in Nat /\ reply' \in [Main -> Reply]
BY DEF ElectionTypeOK, Answered, Reply

LEMMA CheckEndsTyped ==
  ASSUME ElectionTypeOK, NEW m \in Main, NEW x \in {"unset", "leader", "follower"},
         CheckEnds(m, x)
  PROVE  /\ await' \in [Main -> Await]
         /\ role' \in [Main -> {"unset", "leader", "follower"}]
         /\ proc' = proc /\ wire' = wire
BY DEF ElectionTypeOK, CheckEnds, Await

LEMMA DestroyedTyped ==
  ASSUME ElectionTypeOK, NEW m \in Main, Destroyed(m)
  PROVE  /\ proc' \in [Main -> Proc]
         /\ role' \in [Main -> {"unset", "leader", "follower"}]
         /\ await' \in [Main -> Await]
         /\ reply' \in [Main -> Reply]
<1>1. proc' \in [Main -> Proc] /\ await' \in [Main -> Await] /\ reply' \in [Main -> Reply]
  BY DEF ElectionTypeOK, Destroyed, Proc, Await, Reply
<1>2. role' \in [Main -> {"unset", "leader", "follower"}]
  BY DEF ElectionTypeOK, Destroyed
<1> QED BY <1>1, <1>2

LEMMA ElectionTypeStep ==
  ASSUME ElectionTypeOK, NEW m \in Main,
         \/ ElectionStep(m) \/ ProcessEnds(m)
         \/ \E from, to \in Proc : Proceeds(m, from, to)
  PROVE  ElectionTypeOK'
<1> USE DEF ElectionTypeOK
<1>1. CASE RedisExecutes(m)
  <2>1. Head(wire[m]) \in Command /\ Tail(wire[m]) \in Seq(Command)
    BY <1>1 DEF RedisExecutes
  <2>2. key' \in Main \cup {NoMain}
    BY <1>1, <2>1 DEF RedisExecutes, KeyAfter, Command
  <2>3. AnswerTo(Head(wire[m]), m) \in Reply
    BY <2>1 DEF AnswerTo, Command, Reply
  <2> QED BY <1>1, <2>1, <2>2, <2>3 DEF RedisExecutes
<1>2. CASE KeyExpires(m)
  BY <1>2 DEF KeyExpires
<1>3. CASE Start(m)
  BY <1>3, SendTyped DEF Start, Command, Await, Proc
<1>4. CASE CheckLeader(m)
  BY <1>4, SendTyped DEF CheckLeader, Command, Await
<1>5. CASE AnswerStep(m)
  <2>1. CASE InitAnswered(m)
    BY <2>1 DEF InitAnswered, Answered, Await, Reply, Proc
  <2>2. CASE RenewAnswered(m)
    <3>1. PICK a \in Answer :
            /\ Answered(m, "renew", a)
            /\ IF a = "missing"
               THEN Send(m, "set", "reclaim") /\ UNCHANGED <<proc, role>>
               ELSE CheckEnds(m, IF a = "other" THEN "follower" ELSE role[m])
      BY <2>2 DEF RenewAnswered
    <3>2. /\ key' = key /\ starts' = starts /\ lapses' = lapses
          /\ faults' \in Nat /\ reply' \in [Main -> Reply]
      BY <3>1, AnsweredTyped DEF Await
    <3>3. CASE a = "missing"
      BY <3>1, <3>2, <3>3, SendTyped DEF Command, Await
    <3>4. CASE a # "missing"
      BY <3>1, <3>2, <3>4, CheckEndsTyped
    <3> QED BY <3>3, <3>4
  <2>3. CASE ReclaimAnswered(m)
    BY <2>3 DEF ReclaimAnswered, Answered, CheckEnds, Await, Reply
  <2>4. CASE GetAnswered(m)
    <3>1. PICK a \in Answer :
            /\ Answered(m, "get", a)
            /\ IF a = "vacant"
               THEN Send(m, "set", "claim") /\ UNCHANGED <<proc, role>>
               ELSE CheckEnds(m, IF a = "self" THEN "leader" ELSE role[m])
      BY <2>4 DEF GetAnswered
    <3>2. /\ key' = key /\ starts' = starts /\ lapses' = lapses
          /\ faults' \in Nat /\ reply' \in [Main -> Reply]
      BY <3>1, AnsweredTyped DEF Await
    <3>3. CASE a = "vacant"
      BY <3>1, <3>2, <3>3, SendTyped DEF Command, Await
    <3>4. CASE a # "vacant"
      BY <3>1, <3>2, <3>4, CheckEndsTyped
    <3> QED BY <3>3, <3>4
  <2>5. CASE ClaimAnswered(m)
    BY <2>5 DEF ClaimAnswered, Answered, CheckEnds, Await, Reply
  <2> QED BY <1>5, <2>1, <2>2, <2>3, <2>4, <2>5 DEF AnswerStep
<1>6. CASE Shutdown(m)
  <2>1. CASE role[m] = "leader"
    <3>1. wire' \in [Main -> Seq(Command)]
      <4>1. wire' = [wire EXCEPT ![m] = Append(wire[m], "del")]
        BY <1>6, <2>1 DEF Shutdown
      <4>2. Append(wire[m], "del") \in Seq(Command)
        BY DEF Command
      <4> QED BY <4>1, <4>2
    <3>2. proc' \in [Main -> Proc]
      BY <1>6, <2>1 DEF Shutdown, Proc
    <3> QED BY <1>6, <2>1, <3>1, <3>2 DEF Shutdown
  <2>2. CASE role[m] # "leader"
    BY <1>6, <2>2, DestroyedTyped, WireCutTyped DEF Shutdown
  <2> QED BY <2>1, <2>2
<1>7. CASE Cleared(m)
  <2>1. faults' \in Nat
    <3>1. CASE Clears(m)
      BY <1>7, <3>1 DEF Cleared, Clears
    <3>2. CASE ~Clears(m)
      BY <1>7, <3>2 DEF Cleared, Clears
    <3> QED BY <3>1, <3>2
  <2> QED BY <1>7, <2>1, DestroyedTyped, WireCutTyped DEF Cleared
<1>8. CASE ProcessEnds(m)
  BY <1>8, WireCutTyped DEF ProcessEnds, Proc, Await, Reply
<1>9. CASE \E from, to \in Proc : Proceeds(m, from, to)
  BY <1>9 DEF Proceeds
<1> QED BY <1>1, <1>2, <1>3, <1>4, <1>5, <1>6, <1>7, <1>8, <1>9 DEF ElectionStep

-----------------------------------------------------------------------------
(* DELs on the wire.                                                        *)

LEMMA ClearsSent ==
  ASSUME ElectionTypeOK, NEW m \in Main, NEW c \in Command \ {"del"},
         wire' = [wire EXCEPT ![m] = Append(@, c)], NEW n \in Main
  PROVE  /\ Clears(n)' => Clears(n)
         /\ ClearsOnce(n) => ClearsOnce(n)'
<1>1. wire[m] \in Seq(Command)
  BY DEF ElectionTypeOK
<1>2. CASE n # m
  BY <1>2 DEF ElectionTypeOK, Clears, ClearsOnce
<1>3. CASE n = m
  <2>1. wire'[n] = Append(wire[n], c)
    BY <1>3 DEF ElectionTypeOK
  <2>2. \A i \in DOMAIN wire'[n] : wire'[n][i] = "del" => i \in DOMAIN wire[n] /\ wire[n][i] = "del"
    BY <1>1, <1>3, <2>1
  <2> QED BY <2>2 DEF Clears, ClearsOnce
<1> QED BY <1>2, <1>3

LEMMA TailIndex ==
  ASSUME NEW S, NEW s \in Seq(S), s # <<>>, NEW i \in DOMAIN Tail(s)
  PROVE  i \in 1 .. Len(s) /\ i + 1 \in DOMAIN s /\ Tail(s)[i] = s[i + 1]
<1>1. Len(Tail(s)) = Len(s) - 1 /\ Tail(s) \in Seq(S) /\ Len(s) \in Nat
  OBVIOUS
<1>2. i \in 1 .. Len(s) - 1
  BY <1>1
<1> QED BY <1>1, <1>2

LEMMA ClearsExecuted ==
  ASSUME ElectionTypeOK, NEW m \in Main, RedisExecutes(m), NEW n \in Main
  PROVE  /\ Clears(n)' => Clears(n)
         /\ ClearsOnce(n) => ClearsOnce(n)'
         /\ n = m /\ Head(wire[m]) = "del" => Clears(n) /\ (ClearsOnce(n) => ~Clears(n)')
<1>1. wire[m] \in Seq(Command) /\ wire[m] # <<>> /\ wire' = [wire EXCEPT ![m] = Tail(@)]
  BY DEF ElectionTypeOK, RedisExecutes
<1>2. CASE n # m
  BY <1>1, <1>2 DEF ElectionTypeOK, Clears, ClearsOnce
<1>3. CASE n = m
  <2>1. wire'[n] = Tail(wire[n])
    BY <1>1, <1>3 DEF ElectionTypeOK
  <2>2. \A i \in DOMAIN wire'[n] :
          i + 1 \in DOMAIN wire[n] /\ i \in 1 .. Len(wire[n]) /\ wire'[n][i] = wire[n][i + 1]
    <3>1. wire[n] \in Seq(Command) /\ wire[n] # <<>>
      BY <1>1, <1>3
    <3> QED BY <3>1, <2>1, TailIndex
  <2>3. 1 \in DOMAIN wire[n] /\ Head(wire[n]) = wire[n][1]
    BY <1>1, <1>3
  <2>4. Clears(n)' => Clears(n)
    BY <2>2 DEF Clears
  <2>5. ASSUME ClearsOnce(n) PROVE ClearsOnce(n)'
    <3>1. SUFFICES ASSUME NEW i \in DOMAIN wire'[n], NEW j \in DOMAIN wire'[n],
                          wire'[n][i] = "del", wire'[n][j] = "del"
                   PROVE  i = j
      BY DEF ClearsOnce
    <3>2. i + 1 = j + 1
      BY <2>2, <2>5, <3>1 DEF ClearsOnce
    <3>3. i \in Int /\ j \in Int
      BY <1>1, <1>3, <2>2
    <3> QED BY <3>2, <3>3
  <2>6. ASSUME Head(wire[m]) = "del", ClearsOnce(n), Clears(n)' PROVE FALSE
    <3>1. PICK i \in DOMAIN wire'[n] : wire'[n][i] = "del"
      BY <2>6 DEF Clears
    <3>2. i + 1 = 1
      BY <1>3, <2>2, <2>3, <2>6, <3>1 DEF ClearsOnce
    <3>3. i \in 1 .. Len(wire[n]) /\ Len(wire[n]) \in Nat
      BY <1>1, <1>3, <2>2
    <3> QED BY <3>2, <3>3
  <2> QED BY <1>3, <2>3, <2>4, <2>5, <2>6 DEF Clears
<1> QED BY <1>2, <1>3

LEMMA ClearsCut ==
  ASSUME ElectionTypeOK, NEW m \in Main, WireCut(m), NEW n \in Main
  PROVE  /\ Clears(n)' => Clears(n)
         /\ ClearsOnce(n) => ClearsOnce(n)'
<1>1. PICK w \in {<<>>, wire[m]} : wire' = [wire EXCEPT ![m] = w]
  BY DEF WireCut
<1>2. wire'[n] = wire[n] \/ wire'[n] = <<>>
  BY <1>1 DEF ElectionTypeOK
<1>3. DOMAIN <<>> = {}
  OBVIOUS
<1> QED BY <1>2, <1>3 DEF Clears, ClearsOnce

LEMMA ClearsKept ==
  ASSUME wire' = wire, NEW n \in Main
  PROVE  (Clears(n)' <=> Clears(n)) /\ (ClearsOnce(n) => ClearsOnce(n)')
BY DEF Clears, ClearsOnce

-----------------------------------------------------------------------------
(* The steps.                                                               *)

\* One step of the election on main m.
ElectionMove(m) ==
  \/ ElectionStep(m) \/ ProcessEnds(m)
  \/ Startup(m) \/ Proceeds(m, "up", "stopping")

LEMMA MoveTyped ==
  ASSUME ElectionTypeOK, NEW m \in Main, ElectionMove(m)
  PROVE  ElectionTypeOK'
BY ElectionTypeStep DEF ElectionMove, Startup, Proc

LEMMA ProcessInvInit == ElectionInit => ProcessInv
<1> SUFFICES ASSUME ElectionInit, NEW m \in Main
             PROVE  /\ proc[m] = "off" => await[m] = "none" /\ reply[m] = "none"
                    /\ await[m] = "init" => proc[m] = "init"
                    /\ Clears(m) => proc[m] \in {"closing", "closed", "off"}
                    /\ ClearsOnce(m)
  BY DEF ProcessInv
<1>1. DOMAIN wire[m] = {}
  BY DEF ElectionInit
<1>2. ClearsOnce(m) /\ ~Clears(m)
  BY <1>1 DEF ClearsOnce, Clears
<1> QED BY <1>2 DEF ElectionInit

LEMMA ProcessInvStep ==
  ASSUME ElectionTypeOK, ProcessInv, NEW m \in Main, ElectionMove(m)
  PROVE  ProcessInv'
<1> SUFFICES ASSUME NEW n \in Main
             PROVE  /\ proc'[n] = "off" => await'[n] = "none" /\ reply'[n] = "none"
                    /\ await'[n] = "init" => proc'[n] = "init"
                    /\ Clears(n)' => proc'[n] \in {"closing", "closed", "off"}
                    /\ ClearsOnce(n)'
  BY DEF ProcessInv
<1>0. /\ proc[n] = "off" => await[n] = "none" /\ reply[n] = "none"
      /\ await[n] = "init" => proc[n] = "init"
      /\ Clears(n) => proc[n] \in {"closing", "closed", "off"}
      /\ ClearsOnce(n)
  BY DEF ProcessInv
<1> USE DEF ElectionTypeOK
<1>1. CASE RedisExecutes(m)
  BY <1>0, <1>1, ClearsExecuted DEF RedisExecutes, HeadAwaited
<1>2. CASE KeyExpires(m)
  BY <1>0, <1>2, ClearsKept DEF KeyExpires
<1>3. CASE Start(m)
  <2>1. (Clears(n)' => Clears(n)) /\ ClearsOnce(n)'
    BY <1>0, <1>3, ClearsSent DEF Start, Send, Command
  <2>2. n = m => ~Clears(n)
    BY <1>3 DEF Start, Clears
  <2> QED BY <1>0, <1>3, <2>1, <2>2 DEF Start, Send
<1>4. CASE CheckLeader(m)
  <2>1. (Clears(n)' => Clears(n)) /\ ClearsOnce(n)'
    BY <1>0, <1>4, ClearsSent DEF CheckLeader, Send, Command
  <2> QED BY <1>0, <1>4, <2>1 DEF CheckLeader, Checking, Send
<1>5. CASE AnswerStep(m)
  <2>1. CASE InitAnswered(m)
    BY <1>0, <2>1, ClearsKept DEF InitAnswered, Answered
  <2>2. CASE RenewAnswered(m)
    <3>1. (Clears(n)' => Clears(n)) /\ ClearsOnce(n)'
      BY <1>0, <2>2, ClearsSent, ClearsKept DEF RenewAnswered, CheckEnds, Send, Command
    <3> QED BY <1>0, <2>2, <3>1 DEF RenewAnswered, Answered, CheckEnds, Send
  <2>3. CASE ReclaimAnswered(m)
    BY <1>0, <2>3, ClearsKept DEF ReclaimAnswered, Answered, CheckEnds
  <2>4. CASE GetAnswered(m)
    <3>1. (Clears(n)' => Clears(n)) /\ ClearsOnce(n)'
      BY <1>0, <2>4, ClearsSent, ClearsKept DEF GetAnswered, CheckEnds, Send, Command
    <3> QED BY <1>0, <2>4, <3>1 DEF GetAnswered, Answered, CheckEnds, Send
  <2>5. CASE ClaimAnswered(m)
    BY <1>0, <2>5, ClearsKept DEF ClaimAnswered, Answered, CheckEnds
  <2> QED BY <1>5, <2>1, <2>2, <2>3, <2>4, <2>5 DEF AnswerStep
<1>6. CASE Shutdown(m)
  <2>1. CASE role[m] = "leader"
    <3>1. /\ proc[m] = "stopping"
          /\ proc' = [proc EXCEPT ![m] = "closing"]
          /\ wire' = [wire EXCEPT ![m] = Append(wire[m], "del")]
          /\ await' = await /\ reply' = reply
      BY <1>6, <2>1 DEF Shutdown
    <3>2. CASE n = m
      <4>1. ~Clears(m) /\ wire[m] \in Seq(Command) /\ wire'[m] = Append(wire[m], "del")
        BY <1>0, <3>1, <3>2
      <4>2. \A i \in DOMAIN wire'[m] : wire'[m][i] = "del" => i = Len(wire[m]) + 1
        BY <4>1 DEF Clears
      <4> QED BY <1>0, <3>1, <3>2, <4>2 DEF ClearsOnce
    <3>3. CASE n # m
      BY <1>0, <3>1, <3>3 DEF Clears, ClearsOnce
    <3> QED BY <3>2, <3>3
  <2>2. CASE role[m] # "leader"
    BY <1>0, <1>6, <2>2, ClearsCut DEF Shutdown, Destroyed
  <2> QED BY <2>1, <2>2
<1>7. CASE Cleared(m)
  BY <1>0, <1>7, ClearsCut DEF Cleared, Destroyed
<1>8. CASE ProcessEnds(m)
  BY <1>0, <1>8, ClearsCut DEF ProcessEnds
<1>9. CASE Startup(m) \/ Proceeds(m, "up", "stopping")
  BY <1>0, <1>9, ClearsKept DEF Startup, Proceeds
<1> QED BY <1>1, <1>2, <1>3, <1>4, <1>5, <1>6, <1>7, <1>8, <1>9 DEF ElectionMove, ElectionStep

\* A step that leaves the key alone keeps KeyInv if nobody comes to hold it.
LEMMA KeyInvKept ==
  ASSUME ElectionTypeOK, KeyInv, key' = key,
         lapses' = lapses, faults' = faults,
         \A n \in Main : Holds(n)' => Holds(n)
  PROVE  KeyInv'
BY DEF KeyInv

LEMMA FaultKeepsKeyInv ==
  ASSUME ElectionTypeOK, faults' = faults + 1 \/ lapses' = lapses + 1
  PROVE  KeyInv'
BY DEF ElectionTypeOK, KeyInv

LEMMA KeyInvStep ==
  ASSUME ElectionTypeOK, ProcessInv, KeyInv, NEW m \in Main, ElectionMove(m)
  PROVE  KeyInv'
<1> USE DEF ElectionTypeOK
<1>1. CASE RedisExecutes(m)
  <2>1. SUFFICES ASSUME lapses = 0, faults = 0, NEW n \in Main, Holds(n)'
                 PROVE  key' = n
    BY <1>1 DEF KeyInv, RedisExecutes
  <2>2. \A x \in Main : Holds(x) => key = x
    BY <2>1 DEF KeyInv
  <2>3. Clears(n)' => Clears(n)
    BY <1>1, ClearsExecuted
  <2>4. Head(wire[m]) \in Command
    BY <1>1 DEF RedisExecutes
  <2>5. Holds(n) \/ (n = m /\ HeadAwaited(m) /\ AnswerTo(Head(wire[m]), m) \in {"ok", "self"})
    BY <1>1, <2>1, <2>3 DEF RedisExecutes, Holds, Leads, Checking
  <2>6. CASE Head(wire[m]) = "set"
    <3>1. key' = IF key = NoMain THEN m ELSE key
      BY <1>1, <2>6 DEF RedisExecutes, KeyAfter
    <3>2. CASE Holds(n)
      BY <2>2, <3>1, <3>2, ElectionAssumption
    <3>3. CASE n = m /\ AnswerTo(Head(wire[m]), m) \in {"ok", "self"}
      BY <2>6, <3>1, <3>3 DEF AnswerTo
    <3> QED BY <2>5, <3>2, <3>3
  <2>7. CASE Head(wire[m]) = "del"
    <3>1. Clears(m) /\ ~Clears(m)'
      BY <1>1, <2>7, ClearsExecuted DEF ProcessInv
    <3>2. key = m /\ proc[m] \in {"closing", "closed", "off"}
      BY <2>2, <3>1 DEF Holds, ProcessInv
    <3>3. ~HeadAwaited(m)
      BY <2>7 DEF HeadAwaited
    <3>4. n = m
      BY <2>2, <2>5, <3>2, <3>3
    <3> QED BY <1>1, <2>1, <3>1, <3>2, <3>4 DEF RedisExecutes, Holds, Leads, Checking
  <2>8. CASE Head(wire[m]) \in {"renew", "get"}
    <3>1. key' = key
      BY <1>1, <2>8 DEF RedisExecutes, KeyAfter
    <3>2. CASE Holds(n)
      BY <2>2, <3>1, <3>2
    <3>3. CASE n = m /\ AnswerTo(Head(wire[m]), m) \in {"ok", "self"}
      BY <2>8, <3>1, <3>3 DEF AnswerTo
    <3> QED BY <2>5, <3>2, <3>3
  <2> QED BY <2>4, <2>6, <2>7, <2>8 DEF Command
<1>2. CASE KeyExpires(m)
  <2>1. CASE lapses' = lapses + 1
    BY <2>1, FaultKeepsKeyInv
  <2>2. CASE ~(Checking(m) \/ proc[m] = "init") /\ wire[m] = <<>> /\ lapses' = lapses
    <3>1. ~Clears(m)
      BY <2>2 DEF Clears
    <3>2. ~Holds(m)
      BY <2>2, <3>1 DEF Holds, Leads
    <3>3. \A n \in Main : Holds(n)' <=> Holds(n)
      BY <1>2, ClearsKept DEF KeyExpires, Holds, Leads, Checking
    <3>4. key = m /\ faults' = faults
      BY <1>2 DEF KeyExpires
    <3> QED BY <2>2, <3>2, <3>3, <3>4 DEF KeyInv
  <2> QED BY <1>2, <2>1, <2>2 DEF KeyExpires
<1>3. CASE Start(m)
  <2>1. \A n \in Main : Clears(n)' => Clears(n)
    BY <1>3, ClearsSent DEF Start, Send, Command
  <2>2. reply[m] = "none"
    BY <1>3 DEF Start, ProcessInv
  <2>3. \A n \in Main : Holds(n)' => Holds(n)
    BY <1>3, <2>1, <2>2 DEF Start, Holds, Leads, Checking
  <2> QED BY <1>3, <2>3, KeyInvKept DEF Start
<1>4. CASE CheckLeader(m)
  <2>1. \A n \in Main : Clears(n)' => Clears(n)
    BY <1>4, ClearsSent DEF CheckLeader, Send, Command
  <2>2. \A n \in Main : Holds(n)' => Holds(n)
    BY <1>4, <2>1 DEF CheckLeader, Holds, Leads, Checking
  <2> QED BY <1>4, <2>2, KeyInvKept DEF CheckLeader
<1>5. CASE AnswerStep(m)
  <2>1. PICK a \in Answer, w \in Await : Answered(m, w, a)
    BY <1>5 DEF AnswerStep, InitAnswered, RenewAnswered, ReclaimAnswered, GetAnswered,
                ClaimAnswered, Await
  <2>2. CASE faults' = faults + 1
    BY <2>2, FaultKeepsKeyInv
  <2>3. CASE faults' = faults
    <3>1. key' = key /\ lapses' = lapses
      BY <2>1 DEF Answered
    <3>2. \A n \in Main : Clears(n)' => Clears(n)
      BY <1>5, ClearsSent, ClearsKept
      DEF AnswerStep, InitAnswered, RenewAnswered, ReclaimAnswered, GetAnswered,
          ClaimAnswered, CheckEnds, Send, Command
    <3>3. \A n \in Main \ {m} : Holds(n)' => Holds(n)
      BY <1>5, <3>2
      DEF AnswerStep, InitAnswered, RenewAnswered, ReclaimAnswered, GetAnswered,
          ClaimAnswered, Answered, CheckEnds, Holds, Leads, Checking
    <3>4. reply'[m] = "none"
      BY <2>1 DEF Answered
    <3>5. CASE InitAnswered(m)
      <4>1. proc[m] = "init"
        BY <3>5 DEF InitAnswered, Answered, ProcessInv
      <4>2. Holds(m)' => Holds(m)
        BY <2>3, <3>2, <3>4, <3>5, <4>1
        DEF InitAnswered, Answered, Holds, Leads, Checking
      <4> QED BY <2>3, <3>1, <3>3, <4>2, KeyInvKept
    <3>6. CASE RenewAnswered(m)
      <4>1. role'[m] = role[m] \/ role'[m] = "follower"
        BY <3>6 DEF RenewAnswered, CheckEnds
      <4>2. proc' = proc
        BY <3>6 DEF RenewAnswered, CheckEnds
      <4>3. Holds(m)' => Holds(m)
        BY <3>2, <3>4, <4>1, <4>2 DEF Holds, Leads, Checking
      <4> QED BY <2>3, <3>1, <3>3, <4>3, KeyInvKept
    <3>7. CASE ReclaimAnswered(m)
      <4>1. Holds(m)' => Holds(m)
        BY <2>3, <3>2, <3>4, <3>7
        DEF ReclaimAnswered, Answered, CheckEnds, Holds, Leads, Checking
      <4> QED BY <2>3, <3>1, <3>3, <4>1, KeyInvKept
    <3>8. CASE GetAnswered(m)
      <4>1. role'[m] = role[m] \/ reply[m] = "self"
        BY <2>3, <3>8 DEF GetAnswered, Answered, CheckEnds
      <4>2. proc' = proc
        BY <3>8 DEF GetAnswered, CheckEnds
      <4>3. Holds(m)' => Holds(m)
        BY <3>2, <3>4, <4>1, <4>2 DEF Holds, Leads, Checking
      <4> QED BY <2>3, <3>1, <3>3, <4>3, KeyInvKept
    <3>9. CASE ClaimAnswered(m)
      <4>1. Holds(m)' => Holds(m)
        BY <2>3, <3>2, <3>4, <3>9
        DEF ClaimAnswered, Answered, CheckEnds, Holds, Leads, Checking
      <4> QED BY <2>3, <3>1, <3>3, <4>1, KeyInvKept
    <3> QED BY <1>5, <3>5, <3>6, <3>7, <3>8, <3>9 DEF AnswerStep
  <2> QED BY <2>1, <2>2, <2>3 DEF Answered
<1>6. CASE Shutdown(m)
  <2>1. key' = key /\ lapses' = lapses /\ faults' = faults
    BY <1>6 DEF Shutdown
  <2>2. CASE role[m] = "leader"
    <3>1. Holds(m)
      BY <1>6, <2>2 DEF Shutdown, Holds, Leads, Checking
    <3>2. \A n \in Main \ {m} : Holds(n)' => Holds(n)
      BY <1>6, <2>2 DEF Shutdown, Holds, Leads, Checking, Clears
    <3> QED BY <2>1, <3>1, <3>2, KeyInvKept
  <2>3. CASE role[m] # "leader"
    <3>1. \A n \in Main : Clears(n)' => Clears(n)
      BY <1>6, <2>3, ClearsCut DEF Shutdown
    <3>2. \A n \in Main : Holds(n)' => Holds(n)
      BY <1>6, <2>3, <3>1 DEF Shutdown, Destroyed, Holds, Leads, Checking
    <3> QED BY <2>1, <3>2, KeyInvKept
  <2> QED BY <2>2, <2>3
<1>7. CASE Cleared(m)
  <2>1. CASE faults' = faults + 1
    BY <2>1, FaultKeepsKeyInv
  <2>2. CASE faults' = faults
    <3>1. \A n \in Main : Clears(n)' => Clears(n)
      BY <1>7, ClearsCut DEF Cleared
    <3>2. \A n \in Main : Holds(n)' => Holds(n)
      BY <1>7, <3>1 DEF Cleared, Destroyed, Holds, Leads, Checking
    <3> QED BY <1>7, <2>2, <3>2, KeyInvKept DEF Cleared
  <2> QED BY <1>7, <2>1, <2>2 DEF Cleared
<1>8. CASE ProcessEnds(m)
  <2>1. \A n \in Main : Clears(n)' => Clears(n)
    BY <1>8, ClearsCut DEF ProcessEnds
  <2>2. \A n \in Main : Holds(n)' => Holds(n)
    BY <1>8, <2>1 DEF ProcessEnds, Holds, Leads, Checking
  <2> QED BY <1>8, <2>2, KeyInvKept DEF ProcessEnds
<1>9. CASE Startup(m) \/ Proceeds(m, "up", "stopping")
  <2>1. \A n \in Main : Holds(n)' => Holds(n)
    BY <1>9, ClearsKept DEF Startup, Proceeds, Holds, Leads, Checking
  <2> QED BY <1>9, <2>1, KeyInvKept DEF Startup, Proceeds
<1> QED BY <1>1, <1>2, <1>3, <1>4, <1>5, <1>6, <1>7, <1>8, <1>9 DEF ElectionMove, ElectionStep

-----------------------------------------------------------------------------
(* One leader.                                                              *)

LEMMA ElectionInvInit == ElectionInit => ElectionInv
<1> SUFFICES ASSUME ElectionInit PROVE ElectionInv
  OBVIOUS
<1>1. \A m \in Main : ~Clears(m)
  BY DEF ElectionInit, Clears
<1>2. KeyInv
  BY <1>1 DEF ElectionInit, KeyInv, Holds, Leads, Checking
<1> QED BY <1>2, ElectionTypeInit, ProcessInvInit DEF ElectionInv

LEMMA ElectionInvStep ==
  ASSUME ElectionInv, (\E m \in Main : ElectionMove(m)) \/ UNCHANGED electionVars
  PROVE  ElectionInv'
<1>1. CASE UNCHANGED electionVars
  BY <1>1 DEF ElectionInv, ElectionTypeOK, ProcessInv, KeyInv, Holds, Leads, Checking,
              Clears, ClearsOnce, electionVars
<1>2. CASE \E m \in Main : ElectionMove(m)
  BY <1>2, MoveTyped, ProcessInvStep, KeyInvStep DEF ElectionInv
<1> QED BY <1>1, <1>2

LEMMA ElectionInvIsSafe == ElectionInv => OneLeader
BY DEF ElectionInv, KeyInv, OneLeader, Holds

\* At most one main leads as long as no lease runs out under a living holder
\* and no command fails: for any number of mains, starts and crashes.
THEOREM OneLeaderAlways == ElectionSpec => []OneLeader
<1>1. ElectionInv /\ [ElectionNext]_electionVars => ElectionInv'
  BY ElectionInvStep DEF ElectionNext, ElectionMove
<1> QED BY ElectionInvInit, <1>1, ElectionInvIsSafe, PTL DEF ElectionSpec

-----------------------------------------------------------------------------
(* The wait tracker.                                                        *)

\* What the tracker does is a step of the election or leaves it alone.
LEMMA TrackerElects ==
  ASSUME [Next]_vars
  PROVE  (\E m \in Main : ElectionMove(m)) \/ UNCHANGED electionVars
<1>1. CASE \E m \in Main : Elects(m) \/ StopProcess(m) \/ Ends(m)
  BY <1>1 DEF Elects, StopProcess, Ends, ElectionMove
<1>2. CASE \E m \in Main : TrackerStep(m)
  BY <1>2 DEF TrackerStep, InitTracker, RegisterEventHandlers, Polls, Interval,
              GetWaitingExecutions, SetTimers, TimeoutFires, StartExecution, RunClaims,
              StopDuringRun, ElectionMove, Startup
<1>3. CASE \E m \in Main, e \in Exec : StopExecution(m, e) \/ ChildCompletes(m, e)
  BY <1>3 DEF StopExecution, ChildCompletes, StartExecution
<1>4. CASE \E e \in Exec : RowMoves(e)
  BY <1>4 DEF RowMoves
<1>5. CASE UNCHANGED vars
  BY <1>5 DEF vars
<1> QED BY <1>1, <1>2, <1>3, <1>4, <1>5 DEF Next

\* The types of the tracker's own variables.
TrackerTypeOK ==
  /\ mainTimer \subseteq Main /\ leaked \subseteq Main
  /\ poll \in [Main -> {"none", "called", "read"}]
  /\ found \in [Main -> SUBSET Exec]
  /\ entries \in [Main -> [Exec -> Timeout \cup {NoTimeout}]]
  /\ timers \in [Main -> [Exec -> SUBSET Timeout]]
  /\ resuming \in [Main -> SUBSET Exec]
  /\ stopping \in [Main -> SUBSET Exec]
  /\ children \in [Main -> [Exec -> 0 .. MaxChildren]]
  /\ db \in [Exec -> {"waiting", "running", "done", "canceled"}]

\* At most n timeouts of execution e are lost on main m.
LostAtMost(m, e, n) == IsFiniteSet(Lost(m, e)) /\ Cardinality(Lost(m, e)) <= n

LostInv == \A m \in Main, e \in Exec : LostAtMost(m, e, children[m][e])

TrackerInv == ElectionInv /\ TrackerTypeOK /\ LostInv

\* No timeout is lost to begin with.
LEMMA TrackerInvInit == Init => TrackerInv
<1> SUFFICES ASSUME Init PROVE TrackerInv
  OBVIOUS
<1>1. TrackerTypeOK
  BY TrackerAssumption DEF Init, TrackerTypeOK
<1>2. ASSUME NEW m \in Main, NEW e \in Exec
      PROVE  LostAtMost(m, e, children[m][e])
  <2>1. Lost(m, e) = {} /\ children[m][e] = 0
    BY DEF Init, Lost
  <2> QED BY <2>1, FS_EmptySet DEF LostAtMost
<1> QED BY <1>1, <1>2, ElectionInvInit DEF Init, TrackerInv, LostInv

\* Taking elements away loses nothing more.
LEMMA FewerLost ==
  ASSUME NEW S, NEW T, IsFiniteSet(S), T \subseteq S, NEW n \in Nat, Cardinality(S) <= n
  PROVE  IsFiniteSet(T) /\ Cardinality(T) <= n
BY FS_Subset, FS_CardinalityType

\* One element makes the lost ones one more at most.
LEMMA OneMoreLost ==
  ASSUME NEW S, NEW x, NEW T, IsFiniteSet(S), T \subseteq S \cup {x}, NEW n \in Nat,
         Cardinality(S) <= n
  PROVE  IsFiniteSet(T) /\ Cardinality(T) <= n + 1
<1> DEFINE c == Cardinality(S)
<1>1. c \in Nat
  BY FS_CardinalityType
<1>2. /\ IsFiniteSet(S \cup {x})
      /\ Cardinality(S \cup {x}) = IF x \in S THEN c ELSE c + 1
  BY FS_AddElement
<1>3. Cardinality(S \cup {x}) <= n + 1
  BY <1>1, <1>2
<1> QED BY <1>2, <1>3, FewerLost

\* One element takes the place of another.
LEMMA OneForAnother ==
  ASSUME NEW S, NEW x, NEW y \in S, NEW T, IsFiniteSet(S), T \subseteq (S \ {y}) \cup {x},
         NEW n \in Nat, Cardinality(S) <= n
  PROVE  IsFiniteSet(T) /\ Cardinality(T) <= n
<1>1. /\ IsFiniteSet(S \ {y})
      /\ Cardinality(S \ {y}) = Cardinality(S) - 1
      /\ Cardinality(S) \in Nat
  BY FS_RemoveElement, FS_CardinalityType
<1>2. Cardinality(S \ {y}) \in Nat
  BY <1>1, FS_CardinalityType
<1>3. n - 1 \in Nat /\ Cardinality(S \ {y}) <= n - 1 /\ (n - 1) + 1 = n
  BY <1>1, <1>2
<1>4. IsFiniteSet(T) /\ Cardinality(T) <= (n - 1) + 1
  BY <1>1, <1>3, OneMoreLost
<1> QED BY <1>3, <1>4

\* A step after which nothing more is lost and no sub-workflow is forgotten.
LEMMA NothingMoreLost ==
  ASSUME TrackerTypeOK, LostInv, UNCHANGED children,
         \A m \in Main, e \in Exec : Lost(m, e)' \subseteq Lost(m, e)
  PROVE  LostInv'
<1> SUFFICES ASSUME NEW m \in Main, NEW e \in Exec
             PROVE  LostAtMost(m, e, children[m][e])'
  BY DEF LostInv
<1> DEFINE S == Lost(m, e)
<1>1. children[m][e] \in Nat /\ children'[m][e] = children[m][e]
  BY TrackerAssumption DEF TrackerTypeOK
<1>2. IsFiniteSet(S) /\ Cardinality(S) <= children[m][e] /\ S' \subseteq S
  BY DEF LostInv, LostAtMost
<1> HIDE DEF S
<1>3. IsFiniteSet(S') /\ Cardinality(S') <= children[m][e]
  BY <1>1, <1>2, FewerLost
<1> QED BY <1>1, <1>3 DEF LostAtMost, S

\* Starting and stopping to track.
LEMMA TrackingKept ==
  ASSUME TrackerTypeOK, LostInv, NEW m \in Main, db' = db,
         StartTracking(m) \/ StopTracking(m) \/ UNCHANGED trackerVars
  PROVE  TrackerTypeOK' /\ LostInv'
<1>1. CASE StartTracking(m)
  <2>1. TrackerTypeOK'
    BY <1>1 DEF TrackerTypeOK, StartTracking
  <2> QED BY <1>1, <2>1, NothingMoreLost DEF StartTracking, Lost
<1>2. CASE StopTracking(m)
  <2>1. TrackerTypeOK'
    BY <1>2 DEF TrackerTypeOK, StopTracking
  <2>2. \A k \in Main, e \in Exec : timers'[k][e] \subseteq timers[k][e]
    BY <1>2 DEF TrackerTypeOK, StopTracking
  <2> QED BY <1>2, <2>1, <2>2, NothingMoreLost DEF StopTracking, Lost
<1>3. CASE UNCHANGED trackerVars
  <2>1. TrackerTypeOK'
    BY <1>3 DEF TrackerTypeOK, trackerVars
  <2> QED BY <1>3, <2>1, NothingMoreLost DEF trackerVars, Lost
<1> QED BY <1>1, <1>2, <1>3

\* New timeouts have entries.
LEMMA SetTimersKept ==
  ASSUME TrackerTypeOK, LostInv, NEW m \in Main, SetTimers(m)
  PROVE  TrackerTypeOK' /\ LostInv'
<1> DEFINE new == {e \in found[m] : entries[m][e] = NoTimeout}
<1> PICK id \in [new -> Timeout] :
      /\ entries' = [entries EXCEPT ![m] = [e \in Exec |-> IF e \in new THEN id[e] ELSE @[e]]]
      /\ timers' = [timers EXCEPT ![m] =
           [e \in Exec |-> IF e \in new THEN @[e] \cup {id[e]} ELSE @[e]]]
  BY DEF SetTimers
<1>1. \A e \in new : id[e] \in Timeout /\ entries[m][e] = NoTimeout
  OBVIOUS
<1> HIDE DEF new
<1>2. /\ entries' \in [Main -> [Exec -> Timeout \cup {NoTimeout}]]
      /\ timers' \in [Main -> [Exec -> SUBSET Timeout]]
  BY <1>1 DEF TrackerTypeOK
<1>3. TrackerTypeOK'
  BY <1>2 DEF TrackerTypeOK, SetTimers
<1>4. ASSUME NEW k \in Main, NEW e \in Exec
      PROVE  Lost(k, e)' \subseteq Lost(k, e)
  <2>1. CASE k = m /\ e \in new
    <3>1. entries'[k][e] = id[e] /\ timers'[k][e] = timers[k][e] \cup {id[e]}
      BY <2>1 DEF TrackerTypeOK
    <3>2. NoTimeout \notin timers[k][e]
      BY DEF TrackerTypeOK, Timeout, NoTimeout
    <3> QED BY <1>1, <2>1, <3>1, <3>2 DEF Lost
  <2>2. CASE ~(k = m /\ e \in new)
    <3>1. entries'[k][e] = entries[k][e] /\ timers'[k][e] = timers[k][e]
      BY <2>2 DEF TrackerTypeOK
    <3> QED BY <3>1 DEF Lost
  <2> QED BY <2>1, <2>2
<1>5. UNCHANGED children
  BY DEF SetTimers
<1> QED BY <1>3, <1>4, <1>5, NothingMoreLost

\* A process that ends takes its timeouts along.
LEMMA EndsKept ==
  ASSUME TrackerTypeOK, LostInv, NEW m \in Main, Ends(m)
  PROVE  TrackerTypeOK' /\ LostInv'
<1>1. TrackerTypeOK'
  BY TrackerAssumption DEF TrackerTypeOK, Ends
<1>2. ASSUME NEW k \in Main, NEW e \in Exec
      PROVE  LostAtMost(k, e, children[k][e])'
  <2>1. CASE k = m
    <3>1. Lost(k, e)' = {} /\ children'[k][e] = 0
      BY <2>1 DEF Ends, Lost, TrackerTypeOK
    <3> QED BY <3>1, FS_EmptySet DEF LostAtMost
  <2>2. CASE k # m
    <3>1. Lost(k, e)' = Lost(k, e) /\ children'[k][e] = children[k][e]
      BY <2>2 DEF Ends, Lost, TrackerTypeOK
    <3> QED BY <3>1 DEF LostAtMost, LostInv
  <2> QED BY <2>1, <2>2
<1> QED BY <1>1, <1>2 DEF LostInv

\* A timeout that fires is lost no longer; the one of the entry may be, in its
\* place.
LEMMA TimeoutFiresKept ==
  ASSUME TrackerTypeOK, LostInv, NEW m \in Main, NEW f \in Exec, NEW n \in Timeout,
         TimeoutFires(m, f, n)
  PROVE  TrackerTypeOK' /\ LostInv'
<1> USE DEF TimeoutFires, StartExecution
<1>1. TrackerTypeOK'
  BY DEF TrackerTypeOK
<1>2. ASSUME NEW k \in Main, NEW e \in Exec
      PROVE  LostAtMost(k, e, children[k][e])'
  <2>1. CASE k = m /\ e = f
    <3> DEFINE S == Lost(m, f)
               T == timers[m][f] \ {n}
               x == entries[m][f]
    <3>1. /\ IsFiniteSet(S) /\ Cardinality(S) <= children[m][f]
          /\ children[m][f] \in Nat /\ children' = children
      BY TrackerAssumption DEF LostInv, LostAtMost, TrackerTypeOK
    <3>2. Lost(k, e)' \subseteq T
      BY <2>1 DEF Lost, TrackerTypeOK
    <3>3. CASE n \in S
      <4>1. T \subseteq (S \ {n}) \cup {x}
        BY DEF Lost
      <4> HIDE DEF S, T, x
      <4>2. Lost(k, e)' \subseteq (S \ {n}) \cup {x}
        BY <3>2, <4>1
      <4>3. IsFiniteSet(Lost(k, e)') /\ Cardinality(Lost(k, e)') <= children[m][f]
        BY <3>1, <3>3, <4>2, OneForAnother
      <4> QED BY <2>1, <3>1, <4>3 DEF LostAtMost
    <3>4. CASE n \notin S
      <4>1. T \subseteq S
        BY <3>4 DEF Lost
      <4> HIDE DEF S, T, x
      <4>2. Lost(k, e)' \subseteq S
        BY <3>2, <4>1
      <4>3. IsFiniteSet(Lost(k, e)') /\ Cardinality(Lost(k, e)') <= children[m][f]
        BY <3>1, <4>2, FewerLost
      <4> QED BY <2>1, <3>1, <4>3 DEF LostAtMost
    <3> QED BY <3>3, <3>4
  <2>2. CASE ~(k = m /\ e = f)
    <3>1. Lost(k, e)' = Lost(k, e) /\ children'[k][e] = children[k][e]
      BY <2>2 DEF Lost, TrackerTypeOK
    <3> QED BY <3>1 DEF LostAtMost, LostInv
  <2> QED BY <2>1, <2>2
<1> QED BY <1>1, <1>2 DEF LostInv

\* A sub-workflow that completes loses the timeout of the entry.
LEMMA ChildCompletesKept ==
  ASSUME TrackerTypeOK, LostInv, NEW m \in Main, NEW f \in Exec, ChildCompletes(m, f)
  PROVE  TrackerTypeOK' /\ LostInv'
<1> USE DEF ChildCompletes, StartExecution
<1>1. TrackerTypeOK'
  BY TrackerAssumption DEF TrackerTypeOK
<1>2. ASSUME NEW k \in Main, NEW e \in Exec
      PROVE  LostAtMost(k, e, children[k][e])'
  <2>1. CASE k = m /\ e = f
    <3> DEFINE S == Lost(m, f)
               x == entries[m][f]
    <3>1. /\ IsFiniteSet(S) /\ Cardinality(S) <= children[m][f]
          /\ children[m][f] \in Nat /\ children'[m][f] = children[m][f] + 1
      BY TrackerAssumption DEF LostInv, LostAtMost, TrackerTypeOK
    <3>2. Lost(k, e)' \subseteq S \cup {x}
      BY <2>1 DEF Lost, TrackerTypeOK
    <3> HIDE DEF S, x
    <3>3. IsFiniteSet(Lost(k, e)') /\ Cardinality(Lost(k, e)') <= children[m][f] + 1
      BY <3>1, <3>2, OneMoreLost
    <3> QED BY <2>1, <3>1, <3>3 DEF LostAtMost
  <2>2. CASE ~(k = m /\ e = f)
    <3>1. Lost(k, e)' = Lost(k, e) /\ children'[k][e] = children[k][e]
      BY <2>2 DEF Lost, TrackerTypeOK
    <3> QED BY <3>1 DEF LostAtMost, LostInv
  <2> QED BY <2>1, <2>2
<1> QED BY <1>1, <1>2 DEF LostInv

\* stop clears the timeout of the entry that it deletes.
LEMMA StopExecutionKept ==
  ASSUME TrackerTypeOK, LostInv, NEW m \in Main, NEW f \in Exec, StopExecution(m, f)
  PROVE  TrackerTypeOK' /\ LostInv'
<1>1. TrackerTypeOK'
  BY DEF TrackerTypeOK, StopExecution
<1>2. ASSUME NEW k \in Main, NEW e \in Exec
      PROVE  Lost(k, e)' \subseteq Lost(k, e)
  BY DEF TrackerTypeOK, StopExecution, Lost
<1> QED BY <1>1, <1>2, NothingMoreLost DEF StopExecution

\* Steps that leave timeouts and entries alone.
LEMMA OtherStepsKept ==
  ASSUME TrackerTypeOK, LostInv, UNCHANGED <<entries, timers, children>>, TrackerTypeOK'
  PROVE  LostInv'
BY NothingMoreLost DEF Lost

\* The interval and the query of a poll.
LEMMA QueriesKept ==
  ASSUME TrackerTypeOK, LostInv, NEW m \in Main, Interval(m) \/ GetWaitingExecutions(m)
  PROVE  TrackerTypeOK' /\ LostInv'
<1> DEFINE rows == {e \in Exec : db[e] = "waiting"}
<1>1. rows \in SUBSET Exec
  OBVIOUS
<1>2. CASE Interval(m)
  <2>1. poll' \in [Main -> {"none", "called", "read"}] /\ found' = found
    BY <1>2 DEF TrackerTypeOK, Interval
  <2>2. TrackerTypeOK'
    BY <1>2, <2>1 DEF TrackerTypeOK, Interval
  <2> QED BY <1>2, <2>2, OtherStepsKept DEF Interval
<1>3. CASE GetWaitingExecutions(m)
  <2>1. found' = [found EXCEPT ![m] = rows]
    BY <1>3 DEF GetWaitingExecutions
  <2> HIDE DEF rows
  <2>2. found' \in [Main -> SUBSET Exec]
    BY <1>1, <2>1 DEF TrackerTypeOK
  <2>3. poll' \in [Main -> {"none", "called", "read"}]
    BY <1>3 DEF TrackerTypeOK, GetWaitingExecutions
  <2>4. TrackerTypeOK'
    BY <1>3, <2>2, <2>3 DEF TrackerTypeOK, GetWaitingExecutions
  <2> QED BY <1>3, <2>4, OtherStepsKept DEF GetWaitingExecutions
<1> QED BY <1>2, <1>3

\* The database calls of run() and of stop.
LEMMA WritesKept ==
  ASSUME TrackerTypeOK, LostInv, NEW m \in Main, NEW e \in Exec,
         RunClaims(m, e) \/ StopDuringRun(m, e)
  PROVE  TrackerTypeOK' /\ LostInv'
<1>1. CASE RunClaims(m, e)
  <2>1. resuming' \in [Main -> SUBSET Exec]
    BY <1>1 DEF TrackerTypeOK, RunClaims
  <2>2. db' \in [Exec -> {"waiting", "running", "done", "canceled"}]
    BY <1>1 DEF TrackerTypeOK, RunClaims
  <2>3. TrackerTypeOK'
    BY <1>1, <2>1, <2>2 DEF TrackerTypeOK, RunClaims
  <2> QED BY <1>1, <2>3, OtherStepsKept DEF RunClaims
<1>2. CASE StopDuringRun(m, e)
  <2>1. stopping' \in [Main -> SUBSET Exec]
    BY <1>2 DEF TrackerTypeOK, StopDuringRun
  <2>2. db' \in [Exec -> {"waiting", "running", "done", "canceled"}]
    BY <1>2 DEF TrackerTypeOK, StopDuringRun
  <2>3. TrackerTypeOK'
    BY <1>2, <2>1, <2>2 DEF TrackerTypeOK, StopDuringRun
  <2> QED BY <1>2, <2>3, OtherStepsKept DEF StopDuringRun
<1> QED BY <1>1, <1>2

LEMMA TrackerStepKept ==
  ASSUME TrackerTypeOK, LostInv, [Next]_vars
  PROVE  TrackerTypeOK' /\ LostInv'
<1>1. CASE \E m \in Main : Elects(m) \/ StopProcess(m) \/ InitTracker(m)
                            \/ RegisterEventHandlers(m)
  <2> PICK m \in Main : Elects(m) \/ StopProcess(m) \/ InitTracker(m) \/ RegisterEventHandlers(m)
    BY <1>1
  <2>1. /\ db' = db
        /\ StartTracking(m) \/ StopTracking(m) \/ UNCHANGED trackerVars
    BY DEF Elects, StopProcess, InitTracker, RegisterEventHandlers
  <2> QED BY <2>1, TrackingKept
<1>2. CASE \E m \in Main : Ends(m)
  BY <1>2, EndsKept
<1>3. CASE \E m \in Main : Polls(m)
  <2>1. CASE \E m \in Main : Interval(m) \/ GetWaitingExecutions(m)
    BY <2>1, QueriesKept
  <2>2. CASE \E m \in Main : SetTimers(m)
    BY <2>2, SetTimersKept
  <2> QED BY <1>3, <2>1, <2>2 DEF Polls
<1>4. CASE \E m \in Main, e \in Exec, n \in Timeout : TimeoutFires(m, e, n)
  BY <1>4, TimeoutFiresKept
<1>5. CASE \E m \in Main, e \in Exec : RunClaims(m, e) \/ StopDuringRun(m, e)
  BY <1>5, WritesKept
<1>6. CASE \E m \in Main, e \in Exec : StopExecution(m, e) \/ ChildCompletes(m, e)
  BY <1>6, StopExecutionKept, ChildCompletesKept
<1>7. CASE \E e \in Exec : RowMoves(e)
  <2>1. TrackerTypeOK'
    BY <1>7 DEF TrackerTypeOK, RowMoves, trackerVars
  <2> QED BY <1>7, <2>1, OtherStepsKept DEF RowMoves, trackerVars
<1>8. CASE UNCHANGED vars
  <2>1. TrackerTypeOK'
    BY <1>8 DEF TrackerTypeOK, vars, trackerVars
  <2> QED BY <1>8, <2>1, OtherStepsKept DEF vars, trackerVars
<1> QED BY <1>1, <1>2, <1>3, <1>4, <1>5, <1>6, <1>7, <1>8 DEF Next, TrackerStep

LEMMA TrackerInvAlways == Spec => []TrackerInv
<1>1. TrackerInv /\ [Next]_vars => TrackerInv'
  BY TrackerElects, ElectionInvStep, TrackerStepKept DEF TrackerInv
<1> QED BY TrackerInvInit, <1>1, PTL DEF Spec

\* Types of mains, key, trackers and rows.
THEOREM TrackerTypeCorrect == Spec => []TypeOK
<1>1. TrackerInv => TypeOK
  BY DEF TrackerInv, ElectionInv, TrackerTypeOK, TypeOK
<1> QED BY TrackerInvAlways, <1>1, PTL

\* stop and stepdown, which find timeouts through the entries, can miss one
\* only when a sub-workflow completed, and no more than one per completion: for
\* any number of mains and executions, however polls, takeovers and stops
\* interleave.
THEOREM OnlyChildrenEverLoseTimeouts == Spec => []OnlyChildrenLoseTimeouts
<1>1. TrackerInv => OnlyChildrenLoseTimeouts
  BY DEF TrackerInv, LostInv, LostAtMost, OnlyChildrenLoseTimeouts
<1> QED BY TrackerInvAlways, <1>1, PTL

\* The tracker does not disturb the election it follows: there is one leader
\* in the composed system too.
THEOREM OneLeaderWhileTracking == Spec => []OneLeader
<1>1. TrackerInv => OneLeader
  BY ElectionInvIsSafe DEF TrackerInv
<1> QED BY TrackerInvAlways, <1>1, PTL
=============================================================================

----------------------- MODULE ActiveExecutionsProofs -----------------------
(***************************************************************************)
(* Proofs about ActiveExecutions, for every set of calls and executions and*)
(* every limit.                                                            *)
(***************************************************************************)
EXTENDS ActiveExecutions, FiniteSetTheorems, TLAPS

-----------------------------------------------------------------------------
(* The operators of ConcurrencyControl.                                     *)

\* The queue of a mode is a queue type, or none.
LEMMA GetQueueType ==
  ASSUME NEW mode \in Mode
  PROVE  /\ GetQueue(mode) \in QueueType \cup {"none"}
         /\ GetQueue(mode) = "evaluation" => mode = "evaluation"
         /\ mode = "evaluation" => GetQueue(mode) = "evaluation"
BY DEF GetQueue, QueueType, Mode

\* Limits are integers, and a queue that is built has a positive one.
LEMMA LimitType ==
  /\ \A q \in QueueType : Limit(q) \in Int
  /\ \A q \in BootQueues : Limit(q) > 0
BY LimitsAssumption DEF Limit, BootQueues, NormaliseLimit, QueueType

\* What resolveNext takes from a sequence of waiting calls and what it leaves.
LEMMA ResolveNext ==
  ASSUME NEW s \in Seq(Run)
  PROVE  /\ NextOf(s) \subseteq Run
         /\ RestOf(s) \in Seq(Run)
         /\ s = <<>> => NextOf(s) = {} /\ RestOf(s) = <<>>
         /\ s # <<>> => /\ Len(s) > 0
                        /\ NextOf(s) = {s[1]}
                        /\ Len(RestOf(s)) = Len(s) - 1
                        /\ \A i \in 1 .. Len(s) - 1 : RestOf(s)[i] = s[i + 1]
BY DEF NextOf, RestOf

\* Splicing one item out of a sequence of waiting calls.
LEMMA WithoutType ==
  ASSUME NEW s \in Seq(Run), NEW k \in 1 .. Len(s)
  PROVE  /\ Without(s, k) \in Seq(Run)
         /\ Len(Without(s, k)) = Len(s) - 1
         /\ \A i \in 1 .. Len(s) - 1 :
              Without(s, k)[i] = IF i < k THEN s[i] ELSE s[i + 1]
<1>1. \A i \in 1 .. Len(s) - 1 : (IF i < k THEN s[i] ELSE s[i + 1]) \in Run
  OBVIOUS
<1>2. Len(s) - 1 \in Nat
  OBVIOUS
<1> QED BY <1>1, <1>2 DEF Without

-----------------------------------------------------------------------------
(* Type correctness.                                                        *)

\* The part of TypeOK that is about ConcurrencyControl.
ControlTypeOK ==
  /\ isEnabled \in BOOLEAN /\ evalQueueResolved \in BOOLEAN
  /\ queues \subseteq QueueType
  /\ capacity \in [QueueType -> Int]
  /\ queue \in [QueueType -> Seq(Run)]

\* throttle acts on a queue that exists.
LEMMA ThrottledQueue ==
  ASSUME TypeOK, NEW mode \in Mode, IsThrottled(mode)
  PROVE  GetQueue(mode) \in QueueType
BY DEF TypeOK, IsThrottled, BuildsEvalQueue, ResolvesEvalQueue, GetQueue, QueueType

LEMMA ThrottleType ==
  ASSUME TypeOK, NEW mode \in Mode, NEW r \in Run, Throttle(r, mode)
  PROVE  ControlTypeOK'
<1>1. isEnabled' \in BOOLEAN /\ evalQueueResolved' \in BOOLEAN /\ queues' \subseteq QueueType
  BY DEF TypeOK, Throttle, EnsureEvalQueueResolved, QueueType, BuildsEvalQueue, ResolvesEvalQueue
<1>2. capacity' \in [QueueType -> Int] /\ queue' \in [QueueType -> Seq(Run)]
  <2>1. CASE IsThrottled(mode)
    <3> DEFINE q == GetQueue(mode)
    <3>1. q \in QueueType
      BY <2>1, ThrottledQueue
    <3>2. capacity[q] - 1 \in Int /\ Append(queue[q], r) \in Seq(Run)
      BY <3>1 DEF TypeOK
    <3> HIDE DEF q
    <3>3. /\ [capacity EXCEPT ![q] = @ - 1] \in [QueueType -> Int]
          /\ [queue EXCEPT ![q] = Append(@, r)] \in [QueueType -> Seq(Run)]
      BY <3>1, <3>2 DEF TypeOK
    <3> QED BY <2>1, <3>3 DEF TypeOK, Throttle, q
  <2>2. CASE ~IsThrottled(mode)
    BY <2>2 DEF TypeOK, Throttle
  <2> QED BY <2>1, <2>2
<1> QED BY <1>1, <1>2 DEF ControlTypeOK

LEMMA ReleaseType ==
  ASSUME TypeOK, NEW mode \in Mode, Release(mode)
  PROVE  ControlTypeOK' /\ ReleasedBy(mode) \subseteq Run
<1>1. isEnabled' \in BOOLEAN /\ evalQueueResolved' \in BOOLEAN /\ queues' \subseteq QueueType
  BY DEF TypeOK, Release, EnsureEvalQueueResolved, QueueType, BuildsEvalQueue, ResolvesEvalQueue
<1>2. CASE IsThrottled(mode)
  <2>1. GetQueue(mode) \in QueueType
    BY <1>2, ThrottledQueue
  <2>2. queue[GetQueue(mode)] \in Seq(Run)
    BY <2>1 DEF TypeOK
  <2>3. RestOf(queue[GetQueue(mode)]) \in Seq(Run) /\ NextOf(queue[GetQueue(mode)]) \subseteq Run
    BY <2>2, ResolveNext
  <2> DEFINE q == GetQueue(mode)
  <2>4. capacity[q] + 1 \in Int
    BY <2>1 DEF TypeOK
  <2>5. /\ [capacity EXCEPT ![q] = @ + 1] \in [QueueType -> Int]
        /\ [queue EXCEPT ![q] = RestOf(@)] \in [QueueType -> Seq(Run)]
    <3> HIDE DEF q
    <3> QED BY <2>1, <2>3, <2>4 DEF TypeOK, q
  <2> QED BY <1>1, <1>2, <2>3, <2>5 DEF Release, ControlTypeOK, ReleasedBy
<1>3. CASE ~IsThrottled(mode)
  BY <1>1, <1>3 DEF TypeOK, Release, ControlTypeOK, ReleasedBy
<1> QED BY <1>2, <1>3

LEMMA BootType ==
  ASSUME NEW enabled, NEW qs, NEW resolved, NEW cap, NEW waiting,
         ControlBoot(enabled, qs, resolved, cap, waiting)
  PROVE  /\ enabled \in BOOLEAN /\ resolved \in BOOLEAN
         /\ qs \subseteq QueueType
         /\ cap \in [QueueType -> Int]
         /\ waiting \in [QueueType -> Seq(Run)]
BY LimitType DEF ControlBoot, BootQueues

-----------------------------------------------------------------------------
(* The waiting calls.  TypeOK is not inductive by itself: a call that        *)
(* resolveNext lets go must be one that really waits.                        *)

\* A queue holds calls that wait, of the modes it is for, each once.
QueueInv ==
  \A q \in QueueType :
    /\ \A i \in 1 .. Len(queue[q]) :
         /\ pc[queue[q][i]] = "queued"
         /\ GetQueue(ModeOfRun(queue[q][i])) = q
    /\ \A i, j \in 1 .. Len(queue[q]) : queue[q][i] = queue[q][j] => i = j

BaseInv == TypeOK /\ QueueInv

\* A call that is not queued is in no queue, and a queued call is in the queue
\* of its own mode only.
LEMMA QueueMembers ==
  ASSUME BaseInv, NEW q \in QueueType, NEW i \in 1 .. Len(queue[q])
  PROVE  /\ queue[q] \in Seq(Run)
         /\ queue[q][i] \in Run
         /\ pc[queue[q][i]] = "queued"
         /\ exec[queue[q][i]] \in Exec
         /\ GetQueue(ModeOfRun(queue[q][i])) = q
<1>1. queue[q] \in Seq(Run)
  BY DEF BaseInv, TypeOK
<1>2. queue[q][i] \in Run
  BY <1>1
<1>3. pc[queue[q][i]] = "queued" /\ GetQueue(ModeOfRun(queue[q][i])) = q
  BY DEF BaseInv, QueueInv
<1>4. exec[queue[q][i]] \in Exec
  BY <1>2, <1>3 DEF BaseInv, TypeOK
<1> QED BY <1>1, <1>2, <1>3, <1>4

\* The calls that release lets go really wait, for the queue it is about.
LEMMA ReleasedCalls ==
  ASSUME BaseInv, NEW mode \in Mode, NEW x \in ReleasedBy(mode)
  PROVE  /\ x \in Run
         /\ pc[x] = "queued"
         /\ exec[x] \in Exec
         /\ IsThrottled(mode)
         /\ GetQueue(mode) \in QueueType
         /\ GetQueue(ModeOfRun(x)) = GetQueue(mode)
         /\ queue[GetQueue(mode)] # <<>>
         /\ x = queue[GetQueue(mode)][1]
<1> DEFINE q == GetQueue(mode)
<1>1. IsThrottled(mode) /\ x \in NextOf(queue[q])
  BY DEF ReleasedBy
<1>2. q \in QueueType
  BY <1>1, ThrottledQueue DEF BaseInv
<1>3. queue[q] \in Seq(Run)
  BY <1>2 DEF BaseInv, TypeOK
<1>4. queue[q] # <<>> /\ x = queue[q][1] /\ 1 \in 1 .. Len(queue[q])
  BY <1>1, <1>3, ResolveNext
<1> QED BY <1>1, <1>2, <1>4, QueueMembers

\* A step that leaves the queues and every waiting call alone keeps QueueInv.
LEMMA QuietStep ==
  ASSUME BaseInv, queue' = queue,
         \A x \in Run : pc[x] = "queued" => pc'[x] = "queued" /\ exec'[x] = exec[x]
  PROVE  QueueInv'
<1> SUFFICES ASSUME NEW q \in QueueType
             PROVE  /\ \A i \in 1 .. Len(queue[q]) :
                         /\ pc'[queue[q][i]] = "queued"
                         /\ GetQueue(ModeOf[exec'[queue[q][i]]]) = q
                    /\ \A i, j \in 1 .. Len(queue[q]) :
                         queue[q][i] = queue[q][j] => i = j
  BY DEF QueueInv, ModeOfRun
<1>1. ASSUME NEW i \in 1 .. Len(queue[q])
      PROVE  pc'[queue[q][i]] = "queued" /\ GetQueue(ModeOf[exec'[queue[q][i]]]) = q
  BY <1>1, QueueMembers DEF ModeOfRun
<1> QED BY <1>1 DEF BaseInv, QueueInv

\* release: the head of the queue is let go, all other calls keep their place.
LEMMA ReleaseStep ==
  ASSUME BaseInv, NEW mode \in Mode, Release(mode), exec' = exec,
         NEW after \in [Run -> Pc],
         \A x \in Run : pc[x] = "queued" => after[x] = "queued",
         \A x \in Run : after[x] \notin {"idle", "dead"} => exec[x] \in Exec,
         pc' = [x \in Run |-> IF x \in ReleasedBy(mode) THEN "reserved" ELSE after[x]]
  PROVE  /\ ControlTypeOK'
         /\ pc' \in [Run -> Pc]
         /\ \A x \in Run : pc'[x] \notin {"idle", "dead"} => exec'[x] \in Exec
         /\ QueueInv'
<1>1. ControlTypeOK'
  BY ReleaseType DEF BaseInv
<1>2. pc' \in [Run -> Pc]
  BY DEF Pc
<1>3. \A x \in Run : pc'[x] \notin {"idle", "dead"} => exec'[x] \in Exec
  BY ReleasedCalls
<1>4. QueueInv'
  <2>1. CASE ~IsThrottled(mode)
    BY <2>1, QuietStep DEF Release, ReleasedBy
  <2>2. CASE IsThrottled(mode)
    <3> DEFINE q == GetQueue(mode)
    <3>1. q \in QueueType
      BY <2>2, ThrottledQueue DEF BaseInv
    <3>2. queue \in [QueueType -> Seq(Run)]
      BY DEF BaseInv, TypeOK
    <3>3. /\ queue'[q] = RestOf(queue[q])
          /\ \A p \in QueueType : p # q => queue'[p] = queue[p]
      BY <2>2, <3>1, <3>2 DEF Release
    <3>4. ASSUME NEW p \in QueueType, NEW i \in 1 .. Len(queue[p]),
                 p # q \/ i # 1
          PROVE  pc'[queue[p][i]] = "queued" /\ GetQueue(ModeOf[exec'[queue[p][i]]]) = p
      <4>1. queue[p][i] \notin ReleasedBy(mode)
        <5> SUFFICES ASSUME queue[p][i] \in ReleasedBy(mode) PROVE FALSE
          OBVIOUS
        <5>1. p = q
          BY <3>4, ReleasedCalls, QueueMembers
        <5>2. queue[p][i] = queue[p][1] /\ 1 \in 1 .. Len(queue[p])
          BY <5>1, <3>2, ReleasedCalls
        <5> QED BY <5>1, <5>2, <3>4 DEF BaseInv, QueueInv
      <4> QED BY <4>1, <3>4, QueueMembers DEF ModeOfRun
    <3>5. ASSUME NEW p \in QueueType, p # q
          PROVE  /\ \A i \in 1 .. Len(queue'[p]) :
                       /\ pc'[queue'[p][i]] = "queued"
                       /\ GetQueue(ModeOf[exec'[queue'[p][i]]]) = p
                 /\ \A i, j \in 1 .. Len(queue'[p]) : queue'[p][i] = queue'[p][j] => i = j
      <4>1. queue'[p] = queue[p]
        BY <3>3, <3>5
      <4> QED BY <4>1, <3>4, <3>5 DEF BaseInv, QueueInv
    <3>6. /\ \A i \in 1 .. Len(queue'[q]) :
               /\ pc'[queue'[q][i]] = "queued"
               /\ GetQueue(ModeOf[exec'[queue'[q][i]]]) = q
          /\ \A i, j \in 1 .. Len(queue'[q]) : queue'[q][i] = queue'[q][j] => i = j
      <4> DEFINE s == queue[q]
      <4>0. s \in Seq(Run)
        BY <3>1, <3>2
      <4>1. CASE s = <<>>
        <5>1. queue'[q] = <<>>
          BY <4>0, <4>1, <3>3, ResolveNext
        <5>2. 1 .. Len(queue'[q]) = {}
          BY <5>1
        <5> QED BY <5>2
      <4>2. CASE s # <<>>
        <5>1. /\ Len(s) \in Nat
              /\ Len(RestOf(s)) = Len(s) - 1
              /\ \A i \in 1 .. Len(s) - 1 : RestOf(s)[i] = s[i + 1]
          BY <4>0, <4>2, ResolveNext, SMTT(20)
        <5>2. \A i, j \in 1 .. Len(s) : s[i] = s[j] => i = j
          BY <3>1 DEF BaseInv, QueueInv
        <5>3. ASSUME NEW i \in 1 .. Len(s) - 1
              PROVE  i + 1 \in 1 .. Len(s) /\ i + 1 # 1
          BY <5>1, <5>3
        <5>4. \A i \in 1 .. Len(s) - 1 :
                pc'[s[i + 1]] = "queued" /\ GetQueue(ModeOf[exec'[s[i + 1]]]) = q
          BY <5>3, <3>4, <3>1
        <5> HIDE DEF s, q
        <5>5. queue'[q] = RestOf(s)
          BY <3>3 DEF s
        <5>6. \A i, j \in 1 .. Len(s) - 1 : s[i + 1] = s[j + 1] => i = j
          BY <5>1, <5>2, <5>3
        <5>7. 1 .. Len(queue'[q]) = 1 .. Len(s) - 1
          BY <5>1, <5>5
        <5>8. \A i \in 1 .. Len(s) - 1 : queue'[q][i] = s[i + 1]
          BY <5>1, <5>5
        <5>9. ASSUME NEW i \in 1 .. Len(queue'[q])
              PROVE  /\ pc'[queue'[q][i]] = "queued"
                     /\ GetQueue(ModeOf[exec'[queue'[q][i]]]) = q
          <6>1. i \in 1 .. Len(s) - 1
            BY <5>7, <5>9
          <6> QED BY <6>1, <5>4, <5>8, Zenon
        <5>10. ASSUME NEW i \in 1 .. Len(queue'[q]), NEW j \in 1 .. Len(queue'[q]),
                      queue'[q][i] = queue'[q][j]
               PROVE  i = j
          BY <5>6, <5>7, <5>8, <5>10
        <5> QED BY <5>9, <5>10
      <4> QED BY <4>1, <4>2
    <3> HIDE DEF q
    <3> QED BY <3>5, <3>6 DEF QueueInv, ModeOfRun
  <2> QED BY <2>1, <2>2
<1> QED BY <1>1, <1>2, <1>3, <1>4

\* Splicing keeps the items distinct and takes out the k-th one.
LEMMA WithoutDistinct ==
  ASSUME NEW s \in Seq(Run), NEW k \in 1 .. Len(s),
         \A i, j \in 1 .. Len(s) : s[i] = s[j] => i = j
  PROVE  /\ \A i, j \in 1 .. Len(Without(s, k)) :
              Without(s, k)[i] = Without(s, k)[j] => i = j
         /\ \A i \in 1 .. Len(Without(s, k)) :
              /\ Without(s, k)[i] # s[k]
              /\ \E m \in 1 .. Len(s) : Without(s, k)[i] = s[m]
<1> DEFINE m(i) == IF i < k THEN i ELSE i + 1
<1>0. Len(s) \in Nat
  OBVIOUS
<1>1. /\ Len(Without(s, k)) = Len(s) - 1
      /\ \A i \in 1 .. Len(s) - 1 :
           Without(s, k)[i] = IF i < k THEN s[i] ELSE s[i + 1]
  BY WithoutType
<1>2. \A i \in 1 .. Len(s) - 1 : m(i) \in 1 .. Len(s) /\ m(i) # k
  BY <1>0
<1>3. \A i \in 1 .. Len(s) - 1 : Without(s, k)[i] = s[m(i)]
  BY <1>1
<1>4. \A i, j \in 1 .. Len(s) - 1 : m(i) = m(j) => i = j
  BY <1>0
<1> HIDE DEF m
<1> QED BY <1>1, <1>2, <1>3, <1>4, SMTT(20)

\* So does taking the head.
LEMMA RestDistinct ==
  ASSUME NEW s \in Seq(Run), \A i, j \in 1 .. Len(s) : s[i] = s[j] => i = j
  PROVE  /\ \A i, j \in 1 .. Len(RestOf(s)) : RestOf(s)[i] = RestOf(s)[j] => i = j
         /\ \A i \in 1 .. Len(RestOf(s)) :
              /\ RestOf(s)[i] \notin NextOf(s)
              /\ \E m \in 1 .. Len(s) : RestOf(s)[i] = s[m]
<1>0. Len(s) \in Nat
  OBVIOUS
<1>1. CASE s = <<>>
  <2>1. RestOf(s) = <<>>
    BY <1>1, ResolveNext
  <2>2. 1 .. Len(RestOf(s)) = {}
    BY <2>1
  <2> QED BY <2>2
<1>2. CASE s # <<>>
  <2>1. /\ Len(s) > 0
        /\ NextOf(s) = {s[1]}
        /\ Len(RestOf(s)) = Len(s) - 1
        /\ \A i \in 1 .. Len(s) - 1 : RestOf(s)[i] = s[i + 1]
    BY <1>2, ResolveNext
  <2>2. \A i \in 1 .. Len(s) - 1 : i + 1 \in 1 .. Len(s) /\ i + 1 # 1
    BY <1>0
  <2> QED BY <1>0, <2>1, <2>2
<1> QED BY <1>1, <1>2

\* stop of a queued execution: the call at place k hangs, the head of the rest
\* is let go, all others keep waiting.
LEMMA RemoveStep ==
  ASSUME BaseInv, NEW q \in QueueType, NEW k \in 1 .. Len(queue[q]),
         Remove(q, k), exec' = exec,
         pc' = [x \in Run |-> IF x \in RemoveLetsGo(q, k) THEN "reserved"
                              ELSE IF x = queue[q][k] THEN "hung" ELSE pc[x]]
  PROVE  /\ ControlTypeOK'
         /\ RemoveLetsGo(q, k) \subseteq Run
         /\ \A x \in RemoveLetsGo(q, k) : /\ pc[x] = "queued"
                                           /\ GetQueue(ModeOfRun(x)) = q
                                           /\ x # queue[q][k]
         /\ pc' \in [Run -> Pc]
         /\ \A x \in Run : pc'[x] \notin {"idle", "dead"} => exec'[x] \in Exec
         /\ QueueInv'
<1> DEFINE s == queue[q]
           w == Without(s, k)
           t == RestOf(w)
<1>0. queue \in [QueueType -> Seq(Run)] /\ s \in Seq(Run) /\ s[k] \in Run /\ pc \in [Run -> Pc]
  BY DEF BaseInv, TypeOK
<1>1. \A i, j \in 1 .. Len(s) : s[i] = s[j] => i = j
  BY DEF BaseInv, QueueInv
<1>2. /\ w \in Seq(Run)
      /\ \A i, j \in 1 .. Len(w) : w[i] = w[j] => i = j
      /\ \A i \in 1 .. Len(w) : w[i] # s[k] /\ \E m \in 1 .. Len(s) : w[i] = s[m]
  BY <1>0, <1>1, WithoutType, WithoutDistinct
<1> HIDE DEF w
<1>3. /\ t \in Seq(Run)
      /\ \A i, j \in 1 .. Len(t) : t[i] = t[j] => i = j
      /\ \A i \in 1 .. Len(t) : t[i] \notin NextOf(w) /\ \E m \in 1 .. Len(w) : t[i] = w[m]
  BY <1>2, ResolveNext, RestDistinct
<1>4. \A x \in NextOf(w) : \E m \in 1 .. Len(w) : x = w[m]
  <2>1. CASE w = <<>>
    BY <2>1, <1>2, ResolveNext
  <2>2. CASE w # <<>>
    BY <2>2, <1>2, ResolveNext
  <2> QED BY <2>1, <2>2
<1>5. RemoveLetsGo(q, k) = NextOf(w)
  BY DEF RemoveLetsGo, w
<1>6. /\ queue'[q] = t
      /\ \A p \in QueueType : p # q => queue'[p] = queue[p]
      /\ queue' \in [QueueType -> Seq(Run)]
  BY <1>0, <1>3 DEF Remove, w
<1> HIDE DEF t
<1>7. ControlTypeOK'
  BY <1>6 DEF ControlTypeOK, BaseInv, TypeOK, Remove
<1>8. NextOf(w) \subseteq Run
  BY <1>2, ResolveNext
<1>9. \A x \in NextOf(w) : pc[x] = "queued" /\ GetQueue(ModeOfRun(x)) = q /\ x # s[k]
  BY <1>2, <1>4, QueueMembers
<1>10. pc' \in [Run -> Pc]
  BY <1>0 DEF Pc
<1>11. \A x \in Run : pc'[x] \notin {"idle", "dead"} => exec'[x] \in Exec
  <2>1. pc[s[k]] = "queued"
    BY QueueMembers
  <2> QED BY <1>5, <1>8, <1>9, <2>1 DEF BaseInv, TypeOK
<1>12. ASSUME NEW p \in QueueType, p # q
       PROVE  /\ \A i \in 1 .. Len(queue'[p]) :
                    /\ pc'[queue'[p][i]] = "queued"
                    /\ GetQueue(ModeOf[exec'[queue'[p][i]]]) = p
              /\ \A i, j \in 1 .. Len(queue'[p]) : queue'[p][i] = queue'[p][j] => i = j
  <2>1. queue'[p] = queue[p]
    BY <1>6, <1>12
  <2>2. ASSUME NEW i \in 1 .. Len(queue[p])
        PROVE  pc'[queue[p][i]] = "queued" /\ GetQueue(ModeOf[exec'[queue[p][i]]]) = p
    <3>1. /\ queue[p][i] \in Run
          /\ pc[queue[p][i]] = "queued"
          /\ GetQueue(ModeOfRun(queue[p][i])) = p
      BY QueueMembers
    <3>2. GetQueue(ModeOfRun(s[k])) = q
      BY QueueMembers
    <3> QED BY <1>5, <1>9, <1>12, <3>1, <3>2 DEF ModeOfRun
  <2>3. \A i, j \in 1 .. Len(queue[p]) : queue[p][i] = queue[p][j] => i = j
    BY DEF BaseInv, QueueInv
  <2> QED BY <2>1, <2>2, <2>3
<1>13. /\ \A i \in 1 .. Len(queue'[q]) :
            /\ pc'[queue'[q][i]] = "queued"
            /\ GetQueue(ModeOf[exec'[queue'[q][i]]]) = q
       /\ \A i, j \in 1 .. Len(queue'[q]) : queue'[q][i] = queue'[q][j] => i = j
  <2>1. ASSUME NEW i \in 1 .. Len(t)
        PROVE  pc'[t[i]] = "queued" /\ GetQueue(ModeOf[exec'[t[i]]]) = q
    <3>1. PICK j \in 1 .. Len(w) : t[i] = w[j]
      BY <1>3
    <3>2. PICK m \in 1 .. Len(s) : w[j] = s[m] /\ w[j] # s[k]
      BY <1>2
    <3>3. /\ s[m] \in Run
          /\ pc[s[m]] = "queued"
          /\ GetQueue(ModeOfRun(s[m])) = q
      BY QueueMembers
    <3>4. t[i] = s[m] /\ t[i] # s[k] /\ t[i] \notin NextOf(w)
      BY <1>3, <3>1, <3>2
    <3> QED BY <1>5, <3>3, <3>4 DEF ModeOfRun
  <2> QED BY <1>3, <1>6, <2>1
<1>14. QueueInv'
  BY <1>12, <1>13 DEF QueueInv, ModeOfRun
<1> QED BY <1>5, <1>7, <1>8, <1>9, <1>10, <1>11, <1>14

\* throttle on behalf of a call that is in no queue.
LEMMA ReserveStep ==
  ASSUME BaseInv, NEW r \in Run, Reserve(r)
  PROVE  BaseInv'
<1> DEFINE mode == ModeOfRun(r)
           q == GetQueue(mode)
<1>1. pc[r] # "queued" /\ exec[r] \in Exec /\ mode \in Mode
  BY ExecAssumption DEF Reserve, BaseInv, TypeOK, ModeOfRun
<1> HIDE DEF mode
<1>2. ControlTypeOK'
  BY <1>1, ThrottleType DEF BaseInv, Reserve, mode
<1>3. TypeOK'
  BY <1>1, <1>2, ZenonT(30) DEF Reserve, BaseInv, TypeOK, ControlTypeOK, Pc, hostVars, entryVars
<1>4. CASE EnqueueBlocks(mode)
  <2>1. IsThrottled(mode) /\ q \in QueueType
    BY <1>1, <1>4, ThrottledQueue DEF BaseInv, EnqueueBlocks
  <2>2. /\ queue \in [QueueType -> Seq(Run)]
        /\ queue' = [queue EXCEPT ![q] = Append(@, r)]
        /\ pc' = [pc EXCEPT ![r] = "queued"] /\ pc \in [Run -> Pc] /\ exec' = exec
    BY <1>4, <2>1 DEF Reserve, Throttle, BaseInv, TypeOK, mode
  <2> HIDE DEF q
  <2>3. ASSUME NEW p \in QueueType
        PROVE  /\ \A i \in 1 .. Len(queue'[p]) :
                     /\ pc'[queue'[p][i]] = "queued"
                     /\ GetQueue(ModeOf[exec'[queue'[p][i]]]) = p
               /\ \A i, j \in 1 .. Len(queue'[p]) : queue'[p][i] = queue'[p][j] => i = j
    <3>1. \A i \in 1 .. Len(queue[p]) :
            /\ queue[p][i] # r /\ pc'[queue[p][i]] = "queued"
            /\ GetQueue(ModeOf[exec'[queue[p][i]]]) = p
      BY <1>1, <2>2, QueueMembers DEF ModeOfRun
    <3>2. \A i, j \in 1 .. Len(queue[p]) : queue[p][i] = queue[p][j] => i = j
      BY DEF BaseInv, QueueInv
    <3>3. CASE p # q
      BY <2>1, <2>2, <3>1, <3>2, <3>3
    <3>4. CASE p = q
      <4>1. queue'[p] = Append(queue[p], r) /\ queue[p] \in Seq(Run)
        BY <2>1, <2>2, <3>4
      <4>2. /\ Len(queue'[p]) = Len(queue[p]) + 1 /\ Len(queue[p]) \in Nat
            /\ queue'[p][Len(queue[p]) + 1] = r
            /\ \A i \in 1 .. Len(queue[p]) : queue'[p][i] = queue[p][i]
        BY <4>1
      <4>3. pc'[r] = "queued" /\ GetQueue(ModeOf[exec'[r]]) = p
        BY <2>2, <3>4 DEF q, mode, ModeOfRun
      <4>4. \A i \in 1 .. Len(queue'[p]) :
              i \in 1 .. Len(queue[p]) \/ i = Len(queue[p]) + 1
        BY <4>2
      <4> QED BY <3>1, <3>2, <4>2, <4>3, <4>4
    <3> QED BY <3>3, <3>4
  <2> QED BY <1>3, <2>3 DEF BaseInv, QueueInv, ModeOfRun
<1>5. CASE ~EnqueueBlocks(mode)
  <2>1. queue' = queue /\ exec' = exec /\ pc' = [pc EXCEPT ![r] = "reserved"]
    BY <1>5 DEF Reserve, Throttle, mode
  <2>2. \A x \in Run : pc[x] = "queued" => pc'[x] = "queued" /\ exec'[x] = exec[x]
    BY <1>1, <2>1 DEF BaseInv, TypeOK
  <2> QED BY <1>3, <2>1, <2>2, QuietStep DEF BaseInv
<1> QED BY <1>4, <1>5

-----------------------------------------------------------------------------
(* BaseInv is inductive.                                                     *)

\* Settling an entry: release, on behalf of the call that registered it.
LEMMA FinalizeStep ==
  ASSUME BaseInv, NEW e \in Exec, NEW after \in [Run -> Pc], exec' = exec,
         \A x \in Run : pc[x] = "queued" => after[x] = "queued",
         \A x \in Run : after[x] \notin {"idle", "dead"} => exec[x] \in Exec,
         FinalizeExecution(e, after)
  PROVE  /\ ControlTypeOK'
         /\ pc' \in [Run -> Pc]
         /\ \A x \in Run : pc'[x] \notin {"idle", "dead"} => exec'[x] \in Exec
         /\ QueueInv'
         /\ reserved' \subseteq Run
         /\ active' \in [Exec -> Run \cup {NoRun}]
<1>1. ModeOf[e] \in Mode
  BY ExecAssumption
<1>2. CASE SettleEntry(e, after)
  <2>1. /\ Release(ModeOf[e])
        /\ reserved' = (reserved \ {active[e]}) \cup ReleasedBy(ModeOf[e])
        /\ pc' = [x \in Run |-> IF x \in ReleasedBy(ModeOf[e]) THEN "reserved" ELSE after[x]]
        /\ active' = active \/ active' = [active EXCEPT ![e] = NoRun]
    BY <1>2 DEF SettleEntry
  <2>2. /\ ControlTypeOK'
        /\ pc' \in [Run -> Pc]
        /\ \A x \in Run : pc'[x] \notin {"idle", "dead"} => exec'[x] \in Exec
        /\ QueueInv'
    BY <1>1, <2>1, ReleaseStep
  <2>3. reserved' \subseteq Run
    BY <1>1, <2>1, ReleasedCalls DEF BaseInv, TypeOK
  <2>4. active' \in [Exec -> Run \cup {NoRun}]
    BY <2>1 DEF BaseInv, TypeOK
  <2> QED BY <2>2, <2>3, <2>4
<1>3. CASE pc' = after /\ UNCHANGED <<controlVars, reserved, active>>
  BY <1>3, QuietStep DEF BaseInv, TypeOK, ControlTypeOK, controlVars
<1> QED BY <1>2, <1>3 DEF FinalizeExecution

\* The catch block of add(): release, on behalf of the call itself.
LEMMA ReleaseReservationStep ==
  ASSUME BaseInv, NEW r \in Run, NEW at \in {"refused", "failed"},
         pc[r] = "reserved", exec' = exec, ReleaseReservation(r, at)
  PROVE  /\ ControlTypeOK'
         /\ pc' \in [Run -> Pc]
         /\ \A x \in Run : pc'[x] \notin {"idle", "dead"} => exec'[x] \in Exec
         /\ QueueInv'
         /\ reserved' \subseteq Run
<1> DEFINE after == [pc EXCEPT ![r] = at]
<1>1. exec[r] \in Exec /\ ModeOfRun(r) \in Mode
  BY ExecAssumption DEF BaseInv, TypeOK, ModeOfRun
<1>2. /\ after \in [Run -> Pc]
      /\ \A x \in Run : pc[x] = "queued" => after[x] = "queued"
      /\ \A x \in Run : after[x] \notin {"idle", "dead"} => exec[x] \in Exec
  BY <1>1 DEF BaseInv, TypeOK, Pc
<1>3. pc' = [x \in Run |-> IF x \in ReleasedBy(ModeOfRun(r)) THEN "reserved" ELSE after[x]]
  BY DEF ReleaseReservation, BaseInv, TypeOK
<1>4. Release(ModeOfRun(r))
  BY DEF ReleaseReservation
<1>5. reserved' \subseteq Run
  BY <1>1, ReleasedCalls DEF BaseInv, TypeOK, ReleaseReservation
<1> HIDE DEF after
<1> QED BY <1>1, <1>2, <1>3, <1>4, <1>5, ReleaseStep

\* stopExecution, by the stop request or the timeout.
LEMMA StopEntryStep ==
  ASSUME BaseInv, NEW e \in Exec, StopEntry(e), exec' = exec
  PROVE  /\ ControlTypeOK'
         /\ pc' \in [Run -> Pc]
         /\ \A x \in Run : pc'[x] \notin {"idle", "dead"} => exec'[x] \in Exec
         /\ QueueInv'
         /\ reserved' \subseteq Run
         /\ active' \in [Exec -> Run \cup {NoRun}]
         /\ canceled' \subseteq Run /\ cancelSave' \subseteq Run
<1>1. /\ canceled' \subseteq Run /\ cancelSave' \subseteq Run
  BY DEF StopEntry, BaseInv, TypeOK
<1>2. CASE UNCHANGED <<controlVars, pc, reserved>>
           /\ active' \in {active, [active EXCEPT ![e] = NoRun]}
  BY <1>1, <1>2, QuietStep DEF BaseInv, TypeOK, ControlTypeOK, controlVars
<1>3. CASE FinalizeExecution(e, pc)
  BY <1>1, <1>3, FinalizeStep DEF BaseInv, TypeOK
<1> QED BY <1>2, <1>3 DEF StopEntry

LEMMA BaseInvInit == Init => BaseInv
<1> SUFFICES ASSUME Init PROVE BaseInv
  OBVIOUS
<1>1. ControlTypeOK
  BY BootType DEF Init, ControlTypeOK
<1>2. TypeOK
  BY <1>1 DEF Init, TypeOK, ControlTypeOK, Pc, DbStatus
<1>3. \A q \in QueueType : Len(queue[q]) = 0
  BY DEF Init, ControlBoot
<1> QED BY <1>2, <1>3 DEF BaseInv, QueueInv

\* An action that touches no queue and moves no waiting call.
Quiet(r) ==
  \/ SetRunning(r) \/ ResumeRow(r) \/ Register(r) \/ FailExecution(r)
  \/ AttachResponseFails(r) \/ StartMainProcess(r) \/ StartMainProcessFails(r) \/ Launch(r)
  \/ LaunchDetached(r) \/ SaveError(r) \/ PutToWait(r) \/ SaveProgress(r) \/ SaveCanceled(r)
  \/ \E o \in DbStatus : FinishWorkflow(r, o)

LEMMA QuietActions ==
  ASSUME BaseInv, NEW r \in Run, Quiet(r)
  PROVE  BaseInv'
<1> USE DEF BaseInv, TypeOK, Pc, DbStatus, controlVars, entryVars, runVars, hostVars
<1>1. CASE SetRunning(r)
  <2>1. TypeOK'
    BY <1>1 DEF SetRunning
  <2>2. QueueInv'
    BY <1>1, QuietStep DEF SetRunning
  <2> QED BY <2>1, <2>2
<1>2. CASE ResumeRow(r)
  <2>1. TypeOK'
    BY <1>2 DEF ResumeRow
  <2>2. QueueInv'
    BY <1>2, QuietStep DEF ResumeRow
  <2> QED BY <2>1, <2>2
<1>3. CASE Register(r)
  <2>1. TypeOK'
    BY <1>3 DEF Register
  <2>2. QueueInv'
    BY <1>3, QuietStep DEF Register
  <2> QED BY <2>1, <2>2
<1>4. CASE FailExecution(r)
  <2>1. TypeOK'
    BY <1>4 DEF FailExecution
  <2>2. QueueInv'
    BY <1>4, QuietStep DEF FailExecution
  <2> QED BY <2>1, <2>2
<1>5. CASE AttachResponseFails(r)
  <2>1. TypeOK'
    BY <1>5 DEF AttachResponseFails
  <2>2. QueueInv'
    BY <1>5, QuietStep DEF AttachResponseFails
  <2> QED BY <2>1, <2>2
<1>6. CASE StartMainProcess(r)
  <2>1. TypeOK'
    BY <1>6 DEF StartMainProcess
  <2>2. QueueInv'
    BY <1>6, QuietStep DEF StartMainProcess
  <2> QED BY <2>1, <2>2
<1>7. CASE StartMainProcessFails(r)
  <2>1. TypeOK'
    BY <1>7 DEF StartMainProcessFails
  <2>2. QueueInv'
    BY <1>7, QuietStep DEF StartMainProcessFails
  <2> QED BY <2>1, <2>2
<1>8. CASE Launch(r)
  <2>1. TypeOK'
    BY <1>8 DEF Launch
  <2>2. QueueInv'
    BY <1>8, QuietStep DEF Launch
  <2> QED BY <2>1, <2>2
<1>9. CASE LaunchDetached(r)
  <2>1. TypeOK'
    BY <1>9 DEF LaunchDetached
  <2>2. QueueInv'
    BY <1>9, QuietStep DEF LaunchDetached
  <2> QED BY <2>1, <2>2
<1>10. CASE SaveError(r)
  <2>1. TypeOK'
    BY <1>10 DEF SaveError, Saves
  <2>2. QueueInv'
    BY <1>10, QuietStep DEF SaveError, Saves
  <2> QED BY <2>1, <2>2
<1>11. CASE PutToWait(r)
  <2>1. TypeOK'
    BY <1>11 DEF PutToWait
  <2>2. QueueInv'
    BY <1>11, QuietStep DEF PutToWait
  <2> QED BY <2>1, <2>2
<1>12. CASE SaveProgress(r)
  <2>1. TypeOK'
    BY <1>12 DEF SaveProgress
  <2>2. QueueInv'
    BY <1>12, QuietStep DEF SaveProgress
  <2> QED BY <2>1, <2>2
<1>13. CASE SaveCanceled(r)
  <2>1. TypeOK'
    BY <1>13 DEF SaveCanceled, Saves
  <2>2. QueueInv'
    BY <1>13, QuietStep DEF SaveCanceled, Saves
  <2> QED BY <2>1, <2>2
<1>14. ASSUME NEW o \in DbStatus, FinishWorkflow(r, o) PROVE BaseInv'
  <2>1. TypeOK'
    BY <1>14 DEF FinishWorkflow, Saves
  <2>2. QueueInv'
    BY <1>14, QuietStep DEF FinishWorkflow, Saves
  <2> QED BY <2>1, <2>2
<1> QED BY <1>1, <1>2, <1>3, <1>4, <1>5, <1>6, <1>7, <1>8, <1>9, <1>10, <1>11, <1>12, <1>13, <1>14 DEF Quiet

\* The actions that begin a call of WorkflowRunner.run.
LEMMA BeginActions ==
  ASSUME BaseInv, NEW r \in Run, NEW e \in Exec,
         CreateExecution(r, e) \/ ResumeExecution(r, e) \/ RunEnqueuedExecution(r, e)
  PROVE  BaseInv'
<1> USE DEF BaseInv, TypeOK, Pc, DbStatus, controlVars, entryVars, runVars, hostVars
<1>1. TypeOK'
  <2>1. PICK k \in {"new", "resume", "bootup"}, at \in {"created", "restart"} :
          Begin(r, e, k, at)
    BY Zenon DEF CreateExecution, ResumeExecution, RunEnqueuedExecution
  <2>2. /\ db' \in [Exec -> DbStatus]
        /\ bootList' \subseteq Exec
    BY DEF CreateExecution, ResumeExecution, RunEnqueuedExecution
  <2> QED BY <2>1, <2>2 DEF Begin
<1>2. queue' = queue
  BY DEF CreateExecution, ResumeExecution, RunEnqueuedExecution, Begin
<1>3. \A x \in Run : pc[x] = "queued" => pc'[x] = "queued" /\ exec'[x] = exec[x]
  BY DEF CreateExecution, ResumeExecution, RunEnqueuedExecution, Begin
<1> QED BY <1>1, <1>2, <1>3, QuietStep

\* The actions of a call that release capacity.
LEMMA ReleaseActions ==
  ASSUME BaseInv, NEW r \in Run,
         RefuseResume(r) \/ AddFails(r) \/ LaunchFails(r) \/ FinalizeRun(r) \/ TimeoutRun(r)
  PROVE  BaseInv'
<1>1. CASE RefuseResume(r) \/ AddFails(r)
  <2>1. PICK at \in {"refused", "failed"} :
          /\ pc[r] = "reserved" /\ ReleaseReservation(r, at)
          /\ UNCHANGED <<kind, exec, entryVars, db, hostVars>>
    BY <1>1 DEF RefuseResume, AddFails
  <2>2. /\ ControlTypeOK' /\ pc' \in [Run -> Pc]
        /\ \A x \in Run : pc'[x] \notin {"idle", "dead"} => exec'[x] \in Exec
        /\ QueueInv' /\ reserved' \subseteq Run
    BY <2>1, ReleaseReservationStep
  <2> QED BY <2>1, <2>2 DEF BaseInv, TypeOK, ControlTypeOK, entryVars, hostVars
<1>2. CASE LaunchFails(r) \/ FinalizeRun(r)
  <2>1. PICK at \in {"erring", "done"} :
          /\ pc[r] \in {"starting", "saved"} /\ exec' = exec
          /\ FinalizeExecution(exec[r], [pc EXCEPT ![r] = at])
    BY <1>2 DEF LaunchFails, FinalizeRun
  <2> DEFINE after == [pc EXCEPT ![r] = at]
  <2>2. /\ after \in [Run -> Pc] /\ exec[r] \in Exec
        /\ \A x \in Run : pc[x] = "queued" => after[x] = "queued"
        /\ \A x \in Run : after[x] \notin {"idle", "dead"} => exec[x] \in Exec
    BY <2>1 DEF BaseInv, TypeOK, Pc
  <2>3. FinalizeExecution(exec[r], after)
    BY <2>1
  <2> HIDE DEF after
  <2>4. /\ ControlTypeOK' /\ pc' \in [Run -> Pc]
        /\ \A x \in Run : pc'[x] \notin {"idle", "dead"} => exec'[x] \in Exec
        /\ QueueInv' /\ reserved' \subseteq Run
        /\ active' \in [Exec -> Run \cup {NoRun}]
    BY <2>1, <2>2, <2>3, FinalizeStep
  <2>5. UNCHANGED <<kind, exec, status, cancelSave, db, hostVars>>
        /\ attached' \subseteq Run /\ canceled' \subseteq Run /\ waits' \subseteq Run
    BY <1>2 DEF LaunchFails, FinalizeRun, BaseInv, TypeOK
  <2> QED BY <2>4, <2>5 DEF BaseInv, TypeOK, ControlTypeOK, hostVars
<1>3. CASE TimeoutRun(r)
  <2>1. exec[r] \in Exec /\ StopEntry(exec[r]) /\ exec' = exec
        /\ UNCHANGED <<kind, exec, status, attached, waits, db, hostVars>>
    BY <1>3 DEF TimeoutRun, BaseInv, TypeOK
  <2> QED BY <2>1, StopEntryStep DEF BaseInv, TypeOK, ControlTypeOK, hostVars
<1> QED BY <1>1, <1>2, <1>3

\* ExecutionService.stop.
LEMMA StopActions ==
  ASSUME BaseInv, NEW e \in Exec, StopStep(e)
  PROVE  BaseInv'
<1> USE DEF controlVars, entryVars, runVars
<1>1. CASE StopRead(e)
  BY <1>1, QuietStep DEF StopRead, BaseInv, TypeOK
<1>2. CASE StopQueued(e)
  <2>0. PICK q \in queues : \E k \in 1 .. Len(queue[q]) :
          /\ Remove(q, k)
          /\ reserved' = reserved \cup RemoveLetsGo(q, k)
          /\ pc' = [x \in Run |-> IF x \in RemoveLetsGo(q, k) THEN "reserved"
                                  ELSE IF x = queue[q][k] THEN "hung" ELSE pc[x]]
    BY <1>2 DEF StopQueued
  <2>1. PICK k \in 1 .. Len(queue[q]) :
          /\ Remove(q, k)
          /\ reserved' = reserved \cup RemoveLetsGo(q, k)
          /\ pc' = [x \in Run |-> IF x \in RemoveLetsGo(q, k) THEN "reserved"
                                  ELSE IF x = queue[q][k] THEN "hung" ELSE pc[x]]
    BY <2>0
  <2>2. UNCHANGED <<kind, exec, entryVars, db, down, bootList, restarts>>
        /\ stop' \in [Exec -> {"idle", "read", "write"}]
    BY <1>2 DEF StopQueued, BaseInv, TypeOK
  <2>3. q \in QueueType
    BY DEF BaseInv, TypeOK
  <2>4. /\ ControlTypeOK' /\ RemoveLetsGo(q, k) \subseteq Run /\ pc' \in [Run -> Pc]
        /\ \A x \in Run : pc'[x] \notin {"idle", "dead"} => exec'[x] \in Exec
        /\ QueueInv'
    BY <2>1, <2>2, <2>3, RemoveStep
  <2> QED BY <2>1, <2>2, <2>4 DEF BaseInv, TypeOK, ControlTypeOK
<1>3. CASE StopActive(e)
  <2>1. StopEntry(e) /\ UNCHANGED <<kind, exec, status, attached, waits, db, down, bootList, restarts>>
        /\ stop' \in [Exec -> {"idle", "read", "write"}]
    BY <1>3 DEF StopActive, BaseInv, TypeOK
  <2> QED BY <2>1, StopEntryStep DEF BaseInv, TypeOK, ControlTypeOK
<1>4. CASE StopWrite(e)
  BY <1>4, QuietStep DEF StopWrite, Saves, BaseInv, TypeOK, DbStatus
<1> QED BY <1>1, <1>2, <1>3, <1>4 DEF StopStep

\* Shutdown and restart.
LEMMA ProcessActions ==
  ASSUME BaseInv, BeginShutdown \/ Restart
  PROVE  BaseInv'
<1>1. CASE BeginShutdown
  <2>1. TypeOK'
    BY <1>1 DEF BeginShutdown, Disable, BaseInv, TypeOK, runVars
  <2> QED BY <1>1, <2>1, QuietStep DEF BeginShutdown, Disable, BaseInv, runVars
<1>2. CASE Restart
  <2>1. ControlTypeOK'
    BY <1>2, BootType DEF Restart, ControlTypeOK
  <2>2. /\ pc' \in [Run -> Pc]
        /\ \A r \in Run : pc'[r] \in {"idle", "dead"}
        /\ db' \in [Exec -> DbStatus]
    BY <1>2 DEF Restart, BaseInv, TypeOK, Pc, DbStatus
  <2>3. /\ kind' \in [Run -> {"new", "resume", "bootup"}]
        /\ exec' \in [Run -> Exec \cup {NoExec}]
        /\ active' \in [Exec -> Run \cup {NoRun}]
        /\ status' \in [Run -> {"running", "waiting"}]
        /\ stop' \in [Exec -> {"idle", "read", "write"}]
    BY <1>2 DEF Restart
  <2>4. /\ reserved' = {} /\ attached' = {} /\ canceled' = {} /\ cancelSave' = {}
        /\ waits' = {} /\ down' = FALSE /\ bootList' \subseteq Exec
        /\ restarts' \in Nat
    BY <1>2 DEF Restart, BaseInv, TypeOK
  <2>5. TypeOK'
    BY <2>1, <2>2, <2>3, <2>4 DEF ControlTypeOK, TypeOK
  <2>6. \A q \in QueueType : Len(queue'[q]) = 0
    BY <1>2 DEF Restart, ControlBoot
  <2> QED BY <2>5, <2>6 DEF BaseInv, QueueInv
<1> QED BY <1>1, <1>2

\* Every step of the system is one of the groups above.
LEMMA NextCases ==
  ASSUME Next
  PROVE  \/ \E r \in Run : \/ Reserve(r) \/ Quiet(r)
                           \/ \E e \in Exec : \/ CreateExecution(r, e)
                                               \/ ResumeExecution(r, e)
                                               \/ RunEnqueuedExecution(r, e)
                           \/ RefuseResume(r) \/ AddFails(r) \/ LaunchFails(r)
                           \/ FinalizeRun(r) \/ TimeoutRun(r)
         \/ \E e \in Exec : StopStep(e)
         \/ BeginShutdown \/ Restart
BY DEF Next, AddStep, MainStep, EnvStep, Quiet, Exit, Crash, DbStatus

LEMMA BaseInvStep == BaseInv /\ [Next]_vars => BaseInv'
<1> SUFFICES ASSUME BaseInv, [Next]_vars PROVE BaseInv'
  OBVIOUS
<1>1. CASE Next
  BY <1>1, NextCases, ReserveStep, QuietActions, BeginActions, ReleaseActions,
     StopActions, ProcessActions
<1>2. CASE UNCHANGED vars
  <2>1. TypeOK'
    BY <1>2 DEF BaseInv, TypeOK, vars, controlVars, runVars, entryVars, hostVars
  <2> QED BY <1>2, <2>1, QuietStep DEF BaseInv, vars, controlVars, runVars
<1> QED BY <1>1, <1>2

LEMMA BaseInvariant == Spec => []BaseInv
BY BaseInvInit, BaseInvStep, PTL DEF Spec

\* Every field keeps its type, and no call that resolveNext lets go is one that
\* does not know its execution.
THEOREM TypeCorrect == Spec => []TypeOK
<1>1. BaseInv => TypeOK
  BY DEF BaseInv
<1> QED BY <1>1, BaseInvariant, PTL
=============================================================================

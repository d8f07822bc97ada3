--------------------------- MODULE CapacityProofs ---------------------------
(***************************************************************************)
(* The concurrency limit's books are kept: proofs that the capacity counter*)
(* of a ConcurrencyQueue always equals its limit minus the reservations    *)
(* held minus the calls waiting, and that a call waits only while the      *)
(* limit is used up.                                                       *)
(*                                                                         *)
(* Neither fact is inductive by itself.  The strengthening says which calls*)
(* can hold a reservation (so that a new reservation is a new element),    *)
(* that an entry belongs to the execution it is registered for (so that the*)
(* released mode is the reserved one), and that the lazily built evaluation*)
(* queue has no holders before it is built.                                *)
(***************************************************************************)
EXTENDS ActiveExecutionsProofs

\* Where a call stands before throttle lets it through (or for ever, if it
\* never does), and before it registers its entry.
BeforeGrant == {"idle", "created", "restart", "queued", "hung", "dead"}

BeforeRegister == BeforeGrant \cup {"reserved", "marked"}

\* A reservation is held only after throttle has let the call through, and then
\* as long as the call is inside the try block of add().
ReservedInv ==
  /\ \A r \in reserved : pc[r] \notin BeforeGrant
  /\ \A r \in Run : pc[r] = "reserved" => r \in reserved

\* An entry was registered by a call for this execution.
ActiveInv ==
  \A e \in Exec : active[e] # NoRun =>
    active[e] \in Run /\ exec[active[e]] = e /\ pc[active[e]] \notin BeforeRegister

\* Before the evaluation queue is decided nothing was counted for it.
EvalInv ==
  ~evalQueueResolved =>
    /\ "evaluation" \notin queues
    /\ queue["evaluation"] = <<>>
    /\ capacity["evaluation"] = Limit("evaluation")
    /\ Holders("evaluation") = {}
    /\ NormaliseLimit(EvaluationLimit) <= 0

\* Outside shutdown the service is enabled as soon as it has a queue.
EnabledInv == queues # {} => isEnabled

\* The books of queue q balance, and nobody waits for nothing.
BooksOf(q) ==
  /\ capacity[q] = Limit(q) - Cardinality(Holders(q)) - Len(queue[q])
  /\ queue[q] # <<>> => Cardinality(Holders(q)) >= Limit(q)

Books == \A q \in queues : BooksOf(q)

ControlInv == EvalInv /\ EnabledInv /\ Books

CapacityInv == ~down => ReservedInv /\ ActiveInv /\ ControlInv

-----------------------------------------------------------------------------
(* Counting holders.                                                        *)

LEMMA HoldersFinite ==
  ASSUME TypeOK, NEW q
  PROVE  IsFiniteSet(Holders(q)) /\ Cardinality(Holders(q)) \in Nat
<1>1. Holders(q) \subseteq Run
  BY DEF Holders, TypeOK
<1>2. IsFiniteSet(Holders(q))
  BY <1>1, FS_Subset, ExecAssumption
<1> QED BY <1>2, FS_CardinalityType

\* One call more.
LEMMA HoldersAdd ==
  ASSUME TypeOK, NEW q, NEW r \in Run \ reserved,
         exec' = exec, reserved' = reserved \cup {r}
  PROVE  /\ GetQueue(ModeOfRun(r)) = q =>
              Cardinality(Holders(q)') = Cardinality(Holders(q)) + 1
         /\ GetQueue(ModeOfRun(r)) # q => Holders(q)' = Holders(q)
<1>1. CASE GetQueue(ModeOfRun(r)) = q
  <2>1. Holders(q)' = Holders(q) \cup {r} /\ r \notin Holders(q)
    BY <1>1 DEF Holders, ModeOfRun
  <2> QED BY <1>1, <2>1, HoldersFinite, FS_AddElement
<1>2. CASE GetQueue(ModeOfRun(r)) # q
  BY <1>2 DEF Holders, ModeOfRun
<1> QED BY <1>1, <1>2

\* One call less.
LEMMA HoldersRemove ==
  ASSUME TypeOK, NEW q, NEW r \in reserved,
         exec' = exec, reserved' = reserved \ {r}
  PROVE  /\ GetQueue(ModeOfRun(r)) = q =>
              Cardinality(Holders(q)') = Cardinality(Holders(q)) - 1
         /\ GetQueue(ModeOfRun(r)) # q => Holders(q)' = Holders(q)
<1>1. CASE GetQueue(ModeOfRun(r)) = q
  <2>1. Holders(q)' = Holders(q) \ {r} /\ r \in Holders(q)
    BY <1>1 DEF Holders, ModeOfRun
  <2> QED BY <1>1, <2>1, HoldersFinite, FS_RemoveElement
<1>2. CASE GetQueue(ModeOfRun(r)) # q
  BY <1>2 DEF Holders, ModeOfRun
<1> QED BY <1>1, <1>2

\* One call handing over to another of the same queue.
LEMMA HoldersSwap ==
  ASSUME TypeOK, NEW q, NEW r \in reserved, NEW x \in Run \ reserved,
         GetQueue(ModeOfRun(r)) = GetQueue(ModeOfRun(x)),
         exec' = exec, reserved' = (reserved \ {r}) \cup {x}
  PROVE  Cardinality(Holders(q)') = Cardinality(Holders(q))
<1>1. CASE GetQueue(ModeOfRun(r)) = q
  <2> DEFINE H == Holders(q) \ {r}
  <2>1. r \in Holders(q)
    BY <1>1 DEF Holders
  <2>2. IsFiniteSet(H) /\ Cardinality(H) = Cardinality(Holders(q)) - 1
    BY <2>1, HoldersFinite, FS_RemoveElement
  <2>3. Holders(q)' = H \cup {x} /\ x \notin H
    BY <1>1 DEF Holders, ModeOfRun
  <2> HIDE DEF H
  <2>4. Cardinality(H \cup {x}) = Cardinality(H) + 1
    BY <2>2, <2>3, FS_AddElement
  <2> QED BY <2>2, <2>3, <2>4, HoldersFinite
<1>2. CASE GetQueue(ModeOfRun(r)) # q
  BY <1>2 DEF Holders, ModeOfRun
<1> QED BY <1>1, <1>2

-----------------------------------------------------------------------------
(* The steps that touch a queue.                                            *)

\* The books of a queue that a step leaves alone.
LEMMA BooksUnchanged ==
  ASSUME NEW q, BooksOf(q), capacity'[q] = capacity[q], queue'[q] = queue[q],
         Cardinality(Holders(q)') = Cardinality(Holders(q))
  PROVE  BooksOf(q)'
BY DEF BooksOf, Limit

\* The queue that throttle finds: it exists if it is limited, and its books
\* balanced, also when ensureEvalQueueResolved has only just built it.
LEMMA ThrottleFinds ==
  ASSUME BaseInv, ControlInv, NEW mode \in Mode, EnsureEvalQueueResolved(mode)
  PROVE  /\ queues' \subseteq queues \cup {GetQueue(mode)}
         /\ EnabledInv'
         /\ GetQueue(mode) \in queues' =>
              IsThrottled(mode) /\ GetQueue(mode) \in QueueType /\ BooksOf(GetQueue(mode))
         /\ IsThrottled(mode) => GetQueue(mode) \in queues'
<1> DEFINE q == GetQueue(mode)
<1>0. mode = "evaluation" => q = "evaluation"
  BY GetQueueType
<1>1. CASE BuildsEvalQueue(mode)
  <2>1. mode = "evaluation" /\ ~evalQueueResolved /\ q = "evaluation"
    BY <1>0, <1>1 DEF BuildsEvalQueue, ResolvesEvalQueue
  <2>2. queues' = queues \cup {"evaluation"} /\ isEnabled' = TRUE
    BY <1>1 DEF EnsureEvalQueueResolved, BaseInv, TypeOK
  <2>3. IsThrottled(mode)
    BY <1>1 DEF IsThrottled
  <2>4. BooksOf("evaluation")
    <3>1. Cardinality(Holders("evaluation")) = 0 /\ Len(queue["evaluation"]) = 0
      BY <2>1, FS_EmptySet DEF ControlInv, EvalInv
    <3>2. Limit("evaluation") \in Int
      BY LimitType DEF QueueType
    <3> QED BY <2>1, <3>1, <3>2 DEF ControlInv, EvalInv, BooksOf
  <2> QED BY <2>1, <2>2, <2>3, <2>4 DEF EnabledInv, QueueType
<1>2. CASE ~BuildsEvalQueue(mode)
  <2>1. queues' = queues /\ isEnabled' = isEnabled
    BY <1>2 DEF EnsureEvalQueueResolved, BaseInv, TypeOK
  <2> QED BY <1>2, <2>1 DEF ControlInv, EnabledInv, Books, IsThrottled, BaseInv, TypeOK
<1> QED BY <1>1, <1>2

\* As long as the evaluation queue stays undecided, EvalInv is not disturbed.
LEMMA EvalUndecided ==
  ASSUME EvalInv, NEW mode \in Mode, EnsureEvalQueueResolved(mode),
         evalQueueResolved \in BOOLEAN,
         queue'["evaluation"] = queue["evaluation"] \/ mode = "evaluation",
         capacity'["evaluation"] = capacity["evaluation"] \/ mode = "evaluation",
         Holders("evaluation")' = Holders("evaluation") \/ mode = "evaluation"
  PROVE  EvalInv'
BY DEF EvalInv, EnsureEvalQueueResolved, BuildsEvalQueue, ResolvesEvalQueue, Limit

\* Reserve: a reservation or a place in the queue is paid with one unit.
LEMMA ReserveBooks ==
  ASSUME BaseInv, ReservedInv, ControlInv, NEW r \in Run, Reserve(r)
  PROVE  ControlInv'
<1>a. PICK mode : mode = ModeOfRun(r)
  OBVIOUS
<1>b. PICK q : q = GetQueue(mode)
  OBVIOUS
<1>1. exec[r] \in Exec /\ mode \in Mode /\ r \in Run \ reserved /\ exec' = exec
  BY <1>a, ExecAssumption DEF Reserve, BaseInv, TypeOK, ModeOfRun, ReservedInv, BeforeGrant, BeforeRegister
<1>2. EnsureEvalQueueResolved(mode)
  BY <1>a DEF Reserve, Throttle
<1>3. /\ queues' \subseteq queues \cup {q}
      /\ EnabledInv'
      /\ q \in queues' => IsThrottled(mode) /\ q \in QueueType /\ BooksOf(q)
      /\ IsThrottled(mode) => q \in queues'
  BY <1>b, <1>1, <1>2, ThrottleFinds
<1>4. /\ capacity \in [QueueType -> Int]
      /\ queue \in [QueueType -> Seq(Run)]
      /\ evalQueueResolved \in BOOLEAN
      /\ TypeOK
  BY DEF BaseInv, TypeOK
<1>5. IF IsThrottled(mode)
      THEN /\ capacity' = [capacity EXCEPT ![q] = @ - 1]
           /\ queue' = IF EnqueueBlocks(mode) THEN [queue EXCEPT ![q] = Append(@, r)] ELSE queue
      ELSE UNCHANGED <<capacity, queue>>
  BY <1>a, <1>b DEF Reserve, Throttle
<1>6. IF EnqueueBlocks(mode) THEN reserved' = reserved ELSE reserved' = reserved \cup {r}
  BY <1>a DEF Reserve
<1>7. EnqueueBlocks(mode) <=> IsThrottled(mode) /\ capacity[q] - 1 < 0
  BY <1>b DEF EnqueueBlocks
<1>8. \A p \in QueueType : p # q => Holders(p)' = Holders(p)
  <2>1. CASE reserved' = reserved
    BY <1>1, <2>1 DEF Holders, ModeOfRun
  <2>2. CASE reserved' = reserved \cup {r}
    BY <1>a, <1>b, <1>1, <1>4, <2>2, HoldersAdd
  <2> QED BY <1>6, <2>1, <2>2
<1>9. \A p \in QueueType : p # q => capacity'[p] = capacity[p] /\ queue'[p] = queue[p]
  BY <1>4, <1>5
<1>10. EvalInv'
  <2>1. "evaluation" \in QueueType /\ (mode # "evaluation" => q # "evaluation")
    BY <1>b, <1>1, GetQueueType DEF QueueType
  <2>2. \/ mode = "evaluation"
        \/ /\ queue'["evaluation"] = queue["evaluation"]
           /\ capacity'["evaluation"] = capacity["evaluation"]
           /\ Holders("evaluation")' = Holders("evaluation")
    BY <2>1, <1>8, <1>9
  <2>3. EvalInv
    BY DEF ControlInv
  <2> QED BY <1>1, <1>2, <1>4, <2>2, <2>3, EvalUndecided
<1>11. ASSUME q \in queues' PROVE BooksOf(q)'
  <2>1. IsThrottled(mode) /\ q \in QueueType /\ BooksOf(q)
    BY <1>3, <1>11
  <2>2. Limit(q) \in Int /\ Limit(q)' = Limit(q)
    BY <2>1, LimitType DEF Limit
  <2>3. Cardinality(Holders(q)) \in Nat
    BY <1>4, HoldersFinite
  <2>4. queue[q] \in Seq(Run) /\ capacity[q] \in Int /\ capacity'[q] = capacity[q] - 1
    BY <1>4, <1>5, <2>1
  <2>5. CASE EnqueueBlocks(mode)
    <3>1. queue'[q] = Append(queue[q], r)
      BY <1>4, <1>5, <2>1, <2>5
    <3>2. Len(queue'[q]) = Len(queue[q]) + 1 /\ Len(queue[q]) \in Nat
          /\ (queue[q] = <<>> => Len(queue[q]) = 0)
      BY <2>4, <3>1
    <3>3. Holders(q)' = Holders(q)
      BY <1>1, <1>6, <2>5 DEF Holders, ModeOfRun
    <3>4. capacity[q] - 1 < 0
      BY <1>7, <2>5
    <3>5. Cardinality(Holders(q)) >= Limit(q)
      BY <2>1, <2>2, <2>3, <2>4, <3>2, <3>4 DEF BooksOf
    <3> QED BY <2>1, <2>2, <2>3, <2>4, <3>2, <3>3, <3>5 DEF BooksOf
  <2>6. CASE ~EnqueueBlocks(mode)
    <3>1. queue'[q] = queue[q]
      BY <1>5, <2>6, <2>1
    <3>2. Cardinality(Holders(q)') = Cardinality(Holders(q)) + 1
      BY <1>a, <1>b, <1>1, <1>4, <1>6, <2>6, HoldersAdd
    <3>3. capacity[q] >= 1
      BY <1>7, <2>1, <2>4, <2>6
    <3>4. Len(queue[q]) \in Nat /\ (queue[q] # <<>> => Len(queue[q]) > 0)
      BY <2>4
    <3>5. queue[q] = <<>>
      BY <2>1, <2>2, <2>3, <3>3, <3>4 DEF BooksOf
    <3> QED BY <2>1, <2>2, <2>3, <2>4, <3>1, <3>2, <3>4, <3>5 DEF BooksOf
  <2> QED BY <2>5, <2>6
<1>12. ASSUME NEW p \in queues', p # q PROVE BooksOf(p)'
  <2>1. p \in queues /\ p \in QueueType
    BY <1>3, <1>12, <1>4 DEF TypeOK
  <2>2. BooksOf(p)
    BY <2>1 DEF ControlInv, Books
  <2> QED BY <1>8, <1>9, <1>12, <2>1, <2>2, BooksUnchanged
<1> QED BY <1>3, <1>10, <1>11, <1>12 DEF ControlInv, Books

\* release by a call that holds a reservation: the unit goes back to the
\* counter, or straight to the head of the queue.
LEMMA ReleaseBooks ==
  ASSUME BaseInv, ReservedInv, ControlInv, NEW c \in reserved, NEW mode \in Mode,
         mode = ModeOfRun(c), Release(mode), exec' = exec,
         reserved' = (reserved \ {c}) \cup ReleasedBy(mode)
  PROVE  ControlInv'
<1>b. PICK q : q = GetQueue(mode)
  OBVIOUS
<1>1. EnsureEvalQueueResolved(mode)
  BY DEF Release
<1>2. mode = "evaluation" => evalQueueResolved
  <2>1. mode = "evaluation" => c \in Holders("evaluation")
    BY GetQueueType DEF Holders
  <2> QED BY <2>1 DEF ControlInv, EvalInv
<1>3. /\ ~BuildsEvalQueue(mode)
      /\ queues' = queues /\ isEnabled' = isEnabled /\ evalQueueResolved' = evalQueueResolved
  BY <1>1, <1>2 DEF EnsureEvalQueueResolved, BuildsEvalQueue, ResolvesEvalQueue, BaseInv, TypeOK
<1>4. /\ TypeOK
      /\ capacity \in [QueueType -> Int]
      /\ queue \in [QueueType -> Seq(Run)]
      /\ evalQueueResolved \in BOOLEAN
      /\ c \in Run
  BY DEF BaseInv, TypeOK
<1>5. IF IsThrottled(mode)
      THEN /\ capacity' = [capacity EXCEPT ![q] = @ + 1]
           /\ queue' = [queue EXCEPT ![q] = RestOf(@)]
      ELSE UNCHANGED <<capacity, queue>>
  BY <1>b DEF Release
<1>6. IsThrottled(mode) <=> q \in queues
  BY <1>b, <1>3 DEF IsThrottled, ControlInv, EnabledInv
<1>7. \A x \in ReleasedBy(mode) :
        /\ x \in Run \ reserved /\ GetQueue(ModeOfRun(x)) = q
        /\ q \in QueueType /\ queue[q] # <<>> /\ x = queue[q][1]
  BY <1>b, ReleasedCalls DEF ReservedInv, BeforeGrant, BeforeRegister
<1>8. \A p \in QueueType : p # q => Holders(p)' = Holders(p)
  BY <1>b, <1>7 DEF Holders, ModeOfRun
<1>9. \A p \in QueueType : p # q => capacity'[p] = capacity[p] /\ queue'[p] = queue[p]
  BY <1>4, <1>5
<1>10. EvalInv'
  <2>1. "evaluation" \in QueueType /\ (mode # "evaluation" => q # "evaluation")
    BY <1>b, GetQueueType DEF QueueType
  <2>2. \/ mode = "evaluation"
        \/ /\ queue'["evaluation"] = queue["evaluation"]
           /\ capacity'["evaluation"] = capacity["evaluation"]
           /\ Holders("evaluation")' = Holders("evaluation")
    BY <2>1, <1>8, <1>9
  <2>3. EvalInv
    BY DEF ControlInv
  <2> QED BY <1>1, <1>4, <2>2, <2>3, EvalUndecided
<1>11. ASSUME q \in queues PROVE BooksOf(q)'
  <2>1. IsThrottled(mode) /\ q \in QueueType /\ BooksOf(q)
    BY <1>4, <1>6, <1>11 DEF TypeOK, ControlInv, Books
  <2>2. Limit(q) \in Int /\ Limit(q)' = Limit(q)
    BY <2>1, LimitType DEF Limit
  <2>3. Cardinality(Holders(q)) \in Nat
    BY <1>4, HoldersFinite
  <2>4. /\ queue[q] \in Seq(Run) /\ capacity[q] \in Int
        /\ capacity'[q] = capacity[q] + 1 /\ queue'[q] = RestOf(queue[q])
    BY <1>4, <1>5, <2>1
  <2>5. ReleasedBy(mode) = NextOf(queue[q])
    BY <1>b, <2>1 DEF ReleasedBy
  <2>6. CASE queue[q] = <<>>
    <3>1. ReleasedBy(mode) = {} /\ queue'[q] = <<>>
      BY <2>4, <2>5, <2>6, ResolveNext
    <3>2. reserved' = reserved \ {c}
      BY <3>1
    <3>3. Cardinality(Holders(q)') = Cardinality(Holders(q)) - 1
      BY <1>b, <1>4, <3>2, HoldersRemove
    <3>4. Len(queue[q]) = 0 /\ Len(queue'[q]) = 0
      BY <2>6, <3>1
    <3> QED BY <2>1, <2>2, <2>3, <2>4, <3>1, <3>3, <3>4 DEF BooksOf
  <2>7. CASE queue[q] # <<>>
    <3>1. ReleasedBy(mode) = {queue[q][1]} /\ Len(queue'[q]) = Len(queue[q]) - 1
          /\ Len(queue[q]) \in Nat
      BY <2>4, <2>5, <2>7, ResolveNext
    <3>2. PICK x : x = queue[q][1]
      OBVIOUS
    <3>3. x \in Run \ reserved /\ GetQueue(ModeOfRun(x)) = q
          /\ reserved' = (reserved \ {c}) \cup {x}
      BY <1>7, <3>1, <3>2
    <3>4. Cardinality(Holders(q)') = Cardinality(Holders(q))
      BY <1>b, <1>4, <3>3, HoldersSwap
    <3> QED BY <2>1, <2>2, <2>3, <2>4, <2>7, <3>1, <3>4 DEF BooksOf
  <2> QED BY <2>6, <2>7
<1>12. ASSUME NEW p \in queues, p # q PROVE BooksOf(p)'
  <2>1. p \in QueueType /\ BooksOf(p)
    BY <1>4 DEF TypeOK, ControlInv, Books
  <2> QED BY <1>8, <1>9, <1>12, <2>1, BooksUnchanged
<1>13. EnabledInv'
  BY <1>3 DEF ControlInv, EnabledInv
<1> QED BY <1>3, <1>10, <1>11, <1>12, <1>13 DEF ControlInv, Books

\* remove of a waiting call: one unit comes back and is passed on at once, if
\* anybody else waits.
LEMMA RemoveBooks ==
  ASSUME BaseInv, ReservedInv, ControlInv, NEW q \in queues,
         NEW k \in 1 .. Len(queue[q]), Remove(q, k), exec' = exec,
         reserved' = reserved \cup RemoveLetsGo(q, k),
         \A x \in RemoveLetsGo(q, k) :
           x \in Run /\ pc[x] = "queued" /\ GetQueue(ModeOfRun(x)) = q
  PROVE  ControlInv'
<1>1. /\ TypeOK /\ q \in QueueType
      /\ capacity \in [QueueType -> Int]
      /\ queue \in [QueueType -> Seq(Run)]
  BY DEF BaseInv, TypeOK
<1>2. /\ isEnabled' = isEnabled /\ queues' = queues /\ evalQueueResolved' = evalQueueResolved
      /\ capacity' = [capacity EXCEPT ![q] = @ + 1]
      /\ queue' = [queue EXCEPT ![q] = RestOf(Without(@, k))]
  BY DEF Remove
<1>3. \A x \in RemoveLetsGo(q, k) : x \in Run \ reserved
  BY DEF ReservedInv, BeforeGrant, BeforeRegister
<1>4. \A p \in QueueType : p # q => Holders(p)' = Holders(p)
  BY DEF Holders, ModeOfRun
<1>5. \A p \in QueueType : p # q => capacity'[p] = capacity[p] /\ queue'[p] = queue[p]
  BY <1>1, <1>2
<1>6. EvalInv'
  BY <1>2, <1>4, <1>5 DEF ControlInv, EvalInv, QueueType, Limit
<1>7. BooksOf(q)'
  <2> DEFINE s == queue[q]
             w == Without(s, k)
  <2>1. BooksOf(q) /\ s # <<>> /\ s \in Seq(Run) /\ Len(s) \in Nat
    BY <1>1 DEF ControlInv, Books
  <2>2. Limit(q) \in Int /\ Limit(q)' = Limit(q)
    BY <1>1, LimitType DEF Limit
  <2>3. Cardinality(Holders(q)) \in Nat
    BY <1>1, HoldersFinite
  <2>4. w \in Seq(Run) /\ Len(w) = Len(s) - 1
    BY <2>1, WithoutType
  <2>5. RemoveLetsGo(q, k) = NextOf(w) /\ queue'[q] = RestOf(w)
        /\ capacity'[q] = capacity[q] + 1
    BY <1>1, <1>2 DEF RemoveLetsGo
  <2> HIDE DEF w
  <2>6. CASE w = <<>>
    <3>1. RemoveLetsGo(q, k) = {} /\ queue'[q] = <<>> /\ Len(queue'[q]) = 0 /\ Len(s) = 1
      BY <2>1, <2>4, <2>5, <2>6, ResolveNext, SMTT(20)
    <3>2. Holders(q)' = Holders(q)
      BY <3>1 DEF Holders, ModeOfRun
    <3> QED BY <2>1, <2>2, <2>3, <2>5, <3>1, <3>2 DEF BooksOf
  <2>7. CASE w # <<>>
    <3>1. RemoveLetsGo(q, k) = {w[1]} /\ Len(queue'[q]) = Len(s) - 2
      BY <2>1, <2>4, <2>5, <2>7, ResolveNext
    <3>2. PICK x : x = w[1]
      OBVIOUS
    <3>3. x \in Run \ reserved /\ GetQueue(ModeOfRun(x)) = q /\ reserved' = reserved \cup {x}
      BY <1>3, <3>1, <3>2
    <3>4. Cardinality(Holders(q)') = Cardinality(Holders(q)) + 1
      BY <1>1, <3>3, HoldersAdd
    <3>5. /\ capacity[q] = Limit(q) - Cardinality(Holders(q)) - Len(s)
          /\ Cardinality(Holders(q)) >= Limit(q)
      BY <2>1 DEF BooksOf
    <3>6. /\ capacity'[q] = Limit(q) - Cardinality(Holders(q)') - Len(queue'[q])
          /\ Cardinality(Holders(q)') >= Limit(q)
      <4> HIDE DEF s
      <4>1. Len(s) \in Nat /\ Limit(q) \in Int /\ Cardinality(Holders(q)) \in Nat
        BY <2>1, <2>2, <2>3
      <4>2. capacity'[q] = capacity[q] + 1 /\ Len(queue'[q]) = Len(s) - 2
        BY <2>5, <3>1
      <4>3. PICK c \in Nat, n \in Nat, lim \in Int :
              c = Cardinality(Holders(q)) /\ n = Len(s) /\ lim = Limit(q)
        BY <4>1
      <4>4. capacity[q] = lim - c - n /\ c >= lim
        BY <3>5, <4>3
      <4>5. capacity'[q] = lim - (c + 1) - (n - 2) /\ c + 1 >= lim
        BY <4>2, <4>4
      <4> QED BY <3>4, <4>2, <4>3, <4>5
    <3> QED BY <2>2, <3>6 DEF BooksOf
  <2> QED BY <2>6, <2>7
<1>8. ASSUME NEW p \in queues, p # q PROVE BooksOf(p)'
  <2>1. p \in QueueType /\ BooksOf(p)
    BY <1>1 DEF TypeOK, ControlInv, Books
  <2> QED BY <1>4, <1>5, <1>8, <2>1, BooksUnchanged
<1>9. EnabledInv'
  BY <1>2 DEF ControlInv, EnabledInv
<1> QED BY <1>2, <1>6, <1>7, <1>8, <1>9 DEF ControlInv, Books

-----------------------------------------------------------------------------
(* CapacityInv is inductive relative to BaseInv.                            *)

\* A step that leaves queues and reservations alone.
LEMMA ControlUnchanged ==
  ASSUME ControlInv, UNCHANGED <<controlVars, reserved>>,
         \A r \in reserved : exec'[r] = exec[r]
  PROVE  ControlInv'
<1>1. \A q : Holders(q)' = Holders(q)
  BY DEF Holders, ModeOfRun
<1>2. UNCHANGED <<isEnabled, queues, evalQueueResolved, capacity, queue>>
  BY DEF controlVars
<1>3. EvalInv' /\ EnabledInv'
  BY <1>1, <1>2 DEF ControlInv, EvalInv, EnabledInv, Limit
<1>4. ASSUME NEW q \in queues PROVE BooksOf(q)'
  BY <1>1, <1>2, BooksUnchanged DEF ControlInv, Books
<1> QED BY <1>2, <1>3, <1>4 DEF ControlInv, Books

LEMMA CapacityQuiet ==
  ASSUME BaseInv, ReservedInv, ActiveInv, ControlInv, NEW r \in Run, Quiet(r)
  PROVE  ReservedInv' /\ ActiveInv' /\ ControlInv'
<1> USE DEF BaseInv, TypeOK, controlVars, entryVars, runVars, BeforeGrant, BeforeRegister
<1>1. /\ UNCHANGED <<controlVars, reserved, exec>>
      /\ \/ pc' = pc
         \/ pc[r] = "reserved" /\ pc' = [pc EXCEPT ![r] = "marked"]
         \/ \E at \in {"added", "starting", "executing", "orphan", "saved", "done",
                         "failed"} : pc' = [pc EXCEPT ![r] = at]
      /\ \/ active' = active
         \/ /\ active' = [active EXCEPT ![exec[r]] = r]
            /\ exec[r] \in Exec /\ pc'[r] \notin BeforeRegister
  <2>1. CASE SetRunning(r)
    BY <2>1 DEF SetRunning
  <2>2. CASE ResumeRow(r)
    BY <2>2 DEF ResumeRow
  <2>3. CASE Register(r)
    BY <2>3 DEF Register
  <2>4. CASE FailExecution(r)
    BY <2>4 DEF FailExecution
  <2>5. CASE AttachResponseFails(r)
    BY <2>5 DEF AttachResponseFails
  <2>6. CASE StartMainProcess(r)
    BY <2>6 DEF StartMainProcess
  <2>7. CASE StartMainProcessFails(r)
    BY <2>7 DEF StartMainProcessFails
  <2>8. CASE Launch(r)
    BY <2>8 DEF Launch
  <2>9. CASE LaunchDetached(r)
    BY <2>9 DEF LaunchDetached
  <2>10. CASE SaveError(r)
    BY <2>10 DEF SaveError, Saves
  <2>11. CASE PutToWait(r)
    BY <2>11 DEF PutToWait
  <2>12. CASE SaveProgress(r)
    BY <2>12 DEF SaveProgress
  <2>13. CASE SaveCanceled(r)
    <3>1. UNCHANGED <<controlVars, reserved, exec, active>> /\ pc' = pc
      BY <2>13 DEF SaveCanceled, Saves
    <3> QED BY <3>1
  <2>14. ASSUME NEW o \in DbStatus, FinishWorkflow(r, o)
        PROVE  /\ UNCHANGED <<controlVars, reserved, exec, active>>
               /\ \E at \in {"saved", "done"} : pc' = [pc EXCEPT ![r] = at]
    BY <2>14 DEF FinishWorkflow, Saves
  <2>15. CASE \E o \in DbStatus : FinishWorkflow(r, o)
    <3>1. PICK o \in DbStatus : FinishWorkflow(r, o)
      BY <2>15
    <3>2. UNCHANGED <<controlVars, reserved, exec, active>>
          /\ \E at \in {"saved", "done"} : pc' = [pc EXCEPT ![r] = at]
      BY <2>14, <3>1
    <3> QED BY <3>2
  <2> QED BY <2>1, <2>2, <2>3, <2>4, <2>5, <2>6, <2>7, <2>8, <2>9, <2>10, <2>11, <2>12, <2>13,
             <2>15, Zenon DEF Quiet
<1>2. ReservedInv'
  BY <1>1 DEF ReservedInv, BeforeGrant, BeforeRegister
<1>3. ActiveInv'
  BY <1>1, ExecAssumption DEF ActiveInv, BeforeGrant, BeforeRegister
<1>4. ControlInv'
  BY <1>1, ControlUnchanged
<1> QED BY <1>2, <1>3, <1>4

LEMMA CapacityBegin ==
  ASSUME BaseInv, ReservedInv, ActiveInv, ControlInv, NEW r \in Run, NEW e \in Exec,
         CreateExecution(r, e) \/ ResumeExecution(r, e) \/ RunEnqueuedExecution(r, e)
  PROVE  ReservedInv' /\ ActiveInv' /\ ControlInv'
<1>1. PICK k \in {"new", "resume", "bootup"}, at \in {"created", "restart"} :
        Begin(r, e, k, at)
  BY Zenon DEF CreateExecution, ResumeExecution, RunEnqueuedExecution
<1>2. /\ pc[r] = "idle" /\ UNCHANGED <<controlVars, reserved, active>>
      /\ pc'[r] \in {"created", "restart"}
      /\ \A x \in Run \ {r} : pc'[x] = pc[x] /\ exec'[x] = exec[x]
  BY <1>1 DEF Begin, BaseInv, TypeOK, entryVars
<1>3. r \notin reserved
  BY <1>2 DEF ReservedInv, BeforeGrant, BeforeRegister
<1>4. ReservedInv'
  BY <1>2, <1>3 DEF ReservedInv, BaseInv, TypeOK, BeforeGrant, BeforeRegister
<1>5. ActiveInv'
  BY <1>2 DEF ActiveInv, BeforeGrant, BeforeRegister
<1>6. ControlInv'
  BY <1>2, <1>3, ControlUnchanged DEF BaseInv, TypeOK
<1> QED BY <1>4, <1>5, <1>6

LEMMA CapacityReserve ==
  ASSUME BaseInv, ReservedInv, ActiveInv, ControlInv, NEW r \in Run, Reserve(r)
  PROVE  ReservedInv' /\ ActiveInv' /\ ControlInv'
<1>1. UNCHANGED <<exec, active>>
      /\ \/ pc' = [pc EXCEPT ![r] = "queued"] /\ reserved' = reserved
         \/ pc' = [pc EXCEPT ![r] = "reserved"] /\ reserved' = reserved \cup {r}
  BY DEF Reserve, entryVars
<1>2. r \notin reserved /\ \A e \in Exec : active[e] # r
  BY ExecAssumption DEF Reserve, ReservedInv, ActiveInv, BeforeGrant, BeforeRegister
<1>3. pc \in [Run -> Pc] /\ reserved \subseteq Run
  BY DEF BaseInv, TypeOK
<1>4. ReservedInv'
  BY <1>1, <1>2, <1>3 DEF ReservedInv, BeforeGrant
<1>5. ActiveInv'
  BY <1>1, <1>2, <1>3 DEF ActiveInv
<1> QED BY <1>4, <1>5, ReserveBooks

\* finalizeExecution and a rejected promise: the call registered for e gives
\* back what it reserved, for the mode of e.
LEMMA CapacityFinalize ==
  ASSUME BaseInv, ReservedInv, ActiveInv, ControlInv, NEW e \in Exec, NEW after \in [Run -> Pc],
         FinalizeExecution(e, after), exec' = exec,
         \A x \in Run : after[x] \in BeforeRegister => after[x] = pc[x]
  PROVE  ReservedInv' /\ ActiveInv' /\ ControlInv'
<1>0. ModeOf[e] \in Mode
  BY ExecAssumption
<1>1. CASE SettleEntry(e, after)
  <2>1. /\ Release(ModeOf[e]) /\ active[e] # NoRun /\ active[e] \in reserved
        /\ reserved' = (reserved \ {active[e]}) \cup ReleasedBy(ModeOf[e])
        /\ pc' = [x \in Run |-> IF x \in ReleasedBy(ModeOf[e]) THEN "reserved" ELSE after[x]]
        /\ active' = active \/ active' = [active EXCEPT ![e] = NoRun]
    BY <1>1 DEF SettleEntry, Pending
  <2>2. ModeOf[e] = ModeOfRun(active[e])
    BY <2>1 DEF ActiveInv, ModeOfRun, BeforeGrant, BeforeRegister
  <2>3. ControlInv'
    BY <1>0, <2>1, <2>2, ReleaseBooks
  <2>4. \A x \in ReleasedBy(ModeOf[e]) : x \in Run /\ pc[x] = "queued"
    BY <1>0, ReleasedCalls
  <2>5. pc[active[e]] \notin BeforeRegister
    BY <2>1 DEF ActiveInv
  <2>6. reserved \subseteq Run /\ active \in [Exec -> Run \cup {NoRun}]
    BY DEF BaseInv, TypeOK
  <2>7. ReservedInv'
    <3>1. ASSUME NEW x \in reserved' PROVE pc'[x] \notin BeforeGrant
      BY <2>1, <2>4, <2>6, <3>1 DEF ReservedInv, BeforeGrant, BeforeRegister
    <3>2. ASSUME NEW x \in Run, pc'[x] = "reserved" PROVE x \in reserved'
      BY <2>1, <2>4, <2>5, <3>2 DEF ReservedInv, BeforeGrant, BeforeRegister
    <3> QED BY <3>1, <3>2 DEF ReservedInv
  <2>8. ActiveInv'
    <3> SUFFICES ASSUME NEW d \in Exec, active'[d] # NoRun
                 PROVE  /\ active'[d] \in Run /\ exec[active'[d]] = d
                        /\ pc'[active'[d]] \notin BeforeRegister
      BY DEF ActiveInv
    <3>1. active'[d] = active[d] /\ active[d] # NoRun
      BY <2>1, <2>6
    <3>2. active[d] \in Run /\ exec[active[d]] = d /\ pc[active[d]] \notin BeforeRegister
      BY <3>1 DEF ActiveInv
    <3>3. active[d] \notin ReleasedBy(ModeOf[e])
      BY <2>4, <3>2 DEF BeforeGrant, BeforeRegister
    <3> QED BY <2>1, <3>1, <3>2, <3>3
  <2> QED BY <2>3, <2>7, <2>8
<1>2. CASE pc' = after /\ UNCHANGED <<controlVars, reserved, active>>
  <2>1. ControlInv'
    BY <1>2, ControlUnchanged
  <2> QED BY <1>2, <2>1 DEF ReservedInv, ActiveInv, BaseInv, TypeOK, BeforeGrant, BeforeRegister
<1> QED BY <1>1, <1>2 DEF FinalizeExecution

LEMMA CapacityStopEntry ==
  ASSUME BaseInv, ReservedInv, ActiveInv, ControlInv, NEW e \in Exec,
         StopEntry(e), exec' = exec
  PROVE  ReservedInv' /\ ActiveInv' /\ ControlInv'
<1>1. CASE UNCHANGED <<controlVars, pc, reserved>>
           /\ active' \in {active, [active EXCEPT ![e] = NoRun]}
  <2>1. ControlInv'
    BY <1>1, ControlUnchanged
  <2> QED BY <1>1, <2>1 DEF ReservedInv, ActiveInv, BaseInv, TypeOK, BeforeGrant, BeforeRegister
<1>2. CASE FinalizeExecution(e, pc)
  BY <1>2, CapacityFinalize DEF BaseInv, TypeOK
<1> QED BY <1>1, <1>2 DEF StopEntry

LEMMA CapacityRelease ==
  ASSUME BaseInv, ReservedInv, ActiveInv, ControlInv, NEW r \in Run,
         RefuseResume(r) \/ AddFails(r) \/ LaunchFails(r) \/ FinalizeRun(r) \/ TimeoutRun(r)
  PROVE  ReservedInv' /\ ActiveInv' /\ ControlInv'
<1>1. CASE RefuseResume(r) \/ AddFails(r)
  <2>1. PICK at \in {"refused", "failed"} :
          /\ pc[r] = "reserved" /\ ReleaseReservation(r, at)
          /\ UNCHANGED <<exec, active>>
    BY <1>1 DEF RefuseResume, AddFails, entryVars
  <2>2. PICK mode : mode = ModeOfRun(r)
    OBVIOUS
  <2>3. mode \in Mode /\ r \in reserved
    BY <2>1, <2>2, ExecAssumption DEF BaseInv, TypeOK, ModeOfRun, ReservedInv, BeforeGrant, BeforeRegister
  <2>4. /\ Release(mode)
        /\ reserved' = (reserved \ {r}) \cup ReleasedBy(mode)
        /\ pc' = [x \in Run |-> IF x \in ReleasedBy(mode) THEN "reserved"
                                ELSE IF x = r THEN at ELSE pc[x]]
    BY <2>1, <2>2 DEF ReleaseReservation
  <2>5. ControlInv'
    BY <2>1, <2>2, <2>3, <2>4, ReleaseBooks
  <2>6. ReservedInv'
    BY <2>3, <2>4, ReleasedCalls DEF ReservedInv, BaseInv, TypeOK, BeforeGrant, BeforeRegister
  <2>7. ActiveInv'
    <3> SUFFICES ASSUME NEW d \in Exec, active[d] # NoRun
                 PROVE  /\ active[d] \in Run /\ exec[active[d]] = d
                        /\ pc'[active[d]] \notin BeforeRegister
      BY <2>1 DEF ActiveInv
    <3>1. active[d] \in Run /\ exec[active[d]] = d /\ pc[active[d]] \notin BeforeRegister
      BY DEF ActiveInv
    <3>2. active[d] \notin ReleasedBy(mode)
      BY <2>3, <3>1, ReleasedCalls DEF BeforeGrant, BeforeRegister
    <3>3. at \notin BeforeRegister
      BY DEF BeforeGrant, BeforeRegister
    <3> QED BY <2>4, <3>1, <3>2, <3>3
  <2> QED BY <2>5, <2>6, <2>7
<1>2. CASE LaunchFails(r) \/ FinalizeRun(r)
  <2>1. PICK at \in {"erring", "done"} :
          /\ pc[r] \in {"starting", "saved"} /\ exec' = exec
          /\ FinalizeExecution(exec[r], [pc EXCEPT ![r] = at])
    BY <1>2 DEF LaunchFails, FinalizeRun
  <2>2. PICK e \in Exec : e = exec[r]
    BY <2>1 DEF BaseInv, TypeOK
  <2>3. PICK after : after = [pc EXCEPT ![r] = at]
    OBVIOUS
  <2>4. /\ after \in [Run -> Pc]
        /\ \A x \in Run : after[x] \in BeforeRegister => after[x] = pc[x]
    BY <2>3 DEF BaseInv, TypeOK, Pc, BeforeRegister, BeforeGrant
  <2>5. FinalizeExecution(e, after) /\ exec' = exec
    BY <2>1, <2>2, <2>3
  <2> QED BY <2>4, <2>5, CapacityFinalize
<1>3. CASE TimeoutRun(r)
  <2>1. PICK e \in Exec : e = exec[r] /\ StopEntry(e) /\ exec' = exec
    BY <1>3 DEF TimeoutRun, BaseInv, TypeOK
  <2> QED BY <2>1, CapacityStopEntry
<1> QED BY <1>1, <1>2, <1>3

LEMMA CapacityStop ==
  ASSUME BaseInv, ReservedInv, ActiveInv, ControlInv, NEW e \in Exec, StopStep(e)
  PROVE  ReservedInv' /\ ActiveInv' /\ ControlInv'
<1>1. CASE StopRead(e) \/ StopWrite(e)
  <2>1. UNCHANGED <<controlVars, reserved, exec, active, pc>>
    BY <1>1 DEF StopRead, StopWrite, runVars, entryVars
  <2> QED BY <2>1, ControlUnchanged DEF ReservedInv, ActiveInv
<1>2. CASE StopQueued(e)
  <2>1. PICK q \in queues : \E k \in 1 .. Len(queue[q]) :
          /\ Remove(q, k)
          /\ reserved' = reserved \cup RemoveLetsGo(q, k)
          /\ pc' = [x \in Run |-> IF x \in RemoveLetsGo(q, k) THEN "reserved"
                                  ELSE IF x = queue[q][k] THEN "hung" ELSE pc[x]]
    BY <1>2 DEF StopQueued
  <2>2. PICK k \in 1 .. Len(queue[q]) :
          /\ Remove(q, k)
          /\ reserved' = reserved \cup RemoveLetsGo(q, k)
          /\ pc' = [x \in Run |-> IF x \in RemoveLetsGo(q, k) THEN "reserved"
                                  ELSE IF x = queue[q][k] THEN "hung" ELSE pc[x]]
    BY <2>1
  <2>3. UNCHANGED <<exec, active>>
    BY <1>2 DEF StopQueued, entryVars
  <2>4. q \in QueueType
    BY DEF BaseInv, TypeOK
  <2>5. \A x \in RemoveLetsGo(q, k) :
          x \in Run /\ pc[x] = "queued" /\ GetQueue(ModeOfRun(x)) = q
    BY <2>2, <2>3, <2>4, RemoveStep
  <2>6. pc[queue[q][k]] = "queued"
    BY <2>4, QueueMembers
  <2>7. ControlInv'
    BY <2>2, <2>3, <2>5, RemoveBooks
  <2>8. ReservedInv'
    BY <2>2, <2>5, <2>6 DEF ReservedInv, BaseInv, TypeOK, BeforeGrant
  <2>9. ActiveInv'
    <3> SUFFICES ASSUME NEW d \in Exec, active[d] # NoRun
                 PROVE  /\ active[d] \in Run /\ exec[active[d]] = d
                        /\ pc'[active[d]] \notin BeforeRegister
      BY <2>3 DEF ActiveInv
    <3>1. active[d] \in Run /\ exec[active[d]] = d /\ pc[active[d]] \notin BeforeRegister
      BY DEF ActiveInv
    <3>2. pc'[active[d]] = pc[active[d]]
      BY <2>2, <2>5, <2>6, <3>1 DEF BeforeGrant, BeforeRegister
    <3> QED BY <3>1, <3>2
  <2> QED BY <2>7, <2>8, <2>9
<1>3. CASE StopActive(e)
  <2>1. StopEntry(e) /\ exec' = exec
    BY <1>3 DEF StopActive
  <2> QED BY <2>1, CapacityStopEntry
<1> QED BY <1>1, <1>2, <1>3 DEF StopStep

\* The state the constructor leaves.
Booted ==
  /\ ControlBoot(isEnabled, queues, evalQueueResolved, capacity, queue)
  /\ reserved = {}
  /\ \A e \in Exec : active[e] = NoRun
  /\ \A r \in Run : pc[r] \in {"idle", "dead"}

LEMMA CapacityBoot == Booted => ReservedInv /\ ActiveInv /\ ControlInv
<1> SUFFICES ASSUME Booted PROVE ReservedInv /\ ActiveInv /\ ControlInv
  OBVIOUS
<1> USE DEF Booted
<1>1. ReservedInv /\ ActiveInv
  BY DEF ReservedInv, ActiveInv
<1>2. \A q : Holders(q) = {}
  BY DEF Holders
<1>3. ASSUME NEW q \in QueueType
      PROVE  capacity[q] = Limit(q) /\ queue[q] = <<>> /\ Limit(q) \in Int
  BY LimitType DEF ControlBoot
<1>4. EvalInv
  <2> SUFFICES ASSUME ~evalQueueResolved
               PROVE  "evaluation" \notin queues /\ NormaliseLimit(EvaluationLimit) <= 0
    BY <1>2, <1>3 DEF EvalInv, QueueType
  <2>1. "evaluation" \notin BootQueues
    BY DEF ControlBoot
  <2>2. ~(NormaliseLimit(EvaluationLimit) > 0)
    BY <2>1 DEF BootQueues, QueueType
  <2> QED BY <2>1, <2>2, LimitsAssumption DEF ControlBoot, NormaliseLimit
<1>5. EnabledInv
  BY DEF EnabledInv, ControlBoot
<1>6. ASSUME NEW q \in queues PROVE BooksOf(q)
  <2>1. q \in QueueType
    BY DEF ControlBoot, BootQueues
  <2>2. Holders(q) = {} /\ queue[q] = <<>>
    BY <1>2, <1>3, <2>1
  <2>3. Cardinality(Holders(q)) = 0 /\ Len(queue[q]) = 0
    BY <2>2, FS_EmptySet
  <2> QED BY <1>3, <2>1, <2>2, <2>3 DEF BooksOf
<1> QED BY <1>1, <1>4, <1>5, <1>6 DEF ControlInv, Books

\* Only BeginShutdown and Restart change down.
LEMMA DownKept ==
  ASSUME Next, ~Restart, ~BeginShutdown
  PROVE  down' = down
BY ZenonT(30) DEF Next, AddStep, MainStep, EnvStep, StopStep, Exit, Crash, hostVars,
   CreateExecution, ResumeExecution, RunEnqueuedExecution, Begin, Reserve, SetRunning,
   ResumeRow, RefuseResume, AddFails, Register, FailExecution, AttachResponseFails,
   StartMainProcess, StartMainProcessFails, Launch, LaunchDetached, LaunchFails,
   SaveError, PutToWait, SaveProgress, FinishWorkflow, FinalizeRun, SaveCanceled,
   TimeoutRun, StopRead, StopQueued, StopActive, StopWrite

LEMMA CapacityStep == BaseInv /\ CapacityInv /\ [Next]_vars => CapacityInv'
<1> SUFFICES ASSUME BaseInv, CapacityInv, [Next]_vars, ~down'
             PROVE  ReservedInv' /\ ActiveInv' /\ ControlInv'
  BY DEF CapacityInv
<1>1. CASE Restart
  <2>1. ControlBoot(isEnabled', queues', evalQueueResolved', capacity', queue')
        /\ reserved' = {} /\ (\A e \in Exec : active'[e] = NoRun)
        /\ \A r \in Run : pc'[r] \in {"idle", "dead"}
    BY <1>1 DEF Restart
  <2>2. Booted'
    BY <2>1 DEF Booted, ControlBoot, Limit
  <2>3. (ReservedInv /\ ActiveInv /\ ControlInv)'
    BY <2>2, CapacityBoot, PTL
  <2> QED BY <2>3
<1>2. CASE ~Restart /\ Next
  <2>1. ~BeginShutdown
    BY DEF BeginShutdown
  <2>2. down' = down
    BY <1>2, <2>1, DownKept
  <2>3. ReservedInv /\ ActiveInv /\ ControlInv
    BY <2>2 DEF CapacityInv
  <2> QED BY <1>2, <2>1, <2>3, NextCases, CapacityReserve, CapacityQuiet, CapacityBegin,
             CapacityRelease, CapacityStop
<1>3. CASE UNCHANGED vars
  <2>1. UNCHANGED <<controlVars, reserved, exec, active, pc, down>>
    BY <1>3 DEF vars, runVars, entryVars, hostVars
  <2>2. ReservedInv /\ ActiveInv /\ ControlInv
    BY <2>1 DEF CapacityInv
  <2> QED BY <2>1, <2>2, ControlUnchanged DEF ReservedInv, ActiveInv
<1> QED BY <1>1, <1>2, <1>3

LEMMA CapacityInvariant == Spec => []CapacityInv
<1>1. Init => CapacityInv
  <2> SUFFICES ASSUME Init PROVE ReservedInv /\ ActiveInv /\ ControlInv
    BY DEF CapacityInv
  <2>1. Booted
    BY DEF Init, Booted
  <2> QED BY <2>1, CapacityBoot
<1> QED BY <1>1, CapacityStep, BaseInvariant, PTL DEF Spec

\* The counter of every ConcurrencyQueue is its limit minus the reservations
\* held minus the calls waiting, for all limits, modes, calls and executions,
\* whatever stops, timeouts, faults, resumes and crashes happen.
THEOREM CapacityIsAccounted == Spec => []CapacityAccounting
<1>1. CapacityInv => CapacityAccounting
  BY DEF CapacityInv, ControlInv, Books, BooksOf, CapacityAccounting
<1> QED BY <1>1, CapacityInvariant, PTL

\* A call waits only while the limit is used up: no release and no removal
\* misses a waiting call.
THEOREM NobodyWaitsForNothing == Spec => []WorkConserving
<1>1. CapacityInv => WorkConserving
  BY DEF CapacityInv, ControlInv, Books, BooksOf, WorkConserving
<1> QED BY <1>1, CapacityInvariant, PTL
=============================================================================

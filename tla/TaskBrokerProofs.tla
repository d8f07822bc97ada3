--------------------------- MODULE TaskBrokerProofs ---------------------------
(***************************************************************************)
(* The task protocol is safe for any number of runners, offers, requests   *)
(* and slots: proofs of the type invariant and of the safety invariants of *)
(* TaskBroker.                                                             *)
(*                                                                         *)
(* None of them is inductive.  What carries them is the life of one offer, *)
(* followed across both ends and both channels: who made it, whether it was*)
(* answered, which messages about it can still be on their way and in which*)
(* order (OfferLife).  A step changes the life of at most a few offers; for*)
(* all others it is Routine.                                               *)
(***************************************************************************)
EXTENDS TaskBroker, FiniteSetTheorems, TLAPS

-----------------------------------------------------------------------------
(* Ordered channels that are read at their head and written at their end:  *)
(* what a step leaves of the messages in one, and of their order.          *)

\* Message x is in channel s.
Has(s, x) == \E i \in DOMAIN s : s[i] = x

\* Message x is in channel s at most once.
Once(s, x) == \A i, j \in DOMAIN s : s[i] = x /\ s[j] = x => i = j

\* Each x in channel s has a y behind it.
Followed(s, x, y) ==
  \A i \in DOMAIN s : s[i] = x => \E j \in DOMAIN s : j > i /\ s[j] = y

\* Channel n is what is left of s when its head, nothing or all is taken.
Rest(n, s) == n = s \/ (s # <<>> /\ n = Tail(s)) \/ n = <<>>

\* Channel n is such a rest, followed by messages of M.
Channel(n, s, M) == \E b, u : Rest(b, s) /\ u \in Seq(M) /\ n = b \o u

\* When channel s becomes n, message x is not written, and its copies keep what
\* was known of them.
Kept(n, s, x) ==
  /\ Has(n, x) => Has(s, x)
  /\ Once(s, x) => Once(n, x)
  /\ \A y : Followed(s, x, y) => Followed(n, x, y)

LEMMA TailElements ==
  ASSUME NEW S, NEW s \in Seq(S), s # <<>>
  PROVE  /\ Tail(s) \in Seq(S)
         /\ Head(s) \in S /\ 1 \in DOMAIN s /\ Head(s) = s[1]
         /\ \A i \in DOMAIN Tail(s) :
              i \in Nat /\ i >= 1 /\ i + 1 \in DOMAIN s /\ Tail(s)[i] = s[i + 1]
         /\ \A i \in DOMAIN s : i \in Nat /\ (i > 1 => i - 1 \in DOMAIN Tail(s))
<1>1. Len(Tail(s)) = Len(s) - 1 /\ Tail(s) \in Seq(S) /\ Len(s) \in Nat
  OBVIOUS
<1>2. DOMAIN s = 1 .. Len(s) /\ DOMAIN Tail(s) = 1 .. Len(s) - 1 /\ Len(s) > 0
  BY <1>1
<1> QED BY <1>1, <1>2

LEMMA RestKeeps ==
  ASSUME NEW S, NEW s \in Seq(S), NEW n, Rest(n, s)
  PROVE  /\ n \in Seq(S)
         /\ \A x : Has(n, x) => Has(s, x)
         /\ \A x : Once(s, x) => Once(n, x)
         /\ \A x, y : Followed(s, x, y) => Followed(n, x, y)
<1>1. CASE n = s
  BY <1>1
<1>2. CASE n = <<>>
  BY <1>2 DEF Has, Once, Followed
<1>3. CASE s # <<>> /\ n = Tail(s)
  <2>1. /\ n \in Seq(S)
        /\ \A i \in DOMAIN n : i \in Nat /\ i >= 1 /\ i + 1 \in DOMAIN s /\ n[i] = s[i + 1]
        /\ \A i \in DOMAIN s : i \in Nat /\ (i > 1 => i - 1 \in DOMAIN n)
    BY <1>3, TailElements
  <2>2. \A x : Has(n, x) => Has(s, x)
    BY <2>1 DEF Has
  <2>3. ASSUME NEW x, Once(s, x) PROVE Once(n, x)
    <3> SUFFICES ASSUME NEW i \in DOMAIN n, NEW j \in DOMAIN n, n[i] = x, n[j] = x
                 PROVE  i = j
      BY DEF Once
    <3>1. i + 1 = j + 1
      BY <2>1, <2>3 DEF Once
    <3> QED BY <2>1, <3>1
  <2>4. ASSUME NEW x, NEW y, Followed(s, x, y) PROVE Followed(n, x, y)
    <3> SUFFICES ASSUME NEW i \in DOMAIN n, n[i] = x
                 PROVE  \E j \in DOMAIN n : j > i /\ n[j] = y
      BY DEF Followed
    <3>1. PICK j \in DOMAIN s : j > i + 1 /\ s[j] = y
      BY <2>1, <2>4 DEF Followed
    <3>2. i \in Nat /\ i >= 1 /\ j \in Nat /\ j - 1 \in DOMAIN n
      BY <2>1, <3>1
    <3>3. n[j - 1] = s[(j - 1) + 1] /\ (j - 1) + 1 = j /\ j - 1 > i
      BY <2>1, <3>1, <3>2
    <3> QED BY <3>1, <3>2, <3>3
  <2> QED BY <2>1, <2>2, <2>3, <2>4
<1> QED BY <1>1, <1>2, <1>3 DEF Rest

LEMMA ConcatElements ==
  ASSUME NEW S, NEW b \in Seq(S), NEW u \in Seq(S)
  PROVE  /\ b \o u \in Seq(S)
         /\ \A i \in DOMAIN b : i \in DOMAIN (b \o u) /\ (b \o u)[i] = b[i]
         /\ \A i \in DOMAIN u : i + Len(b) \in DOMAIN (b \o u) /\ (b \o u)[i + Len(b)] = u[i]
         /\ \A i \in DOMAIN (b \o u) :
              /\ i \in Nat
              /\ \/ i \in DOMAIN b /\ (b \o u)[i] = b[i]
                 \/ i - Len(b) \in DOMAIN u /\ (b \o u)[i] = u[i - Len(b)]
         /\ Len(b) \in Nat /\ DOMAIN b = 1 .. Len(b)
<1>1. /\ Len(b \o u) = Len(b) + Len(u) /\ Len(b) \in Nat /\ Len(u) \in Nat
      /\ b \o u \in Seq(S)
  OBVIOUS
<1>2. DOMAIN (b \o u) = 1 .. Len(b) + Len(u) /\ DOMAIN b = 1 .. Len(b) /\ DOMAIN u = 1 .. Len(u)
  BY <1>1
<1>3. \A i \in 1 .. Len(b) + Len(u) : (b \o u)[i] = IF i <= Len(b) THEN b[i] ELSE u[i - Len(b)]
  OBVIOUS
<1> QED BY <1>1, <1>2, <1>3

LEMMA ConcatKeeps ==
  ASSUME NEW S, NEW b \in Seq(S), NEW u \in Seq(S)
  PROVE  /\ \A x : Has(b \o u, x) <=> Has(b, x) \/ Has(u, x)
         /\ \A x : Once(b, x) /\ ~Has(u, x) => Once(b \o u, x)
         /\ \A x : Once(u, x) /\ ~Has(b, x) => Once(b \o u, x)
         /\ \A x, y : Followed(b, x, y) /\ ~Has(u, x) => Followed(b \o u, x, y)
         /\ \A x, y : ~Has(u, x) /\ Has(u, y) => Followed(b \o u, x, y)
<1> DEFINE n == b \o u
<1>1. /\ \A i \in DOMAIN b : i \in DOMAIN n /\ n[i] = b[i]
      /\ \A i \in DOMAIN u : i + Len(b) \in DOMAIN n /\ n[i + Len(b)] = u[i]
      /\ \A i \in DOMAIN n :
           /\ i \in Nat
           /\ \/ i \in DOMAIN b /\ n[i] = b[i]
              \/ i - Len(b) \in DOMAIN u /\ n[i] = u[i - Len(b)]
      /\ Len(b) \in Nat /\ DOMAIN b = 1 .. Len(b)
  BY ConcatElements
<1>2. DOMAIN u = 1 .. Len(u) /\ Len(u) \in Nat
  OBVIOUS
<1> HIDE DEF n
<1>3. \A x : Has(n, x) <=> Has(b, x) \/ Has(u, x)
  BY <1>1 DEF Has
<1>4. \A x : Once(b, x) /\ ~Has(u, x) => Once(n, x)
  BY <1>1 DEF Has, Once
<1>5. ASSUME NEW x, Once(u, x), ~Has(b, x) PROVE Once(n, x)
  <2> SUFFICES ASSUME NEW i \in DOMAIN n, NEW j \in DOMAIN n, n[i] = x, n[j] = x
               PROVE  i = j
    BY DEF Once
  <2>1. i - Len(b) \in DOMAIN u /\ u[i - Len(b)] = x /\ j - Len(b) \in DOMAIN u /\ u[j - Len(b)] = x
    BY <1>1, <1>5 DEF Has
  <2>2. i - Len(b) = j - Len(b)
    BY <1>5, <2>1 DEF Once
  <2> QED BY <1>1, <2>2
<1>6. \A x, y : Followed(b, x, y) /\ ~Has(u, x) => Followed(n, x, y)
  BY <1>1 DEF Has, Followed
<1>7. ASSUME NEW x, NEW y, ~Has(u, x), Has(u, y) PROVE Followed(n, x, y)
  <2> SUFFICES ASSUME NEW i \in DOMAIN n, n[i] = x
               PROVE  \E j \in DOMAIN n : j > i /\ n[j] = y
    BY DEF Followed
  <2>1. i \in DOMAIN b
    BY <1>1, <1>7 DEF Has
  <2>2. PICK k \in DOMAIN u : u[k] = y
    BY <1>7 DEF Has
  <2>3. k + Len(b) \in DOMAIN n /\ n[k + Len(b)] = y
    BY <1>1, <2>2
  <2>4. k + Len(b) > i
    BY <1>1, <1>2, <2>1, <2>2
  <2> QED BY <2>3, <2>4
<1> QED BY <1>3, <1>4, <1>5, <1>6, <1>7 DEF n

\* What a step that reads and writes leaves of a channel.
LEMMA ChannelKeeps ==
  ASSUME NEW S, NEW s \in Seq(S), NEW M \in SUBSET S, NEW n, Channel(n, s, M)
  PROVE  /\ n \in Seq(S)
         /\ \A x : Has(n, x) => Has(s, x) \/ x \in M
         /\ \A x : x \notin M /\ Once(s, x) => Once(n, x)
         /\ \A x, y : x \notin M /\ Followed(s, x, y) => Followed(n, x, y)
<1>1. PICK b, u : Rest(b, s) /\ u \in Seq(M) /\ n = b \o u
  BY DEF Channel
<1>2. u \in Seq(S) /\ \A x : Has(u, x) => x \in M
  BY <1>1 DEF Has
<1>3. /\ b \in Seq(S)
      /\ \A x : Has(b, x) => Has(s, x)
      /\ \A x : Once(s, x) => Once(b, x)
      /\ \A x, y : Followed(s, x, y) => Followed(b, x, y)
  BY <1>1, RestKeeps
<1>4. /\ \A x : Has(n, x) <=> Has(b, x) \/ Has(u, x)
      /\ \A x : Once(b, x) /\ ~Has(u, x) => Once(n, x)
      /\ \A x, y : Followed(b, x, y) /\ ~Has(u, x) => Followed(n, x, y)
      /\ n \in Seq(S)
  BY <1>1, <1>2, <1>3, ConcatKeeps, ConcatElements
<1> QED BY <1>2, <1>3, <1>4

LEMMA ChannelKept ==
  ASSUME NEW S, NEW s \in Seq(S), NEW M \in SUBSET S, NEW n, Channel(n, s, M)
  PROVE  n \in Seq(S) /\ \A x : x \notin M => Kept(n, s, x)
BY ChannelKeeps DEF Kept

LEMMA Untouched == \A s, x : Kept(s, s, x)
BY DEF Kept

LEMMA ChannelRest ==
  ASSUME NEW S, NEW s \in Seq(S), NEW M, NEW n, Rest(n, s)
  PROVE  Channel(n, s, M)
<1>1. n \in Seq(S)
  BY RestKeeps
<1>2. n = n \o <<>>
  BY <1>1
<1>3. <<>> \in Seq(M)
  OBVIOUS
<1> QED BY <1>2, <1>3 DEF Channel

LEMMA ChannelSend ==
  ASSUME NEW S, NEW s \in Seq(S), NEW M, NEW u \in Seq(M)
  PROVE  Channel(s \o u, s, M)
BY DEF Channel, Rest

LEMMA AppendIsConcat ==
  ASSUME NEW S, NEW s \in Seq(S), NEW x \in S
  PROVE  /\ Append(s, x) = s \o <<x>>
         /\ <<x>> \in Seq({x})
         /\ \A y : Has(<<x>>, y) <=> y = x
<1>1. Append(s, x) = s \o <<x>>
  OBVIOUS
<1>2. <<x>> \in Seq({x}) /\ DOMAIN <<x>> = {1} /\ <<x>>[1] = x
  OBVIOUS
<1> QED BY <1>1, <1>2 DEF Has

LEMMA ChannelAppend ==
  ASSUME NEW S, NEW s \in Seq(S), NEW x \in S
  PROVE  /\ Channel(Append(s, x), s, {x})
         /\ Append(s, x) \in Seq(S)
         /\ \A y : Has(Append(s, x), y) <=> Has(s, y) \/ y = x
         /\ \A y : Once(s, y) /\ (y = x => ~Has(s, y)) => Once(Append(s, x), y)
         /\ \A y : y # x => Followed(Append(s, x), y, x)
<1>1. /\ Append(s, x) = s \o <<x>> /\ <<x>> \in Seq({x})
      /\ \A y : Has(<<x>>, y) <=> y = x
  BY AppendIsConcat
<1>2. Channel(Append(s, x), s, {x})
  BY <1>1, ChannelSend
<1>3. <<x>> \in Seq(S)
  OBVIOUS
<1>4. Once(<<x>>, x) /\ Append(s, x) \in Seq(S)
  BY DEF Once
<1>5. /\ \A y : Has(s \o <<x>>, y) <=> Has(s, y) \/ Has(<<x>>, y)
      /\ \A y : Once(s, y) /\ ~Has(<<x>>, y) => Once(s \o <<x>>, y)
      /\ \A y : Once(<<x>>, y) /\ ~Has(s, y) => Once(s \o <<x>>, y)
      /\ \A y, z : ~Has(<<x>>, y) /\ Has(<<x>>, z) => Followed(s \o <<x>>, y, z)
  BY <1>3, ConcatKeeps
<1>6. \A y : Once(s, y) /\ (y = x => ~Has(s, y)) => Once(Append(s, x), y)
  <2> TAKE y
  <2>1. CASE y = x
    BY <2>1, <1>1, <1>4, <1>5
  <2>2. CASE y # x
    BY <2>2, <1>1, <1>5
  <2> QED BY <2>1, <2>2
<1>7. \A y : Has(Append(s, x), y) <=> Has(s, y) \/ y = x
  BY <1>1, <1>5
<1>8. \A y : y # x => Followed(Append(s, x), y, x)
  BY <1>1, <1>5
<1> QED BY <1>2, <1>4, <1>6, <1>7, <1>8

\* Taking the head of a channel.
LEMMA HeadTaken ==
  ASSUME NEW S, NEW s \in Seq(S), s # <<>>
  PROVE  /\ Has(s, Head(s))
         /\ \A x : Has(s, x) => x = Head(s) \/ Has(Tail(s), x)
         /\ Once(s, Head(s)) => ~Has(Tail(s), Head(s))
         /\ \A y : Followed(s, Head(s), y) => Has(Tail(s), y)
<1>1. /\ 1 \in DOMAIN s /\ Head(s) = s[1]
      /\ \A i \in DOMAIN Tail(s) :
           i \in Nat /\ i >= 1 /\ i + 1 \in DOMAIN s /\ Tail(s)[i] = s[i + 1]
      /\ \A i \in DOMAIN s : i \in Nat /\ (i > 1 => i - 1 \in DOMAIN Tail(s))
  BY TailElements
<1>2. \A i \in DOMAIN s : i > 1 => Tail(s)[i - 1] = s[i]
  BY <1>1
<1>3. \A i \in DOMAIN s : i >= 1
  OBVIOUS
<1>4. \A x : Has(s, x) => x = Head(s) \/ Has(Tail(s), x)
  BY <1>1, <1>2, <1>3 DEF Has
<1>5. ASSUME Once(s, Head(s)), Has(Tail(s), Head(s)) PROVE FALSE
  <2>1. PICK i \in DOMAIN Tail(s) : Tail(s)[i] = Head(s)
    BY <1>5 DEF Has
  <2>2. i + 1 = 1
    BY <1>1, <1>5, <2>1 DEF Once
  <2> QED BY <1>1, <2>1, <2>2
<1>6. \A y : Followed(s, Head(s), y) => Has(Tail(s), y)
  BY <1>1, <1>2 DEF Followed, Has
<1> QED BY <1>1, <1>4, <1>5, <1>6 DEF Has

-----------------------------------------------------------------------------
(* The life of an offer.                                                    *)

\* The messages to a runner that are about an offer or its task.
TaskMsg == {"taskofferaccept", "tasksettings", "taskcancel"}

\* The code of the task was begun.
Started == {"running", "aborting:cancelled", "aborting:timeout"}

ToR(r, type, o) == Has(toRunner[r], Msg(type, o))
ToB(r, type, o) == Has(toBroker[r], Msg(type, o))

\* A connected runner is known to the broker; one that is not connected has
\* nothing open, nothing running and nothing on its way to it.
LinkInv ==
  \A r \in Runner :
    /\ link[r] = "up" => r \in knownRunners
    /\ link[r] # "up" =>
         /\ openOffers[r] = {} /\ toRunner[r] = <<>>
         /\ \A t \in Offer : offeredBy[t] = r => taskStatus[t] = "none"

\* Messages about a task name one.
NamesTask == \A r \in Runner : \A type \in TaskMsg : ~ToR(r, type, 0)

\* Offer o belongs to one runner: it is open there, and the messages about it
\* travel on that runner's connection.
Addressed(o) ==
  /\ o < nextOffer <=> offeredBy[o] \in Runner
  /\ \A r \in Runner :
       /\ o \in openOffers[r] => offeredBy[o] = r
       /\ \A type \in TaskMsg : ToR(r, type, o) => offeredBy[o] = r
       /\ \A type \in ToBrokerType : ToB(r, type, o) => offeredBy[o] = r

\* acceptOffer is called once for an offer. Before that call the offer is only
\* announced or pending: nothing else was said about it and it has no task.
Fresh(o) ==
  /\ accept[o] # "none" => offeredBy[o] \in Runner /\ matched[o] \in Request
  /\ o \in pendingTaskOffers => accept[o] = "none" /\ offeredBy[o] \in Runner
  /\ \A r \in Runner :
       /\ ToB(r, "taskoffer", o) => accept[o] = "none" /\ o \notin pendingTaskOffers
       /\ Once(toBroker[r], Msg("taskoffer", o))
       /\ \A type \in TaskMsg : ToR(r, type, o) => accept[o] # "none"
       /\ \A type \in ToBrokerType :
            ToB(r, type, o) /\ type # "taskoffer" => accept[o] # "none"
  /\ taskStatus[o] # "none" => accept[o] # "none" /\ o \notin openOffers[offeredBy[o]]
  /\ o \in tasks => accept[o] = "over"
  /\ o \in timed => o \in tasks

\* Settings are sent once, after the acceptance was answered, and have arrived
\* when the code is begun.
SettingsOnce(o) ==
  /\ \A r \in Runner :
       /\ ToR(r, "tasksettings", o) => accept[o] = "over"
       /\ Once(toRunner[r], Msg("tasksettings", o))
  /\ taskStatus[o] \in Started =>
       accept[o] = "over" /\ \A r \in Runner : ~ToR(r, "tasksettings", o)

\* Offer o was accepted by runner r.
Claimed(r, o) ==
  \/ ToB(r, "taskaccepted", o) \/ o \in tasks \/ ToR(r, "tasksettings", o)
  \/ ToB(r, "taskdone", o) \/ ToB(r, "taskerror", o)

\* An accepted offer is not open any more; a reported task is over; a task the
\* broker gave up is over, or its cancellation is behind its settings.
Spent(o) ==
  /\ \A r \in Runner :
       /\ Claimed(r, o) => o \notin openOffers[r]
       /\ ToB(r, "taskdone", o) \/ ToB(r, "taskerror", o) => taskStatus[o] = "none"
       /\ \/ o \in tasks \/ taskStatus[o] = "none"
          \/ Followed(toRunner[r], Msg("tasksettings", o), Msg("taskcancel", o))
  /\ taskStatus[o] = "running" => o \in tasks \/ ToR(offeredBy[o], "taskcancel", o)

OfferLife(o) == Addressed(o) /\ Fresh(o) /\ SettingsOnce(o) /\ Spent(o)

\* The request of an open question carries its flag.
AttemptInv ==
  /\ OneAttempt
  /\ \A o \in Offer : accept[o] = "asking" => matched[o] \in acceptInProgress

RequestInv ==
  /\ RequesterNotAbandoned
  /\ \A q \in pendingTaskRequests : request[q] = "requested"

BrokerInv ==
  /\ TypeOK
  /\ LinkInv
  /\ NamesTask
  /\ \A o \in Offer : OfferLife(o)
  /\ AttemptInv
  /\ RequestInv
  /\ NotOvercommitted

-----------------------------------------------------------------------------
(* Steps that do not bring an offer further.                                *)

\* A step writes a message about offer o to runner r, or does not: only a
\* cancellation is sent without further ado.
RoutineToR(r, type, o) ==
  \/ Kept(toRunner'[r], toRunner[r], Msg(type, o))
  \/ type = "taskcancel" /\ offeredBy[o] = r /\ accept[o] # "none"

\* The same from runner r: a refusal, or the report of a task that ends.
RoutineToB(r, type, o) ==
  \/ Kept(toBroker'[r], toBroker[r], Msg(type, o))
  \/ /\ offeredBy[o] = r /\ accept[o] # "none"
     /\ \/ type \in {"taskrejected", "taskdeferred"}
        \/ type \in {"taskdone", "taskerror"} /\ taskStatus[o] # "none" /\ taskStatus'[o] = "none"

\* The broker gives the task up and its cancellation is the last word on it.
GivenUp(o) ==
  /\ Has(toRunner'[offeredBy[o]], Msg("taskcancel", o))
  /\ \A r \in Runner :
       Followed(toRunner'[r], Msg("tasksettings", o), Msg("taskcancel", o))

\* The broker hears of an offer.
Arrived(o) ==
  /\ accept'[o] = "none" /\ offeredBy[o] \in Runner
  /\ \A r \in Runner : ~Has(toBroker'[r], Msg("taskoffer", o))

\* A step does at most this to offer o: messages about it are delivered or
\* lost, it is announced, expires or is refused, its task is aborted, given up or ends.
Routine(o) ==
  /\ offeredBy'[o] = offeredBy[o] /\ (o < nextOffer' <=> o < nextOffer)
  /\ matched'[o] = matched[o]
  /\ accept'[o] = "none" <=> accept[o] = "none"
  /\ accept[o] = "over" => accept'[o] = "over"
  /\ \/ taskStatus'[o] \in {taskStatus[o], "none"}
     \/ taskStatus[o] = "running" /\ taskStatus'[o] \in Started
  /\ \A r \in Runner :
       /\ o \in openOffers'[r] => o \in openOffers[r]
       /\ \A type \in TaskMsg : RoutineToR(r, type, o)
       /\ \A type \in ToBrokerType : RoutineToB(r, type, o)
       /\ taskStatus'[o] = "running" /\ ToR(r, "taskcancel", o)
            => Has(toRunner'[r], Msg("taskcancel", o))
  /\ o \in pendingTaskOffers' => o \in pendingTaskOffers \/ Arrived(o)
  /\ o \in tasks' => o \in tasks
  /\ o \in tasks /\ taskStatus'[o] # "none" => o \in tasks' \/ GivenUp(o)
  /\ o \in timed' => o \in timed /\ o \in tasks'

LEMMA RoutineStep ==
  ASSUME TypeOK, NEW o \in Offer, OfferLife(o), Routine(o)
  PROVE  OfferLife(o)'
<1> USE DEF ToR, ToB
<1>1. ASSUME NEW r \in Runner
      PROVE  /\ \A type \in TaskMsg : ToR(r, type, o)' =>
                  ToR(r, type, o) \/ (offeredBy[o] = r /\ accept[o] # "none")
             /\ \A type \in ToBrokerType : ToB(r, type, o)' =>
                  ToB(r, type, o) \/ (offeredBy[o] = r /\ accept[o] # "none")
  BY DEF Routine, RoutineToR, RoutineToB, Kept
<1>2. ASSUME NEW r \in Runner
      PROVE  /\ Kept(toRunner'[r], toRunner[r], Msg("tasksettings", o))
             /\ Kept(toBroker'[r], toBroker[r], Msg("taskoffer", o))
             /\ Kept(toBroker'[r], toBroker[r], Msg("taskaccepted", o))
             /\ \A type \in {"taskdone", "taskerror"} : ToB(r, type, o)' =>
                  \/ ToB(r, type, o)
                  \/ offeredBy[o] = r /\ taskStatus[o] # "none" /\ taskStatus'[o] = "none"
  <2>1. /\ RoutineToR(r, "tasksettings", o)
        /\ RoutineToB(r, "taskoffer", o) /\ RoutineToB(r, "taskaccepted", o)
        /\ \A type \in {"taskdone", "taskerror"} : RoutineToB(r, type, o)
    BY DEF Routine, TaskMsg, ToBrokerType
  <2> QED BY <2>1 DEF RoutineToR, RoutineToB, Kept
<1>3. Addressed(o)'
  BY <1>1 DEF OfferLife, Routine, Addressed
<1>4. Fresh(o)'
  <2>1. taskStatus'[o] # "none" => accept'[o] # "none" /\ o \notin openOffers'[offeredBy'[o]]
    <3>1. taskStatus'[o] # "none" => taskStatus[o] # "none"
      BY DEF Routine
    <3>2. taskStatus[o] # "none" => offeredBy[o] \in Runner
      BY DEF OfferLife, Fresh
    <3> QED BY <3>1, <3>2 DEF OfferLife, Routine, Fresh
  <2>2. ASSUME NEW r \in Runner
        PROVE  /\ ToB(r, "taskoffer", o)' => accept'[o] = "none" /\ o \notin pendingTaskOffers'
               /\ Once(toBroker'[r], Msg("taskoffer", o))
    BY <1>2 DEF OfferLife, Routine, Fresh, Kept, Arrived
  <2>3. ASSUME NEW r \in Runner
        PROVE  /\ \A type \in TaskMsg : ToR(r, type, o)' => accept'[o] # "none"
               /\ \A type \in ToBrokerType :
                    ToB(r, type, o)' /\ type # "taskoffer" => accept'[o] # "none"
    BY <1>1 DEF OfferLife, Routine, Fresh
  <2> QED BY <2>1, <2>2, <2>3 DEF OfferLife, Routine, Fresh, Arrived
<1>5. SettingsOnce(o)'
  <2>1. taskStatus'[o] \in Started => taskStatus[o] \in Started
    BY DEF Routine, Started
  <2> QED BY <1>2, <2>1 DEF OfferLife, Routine, SettingsOnce, Kept
<1>6. Spent(o)'
  <2>1. taskStatus'[o] = "running" =>
          taskStatus[o] = "running" /\ offeredBy[o] \in Runner /\ offeredBy'[o] = offeredBy[o]
    BY DEF OfferLife, Routine, Fresh
  <2>2. taskStatus'[o] = "running" => o \in tasks' \/ ToR(offeredBy[o], "taskcancel", o)'
    BY <2>1 DEF OfferLife, Routine, Spent, GivenUp
  <2>3. ASSUME NEW r \in Runner
        PROVE  /\ Claimed(r, o)' => o \notin openOffers'[r]
               /\ ToB(r, "taskdone", o)' \/ ToB(r, "taskerror", o)' => taskStatus'[o] = "none"
               /\ \/ o \in tasks' \/ taskStatus'[o] = "none"
                  \/ Followed(toRunner'[r], Msg("tasksettings", o), Msg("taskcancel", o))
    <3>1. /\ Claimed(r, o) => o \notin openOffers[r]
          /\ ToB(r, "taskdone", o) \/ ToB(r, "taskerror", o) => taskStatus[o] = "none"
          /\ \/ o \in tasks \/ taskStatus[o] = "none"
             \/ Followed(toRunner[r], Msg("tasksettings", o), Msg("taskcancel", o))
      BY DEF OfferLife, Spent
    <3>2. /\ taskStatus[o] = "none" => taskStatus'[o] = "none"
          /\ o \in openOffers'[r] => o \in openOffers[r]
          /\ o \in tasks' => o \in tasks
          /\ o \in tasks /\ taskStatus'[o] # "none" => o \in tasks' \/ GivenUp(o)
      BY DEF Routine
    <3>3. /\ ToR(r, "tasksettings", o)' => ToR(r, "tasksettings", o)
          /\ ToB(r, "taskaccepted", o)' => ToB(r, "taskaccepted", o)
          /\ Followed(toRunner[r], Msg("tasksettings", o), Msg("taskcancel", o))
               => Followed(toRunner'[r], Msg("tasksettings", o), Msg("taskcancel", o))
      BY <1>2 DEF Kept
    <3>4. offeredBy[o] = r /\ taskStatus[o] # "none" => o \notin openOffers[r]
      BY DEF OfferLife, Fresh
    <3>5. Claimed(r, o)' => o \notin openOffers'[r]
      BY <1>2, <3>1, <3>2, <3>3, <3>4 DEF Claimed
    <3>6. ToB(r, "taskdone", o)' \/ ToB(r, "taskerror", o)' => taskStatus'[o] = "none"
      BY <1>2, <3>1, <3>2
    <3>7. \/ o \in tasks' \/ taskStatus'[o] = "none"
          \/ Followed(toRunner'[r], Msg("tasksettings", o), Msg("taskcancel", o))
      BY <3>1, <3>2, <3>3 DEF GivenUp
    <3> QED BY <3>5, <3>6, <3>7
  <2> QED BY <2>1, <2>2, <2>3 DEF Spent
<1> QED BY <1>3, <1>4, <1>5, <1>6 DEF OfferLife

-----------------------------------------------------------------------------
(* Messages and channels.                                                   *)

LEMMA MsgFacts ==
  /\ \A a, b, i, j : Msg(a, i) = Msg(b, j) <=> a = b /\ i = j
  /\ \A m \in ToRunnerMsg :
       m = Msg(m.type, m.id) /\ m.type \in ToRunnerType /\ m.id \in Offer \cup {0}
  /\ \A m \in ToBrokerMsg :
       m = Msg(m.type, m.id) /\ m.type \in ToBrokerType /\ m.id \in Offer
  /\ \A type \in ToRunnerType : \A i \in Offer \cup {0} : Msg(type, i) \in ToRunnerMsg
  /\ \A type \in ToBrokerType : \A i \in Offer : Msg(type, i) \in ToBrokerMsg
BY DEF Msg, ToRunnerMsg, ToBrokerMsg

\* The head of f[r] is taken; x is what it was.
Taken(g, f, r, x) ==
  /\ Has(f[r], x)
  /\ \A p \in Runner : \A y :
       /\ Kept(g[p], f[p], y)
       /\ Has(f[p], y) => Has(g[p], y) \/ (p = r /\ y = x)
  /\ Once(f[r], x) => ~Has(g[r], x)
  /\ \A y : Followed(f[r], x, y) => Has(g[r], y)

LEMMA TakeHead ==
  ASSUME NEW S, NEW f \in [Runner -> Seq(S)], NEW r \in Runner, f[r] # <<>>,
         NEW g, g = [f EXCEPT ![r] = Tail(f[r])]
  PROVE  /\ g \in [Runner -> Seq(S)]
         /\ Head(f[r]) \in S
         /\ Taken(g, f, r, Head(f[r]))
<1>1. f[r] \in Seq(S) /\ g[r] = Tail(f[r]) /\ \A p \in Runner : p # r => g[p] = f[p]
  OBVIOUS
<1>2. Tail(f[r]) \in Seq(S) /\ Head(f[r]) \in S
  BY <1>1, TailElements
<1>3. g \in [Runner -> Seq(S)]
  BY <1>2
<1>4. Rest(Tail(f[r]), f[r])
  BY DEF Rest
<1>5. \A y : Kept(g[r], f[r], y)
  BY <1>1, <1>4, RestKeeps DEF Kept
<1>6. \A p \in Runner : \A y : Kept(g[p], f[p], y)
  BY <1>1, <1>5, Untouched
<1>7. /\ Has(f[r], Head(f[r]))
      /\ \A x : Has(f[r], x) => x = Head(f[r]) \/ Has(Tail(f[r]), x)
      /\ Once(f[r], Head(f[r])) => ~Has(Tail(f[r]), Head(f[r]))
      /\ \A y : Followed(f[r], Head(f[r]), y) => Has(Tail(f[r]), y)
  BY <1>1, HeadTaken
<1>8. \A p \in Runner : \A y : Has(f[p], y) => Has(g[p], y) \/ (p = r /\ y = Head(f[r]))
  BY <1>1, <1>7
<1> QED BY <1>1, <1>2, <1>3, <1>6, <1>7, <1>8 DEF Taken

\* x is written to the channels of rs.
Written(g, f, rs, x) ==
  \A p \in Runner :
    /\ \A y : Has(f[p], y) => Has(g[p], y)
    /\ \A y : (y # x \/ p \notin rs) => Kept(g[p], f[p], y)
    /\ p \in rs => Has(g[p], x)
    /\ Has(g[p], x) => Has(f[p], x) \/ p \in rs
    /\ ~Has(f[p], x) => Once(g[p], x)
    /\ \A y : p \in rs /\ y # x => Followed(g[p], y, x)

LEMMA NotThere == \A s, x : ~Has(s, x) => Once(s, x)
BY DEF Has, Once

LEMMA WriteOne ==
  ASSUME NEW S, NEW f \in [Runner -> Seq(S)], NEW rs, NEW x \in S,
         NEW g, \A p \in Runner : g[p] = IF p \in rs THEN Append(f[p], x) ELSE f[p]
  PROVE  /\ \A p \in Runner : g[p] \in Seq(S)
         /\ Written(g, f, rs, x)
<1>1. ASSUME NEW p \in Runner, p \in rs
      PROVE  /\ Append(f[p], x) \in Seq(S)
             /\ \A y : Has(Append(f[p], x), y) <=> Has(f[p], y) \/ y = x
             /\ \A y : y # x => Kept(Append(f[p], x), f[p], y)
             /\ ~Has(f[p], x) => Once(Append(f[p], x), x)
             /\ \A y : y # x => Followed(Append(f[p], x), y, x)
  <2>1. f[p] \in Seq(S)
    OBVIOUS
  <2>2. /\ Channel(Append(f[p], x), f[p], {x})
        /\ Append(f[p], x) \in Seq(S)
        /\ \A y : Has(Append(f[p], x), y) <=> Has(f[p], y) \/ y = x
        /\ \A y : Once(f[p], y) /\ (y = x => ~Has(f[p], y)) => Once(Append(f[p], x), y)
        /\ \A y : y # x => Followed(Append(f[p], x), y, x)
    BY <2>1, ChannelAppend
  <2>3. {x} \in SUBSET S
    OBVIOUS
  <2>4. \A y : y \notin {x} => Kept(Append(f[p], x), f[p], y)
    BY <2>1, <2>2, <2>3, ChannelKept
  <2> QED BY <2>2, <2>4, NotThere
<1>2. \A p \in Runner : g[p] = IF p \in rs THEN Append(f[p], x) ELSE f[p]
  OBVIOUS
<1>3. \A p \in Runner : g[p] \in Seq(S)
  BY <1>1, <1>2
<1>4. ASSUME NEW p \in Runner
      PROVE  /\ \A y : Has(f[p], y) => Has(g[p], y)
             /\ \A y : (y # x \/ p \notin rs) => Kept(g[p], f[p], y)
             /\ p \in rs => Has(g[p], x)
             /\ Has(g[p], x) => Has(f[p], x) \/ p \in rs
             /\ ~Has(f[p], x) => Once(g[p], x)
             /\ \A y : p \in rs /\ y # x => Followed(g[p], y, x)
  <2>1. CASE p \in rs
    BY <2>1, <1>1, <1>2
  <2>2. CASE p \notin rs
    BY <2>2, <1>2, NotThere, Untouched
  <2> QED BY <2>1, <2>2
<1> QED BY <1>3, <1>4 DEF Written

\* MessageRunners reaches the runners that are connected and known.
LEMMA MessageFacts ==
  ASSUME TypeOK, NEW rs, NEW type \in ToRunnerType, NEW id \in Offer \cup {0},
         MessageRunners(rs, type, id)
  PROVE  /\ toRunner' \in [Runner -> Seq(ToRunnerMsg)]
         /\ Written(toRunner', toRunner,
                    {r \in Runner : r \in rs \cap knownRunners /\ link[r] = "up"},
                    Msg(type, id))
<1> DEFINE reached == {r \in Runner : r \in rs \cap knownRunners /\ link[r] = "up"}
<1>1. toRunner \in [Runner -> Seq(ToRunnerMsg)] /\ Msg(type, id) \in ToRunnerMsg
  BY MsgFacts DEF TypeOK, RunnerTypeOK
<1>2. toRunner' = [p \in Runner |->
                     IF p \in rs \cap knownRunners /\ link[p] = "up"
                     THEN Append(toRunner[p], Msg(type, id)) ELSE toRunner[p]]
  BY DEF MessageRunners
<1>3. \A p \in Runner : toRunner'[p] = IF p \in reached
                                       THEN Append(toRunner[p], Msg(type, id)) ELSE toRunner[p]
  BY <1>2
<1> HIDE DEF reached
<1>4. /\ \A p \in Runner : toRunner'[p] \in Seq(ToRunnerMsg)
      /\ Written(toRunner', toRunner, reached, Msg(type, id))
  BY <1>1, <1>3, WriteOne
<1>5. toRunner' \in [Runner -> Seq(ToRunnerMsg)]
  BY <1>2, <1>4
<1> QED BY <1>4, <1>5 DEF reached

-----------------------------------------------------------------------------
(* Offers.                                                                  *)

LEMMA Slots ==
  /\ MaxConcurrency \in Nat /\ MaxOffers \in Nat
  /\ Offer \subseteq Nat \ {0}
  /\ \A s \in SUBSET Offer : IsFiniteSet(s) /\ Cardinality(s) \in Nat
<1>1. MaxConcurrency \in Nat /\ MaxOffers \in Nat /\ Offer \subseteq Nat \ {0}
  BY RunnerAssumption DEF Offer
<1>2. IsFiniteSet(1 .. MaxOffers)
  BY <1>1, FS_Interval
<1>3. ASSUME NEW s \in SUBSET Offer PROVE IsFiniteSet(s)
  BY <1>2, FS_Subset DEF Offer
<1>4. ASSUME NEW s \in SUBSET Offer PROVE Cardinality(s) \in Nat
  BY <1>3, FS_CardinalityType
<1> QED BY <1>1, <1>3, <1>4

\* The new offers are consecutive, and as many as there are free slots at most.
LEMMA NewOffers ==
  ASSUME TypeOK, NEW open \in SUBSET Offer, NEW running \in SUBSET Offer,
         NEW new, new = OffersToSend(open, running) \/ new = {}
  PROVE  /\ new \in SUBSET Offer /\ Cardinality(new) \in Nat
         /\ nextOffer + Cardinality(new) \in 1 .. MaxOffers + 1
         /\ \A o \in Offer : o \in new <=> o >= nextOffer /\ o < nextOffer + Cardinality(new)
         /\ Cardinality(open) + Cardinality(running) <= MaxConcurrency
              => Cardinality(open) + Cardinality(running) + Cardinality(new) <= MaxConcurrency
<1>1. /\ nextOffer \in Nat /\ nextOffer >= 1 /\ nextOffer <= MaxOffers + 1
      /\ MaxOffers \in Nat /\ MaxConcurrency \in Nat
      /\ Cardinality(open) \in Nat /\ Cardinality(running) \in Nat
  BY Slots DEF TypeOK, RunnerTypeOK
<1>2. CASE new = {}
  BY <1>1, <1>2, FS_EmptySet DEF Offer
<1>3. CASE new = OffersToSend(open, running)
  <2> DEFINE free == MaxConcurrency - (Cardinality(open) + Cardinality(running))
             last == IF nextOffer + free - 1 <= MaxOffers THEN nextOffer + free - 1 ELSE MaxOffers
  <2>1. free \in Int /\ last \in Int /\ new = nextOffer .. last
    <3>1. new = {o \in Offer : o >= nextOffer /\ o < nextOffer + free}
      BY <1>3 DEF OffersToSend
    <3>2. free \in Int
      BY <1>1
    <3> HIDE DEF free
    <3>3. last \in Int
      BY <1>1, <3>2
    <3>4. \A o : o \in new <=> o \in nextOffer .. last
      BY <1>1, <3>1, <3>2 DEF Offer
    <3> QED BY <3>2, <3>3, <3>4
  <2>3. last <= MaxOffers /\ last < nextOffer + free
    BY <1>1, <2>1
  <2>4. free = MaxConcurrency - (Cardinality(open) + Cardinality(running))
    OBVIOUS
  <2> HIDE DEF free, last
  <2>2. Cardinality(new) = IF nextOffer > last THEN 0 ELSE last - nextOffer + 1
    BY <1>1, <2>1, FS_Interval
  <2>5. new \in SUBSET Offer /\ Cardinality(new) \in Nat /\ nextOffer + Cardinality(new) \in 1 .. MaxOffers + 1
    BY <1>1, <2>1, <2>2, <2>3 DEF Offer
  <2>6. \A o \in Offer : o \in new <=> o >= nextOffer /\ o < nextOffer + Cardinality(new)
    BY <1>1, <2>1, <2>2 DEF Offer
  <2> QED BY <1>1, <2>1, <2>2, <2>3, <2>4, <2>5, <2>6, SMTT(20)
<1> QED BY <1>2, <1>3

\* What sendOffers announces.
LEMMA OfferMessages ==
  ASSUME TypeOK, NEW new \in SUBSET Offer, Cardinality(new) \in Nat,
         \A o \in Offer : o \in new <=> o >= nextOffer /\ o < nextOffer + Cardinality(new),
         nextOffer + Cardinality(new) \in 1 .. MaxOffers + 1,
         NEW offers,
         offers = [i \in 1 .. Cardinality(new) |-> Msg("taskoffer", nextOffer + i - 1)]
  PROVE  /\ offers \in Seq({Msg("taskoffer", o) : o \in new})
         /\ \A x : Once(offers, x)
<1>1. nextOffer \in Nat /\ nextOffer >= 1 /\ MaxOffers \in Nat
  BY Slots DEF TypeOK, RunnerTypeOK
<1>2. \A i \in 1 .. Cardinality(new) : nextOffer + i - 1 \in new
  BY <1>1 DEF Offer
<1>3. offers \in [1 .. Cardinality(new) -> {Msg("taskoffer", o) : o \in new}]
  BY <1>2
<1>4. offers \in Seq({Msg("taskoffer", o) : o \in new})
  BY <1>3
<1>5. ASSUME NEW x PROVE Once(offers, x)
  <2> SUFFICES ASSUME NEW i \in 1 .. Cardinality(new), NEW j \in 1 .. Cardinality(new),
                      offers[i] = x, offers[j] = x
               PROVE  i = j
    BY DEF Once
  <2>1. nextOffer + i - 1 = nextOffer + j - 1
    BY MsgFacts
  <2> QED BY <1>1, <2>1
<1> QED BY <1>4, <1>5

\* SendThenOffer in terms of the offers it makes.
Offering(r, msgs, stale, running, new) ==
  /\ new \in SUBSET Offer /\ stale \subseteq openOffers[r]
  /\ nextOffer' \in 1 .. MaxOffers + 1 /\ nextOffer <= nextOffer'
  /\ \A o \in Offer : o \in new <=> o >= nextOffer /\ o < nextOffer'
  /\ openOffers' = [openOffers EXCEPT ![r] = (openOffers[r] \ stale) \cup new]
  /\ offeredBy' = [o \in Offer |-> IF o \in new THEN r ELSE offeredBy[o]]
  /\ toBroker' \in [Runner -> Seq(ToBrokerMsg)]
  /\ \A p \in Runner : p # r => toBroker'[p] = toBroker[p]
  /\ \A type \in ToBrokerType : \A o \in Offer : Msg(type, o) \notin msgs /\ o \notin new
       => Kept(toBroker'[r], toBroker[r], Msg(type, o))
  /\ \A x : Has(toBroker'[r], x) =>
       Has(toBroker[r], x) \/ x \in msgs \/ \E o \in new : x = Msg("taskoffer", o)
  /\ \A o \in new : ~ToB(r, "taskoffer", o) /\ Msg("taskoffer", o) \notin msgs
       => Once(toBroker'[r], Msg("taskoffer", o))
  /\ LET open == openOffers[r] \ stale
     IN Cardinality(open) + Cardinality(running) <= MaxConcurrency
          => Cardinality(open) + Cardinality(running) + Cardinality(new) <= MaxConcurrency

LEMMA OfferingFacts ==
  ASSUME TypeOK, NEW r \in Runner, NEW stale, NEW running \in SUBSET Offer,
         NEW M \in SUBSET ToBrokerMsg, NEW msgs \in Seq(M),
         SendThenOffer(r, msgs, stale, running)
  PROVE  \E new : Offering(r, M, stale, running, new)
<1> DEFINE open == openOffers[r] \ stale
           new == IF r \in canSendOffers THEN OffersToSend(open, running) ELSE {}
           offers == [i \in 1 .. Cardinality(new) |-> Msg("taskoffer", nextOffer + i - 1)]
           N == {Msg("taskoffer", o) : o \in new}
<1>1. /\ stale \subseteq openOffers[r]
      /\ openOffers' = [openOffers EXCEPT ![r] = open \cup new]
      /\ offeredBy' = [o \in Offer |-> IF o \in new THEN r ELSE offeredBy[o]]
      /\ nextOffer' = nextOffer + Cardinality(new)
      /\ toBroker' = [toBroker EXCEPT ![r] = (toBroker[r] \o msgs) \o offers]
  BY DEF SendThenOffer
<1>2. open \in SUBSET Offer /\ (new = OffersToSend(open, running) \/ new = {})
  BY DEF TypeOK, RunnerTypeOK
<1> HIDE DEF open, new
<1>3. /\ new \in SUBSET Offer /\ Cardinality(new) \in Nat
      /\ nextOffer + Cardinality(new) \in 1 .. MaxOffers + 1
      /\ \A o \in Offer : o \in new <=> o >= nextOffer /\ o < nextOffer + Cardinality(new)
      /\ Cardinality(open) + Cardinality(running) <= MaxConcurrency
           => Cardinality(open) + Cardinality(running) + Cardinality(new) <= MaxConcurrency
  BY <1>2, NewOffers
<1>4. offers \in Seq(N) /\ \A x : Once(offers, x)
  BY <1>3, OfferMessages
<1>5. N \subseteq ToBrokerMsg
  BY <1>3, MsgFacts DEF ToBrokerType
<1> HIDE DEF offers, N
<1> DEFINE sent == toBroker[r] \o msgs
<1>6. toBroker[r] \in Seq(ToBrokerMsg) /\ toBroker \in [Runner -> Seq(ToBrokerMsg)]
  BY DEF TypeOK, RunnerTypeOK
<1>7. msgs \in Seq(ToBrokerMsg) /\ \A x : Has(msgs, x) => x \in M
  BY DEF Has
<1>8. offers \in Seq(ToBrokerMsg) /\ \A x : Has(offers, x) => x \in N
  BY <1>4, <1>5 DEF Has
<1>9. /\ sent \in Seq(ToBrokerMsg)
      /\ \A x : x \notin M => Kept(sent, toBroker[r], x)
      /\ \A x : Has(sent, x) <=> Has(toBroker[r], x) \/ Has(msgs, x)
  <2>1. Channel(sent, toBroker[r], M)
    BY <1>6, ChannelSend
  <2>2. sent \in Seq(ToBrokerMsg) /\ \A x : x \notin M => Kept(sent, toBroker[r], x)
    BY <1>6, <2>1, ChannelKept
  <2> QED BY <2>2, <1>6, <1>7, ConcatKeeps
<1> HIDE DEF sent
<1>10. /\ sent \o offers \in Seq(ToBrokerMsg)
       /\ \A x : x \notin N => Kept(sent \o offers, sent, x)
       /\ \A x : Has(sent \o offers, x) <=> Has(sent, x) \/ Has(offers, x)
       /\ \A x : Once(offers, x) /\ ~Has(sent, x) => Once(sent \o offers, x)
  <2>1. Channel(sent \o offers, sent, N)
    BY <1>4, <1>9, ChannelSend
  <2>2. sent \o offers \in Seq(ToBrokerMsg) /\ \A x : x \notin N => Kept(sent \o offers, sent, x)
    BY <1>5, <1>9, <2>1, ChannelKept
  <2> QED BY <2>2, <1>8, <1>9, ConcatKeeps
<1>11. toBroker'[r] = sent \o offers /\ toBroker' \in [Runner -> Seq(ToBrokerMsg)]
  BY <1>1, <1>6, <1>10 DEF sent
<1>12. \A p \in Runner : p # r => toBroker'[p] = toBroker[p]
  BY <1>1, <1>6
<1>13. ASSUME NEW type \in ToBrokerType, NEW o \in Offer, Msg(type, o) \notin M, o \notin new
       PROVE  Kept(toBroker'[r], toBroker[r], Msg(type, o))
  <2>1. Msg(type, o) \notin N
    BY <1>13, MsgFacts DEF N
  <2> QED BY <1>9, <1>10, <1>11, <1>13, <2>1 DEF Kept
<1>14. ASSUME NEW x, Has(toBroker'[r], x)
       PROVE  Has(toBroker[r], x) \/ x \in M \/ \E o \in new : x = Msg("taskoffer", o)
  BY <1>7, <1>8, <1>9, <1>10, <1>11, <1>14 DEF N
<1>15. ASSUME NEW o \in new, ~ToB(r, "taskoffer", o), Msg("taskoffer", o) \notin M
       PROVE  Once(toBroker'[r], Msg("taskoffer", o))
  BY <1>4, <1>7, <1>9, <1>10, <1>11, <1>15 DEF ToB
<1>16. nextOffer <= nextOffer'
  BY <1>1, <1>3 DEF TypeOK, RunnerTypeOK
<1>17. Offering(r, M, stale, running, new)
  BY <1>16, <1>1, <1>3, <1>11, <1>12, <1>13, <1>14, <1>15 DEF Offering, open
<1> QED BY <1>17

-----------------------------------------------------------------------------
(* settleTasks.                                                             *)

\* A runner is asked about the offers that were taken from it, in some order.
LEMMA AskMessagesType ==
  ASSUME NEW s \in SUBSET Offer, NEW m,
         \A o \in s : m[o] \in Request,
         \A o, p \in s : m[o] = m[p] => o = p
  PROVE  AskMessages(s, m) \in Seq({Msg("taskofferaccept", o) : o \in s})
<1> DEFINE Below(o) == {p \in s : m[p] < m[o]}
           n == Cardinality(s)
           rank == [o \in s |-> Cardinality(Below(o))]
<1>1. IsFiniteSet(s) /\ n \in Nat
  BY Slots
<1>2. \A o \in s : m[o] \in Nat
  BY BrokerAssumption DEF Request
<1>3. \A o \in s : IsFiniteSet(Below(o)) /\ Cardinality(Below(o)) \in Nat
  BY Slots
<1>4. ASSUME NEW S \in SUBSET s, NEW T \in SUBSET S, S # T
      PROVE  Cardinality(T) < Cardinality(S)
  <2>1. IsFiniteSet(S) /\ Cardinality(S) \in Nat /\ Cardinality(T) \in Nat
    BY Slots
  <2>2. Cardinality(T) <= Cardinality(S) /\ Cardinality(T) # Cardinality(S)
    BY <1>4, <2>1, FS_Subset
  <2> QED BY <2>1, <2>2
<1>5. ASSUME NEW o \in s PROVE Cardinality(Below(o)) \in 0 .. n - 1
  <2>1. Below(o) \in SUBSET s /\ s # Below(o)
    BY <1>2
  <2>2. Cardinality(Below(o)) < n
    BY <2>1, <1>4
  <2> QED BY <1>1, <1>3, <2>2
<1>6. ASSUME NEW o \in s, NEW p \in s, m[o] < m[p] PROVE Cardinality(Below(o)) < Cardinality(Below(p))
  <2>1. Below(o) \in SUBSET Below(p) /\ Below(p) \in SUBSET s
    BY <1>2, <1>6
  <2>2. o \in Below(p) /\ o \notin Below(o)
    BY <1>2, <1>6
  <2> QED BY <1>4, <2>1, <2>2
<1>7. ASSUME NEW o \in s, NEW p \in s, Cardinality(Below(o)) = Cardinality(Below(p))
      PROVE  o = p
  <2>1. ~(m[o] < m[p]) /\ ~(m[p] < m[o])
    BY <1>3, <1>6, <1>7
  <2> QED BY <1>2, <2>1
<1> HIDE DEF Below
<1>8. rank \in Injection(s, 0 .. n - 1)
  BY <1>5, <1>7 DEF Injection, IsInjective
<1>9. IsFiniteSet(0 .. n - 1) /\ Cardinality(0 .. n - 1) = n
  BY <1>1, FS_Interval
<1>10. rank \in Surjection(s, 0 .. n - 1)
  BY <1>8, <1>9, FS_Injection
<1>11. ASSUME NEW i \in 1 .. n
       PROVE  \E o \in s : Cardinality(Below(o)) = i - 1
  <2>1. i - 1 \in 0 .. n - 1
    BY <1>1
  <2> QED BY <1>10, <2>1 DEF Surjection
<1>12. AskMessages(s, m) = [i \in 1 .. n |-> Msg("taskofferaccept",
                              CHOOSE o \in s : Cardinality(Below(o)) = i - 1)]
  BY DEF AskMessages, Below
<1>13. \A i \in 1 .. n : (CHOOSE o \in s : Cardinality(Below(o)) = i - 1) \in s
  BY <1>11
<1> HIDE DEF n
<1>14. AskMessages(s, m) \in [1 .. n -> {Msg("taskofferaccept", o) : o \in s}]
  BY <1>12, <1>13
<1> QED BY <1>1, <1>14 DEF n

\* settleTasks in terms of the offers it takes and the requests it takes them
\* for.
Settling(offers, requests, taken, m) ==
  /\ taken \subseteq offers
  /\ pendingTaskOffers' \subseteq offers /\ pendingTaskOffers' \cap taken = {}
  /\ pendingTaskRequests' = requests
  /\ \A o \in taken : m[o] \in requests /\ m[o] \notin acceptInProgress
  /\ \A o, p \in taken : m[o] = m[p] => o = p
  /\ acceptInProgress' = acceptInProgress \cup {m[o] : o \in taken}
  /\ matched' = [o \in Offer |-> IF o \in taken THEN m[o] ELSE matched[o]]
  /\ accept' = [o \in Offer |-> IF o \in taken THEN "asking" ELSE accept[o]]
  /\ toRunner' \in [Runner -> Seq(ToRunnerMsg)]
  /\ \A r \in Runner :
       /\ link[r] # "up" => toRunner'[r] = toRunner[r]
       /\ \A x : Has(toRunner[r], x) => Has(toRunner'[r], x)
       /\ \A x : Has(toRunner'[r], x) => Has(toRunner[r], x)
            \/ \E o \in taken : x = Msg("taskofferaccept", o) /\ offeredBy[o] = r
       /\ \A x : (\A o \in taken : x # Msg("taskofferaccept", o)) =>
            Kept(toRunner'[r], toRunner[r], x)

LEMMA SettlingFacts ==
  ASSUME TypeOK, NEW offers \in SUBSET Offer, NEW requests \in SUBSET Request,
         SettleTasks(offers, requests)
  PROVE  \E taken, m : Settling(offers, requests, taken, m)
<1>1. PICK expired \in SUBSET {o \in offers : offeredBy[o] \notin Launcher} :
        \E m \in Matchings(offers \ expired, requests) :
          LET taken == {o \in offers \ expired : m[o] # NoRequest}
              asked(r) == {o \in taken : offeredBy[o] = r /\ link[r] = "up"}
          IN /\ pendingTaskOffers' = (offers \ expired) \ taken
             /\ pendingTaskRequests' = requests
             /\ acceptInProgress' = acceptInProgress \cup {m[o] : o \in taken}
             /\ matched' = [o \in Offer |-> IF o \in taken THEN m[o] ELSE matched[o]]
             /\ accept' = [o \in Offer |-> IF o \in taken THEN "asking" ELSE accept[o]]
             /\ toRunner' = [r \in Runner |-> toRunner[r] \o AskMessages(asked(r), m)]
  BY DEF SettleTasks
<1>2. PICK m \in Matchings(offers \ expired, requests) :
          LET taken == {o \in offers \ expired : m[o] # NoRequest}
              asked(r) == {o \in taken : offeredBy[o] = r /\ link[r] = "up"}
          IN /\ pendingTaskOffers' = (offers \ expired) \ taken
             /\ pendingTaskRequests' = requests
             /\ acceptInProgress' = acceptInProgress \cup {m[o] : o \in taken}
             /\ matched' = [o \in Offer |-> IF o \in taken THEN m[o] ELSE matched[o]]
             /\ accept' = [o \in Offer |-> IF o \in taken THEN "asking" ELSE accept[o]]
             /\ toRunner' = [r \in Runner |-> toRunner[r] \o AskMessages(asked(r), m)]
  BY <1>1
<1> DEFINE taken == {o \in offers \ expired : m[o] # NoRequest}
           asked(r) == {o \in taken : offeredBy[o] = r /\ link[r] = "up"}
           M(r) == {Msg("taskofferaccept", o) : o \in asked(r)}
           u(r) == AskMessages(asked(r), m)
<1>3. /\ pendingTaskOffers' = (offers \ expired) \ taken
      /\ pendingTaskRequests' = requests
      /\ acceptInProgress' = acceptInProgress \cup {m[o] : o \in taken}
      /\ matched' = [o \in Offer |-> IF o \in taken THEN m[o] ELSE matched[o]]
      /\ accept' = [o \in Offer |-> IF o \in taken THEN "asking" ELSE accept[o]]
      /\ toRunner' = [r \in Runner |-> toRunner[r] \o u(r)]
  BY <1>2
<1>4. /\ m \in [offers \ expired -> Idle(requests) \cup {NoRequest}]
      /\ \A o, p \in offers \ expired : m[o] = m[p] /\ m[o] # NoRequest => o = p
  BY DEF Matchings
<1>5. taken \in SUBSET offers /\ taken \in SUBSET Offer
  OBVIOUS
<1>6. \A o \in taken : m[o] \in requests /\ m[o] \notin acceptInProgress /\ m[o] \in Request
  BY <1>4 DEF Idle
<1>7. \A o, p \in taken : m[o] = m[p] => o = p
  BY <1>4
<1> HIDE DEF taken
<1>8. ASSUME NEW r \in Runner
      PROVE  /\ toRunner[r] \o u(r) \in Seq(ToRunnerMsg)
             /\ link[r] # "up" => toRunner[r] \o u(r) = toRunner[r]
             /\ \A x : Has(toRunner[r] \o u(r), x) <=> Has(toRunner[r], x) \/ Has(u(r), x)
             /\ \A x : Has(u(r), x) => x \in M(r)
             /\ \A x : x \notin M(r) => Kept(toRunner[r] \o u(r), toRunner[r], x)
  <2>1. asked(r) \in SUBSET Offer /\ asked(r) \subseteq taken
    BY <1>5
  <2>2. (\A o \in asked(r) : m[o] \in Request) /\ \A o, p \in asked(r) : m[o] = m[p] => o = p
    BY <1>6, <1>7, <2>1
  <2>3. link[r] # "up" => asked(r) = {}
    OBVIOUS
  <2>4. M(r) \subseteq ToRunnerMsg
    BY <2>1, MsgFacts DEF ToRunnerType
  <2> HIDE DEF asked
  <2>5. u(r) \in Seq(M(r))
    BY <2>1, <2>2, AskMessagesType
  <2>6. link[r] # "up" => u(r) = <<>>
    <3>1. link[r] # "up" => u(r) \in Seq({})
      BY <2>3, <2>5
    <3> QED BY <3>1
  <2> HIDE DEF u, M
  <2>7. toRunner[r] \in Seq(ToRunnerMsg) /\ u(r) \in Seq(ToRunnerMsg)
    BY <2>4, <2>5 DEF TypeOK, RunnerTypeOK
  <2>8. \A x : Has(u(r), x) => x \in M(r)
    BY <2>5 DEF Has
  <2>9. \A x : Has(toRunner[r] \o u(r), x) <=> Has(toRunner[r], x) \/ Has(u(r), x)
    BY <2>7, ConcatKeeps
  <2>10. Channel(toRunner[r] \o u(r), toRunner[r], M(r))
    BY <2>5, <2>7, ChannelSend
  <2>11. toRunner[r] \o u(r) \in Seq(ToRunnerMsg)
         /\ \A x : x \notin M(r) => Kept(toRunner[r] \o u(r), toRunner[r], x)
    BY <2>4, <2>7, <2>10, ChannelKept
  <2>12. link[r] # "up" => toRunner[r] \o u(r) = toRunner[r]
    BY <2>6, <2>7
  <2> QED BY <2>8, <2>9, <2>11, <2>12
<1>9. \A r \in Runner : \A x \in M(r) : \E o \in taken : x = Msg("taskofferaccept", o) /\ offeredBy[o] = r
  OBVIOUS
<1>10. \A r \in Runner : \A x :
         (\A o \in taken : x # Msg("taskofferaccept", o)) => x \notin M(r)
  BY <1>9
<1> HIDE DEF u, M
<1>11. toRunner' \in [Runner -> Seq(ToRunnerMsg)] /\ \A r \in Runner : toRunner'[r] = toRunner[r] \o u(r)
  BY <1>3, <1>8
<1>12. ASSUME NEW r \in Runner
       PROVE  /\ link[r] # "up" => toRunner'[r] = toRunner[r]
              /\ \A x : Has(toRunner[r], x) => Has(toRunner'[r], x)
              /\ \A x : Has(toRunner'[r], x) => Has(toRunner[r], x)
                   \/ \E o \in taken : x = Msg("taskofferaccept", o) /\ offeredBy[o] = r
              /\ \A x : (\A o \in taken : x # Msg("taskofferaccept", o)) =>
                   Kept(toRunner'[r], toRunner[r], x)
  <2> DEFINE n == toRunner'[r]
  <2>1. n = toRunner[r] \o u(r)
    BY <1>11
  <2>2. /\ link[r] # "up" => n = toRunner[r]
        /\ \A x : Has(n, x) <=> Has(toRunner[r], x) \/ Has(u(r), x)
        /\ \A x : Has(u(r), x) => x \in M(r)
        /\ \A x : x \notin M(r) => Kept(n, toRunner[r], x)
    BY <1>8, <2>1
  <2> HIDE DEF n
  <2>3. \A x \in M(r) : \E o \in taken : x = Msg("taskofferaccept", o) /\ offeredBy[o] = r
    BY <1>9
  <2>4. \A x : (\A o \in taken : x # Msg("taskofferaccept", o)) => Kept(n, toRunner[r], x)
    BY <1>10, <2>2
  <2>5. \A x : Has(n, x) => Has(toRunner[r], x)
          \/ \E o \in taken : x = Msg("taskofferaccept", o) /\ offeredBy[o] = r
    BY <2>2, <2>3
  <2> QED BY <2>2, <2>4, <2>5 DEF n
<1>13. Settling(offers, requests, taken, m)
  BY <1>3, <1>5, <1>6, <1>7, <1>11, <1>12 DEF Settling
<1> QED BY <1>13

-----------------------------------------------------------------------------
(* Steps of the runners.                                                    *)

\* What a step of a runner has to keep.
RunnerInv ==
  /\ RunnerTypeOK
  /\ LinkInv
  /\ NamesTask
  /\ \A o \in Offer : OfferLife(o)
  /\ NotOvercommitted

\* Fewer offers and tasks fit as well.
LEMMA SlotsKept ==
  ASSUME BrokerInv, offeredBy' = offeredBy,
         \A r \in Runner : openOffers'[r] \subseteq openOffers[r],
         \A t \in Offer : taskStatus[t] = "none" => taskStatus'[t] = "none"
  PROVE  NotOvercommitted'
<1> SUFFICES ASSUME NEW r \in Runner
             PROVE  Cardinality(openOffers'[r]) + Cardinality(RunningTasks(r)') <= MaxConcurrency
  BY DEF NotOvercommitted
<1>1. openOffers[r] \in SUBSET Offer /\ openOffers'[r] \in SUBSET openOffers[r]
  BY DEF BrokerInv, TypeOK, RunnerTypeOK
<1>2. RunningTasks(r) \in SUBSET Offer /\ RunningTasks(r)' \in SUBSET RunningTasks(r)
  BY DEF RunningTasks
<1>3. Cardinality(openOffers[r]) + Cardinality(RunningTasks(r)) <= MaxConcurrency
  BY DEF BrokerInv, NotOvercommitted
<1>4. /\ Cardinality(openOffers'[r]) <= Cardinality(openOffers[r])
      /\ IsFiniteSet(openOffers[r]) /\ IsFiniteSet(RunningTasks(r))
      /\ Cardinality(openOffers[r]) \in Nat /\ Cardinality(openOffers'[r]) \in Nat
      /\ Cardinality(RunningTasks(r)) \in Nat /\ Cardinality(RunningTasks(r)') \in Nat
  BY <1>1, <1>2, Slots, FS_Subset
<1>5. Cardinality(RunningTasks(r)') <= Cardinality(RunningTasks(r))
  BY <1>2, <1>4, FS_Subset
<1> QED BY <1>3, <1>4, <1>5, Slots

\* A message reaches its runner.
LEMMA Arrival ==
  ASSUME BrokerInv, NEW r \in Runner, NEW type \in ToRunnerType,
         Next4Runner(r, type), Consume(r)
  PROVE  /\ link[r] = "up"
         /\ toRunner' \in [Runner -> Seq(ToRunnerMsg)]
         /\ \A p \in Runner : p # r => toRunner'[p] = toRunner[p]
         /\ Taken(toRunner', toRunner, r, Msg(type, Head(toRunner[r]).id))
         /\ NamesTask'
         /\ type \in TaskMsg =>
              /\ Head(toRunner[r]).id \in Offer
              /\ ToR(r, type, Head(toRunner[r]).id)
              /\ offeredBy[Head(toRunner[r]).id] = r
              /\ accept[Head(toRunner[r]).id] # "none"
<1> DEFINE t == Head(toRunner[r]).id
<1>1. /\ link[r] = "up" /\ toRunner[r] # <<>> /\ Head(toRunner[r]).type = type
      /\ toRunner' = [toRunner EXCEPT ![r] = Tail(toRunner[r])]
      /\ toRunner \in [Runner -> Seq(ToRunnerMsg)]
  BY DEF Next4Runner, Consume, BrokerInv, TypeOK, RunnerTypeOK
<1>2. /\ toRunner' \in [Runner -> Seq(ToRunnerMsg)]
      /\ Head(toRunner[r]) \in ToRunnerMsg
      /\ Taken(toRunner', toRunner, r, Head(toRunner[r]))
  BY <1>1, TakeHead
<1>3. Head(toRunner[r]) = Msg(type, t) /\ t \in Offer \cup {0}
  BY <1>1, <1>2, MsgFacts
<1>4. NamesTask'
  BY <1>2 DEF Taken, Kept, BrokerInv, NamesTask, ToR
<1>5. ToR(r, type, t)
  BY <1>2, <1>3 DEF Taken, ToR
<1>6. ASSUME type \in TaskMsg PROVE t \in Offer /\ offeredBy[t] = r /\ accept[t] # "none"
  <2>1. t \in Offer
    BY <1>3, <1>5, <1>6 DEF BrokerInv, NamesTask
  <2> QED BY <1>5, <1>6, <2>1 DEF BrokerInv, OfferLife, Addressed, Fresh
<1>7. \A p \in Runner : p # r => toRunner'[p] = toRunner[p]
  BY <1>1
<1> QED BY <1>1, <1>2, <1>3, <1>4, <1>5, <1>6, <1>7

\* For the other offers nothing is written, and no cancellation taken.
LEMMA OthersArrival ==
  ASSUME NEW r \in Runner, NEW type, NEW t, Taken(toRunner', toRunner, r, Msg(type, t)),
         NEW o, o # t \/ type # "taskcancel"
  PROVE  \A p \in Runner :
           /\ \A y \in TaskMsg : RoutineToR(p, y, o)
           /\ ToR(p, "taskcancel", o) => Has(toRunner'[p], Msg("taskcancel", o))
BY MsgFacts DEF Taken, RoutineToR, ToR

LEMMA NothingSent ==
  ASSUME UNCHANGED toBroker
  PROVE  \A p \in Runner : \A o : \A type \in ToBrokerType : RoutineToB(p, type, o)
BY Untouched DEF RoutineToB

LEMMA NothingReceived ==
  ASSUME UNCHANGED toRunner
  PROVE  \A p \in Runner : \A o :
           /\ \A type \in TaskMsg : RoutineToR(p, type, o)
           /\ ToR(p, "taskcancel", o) => Has(toRunner'[p], Msg("taskcancel", o))
BY Untouched DEF RoutineToR, ToR

\* What makes a step of a runner routine for offer o.
LEMMA RunnerRoutine ==
  ASSUME UNCHANGED brokerVars, NEW o \in Offer,
         offeredBy'[o] = offeredBy[o], o < nextOffer' <=> o < nextOffer,
         \/ taskStatus'[o] \in {taskStatus[o], "none"}
         \/ taskStatus[o] = "running" /\ taskStatus'[o] \in Started,
         \A r \in Runner : o \in openOffers'[r] => o \in openOffers[r],
         \A r \in Runner : \A type \in TaskMsg : RoutineToR(r, type, o),
         \A r \in Runner : \A type \in ToBrokerType : RoutineToB(r, type, o),
         \A r \in Runner : taskStatus'[o] = "running" /\ ToR(r, "taskcancel", o)
                              => Has(toRunner'[r], Msg("taskcancel", o)),
         o \in timed => o \in tasks
  PROVE  Routine(o)
<1>1. /\ accept' = accept /\ matched' = matched /\ tasks' = tasks /\ timed' = timed
      /\ pendingTaskOffers' = pendingTaskOffers
  BY DEF brokerVars
<1> QED BY <1>1 DEF Routine

LEMMA SimpleReceiveKeeps ==
  ASSUME BrokerInv, UNCHANGED brokerVars, NEW r \in Runner,
         RunnerRegistered(r) \/ Drain(r)
  PROVE  RunnerInv'
<1>1. /\ UNCHANGED <<link, isShuttingDown, openOffers, offeredBy, nextOffer, taskStatus, toBroker>>
      /\ canSendOffers' \in {canSendOffers \cup {r}, canSendOffers \ {r}}
      /\ Consume(r) /\ (Next4Runner(r, "runnerregistered") \/ Next4Runner(r, "drain"))
  BY DEF RunnerRegistered, Drain
<1>2. PICK type \in {"runnerregistered", "drain"} : Next4Runner(r, type)
  BY <1>1
<1>3. type \in ToRunnerType /\ type # "taskcancel"
  BY DEF ToRunnerType
<1>4. /\ link[r] = "up" /\ NamesTask'
      /\ toRunner' \in [Runner -> Seq(ToRunnerMsg)]
      /\ \A p \in Runner : p # r => toRunner'[p] = toRunner[p]
      /\ Taken(toRunner', toRunner, r, Msg(type, Head(toRunner[r]).id))
  BY <1>1, <1>2, <1>3, Arrival
<1>5. RunnerTypeOK'
  BY <1>1, <1>4 DEF BrokerInv, TypeOK, RunnerTypeOK
<1>6. LinkInv'
  BY <1>1, <1>4 DEF BrokerInv, LinkInv, brokerVars
<1>7. ASSUME NEW o \in Offer PROVE OfferLife(o)'
  <2>1. \A p \in Runner : /\ \A y \in TaskMsg : RoutineToR(p, y, o)
                          /\ ToR(p, "taskcancel", o) => Has(toRunner'[p], Msg("taskcancel", o))
    BY <1>3, <1>4, OthersArrival
  <2>2. \A p \in Runner : \A y \in ToBrokerType : RoutineToB(p, y, o)
    BY <1>1, NothingSent
  <2>3. o \in timed => o \in tasks
    BY DEF BrokerInv, OfferLife, Fresh
  <2>4. Routine(o)
    BY <1>1, <2>1, <2>2, <2>3, RunnerRoutine
  <2> QED BY <2>4, RoutineStep DEF BrokerInv
<1>8. NotOvercommitted'
  BY <1>1, SlotsKept
<1> QED BY <1>4, <1>5, <1>6, <1>7, <1>8 DEF RunnerInv

LEMMA StopRunnerKeeps ==
  ASSUME BrokerInv, UNCHANGED brokerVars, NEW r \in Runner, StopRunner(r)
  PROVE  RunnerInv'
<1>1. /\ UNCHANGED <<link, offeredBy, nextOffer, taskStatus, toRunner, toBroker>>
      /\ link[r] = "up"
      /\ isShuttingDown' = isShuttingDown \cup {r} /\ canSendOffers' = canSendOffers \ {r}
      /\ openOffers' = [openOffers EXCEPT ![r] = {}]
      /\ openOffers \in [Runner -> SUBSET Offer]
  BY DEF StopRunner, BrokerInv, TypeOK, RunnerTypeOK
<1>2. \A p \in Runner : openOffers'[p] \subseteq openOffers[p]
  BY <1>1
<1>3. RunnerTypeOK'
  BY <1>1 DEF BrokerInv, TypeOK, RunnerTypeOK
<1>4. LinkInv'
  BY <1>1, <1>2 DEF BrokerInv, LinkInv, brokerVars
<1>5. NamesTask'
  BY <1>1 DEF BrokerInv, NamesTask, ToR
<1>6. ASSUME NEW o \in Offer PROVE OfferLife(o)'
  <2>1. \A p \in Runner : /\ \A y \in TaskMsg : RoutineToR(p, y, o)
                          /\ ToR(p, "taskcancel", o) => Has(toRunner'[p], Msg("taskcancel", o))
    BY <1>1, NothingReceived
  <2>2. \A p \in Runner : \A y \in ToBrokerType : RoutineToB(p, y, o)
    BY <1>1, NothingSent
  <2>3. o \in timed => o \in tasks
    BY DEF BrokerInv, OfferLife, Fresh
  <2>4. Routine(o)
    BY <1>1, <1>2, <2>1, <2>2, <2>3, RunnerRoutine
  <2> QED BY <2>4, RoutineStep DEF BrokerInv
<1>7. NotOvercommitted'
  BY <1>1, <1>2, SlotsKept
<1> QED BY <1>3, <1>4, <1>5, <1>6, <1>7 DEF RunnerInv

\* The end of a runner process takes its offers, its tasks and what is on its
\* way to it.
LEMMA EndsFacts ==
  ASSUME BrokerInv, NEW r \in Runner, Ends(r)
  PROVE  /\ link' \in [Runner -> {"off", "up", "gone"}]
         /\ canSendOffers' \subseteq Runner /\ isShuttingDown' \subseteq Runner
         /\ openOffers' \in [Runner -> SUBSET Offer]
         /\ taskStatus' \in [Offer -> TaskStatus]
         /\ toRunner' \in [Runner -> Seq(ToRunnerMsg)]
         /\ offeredBy' = offeredBy /\ nextOffer' = nextOffer
         /\ NamesTask' /\ NotOvercommitted'
         /\ \A p \in Runner :
              /\ link'[p] = "up" => link[p] = "up" /\ p # r
              /\ link'[p] # "up" =>
                   /\ openOffers'[p] = {} /\ toRunner'[p] = <<>>
                   /\ \A t \in Offer : offeredBy'[t] = p => taskStatus'[t] = "none"
         /\ \A o \in Offer :
              /\ taskStatus'[o] \in {taskStatus[o], "none"}
              /\ offeredBy[o] = r => taskStatus'[o] = "none"
              /\ \A p \in Runner :
                   /\ o \in openOffers'[p] => o \in openOffers[p]
                   /\ \A type \in TaskMsg : RoutineToR(p, type, o)
                   /\ taskStatus'[o] = "running" /\ ToR(p, "taskcancel", o)
                        => Has(toRunner'[p], Msg("taskcancel", o))
<1>1. /\ link' = [link EXCEPT ![r] = "gone"]
      /\ canSendOffers' = canSendOffers \ {r} /\ isShuttingDown' = isShuttingDown \ {r}
      /\ openOffers' = [openOffers EXCEPT ![r] = {}]
      /\ taskStatus' = [t \in Offer |-> IF offeredBy[t] = r THEN "none" ELSE taskStatus[t]]
      /\ toRunner' = [toRunner EXCEPT ![r] = <<>>]
      /\ offeredBy' = offeredBy /\ nextOffer' = nextOffer
  BY DEF Ends
<1>2. RunnerTypeOK
  BY DEF BrokerInv, TypeOK
<1>3. /\ link' \in [Runner -> {"off", "up", "gone"}]
      /\ canSendOffers' \subseteq Runner /\ isShuttingDown' \subseteq Runner
      /\ openOffers' \in [Runner -> SUBSET Offer]
      /\ taskStatus' \in [Offer -> TaskStatus]
      /\ toRunner' \in [Runner -> Seq(ToRunnerMsg)]
  <2>1. "none" \in TaskStatus /\ <<>> \in Seq(ToRunnerMsg)
    BY DEF TaskStatus
  <2> QED BY <1>1, <1>2, <2>1 DEF RunnerTypeOK
<1>4. \A p \in Runner :
        /\ link'[p] = IF p = r THEN "gone" ELSE link[p]
        /\ openOffers'[p] = IF p = r THEN {} ELSE openOffers[p]
        /\ toRunner'[p] = IF p = r THEN <<>> ELSE toRunner[p]
  BY <1>1, <1>2 DEF RunnerTypeOK
<1>5. \A x : ~Has(<<>>, x)
  BY DEF Has
<1>6. NamesTask'
  BY <1>4, <1>5 DEF BrokerInv, NamesTask, ToR
<1>7. NotOvercommitted'
  <2>1. \A t \in Offer : taskStatus[t] = "none" => taskStatus'[t] = "none"
    BY <1>1
  <2>2. \A p \in Runner : openOffers'[p] \subseteq openOffers[p]
    BY <1>4
  <2> QED BY <1>1, <2>1, <2>2, SlotsKept
<1>8. ASSUME NEW p \in Runner
      PROVE  /\ link'[p] = "up" => link[p] = "up" /\ p # r
             /\ link'[p] # "up" =>
                  /\ openOffers'[p] = {} /\ toRunner'[p] = <<>>
                  /\ \A t \in Offer : offeredBy'[t] = p => taskStatus'[t] = "none"
  BY <1>1, <1>4 DEF BrokerInv, LinkInv
<1>9. ASSUME NEW o \in Offer
      PROVE  /\ taskStatus'[o] \in {taskStatus[o], "none"}
             /\ offeredBy[o] = r => taskStatus'[o] = "none"
  BY <1>1
<1>10. ASSUME NEW o \in Offer, NEW p \in Runner
       PROVE  /\ o \in openOffers'[p] => o \in openOffers[p]
              /\ \A type \in TaskMsg : RoutineToR(p, type, o)
              /\ taskStatus'[o] = "running" /\ ToR(p, "taskcancel", o)
                   => Has(toRunner'[p], Msg("taskcancel", o))
  <2>1. CASE p # r
    BY <1>4, <2>1, Untouched DEF RoutineToR, ToR
  <2>2. CASE p = r
    <3>1. \A x : Kept(toRunner'[p], toRunner[p], x)
      BY <1>4, <2>2 DEF Kept, Has, Once, Followed
    <3>2. ToR(p, "taskcancel", o) => offeredBy[o] = r
      BY <2>2 DEF BrokerInv, OfferLife, Addressed, TaskMsg
    <3> QED BY <1>4, <1>9, <2>2, <3>1, <3>2 DEF RoutineToR
  <2> QED BY <2>1, <2>2
<1> QED BY <1>1, <1>3, <1>6, <1>7, <1>8, <1>9, <1>10

LEMMA RunnerEndsKeeps ==
  ASSUME BrokerInv, UNCHANGED brokerVars, NEW r \in Runner, CloseConnection(r) \/ RunnerDies(r)
  PROVE  RunnerInv'
<1>1. Ends(r) /\ UNCHANGED toBroker
  BY DEF CloseConnection, RunnerDies
<1>2. RunnerTypeOK'
  BY <1>1, EndsFacts DEF BrokerInv, TypeOK, RunnerTypeOK
<1>3. LinkInv'
  <2>1. \A p \in Runner :
          /\ link'[p] = "up" => link[p] = "up"
          /\ link'[p] # "up" =>
               /\ openOffers'[p] = {} /\ toRunner'[p] = <<>>
               /\ \A t \in Offer : offeredBy'[t] = p => taskStatus'[t] = "none"
    BY <1>1, EndsFacts
  <2> QED BY <2>1 DEF BrokerInv, LinkInv, brokerVars
<1>4. ASSUME NEW o \in Offer PROVE OfferLife(o)'
  <2>1. \A p \in Runner : \A y \in ToBrokerType : RoutineToB(p, y, o)
    BY <1>1, NothingSent
  <2>2. o \in timed => o \in tasks
    BY DEF BrokerInv, OfferLife, Fresh
  <2>3. Routine(o)
    BY <1>1, <2>1, <2>2, EndsFacts, RunnerRoutine, SMTT(20)
  <2> QED BY <2>3, RoutineStep DEF BrokerInv
<1> QED BY <1>1, <1>2, <1>3, <1>4, EndsFacts DEF RunnerInv

-----------------------------------------------------------------------------
(* offerAccepted.                                                           *)

LEMMA SendFacts ==
  ASSUME TypeOK, NEW r \in Runner, NEW type \in ToBrokerType, NEW o \in Offer, Send(r, type, o)
  PROVE  /\ toBroker' \in [Runner -> Seq(ToBrokerMsg)]
         /\ Written(toBroker', toBroker, {r}, Msg(type, o))
         /\ UNCHANGED <<offeredBy, nextOffer>>
<1>1. toBroker \in [Runner -> Seq(ToBrokerMsg)] /\ Msg(type, o) \in ToBrokerMsg
  BY MsgFacts DEF TypeOK, RunnerTypeOK
<1>2. toBroker' = [toBroker EXCEPT ![r] = Append(toBroker[r], Msg(type, o))]
  BY DEF Send
<1>3. \A p \in Runner : toBroker'[p] = IF p \in {r} THEN Append(toBroker[p], Msg(type, o)) ELSE toBroker[p]
  BY <1>1, <1>2
<1>4. /\ \A p \in Runner : toBroker'[p] \in Seq(ToBrokerMsg)
      /\ Written(toBroker', toBroker, {r}, Msg(type, o))
  BY <1>1, <1>3, WriteOne
<1>5. toBroker' \in [Runner -> Seq(ToBrokerMsg)]
  BY <1>1, <1>2, <1>4
<1> QED BY <1>4, <1>5 DEF Send

\* A message about offer t says nothing about others.
LEMMA OthersSend ==
  ASSUME NEW r \in Runner, NEW type, NEW t, Written(toBroker', toBroker, {r}, Msg(type, t)),
         NEW o, o # t
  PROVE  \A p \in Runner : \A y \in ToBrokerType : RoutineToB(p, y, o)
<1>1. \A y : Msg(y, o) # Msg(type, t)
  BY MsgFacts
<1>2. \A p \in Runner : \A y : Kept(toBroker'[p], toBroker[p], Msg(y, o))
  BY <1>1 DEF Written
<1> QED BY <1>2 DEF RoutineToB

\* The offer is refused: by a launcher, at shutdown, without a free slot, or
\* because it has expired.
LEMMA RefusalKeeps ==
  ASSUME BrokerInv, UNCHANGED brokerVars, NEW r \in Runner,
         NEW reply \in {"taskrejected", "taskdeferred"},
         Next4Runner(r, "taskofferaccept"), Consume(r), Send(r, reply, Head(toRunner[r]).id),
         UNCHANGED <<link, canSendOffers, isShuttingDown, taskStatus>>,
         openOffers' \in {openOffers, [openOffers EXCEPT ![r] = openOffers[r] \ {Head(toRunner[r]).id}]}
  PROVE  RunnerInv'
<1> DEFINE t == Head(toRunner[r]).id
<1>1. "taskofferaccept" \in ToRunnerType /\ "taskofferaccept" \in TaskMsg /\ reply \in ToBrokerType
  BY DEF ToRunnerType, TaskMsg, ToBrokerType
<1>2. /\ link[r] = "up" /\ NamesTask'
      /\ toRunner' \in [Runner -> Seq(ToRunnerMsg)]
      /\ \A p \in Runner : p # r => toRunner'[p] = toRunner[p]
      /\ Taken(toRunner', toRunner, r, Msg("taskofferaccept", t))
      /\ t \in Offer /\ offeredBy[t] = r /\ accept[t] # "none"
  BY <1>1, Arrival
<1>3. /\ toBroker' \in [Runner -> Seq(ToBrokerMsg)]
      /\ Written(toBroker', toBroker, {r}, Msg(reply, t))
      /\ UNCHANGED <<offeredBy, nextOffer>>
  BY <1>1, <1>2, SendFacts DEF BrokerInv
<1> HIDE DEF t
<1>4. openOffers' \in [Runner -> SUBSET Offer] /\ \A p \in Runner : openOffers'[p] \subseteq openOffers[p]
  BY ZenonT(30) DEF BrokerInv, TypeOK, RunnerTypeOK, t
<1>5. RunnerTypeOK'
  BY <1>2, <1>3, <1>4 DEF BrokerInv, TypeOK, RunnerTypeOK
<1>6. LinkInv'
  <2>1. UNCHANGED <<link, knownRunners, offeredBy, taskStatus>>
    BY <1>3 DEF brokerVars
  <2>2. ASSUME NEW p \in Runner, link[p] # "up"
        PROVE  /\ openOffers'[p] = {} /\ toRunner'[p] = <<>>
               /\ \A u \in Offer : offeredBy[u] = p => taskStatus[u] = "none"
    <3>1. /\ openOffers[p] = {} /\ toRunner[p] = <<>>
          /\ \A u \in Offer : offeredBy[u] = p => taskStatus[u] = "none"
      BY <2>2 DEF BrokerInv, LinkInv
    <3>2. p # r
      BY <1>2, <2>2
    <3>3. openOffers'[p] = {}
      BY <1>4, <3>1
    <3>4. toRunner'[p] = <<>>
      BY <1>2, <3>1, <3>2
    <3> QED BY <3>1, <3>3, <3>4
  <2>3. \A p \in Runner : link[p] = "up" => p \in knownRunners
    BY DEF BrokerInv, LinkInv
  <2> QED BY <2>1, <2>2, <2>3 DEF LinkInv
<1>7. ASSUME NEW o \in Offer PROVE OfferLife(o)'
  <2>1. \A p \in Runner : /\ \A y \in TaskMsg : RoutineToR(p, y, o)
                          /\ ToR(p, "taskcancel", o) => Has(toRunner'[p], Msg("taskcancel", o))
    BY <1>2, OthersArrival, ZenonT(30)
  <2>2. ASSUME NEW p \in Runner, NEW y \in ToBrokerType PROVE RoutineToB(p, y, o)
    <3>1. CASE p = r /\ o = t /\ y = reply
      BY <1>2, <3>1 DEF RoutineToB
    <3>2. CASE ~(p = r /\ o = t /\ y = reply)
      <4>1. Msg(y, o) # Msg(reply, t) \/ p \notin {r}
        BY <3>2, MsgFacts
      <4> QED BY <1>3, <4>1 DEF Written, RoutineToB
    <3> QED BY <3>1, <3>2
  <2>3. o \in timed => o \in tasks
    BY DEF BrokerInv, OfferLife, Fresh
  <2>4. Routine(o)
    BY <1>3, <1>4, <2>1, <2>2, <2>3, RunnerRoutine
  <2> QED BY <2>4, RoutineStep DEF BrokerInv
<1>8. NotOvercommitted'
  BY <1>3, <1>4, SlotsKept
<1> QED BY <1>2, <1>5, <1>6, <1>7, <1>8 DEF RunnerInv

\* A free slot is given to the offer.
LEMMA AcceptanceFits ==
  ASSUME BrokerInv, NEW r \in Runner, NEW o \in openOffers[r], offeredBy' = offeredBy,
         offeredBy[o] = r,
         openOffers' = [openOffers EXCEPT ![r] = openOffers[r] \ {o}],
         \A t \in Offer : t # o /\ taskStatus[t] = "none" => taskStatus'[t] = "none"
  PROVE  NotOvercommitted'
<1> SUFFICES ASSUME NEW p \in Runner
             PROVE  Cardinality(openOffers'[p]) + Cardinality(RunningTasks(p)') <= MaxConcurrency
  BY DEF NotOvercommitted
<1> DEFINE grown == IF p = r THEN RunningTasks(p) \cup {o} ELSE RunningTasks(p)
<1>1. openOffers \in [Runner -> SUBSET Offer] /\ o \in Offer /\ openOffers[p] \in SUBSET Offer
  BY DEF BrokerInv, TypeOK, RunnerTypeOK
<1>2. openOffers'[p] = IF p = r THEN openOffers[p] \ {o} ELSE openOffers[p]
  BY <1>1
<1>3. RunningTasks(p) \in SUBSET Offer
  BY DEF RunningTasks
<1>4. grown \in SUBSET Offer /\ RunningTasks(p)' \in SUBSET grown
  BY <1>1, <1>3 DEF RunningTasks
<1>5. /\ IsFiniteSet(openOffers[p]) /\ Cardinality(openOffers[p]) \in Nat
      /\ IsFiniteSet(RunningTasks(p)) /\ Cardinality(RunningTasks(p)) \in Nat
      /\ IsFiniteSet(grown) /\ Cardinality(grown) \in Nat
  BY <1>1, <1>3, <1>4, Slots
<1>6. Cardinality(RunningTasks(p)') \in Nat
  BY <1>4, Slots
<1>7. Cardinality(openOffers[p]) + Cardinality(RunningTasks(p)) <= MaxConcurrency
  BY DEF BrokerInv, NotOvercommitted
<1>8. Cardinality(RunningTasks(p)') <= Cardinality(grown)
  BY <1>4, <1>5, FS_Subset
<1>9. CASE p = r
  <2>1. Cardinality(openOffers[p] \ {o}) = Cardinality(openOffers[p]) - 1
    BY <1>5, <1>9, FS_RemoveElement
  <2>2. Cardinality(grown) <= Cardinality(RunningTasks(p)) + 1
    BY <1>5, <1>9, FS_AddElement, SMTT(20)
  <2>3. Cardinality(openOffers'[p]) = Cardinality(openOffers[p]) - 1
    BY <1>2, <1>9, <2>1
  <2> HIDE DEF grown
  <2> QED BY <1>5, <1>6, <1>7, <1>8, <2>2, <2>3, Slots
<1>10. CASE p # r
  BY <1>2, <1>5, <1>6, <1>7, <1>8, <1>10, Slots
<1> QED BY <1>9, <1>10

LEMMA NotFollowed == \A s, x, y : ~Has(s, x) => Followed(s, x, y)
BY DEF Has, Followed

\* The life of an offer that is accepted.
LEMMA AcceptedLife ==
  ASSUME TypeOK, UNCHANGED brokerVars, NEW r \in Runner, NEW t \in Offer, OfferLife(t),
         offeredBy[t] = r, accept[t] # "none", t \in openOffers[r],
         offeredBy' = offeredBy, nextOffer' = nextOffer,
         openOffers' = [openOffers EXCEPT ![r] = openOffers[r] \ {t}],
         taskStatus' = [taskStatus EXCEPT ![t] = "waitingForSettings"],
         Taken(toRunner', toRunner, r, Msg("taskofferaccept", t)),
         Written(toBroker', toBroker, {r}, Msg("taskaccepted", t))
  PROVE  OfferLife(t)'
<1> USE DEF ToR, ToB
<1>1. /\ accept' = accept /\ matched' = matched /\ tasks' = tasks /\ timed' = timed
      /\ pendingTaskOffers' = pendingTaskOffers
  BY DEF brokerVars
<1>2. /\ taskStatus'[t] = "waitingForSettings" /\ t \notin openOffers'[r]
      /\ \A p \in Runner : t \in openOffers'[p] => t \in openOffers[p]
  BY DEF TypeOK, RunnerTypeOK
<1>3. \A p \in Runner : t \notin openOffers'[p]
  BY <1>2 DEF OfferLife, Addressed
<1>4. \A p \in Runner : \A type : Kept(toRunner'[p], toRunner[p], Msg(type, t))
  BY DEF Taken
<1>5. \A p \in Runner : \A type :
        /\ type # "taskaccepted" => Kept(toBroker'[p], toBroker[p], Msg(type, t))
        /\ ToB(p, type, t)' => ToB(p, type, t) \/ (p = r /\ type = "taskaccepted")
  <2>1. \A type : type # "taskaccepted" => Msg(type, t) # Msg("taskaccepted", t)
    BY MsgFacts
  <2>2. \A p \in Runner : \A type : type # "taskaccepted" =>
          Kept(toBroker'[p], toBroker[p], Msg(type, t))
    BY <2>1 DEF Written
  <2>3. \A p \in Runner : ToB(p, "taskaccepted", t)' => ToB(p, "taskaccepted", t) \/ p = r
    BY DEF Written
  <2> QED BY <2>2, <2>3 DEF Kept
<1>6. \A p \in Runner :
        /\ ~ToB(p, "taskdone", t) /\ ~ToB(p, "taskerror", t) /\ ~ToR(p, "tasksettings", t)
  <2>1. "taskdone" \in ToBrokerType /\ "taskerror" \in ToBrokerType /\ "tasksettings" \in TaskMsg
    BY DEF ToBrokerType, TaskMsg
  <2>2. \A p \in Runner : ToB(p, "taskdone", t) \/ ToB(p, "taskerror", t) \/ ToR(p, "tasksettings", t) => p = r
    BY <2>1 DEF OfferLife, Addressed
  <2>3. ~ToB(r, "taskdone", t) /\ ~ToB(r, "taskerror", t) /\ ~ToR(r, "tasksettings", t)
    BY DEF OfferLife, Spent, Claimed
  <2> QED BY <2>2, <2>3
<1>7. Addressed(t)'
  BY <1>3, <1>4, <1>5 DEF OfferLife, Addressed, Kept
<1>8. Fresh(t)'
  <2>1. \A p \in Runner :
          /\ ToB(p, "taskoffer", t)' => accept'[t] = "none" /\ t \notin pendingTaskOffers'
          /\ Once(toBroker'[p], Msg("taskoffer", t))
    BY <1>1, <1>5 DEF OfferLife, Fresh, Kept
  <2> QED BY <1>1, <1>3, <2>1 DEF OfferLife, Fresh
<1>9. SettingsOnce(t)'
  BY <1>1, <1>2, <1>4 DEF OfferLife, SettingsOnce, Kept, Started
<1>10. Spent(t)'
  <2>1. \A p \in Runner : ~ToB(p, "taskdone", t)' /\ ~ToB(p, "taskerror", t)' /\ ~ToR(p, "tasksettings", t)'
    BY <1>4, <1>5, <1>6 DEF Kept
  <2>2. \A p \in Runner : Followed(toRunner'[p], Msg("tasksettings", t), Msg("taskcancel", t))
    BY <2>1, NotFollowed
  <2> QED BY <1>2, <1>3, <2>1, <2>2 DEF Spent
<1> QED BY <1>7, <1>8, <1>9, <1>10 DEF OfferLife

LEMMA AcceptanceKeeps ==
  ASSUME BrokerInv, UNCHANGED brokerVars, NEW r \in Runner,
         Next4Runner(r, "taskofferaccept"), Consume(r),
         Send(r, "taskaccepted", Head(toRunner[r]).id),
         UNCHANGED <<link, canSendOffers, isShuttingDown>>,
         Head(toRunner[r]).id \in openOffers[r],
         openOffers' = [openOffers EXCEPT ![r] = openOffers[r] \ {Head(toRunner[r]).id}],
         taskStatus' = [taskStatus EXCEPT ![Head(toRunner[r]).id] = "waitingForSettings"]
  PROVE  RunnerInv'
<1> DEFINE t == Head(toRunner[r]).id
<1>1. "taskofferaccept" \in ToRunnerType /\ "taskofferaccept" \in TaskMsg /\ "taskaccepted" \in ToBrokerType
  BY DEF ToRunnerType, TaskMsg, ToBrokerType
<1>2. /\ link[r] = "up" /\ NamesTask'
      /\ toRunner' \in [Runner -> Seq(ToRunnerMsg)]
      /\ \A p \in Runner : p # r => toRunner'[p] = toRunner[p]
      /\ Taken(toRunner', toRunner, r, Msg("taskofferaccept", t))
      /\ t \in Offer /\ offeredBy[t] = r /\ accept[t] # "none"
  BY <1>1, Arrival
<1>3. /\ toBroker' \in [Runner -> Seq(ToBrokerMsg)]
      /\ Written(toBroker', toBroker, {r}, Msg("taskaccepted", t))
      /\ UNCHANGED <<offeredBy, nextOffer>>
  BY <1>1, <1>2, SendFacts DEF BrokerInv
<1>4. /\ openOffers' = [openOffers EXCEPT ![r] = openOffers[r] \ {t}] /\ t \in openOffers[r]
      /\ taskStatus' = [taskStatus EXCEPT ![t] = "waitingForSettings"]
  OBVIOUS
<1> HIDE DEF t
<1>5. /\ openOffers' \in [Runner -> SUBSET Offer]
      /\ \A p \in Runner : openOffers'[p] \subseteq openOffers[p]
      /\ \A p \in Runner : p # r => openOffers'[p] = openOffers[p]
  BY <1>4 DEF BrokerInv, TypeOK, RunnerTypeOK
<1>6. taskStatus' \in [Offer -> TaskStatus] /\ \A o \in Offer : o # t => taskStatus'[o] = taskStatus[o]
  BY <1>2, <1>4 DEF BrokerInv, TypeOK, RunnerTypeOK, TaskStatus
<1>7. RunnerTypeOK'
  BY <1>2, <1>3, <1>5, <1>6 DEF BrokerInv, TypeOK, RunnerTypeOK
<1>8. LinkInv'
  <2>1. \A p \in Runner : link[p] # "up" => p # r
    BY <1>2
  <2>2. \A p \in Runner : \A o \in Offer : link[p] # "up" /\ offeredBy[o] = p => taskStatus'[o] = "none"
    BY <1>2, <1>6 DEF BrokerInv, LinkInv
  <2>3. link' = link /\ offeredBy' = offeredBy /\ knownRunners' = knownRunners
    BY <1>3 DEF brokerVars
  <2>4. \A p \in Runner : link[p] # "up" => openOffers'[p] = {} /\ toRunner'[p] = <<>>
    BY <1>2, <1>5, <2>1 DEF BrokerInv, LinkInv
  <2> QED BY <2>2, <2>3, <2>4 DEF BrokerInv, LinkInv
<1>9. ASSUME NEW o \in Offer PROVE OfferLife(o)'
  <2>1. CASE o = t
    <3>1. TypeOK /\ OfferLife(t)
      BY <1>2 DEF BrokerInv
    <3> QED BY <1>2, <1>3, <1>4, <2>1, <3>1, AcceptedLife
  <2>2. CASE o # t
    <3>1. \A p \in Runner : /\ \A y \in TaskMsg : RoutineToR(p, y, o)
                            /\ ToR(p, "taskcancel", o) => Has(toRunner'[p], Msg("taskcancel", o))
      BY <1>2, <2>2, OthersArrival
    <3>2. \A p \in Runner : \A y \in ToBrokerType : RoutineToB(p, y, o)
      BY <1>3, <2>2, OthersSend
    <3>3. o \in timed => o \in tasks
      BY DEF BrokerInv, OfferLife, Fresh
    <3>4. Routine(o)
      BY <1>3, <1>5, <1>6, <2>2, <3>1, <3>2, <3>3, RunnerRoutine
    <3> QED BY <3>4, RoutineStep DEF BrokerInv
  <2> QED BY <2>1, <2>2
<1>10. NotOvercommitted'
  <2>1. \A o \in Offer : o # t /\ taskStatus[o] = "none" => taskStatus'[o] = "none"
    BY <1>6
  <2>2. offeredBy' = offeredBy
    BY <1>3
  <2> QED BY <1>2, <1>4, <2>1, <2>2, AcceptanceFits
<1> QED BY <1>2, <1>7, <1>8, <1>9, <1>10 DEF RunnerInv

LEMMA OfferAcceptedKeeps ==
  ASSUME BrokerInv, UNCHANGED brokerVars, NEW r \in Runner, OfferAccepted(r) \/ OfferDeferred(r)
  PROVE  RunnerInv'
<1> DEFINE t == Head(toRunner[r]).id
<1>1. CASE OfferDeferred(r)
  BY <1>1, RefusalKeeps DEF OfferDeferred
<1>2. CASE OfferAccepted(r)
  <2>1. /\ Next4Runner(r, "taskofferaccept") /\ Consume(r)
        /\ Send(r, OfferReply(r, t), t)
        /\ openOffers' = IF r \in isShuttingDown THEN openOffers
                         ELSE [openOffers EXCEPT ![r] = openOffers[r] \ {t}]
        /\ taskStatus' = IF OfferReply(r, t) = "taskaccepted"
                         THEN [taskStatus EXCEPT ![t] = "waitingForSettings"] ELSE taskStatus
        /\ UNCHANGED <<link, canSendOffers, isShuttingDown>>
    BY <1>2 DEF OfferAccepted
  <2>2. CASE OfferReply(r, t) = "taskaccepted"
    <3>1. r \notin isShuttingDown /\ t \in openOffers[r]
      BY <2>2 DEF OfferReply
    <3> QED BY <2>1, <2>2, <3>1, AcceptanceKeeps
  <2>3. CASE OfferReply(r, t) = "taskrejected"
    BY <2>1, <2>3, RefusalKeeps
  <2>4. OfferReply(r, t) \in {"taskaccepted", "taskrejected"}
    BY DEF OfferReply
  <2> QED BY <2>2, <2>3, <2>4
<1> QED BY <1>1, <1>2

-----------------------------------------------------------------------------
(* receivedSettings.                                                        *)

\* The life of a task whose code is begun.
LEMMA BegunLife ==
  ASSUME BrokerInv, UNCHANGED brokerVars, NEW r \in Runner, NEW t \in Offer,
         offeredBy[t] = r, ToR(r, "tasksettings", t), taskStatus[t] = "waitingForSettings",
         UNCHANGED <<openOffers, offeredBy, nextOffer, toBroker>>,
         taskStatus'[t] = "running",
         Taken(toRunner', toRunner, r, Msg("tasksettings", t))
  PROVE  OfferLife(t)'
<1> USE DEF ToR, ToB
<1>1. /\ accept' = accept /\ matched' = matched /\ tasks' = tasks /\ timed' = timed
      /\ pendingTaskOffers' = pendingTaskOffers
  BY DEF brokerVars
<1>2. Addressed(t) /\ Fresh(t) /\ SettingsOnce(t) /\ Spent(t)
  BY DEF BrokerInv, OfferLife
<1>3. \A p \in Runner : \A type : Kept(toRunner'[p], toRunner[p], Msg(type, t))
  BY DEF Taken
<1>4. Addressed(t)'
  BY <1>2, <1>3 DEF Addressed, Kept
<1>5. Fresh(t)'
  BY <1>1, <1>2, <1>3 DEF Fresh, Kept
<1>6. SettingsOnce(t)'
  <2>1. accept[t] = "over" /\ Once(toRunner[r], Msg("tasksettings", t))
    BY <1>2 DEF SettingsOnce
  <2>2. ~Has(toRunner'[r], Msg("tasksettings", t))
    BY <2>1 DEF Taken
  <2>3. "tasksettings" \in TaskMsg
    BY DEF TaskMsg
  <2>4. \A p \in Runner : ~Has(toRunner'[p], Msg("tasksettings", t))
    BY <1>2, <1>3, <2>2, <2>3 DEF Addressed, Kept
  <2> QED BY <1>1, <2>1, <2>4, NotThere DEF SettingsOnce
<1>7. Spent(t)'
  <2>1. \A p \in Runner :
          /\ Claimed(p, t)' => Claimed(p, t)
          /\ ~ToB(p, "taskdone", t) /\ ~ToB(p, "taskerror", t)
          /\ Followed(toRunner[p], Msg("tasksettings", t), Msg("taskcancel", t))
               => Followed(toRunner'[p], Msg("tasksettings", t), Msg("taskcancel", t))
    BY <1>1, <1>2, <1>3 DEF Claimed, Spent, Kept
  <2>2. t \in tasks \/ Has(toRunner'[r], Msg("taskcancel", t))
    BY <1>2 DEF Spent, Taken
  <2>3. \A p \in Runner :
          \/ t \in tasks' \/ Followed(toRunner'[p], Msg("tasksettings", t), Msg("taskcancel", t))
    BY <1>1, <1>2, <2>1 DEF Spent
  <2> QED BY <1>1, <1>2, <2>1, <2>2, <2>3 DEF Spent
<1> QED BY <1>4, <1>5, <1>6, <1>7 DEF OfferLife

LEMMA ReceivedSettingsKeeps ==
  ASSUME BrokerInv, UNCHANGED brokerVars, NEW r \in Runner, ReceivedSettings(r)
  PROVE  RunnerInv'
<1> DEFINE t == Head(toRunner[r]).id
<1>1. "tasksettings" \in ToRunnerType /\ "tasksettings" \in TaskMsg
  BY DEF ToRunnerType, TaskMsg
<1>2. /\ Next4Runner(r, "tasksettings") /\ Consume(r)
      /\ taskStatus' = IF taskStatus[t] = "waitingForSettings"
                       THEN [taskStatus EXCEPT ![t] = "running"] ELSE taskStatus
      /\ UNCHANGED <<link, canSendOffers, isShuttingDown, openOffers, offeredBy, nextOffer, toBroker>>
  BY DEF ReceivedSettings
<1>3. /\ link[r] = "up" /\ NamesTask'
      /\ toRunner' \in [Runner -> Seq(ToRunnerMsg)]
      /\ \A p \in Runner : p # r => toRunner'[p] = toRunner[p]
      /\ Taken(toRunner', toRunner, r, Msg("tasksettings", t))
      /\ t \in Offer /\ offeredBy[t] = r /\ ToR(r, "tasksettings", t)
  BY <1>1, <1>2, Arrival
<1> HIDE DEF t
<1>4. /\ taskStatus' \in [Offer -> TaskStatus]
      /\ taskStatus[t] = "waitingForSettings" => taskStatus'[t] = "running"
      /\ \A o \in Offer : o # t \/ taskStatus[t] # "waitingForSettings" => taskStatus'[o] = taskStatus[o]
      /\ \A o \in Offer : taskStatus[o] = "none" => taskStatus'[o] = "none"
  BY <1>2, <1>3 DEF BrokerInv, TypeOK, RunnerTypeOK, TaskStatus
<1>5. RunnerTypeOK'
  BY <1>2, <1>3, <1>4 DEF BrokerInv, TypeOK, RunnerTypeOK
<1>6. LinkInv'
  <2>1. link' = link /\ offeredBy' = offeredBy /\ knownRunners' = knownRunners /\ openOffers' = openOffers
    BY <1>2 DEF brokerVars
  <2>2. \A p \in Runner : link[p] # "up" => toRunner'[p] = toRunner[p]
    BY <1>3
  <2> QED BY <1>4, <2>1, <2>2 DEF BrokerInv, LinkInv
<1>7. ASSUME NEW o \in Offer PROVE OfferLife(o)'
  <2>1. CASE o = t /\ taskStatus[t] = "waitingForSettings"
    BY <1>2, <1>3, <1>4, <2>1, BegunLife
  <2>2. CASE ~(o = t /\ taskStatus[t] = "waitingForSettings")
    <3>1. \A p \in Runner : /\ \A y \in TaskMsg : RoutineToR(p, y, o)
                            /\ ToR(p, "taskcancel", o) => Has(toRunner'[p], Msg("taskcancel", o))
      BY <1>3, OthersArrival
    <3>2. \A p \in Runner : \A y \in ToBrokerType : RoutineToB(p, y, o)
      BY <1>2, NothingSent
    <3>3. o \in timed => o \in tasks
      BY DEF BrokerInv, OfferLife, Fresh
    <3>4. taskStatus'[o] = taskStatus[o]
      BY <1>4, <2>2
    <3>5. Routine(o)
      BY <1>2, <3>1, <3>2, <3>3, <3>4, RunnerRoutine
    <3> QED BY <3>5, RoutineStep DEF BrokerInv
  <2> QED BY <2>1, <2>2
<1>8. NotOvercommitted'
  BY <1>2, <1>4, SlotsKept
<1> QED BY <1>3, <1>5, <1>6, <1>7, <1>8 DEF RunnerInv

-----------------------------------------------------------------------------
(* Steps that end in sendOffers.                                            *)

\* The life of an offer that is made.
LEMMA NewLife ==
  ASSUME TypeOK, UNCHANGED brokerVars, NEW r \in Runner, NEW M, NEW stale, NEW running, NEW new,
         Offering(r, M, stale, running, new), NEW o \in new, OfferLife(o),
         \A x \in M : \A type : x # Msg(type, o),
         taskStatus[o] = "none" => taskStatus'[o] = "none",
         \A p \in Runner : \A type \in TaskMsg : RoutineToR(p, type, o)
  PROVE  OfferLife(o)'
<1> USE DEF ToR, ToB
<1>1. /\ accept' = accept /\ matched' = matched /\ tasks' = tasks /\ timed' = timed
      /\ pendingTaskOffers' = pendingTaskOffers
  BY DEF brokerVars
<1>2. o \in Offer /\ o >= nextOffer /\ o < nextOffer' /\ nextOffer \in Nat /\ nextOffer' \in Nat
  BY Slots DEF Offering, TypeOK, RunnerTypeOK
<1>3. offeredBy[o] \notin Runner /\ offeredBy'[o] = r
  BY <1>2, Slots DEF Offering, OfferLife, Addressed
<1>4. /\ accept[o] = "none" /\ o \notin pendingTaskOffers /\ o \notin tasks /\ o \notin timed
      /\ taskStatus[o] = "none" /\ taskStatus'[o] = "none"
  BY <1>3 DEF OfferLife, Fresh
<1>5. \A p \in Runner :
        /\ o \notin openOffers[p]
        /\ \A type \in TaskMsg : ~ToR(p, type, o)
        /\ \A type \in ToBrokerType : ~ToB(p, type, o)
  BY <1>3 DEF OfferLife, Addressed
<1>6. \A p \in Runner : \A type \in TaskMsg : ~ToR(p, type, o)'
  BY <1>4, <1>5 DEF RoutineToR, Kept
<1>7. \A p \in Runner : p # r => o \notin openOffers'[p]
  BY <1>5 DEF Offering, TypeOK, RunnerTypeOK
<1>8. "taskoffer" \in ToBrokerType
  BY DEF ToBrokerType
<1>9. \A p \in Runner : \A type \in ToBrokerType : ToB(p, type, o)' => p = r /\ type = "taskoffer"
  <2>1. \A p \in Runner : p # r => toBroker'[p] = toBroker[p]
    BY DEF Offering
  <2>2. ASSUME NEW type \in ToBrokerType, ToB(r, type, o)' PROVE type = "taskoffer"
    <3>1. Msg(type, o) \notin M /\ ~Has(toBroker[r], Msg(type, o))
      BY <1>5
    <3>2. \E p \in new : Msg(type, o) = Msg("taskoffer", p)
      BY <2>2, <3>1 DEF Offering
    <3> QED BY <3>2, MsgFacts
  <2> QED BY <1>5, <2>1, <2>2
<1>10. \A p \in Runner : Once(toBroker'[p], Msg("taskoffer", o))
  <2>1. Once(toBroker'[r], Msg("taskoffer", o))
    BY <1>5, <1>8 DEF Offering
  <2>2. \A p \in Runner : p # r => ~Has(toBroker'[p], Msg("taskoffer", o))
    BY <1>8, <1>9
  <2> QED BY <2>1, <2>2, NotThere
<1>11. Addressed(o)'
  BY <1>2, <1>3, <1>6, <1>7, <1>9 DEF Addressed
<1>12. Fresh(o)'
  BY <1>1, <1>4, <1>6, <1>9, <1>10 DEF Fresh
<1>13. \A p \in Runner : ~ToR(p, "tasksettings", o)'
  BY <1>6 DEF TaskMsg
<1>14. SettingsOnce(o)'
  BY <1>4, <1>13, NotThere DEF SettingsOnce, Started
<1>15. Spent(o)'
  <2>1. \A p \in Runner : ~Claimed(p, o)'
    BY <1>1, <1>4, <1>9, <1>13 DEF Claimed, ToBrokerType
  <2> QED BY <1>4, <2>1 DEF Spent
<1> QED BY <1>11, <1>12, <1>14, <1>15 DEF OfferLife

\* sendOffers fills the slots and no more.
LEMMA OfferingFits ==
  ASSUME BrokerInv, NEW r \in Runner, NEW M, NEW stale, NEW running, NEW new,
         Offering(r, M, stale, running, new),
         \A t \in Offer : taskStatus[t] = "none" => taskStatus'[t] = "none",
         running = {t \in Offer : offeredBy[t] = r /\ taskStatus'[t] # "none"}
  PROVE  NotOvercommitted'
<1> SUFFICES ASSUME NEW p \in Runner
             PROVE  Cardinality(openOffers'[p]) + Cardinality(RunningTasks(p)') <= MaxConcurrency
  BY DEF NotOvercommitted
<1> DEFINE open == openOffers[r] \ stale
<1>1. /\ openOffers \in [Runner -> SUBSET Offer] /\ new \in SUBSET Offer
      /\ openOffers' = [openOffers EXCEPT ![r] = open \cup new]
      /\ \A o \in Offer : offeredBy'[o] = IF o \in new THEN r ELSE offeredBy[o]
  BY DEF BrokerInv, TypeOK, RunnerTypeOK, Offering
<1>2. \A o \in new : taskStatus'[o] = "none"
  <2>1. \A o \in new : o \in Offer /\ ~(o < nextOffer)
    BY Slots DEF Offering, BrokerInv, TypeOK, RunnerTypeOK
  <2>2. \A o \in new : offeredBy[o] \notin Runner
    BY <2>1 DEF BrokerInv, OfferLife, Addressed
  <2> QED BY <2>1, <2>2 DEF BrokerInv, OfferLife, Fresh
<1>3. /\ RunningTasks(p) \in SUBSET Offer /\ RunningTasks(p)' \in SUBSET RunningTasks(p)
      /\ p = r => RunningTasks(p)' = running
  BY <1>1, <1>2 DEF RunningTasks
<1>4. /\ IsFiniteSet(RunningTasks(p)) /\ Cardinality(RunningTasks(p)) \in Nat
      /\ Cardinality(RunningTasks(p)') \in Nat
      /\ IsFiniteSet(openOffers[p]) /\ Cardinality(openOffers[p]) \in Nat
      /\ IsFiniteSet(open) /\ Cardinality(open) \in Nat
      /\ IsFiniteSet(new) /\ Cardinality(new) \in Nat
      /\ Cardinality(open \cap new) \in Nat
  BY <1>1, <1>3, Slots
<1>5. Cardinality(RunningTasks(p)') <= Cardinality(RunningTasks(p))
  BY <1>3, <1>4, FS_Subset
<1>6. Cardinality(openOffers[p]) + Cardinality(RunningTasks(p)) <= MaxConcurrency
  BY DEF BrokerInv, NotOvercommitted
<1>7. CASE p # r
  <2>1. openOffers'[p] = openOffers[p]
    BY <1>1, <1>7
  <2> QED BY <1>4, <1>5, <1>6, <2>1, Slots
<1>8. CASE p = r
  <2>1. openOffers'[p] = open \cup new
    BY <1>1, <1>8
  <2>2. Cardinality(open) <= Cardinality(openOffers[p])
    BY <1>4, <1>8, FS_Subset
  <2>3. Cardinality(open \cup new) = Cardinality(open) + Cardinality(new) - Cardinality(open \cap new)
    BY <1>4, FS_Union
  <2>4. RunningTasks(p)' = running
    BY <1>3, <1>8
  <2>5. Cardinality(open) + Cardinality(running) <= MaxConcurrency
          => Cardinality(open) + Cardinality(running) + Cardinality(new) <= MaxConcurrency
    BY DEF Offering
  <2> HIDE DEF open
  <2> QED BY <1>4, <1>5, <1>6, <2>1, <2>2, <2>3, <2>4, <2>5, Slots
<1> QED BY <1>7, <1>8

\* The reports of tasks of runner r that end in this step.
Reports(r, M) ==
  \A x \in M : \E t \in Offer, type \in {"taskdone", "taskerror"} :
    /\ x = Msg(type, t) /\ offeredBy[t] = r
    /\ taskStatus[t] # "none" /\ taskStatus'[t] = "none"

LEMMA OfferingKeeps ==
  ASSUME BrokerInv, UNCHANGED brokerVars, NEW r \in Runner, link[r] = "up",
         UNCHANGED <<link, canSendOffers, isShuttingDown>>,
         NEW M \in SUBSET ToBrokerMsg, NEW msgs \in Seq(M), Reports(r, M),
         NEW stale, NEW running \in SUBSET Offer,
         SendThenOffer(r, msgs, stale, running),
         toRunner' \in [Runner -> Seq(ToRunnerMsg)], NamesTask',
         \A p \in Runner : p # r => toRunner'[p] = toRunner[p],
         \A o \in Offer : \A p \in Runner :
           /\ \A type \in TaskMsg : RoutineToR(p, type, o)
           /\ taskStatus'[o] = "running" /\ ToR(p, "taskcancel", o)
                => Has(toRunner'[p], Msg("taskcancel", o)),
         taskStatus' \in [Offer -> TaskStatus],
         \A o \in Offer : taskStatus'[o] \in {taskStatus[o], "none"},
         running = {t \in Offer : offeredBy[t] = r /\ taskStatus'[t] # "none"}
  PROVE  RunnerInv'
<1>1. TypeOK /\ RunnerTypeOK
  BY DEF BrokerInv, TypeOK
<1>2. PICK new : Offering(r, M, stale, running, new)
  BY <1>1, OfferingFacts
<1>3. /\ openOffers' = [openOffers EXCEPT ![r] = (openOffers[r] \ stale) \cup new]
      /\ offeredBy' = [o \in Offer |-> IF o \in new THEN r ELSE offeredBy[o]]
      /\ new \in SUBSET Offer /\ nextOffer' \in 1 .. MaxOffers + 1
      /\ toBroker' \in [Runner -> Seq(ToBrokerMsg)]
      /\ \A o \in Offer : o \in new <=> o >= nextOffer /\ o < nextOffer'
  BY <1>2 DEF Offering
<1>4. openOffers' \in [Runner -> SUBSET Offer] /\ \A p \in Runner : p # r => openOffers'[p] = openOffers[p]
  BY <1>1, <1>3 DEF RunnerTypeOK
<1>5. RunnerTypeOK'
  BY <1>1, <1>3, <1>4 DEF RunnerTypeOK
<1>6. LinkInv'
  <2>1. link' = link /\ knownRunners' = knownRunners
    BY DEF brokerVars
  <2>2. ASSUME NEW p \in Runner, link[p] # "up"
        PROVE  /\ openOffers'[p] = {} /\ toRunner'[p] = <<>>
               /\ \A t \in Offer : offeredBy'[t] = p => taskStatus'[t] = "none"
    <3>1. p # r /\ openOffers[p] = {} /\ toRunner[p] = <<>>
      BY <2>2 DEF BrokerInv, LinkInv
    <3>2. ASSUME NEW t \in Offer, offeredBy'[t] = p PROVE taskStatus'[t] = "none"
      <4>1. offeredBy[t] = p
        BY <1>3, <3>1, <3>2
      <4>2. taskStatus[t] = "none"
        BY <2>2, <4>1 DEF BrokerInv, LinkInv
      <4> QED BY <4>2
    <3> QED BY <1>4, <3>1, <3>2
  <2> QED BY <2>1, <2>2 DEF BrokerInv, LinkInv
<1>7. ASSUME NEW o \in Offer PROVE OfferLife(o)'
  <2>1. OfferLife(o)
    BY DEF BrokerInv
  <2>2. CASE o \in new
    <3>1. ~(o < nextOffer)
      BY <1>1, <1>3, <2>2, Slots DEF RunnerTypeOK
    <3>2. taskStatus[o] = "none"
      BY <2>1, <3>1 DEF OfferLife, Addressed, Fresh
    <3>3. \A x \in M : \A type : x # Msg(type, o)
      BY <3>2, MsgFacts DEF Reports
    <3> QED BY <1>1, <1>2, <2>1, <2>2, <3>3, NewLife
  <2>3. CASE o \notin new
    <3>1. offeredBy'[o] = offeredBy[o]
      BY <1>3, <2>3
    <3>2. o < nextOffer' <=> o < nextOffer
      <4>1. o \in Nat /\ nextOffer \in Nat /\ nextOffer' \in Nat /\ nextOffer <= nextOffer'
        BY <1>1, <1>2, <1>3, Slots DEF RunnerTypeOK, Offering
      <4> QED BY <1>3, <2>3, <4>1
    <3>3. \A p \in Runner : o \in openOffers'[p] => o \in openOffers[p]
      BY <1>1, <1>3, <2>3 DEF RunnerTypeOK
    <3>4. ASSUME NEW p \in Runner, NEW y \in ToBrokerType PROVE RoutineToB(p, y, o)
      <4>1. CASE p # r
        <5>1. toBroker'[p] = toBroker[p]
          BY <1>2, <4>1 DEF Offering
        <5> QED BY <5>1, Untouched DEF RoutineToB
      <4>2. CASE p = r /\ Msg(y, o) \notin M
        BY <1>2, <2>3, <4>2 DEF Offering, RoutineToB
      <4>3. CASE p = r /\ Msg(y, o) \in M
        <5>1. /\ offeredBy[o] = r /\ y \in {"taskdone", "taskerror"}
              /\ taskStatus[o] # "none" /\ taskStatus'[o] = "none"
          BY <4>3, MsgFacts DEF Reports
        <5>2. accept[o] # "none"
          BY <2>1, <5>1 DEF OfferLife, Fresh
        <5> QED BY <4>3, <5>1, <5>2 DEF RoutineToB
      <4> QED BY <4>1, <4>2, <4>3
    <3>5. o \in timed => o \in tasks
      BY <2>1 DEF OfferLife, Fresh
    <3>6. Routine(o)
      BY <3>1, <3>2, <3>3, <3>4, <3>5, RunnerRoutine
    <3> QED BY <1>1, <2>1, <3>6, RoutineStep
  <2> QED BY <2>2, <2>3
<1>8. NotOvercommitted'
  <2>1. \A t \in Offer : taskStatus[t] = "none" => taskStatus'[t] = "none"
    OBVIOUS
  <2> QED BY <1>2, <2>1, OfferingFits
<1> QED BY <1>5, <1>6, <1>7, <1>8 DEF RunnerInv

LEMMA SendOffersKeeps ==
  ASSUME BrokerInv, UNCHANGED brokerVars, NEW r \in Runner, NEW stale, SendOffers(r, stale)
  PROVE  RunnerInv'
<1>1. /\ link[r] = "up" /\ SendThenOffer(r, <<>>, stale, RunningTasks(r))
      /\ UNCHANGED <<link, canSendOffers, isShuttingDown>>
      /\ UNCHANGED taskStatus /\ UNCHANGED toRunner
  BY DEF SendOffers
<1>2. RunningTasks(r) = {t \in Offer : offeredBy[t] = r /\ taskStatus'[t] # "none"}
      /\ RunningTasks(r) \in SUBSET Offer
  BY <1>1 DEF RunningTasks
<1>3. /\ {} \in SUBSET ToBrokerMsg /\ <<>> \in Seq({}) /\ Reports(r, {})
      /\ taskStatus' \in [Offer -> TaskStatus] /\ toRunner' \in [Runner -> Seq(ToRunnerMsg)]
      /\ \A o \in Offer : taskStatus'[o] \in {taskStatus[o], "none"}
  BY <1>1 DEF Reports, BrokerInv, TypeOK, RunnerTypeOK
<1>4. NamesTask'
  BY <1>1 DEF BrokerInv, NamesTask, ToR
<1>5. \A o \in Offer : \A p \in Runner :
        /\ \A type \in TaskMsg : RoutineToR(p, type, o)
        /\ taskStatus'[o] = "running" /\ ToR(p, "taskcancel", o)
             => Has(toRunner'[p], Msg("taskcancel", o))
  BY <1>1, NothingReceived
<1>6. \A p \in Runner : p # r => toRunner'[p] = toRunner[p]
  BY <1>1
<1> QED BY <1>1, <1>2, <1>3, <1>4, <1>5, <1>6, OfferingKeeps

\* finishTask, whatever it reports.
LEMMA FinishTaskKeeps ==
  ASSUME BrokerInv, UNCHANGED brokerVars, NEW t \in Offer, taskStatus[t] # "none",
         UNCHANGED <<link, canSendOffers, isShuttingDown>>,
         NEW type \in {"taskdone", "taskerror"},
         NEW msgs \in {<<>>, <<Msg(type, t)>>}, NEW stale, FinishTask(t, msgs, stale),
         toRunner' \in [Runner -> Seq(ToRunnerMsg)], NamesTask',
         \A p \in Runner : p # offeredBy[t] => toRunner'[p] = toRunner[p],
         \A o \in Offer : \A p \in Runner :
           /\ \A y \in TaskMsg : RoutineToR(p, y, o)
           /\ o # t /\ ToR(p, "taskcancel", o) => Has(toRunner'[p], Msg("taskcancel", o))
  PROVE  RunnerInv'
<1> DEFINE r == offeredBy[t]
           running == RunningTasks(r) \ {t}
           M == {Msg(type, t)}
<1>1. r \in Runner
  BY DEF BrokerInv, OfferLife, Fresh
<1>2. link[r] = "up"
  BY <1>1 DEF BrokerInv, LinkInv
<1>3. /\ taskStatus' = [taskStatus EXCEPT ![t] = "none"]
      /\ SendThenOffer(r, msgs, stale, running)
  BY DEF FinishTask
<1>4. taskStatus \in [Offer -> TaskStatus]
  BY DEF BrokerInv, TypeOK, RunnerTypeOK
<1>5. /\ taskStatus' \in [Offer -> TaskStatus] /\ taskStatus'[t] = "none"
      /\ \A o \in Offer : taskStatus'[o] \in {taskStatus[o], "none"}
      /\ \A o \in Offer : o # t => taskStatus'[o] = taskStatus[o]
  BY <1>3, <1>4 DEF TaskStatus
<1>6. running = {o \in Offer : offeredBy[o] = r /\ taskStatus'[o] # "none"} /\ running \in SUBSET Offer
  BY <1>5 DEF RunningTasks
<1>7. M \in SUBSET ToBrokerMsg
  BY MsgFacts DEF ToBrokerType
<1>8. msgs \in Seq(M)
  <2>1. <<>> \in Seq(M) /\ <<Msg(type, t)>> \in Seq(M)
    OBVIOUS
  <2> QED BY <2>1
<1>9. Reports(r, M)
  BY <1>5 DEF Reports
<1>10. \A o \in Offer : \A p \in Runner :
         /\ \A y \in TaskMsg : RoutineToR(p, y, o)
         /\ taskStatus'[o] = "running" /\ ToR(p, "taskcancel", o)
              => Has(toRunner'[p], Msg("taskcancel", o))
  BY <1>5
<1>11. \A p \in Runner : p # r => toRunner'[p] = toRunner[p]
  OBVIOUS
<1> HIDE DEF r, running, M
<1> QED BY <1>1, <1>2, <1>3, <1>5, <1>6, <1>7, <1>8, <1>9, <1>10, <1>11, OfferingKeeps

\* A task is aborted: nothing but its status changes.
LEMMA AbortKeeps ==
  ASSUME BrokerInv, UNCHANGED brokerVars, NEW t \in Offer, NEW status \in Started,
         taskStatus' = IF taskStatus[t] = "running"
                       THEN [taskStatus EXCEPT ![t] = status] ELSE taskStatus,
         status # "running",
         UNCHANGED <<link, canSendOffers, isShuttingDown, openOffers, offeredBy, nextOffer, toBroker>>,
         toRunner' \in [Runner -> Seq(ToRunnerMsg)], NamesTask',
         \A p \in Runner : link[p] # "up" => toRunner'[p] = toRunner[p],
         \A o \in Offer : \A p \in Runner :
           /\ \A y \in TaskMsg : RoutineToR(p, y, o)
           /\ o # t /\ ToR(p, "taskcancel", o) => Has(toRunner'[p], Msg("taskcancel", o))
  PROVE  RunnerInv'
<1>1. taskStatus \in [Offer -> TaskStatus] /\ status \in TaskStatus /\ status # "none"
  BY DEF BrokerInv, TypeOK, RunnerTypeOK, TaskStatus, Started
<1>2. /\ taskStatus' \in [Offer -> TaskStatus]
      /\ taskStatus'[t] # "running"
      /\ \A o \in Offer : \/ taskStatus'[o] \in {taskStatus[o], "none"}
                          \/ taskStatus[o] = "running" /\ taskStatus'[o] \in Started
      /\ \A o \in Offer : taskStatus[o] = "none" => taskStatus'[o] = "none"
  BY <1>1
<1>3. RunnerTypeOK'
  BY <1>2 DEF BrokerInv, TypeOK, RunnerTypeOK
<1>4. LinkInv'
  <2>1. link' = link /\ offeredBy' = offeredBy /\ knownRunners' = knownRunners /\ openOffers' = openOffers
    BY DEF brokerVars
  <2> QED BY <1>2, <2>1 DEF BrokerInv, LinkInv
<1>5. ASSUME NEW o \in Offer PROVE OfferLife(o)'
  <2>1. \A p \in Runner : \A y \in ToBrokerType : RoutineToB(p, y, o)
    BY NothingSent
  <2>2. o \in timed => o \in tasks
    BY DEF BrokerInv, OfferLife, Fresh
  <2>3. \A p \in Runner : taskStatus'[o] = "running" /\ ToR(p, "taskcancel", o)
                            => Has(toRunner'[p], Msg("taskcancel", o))
    BY <1>2
  <2>4. Routine(o)
    BY <1>2, <2>1, <2>2, <2>3, RunnerRoutine
  <2> QED BY <2>4, RoutineStep DEF BrokerInv
<1>6. NotOvercommitted'
  BY <1>2, SlotsKept
<1> QED BY <1>3, <1>4, <1>5, <1>6 DEF RunnerInv

LEMMA TaskCancelledKeeps ==
  ASSUME BrokerInv, UNCHANGED brokerVars, NEW r \in Runner, NEW stale, TaskCancelled(r, stale)
  PROVE  RunnerInv'
<1> DEFINE t == Head(toRunner[r]).id
<1>1. "taskcancel" \in ToRunnerType /\ "taskcancel" \in TaskMsg
  BY DEF ToRunnerType, TaskMsg
<1>2. /\ Next4Runner(r, "taskcancel") /\ Consume(r)
      /\ UNCHANGED <<link, canSendOffers, isShuttingDown>>
      /\ \/ taskStatus[t] = "waitingForSettings" /\ FinishTask(t, <<>>, stale)
         \/ /\ taskStatus[t] # "waitingForSettings"
            /\ taskStatus' = IF taskStatus[t] = "running"
                             THEN [taskStatus EXCEPT ![t] = "aborting:cancelled"]
                             ELSE taskStatus
            /\ UNCHANGED <<openOffers, offeredBy, nextOffer, toBroker>>
  BY DEF TaskCancelled
<1>3. /\ link[r] = "up" /\ NamesTask'
      /\ toRunner' \in [Runner -> Seq(ToRunnerMsg)]
      /\ \A p \in Runner : p # r => toRunner'[p] = toRunner[p]
      /\ Taken(toRunner', toRunner, r, Msg("taskcancel", t))
      /\ t \in Offer /\ offeredBy[t] = r
  BY <1>1, <1>2, Arrival
<1> HIDE DEF t
<1>4. \A o \in Offer : \A p \in Runner :
        /\ \A y \in TaskMsg : RoutineToR(p, y, o)
        /\ o # t /\ ToR(p, "taskcancel", o) => Has(toRunner'[p], Msg("taskcancel", o))
  <2>1. \A o \in Offer : \A p \in Runner : \A y \in TaskMsg : RoutineToR(p, y, o)
    BY <1>3 DEF Taken, RoutineToR
  <2>2. ASSUME NEW o \in Offer, o # t
        PROVE  \A p \in Runner : ToR(p, "taskcancel", o) => Has(toRunner'[p], Msg("taskcancel", o))
    BY <1>3, <2>2, OthersArrival
  <2> QED BY <2>1, <2>2
<1>5. CASE taskStatus[t] = "waitingForSettings" /\ FinishTask(t, <<>>, stale)
  <2>1. /\ taskStatus[t] # "none" /\ "taskerror" \in {"taskdone", "taskerror"}
        /\ <<>> \in {<<>>, <<Msg("taskerror", t)>>}
        /\ \A p \in Runner : p # offeredBy[t] => toRunner'[p] = toRunner[p]
    BY <1>3, <1>5
  <2> QED BY <1>2, <1>3, <1>4, <1>5, <2>1, FinishTaskKeeps
<1>6. CASE /\ taskStatus[t] # "waitingForSettings"
           /\ taskStatus' = IF taskStatus[t] = "running"
                            THEN [taskStatus EXCEPT ![t] = "aborting:cancelled"]
                            ELSE taskStatus
           /\ UNCHANGED <<openOffers, offeredBy, nextOffer, toBroker>>
  <2>1. "aborting:cancelled" \in Started /\ \A p \in Runner : link[p] # "up" => toRunner'[p] = toRunner[p]
    BY <1>3 DEF Started
  <2> QED BY <1>2, <1>3, <1>4, <1>6, <2>1, AbortKeeps
<1> QED BY <1>2, <1>5, <1>6 DEF t

\* Steps of a task that leave what is on its way to its runner.
LEMMA QuietChannel ==
  ASSUME BrokerInv, UNCHANGED toRunner
  PROVE  /\ toRunner' \in [Runner -> Seq(ToRunnerMsg)] /\ NamesTask'
         /\ \A o \in Offer : \A p \in Runner :
              /\ \A y \in TaskMsg : RoutineToR(p, y, o)
              /\ ToR(p, "taskcancel", o) => Has(toRunner'[p], Msg("taskcancel", o))
<1>1. toRunner' \in [Runner -> Seq(ToRunnerMsg)]
  BY DEF BrokerInv, TypeOK, RunnerTypeOK
<1>2. NamesTask'
  BY DEF BrokerInv, NamesTask, ToR
<1> QED BY <1>1, <1>2, NothingReceived

LEMMA TaskTimedOutKeeps ==
  ASSUME BrokerInv, UNCHANGED brokerVars, NEW t \in Offer, NEW stale, TaskTimedOut(t, stale)
  PROVE  RunnerInv'
<1>1. /\ UNCHANGED <<link, canSendOffers, isShuttingDown>> /\ UNCHANGED toRunner
      /\ \/ taskStatus[t] = "waitingForSettings" /\ FinishTask(t, <<Msg("taskerror", t)>>, stale)
         \/ /\ taskStatus[t] = "running"
            /\ taskStatus' = [taskStatus EXCEPT ![t] = "aborting:timeout"]
            /\ UNCHANGED <<openOffers, offeredBy, nextOffer, toBroker>>
  BY DEF TaskTimedOut
<1>2. /\ toRunner' \in [Runner -> Seq(ToRunnerMsg)] /\ NamesTask'
      /\ \A o \in Offer : \A p \in Runner :
           /\ \A y \in TaskMsg : RoutineToR(p, y, o)
           /\ o # t /\ ToR(p, "taskcancel", o) => Has(toRunner'[p], Msg("taskcancel", o))
  BY <1>1, QuietChannel
<1>3. CASE taskStatus[t] = "waitingForSettings" /\ FinishTask(t, <<Msg("taskerror", t)>>, stale)
  <2>1. /\ taskStatus[t] # "none" /\ "taskerror" \in {"taskdone", "taskerror"}
        /\ <<Msg("taskerror", t)>> \in {<<>>, <<Msg("taskerror", t)>>}
    BY <1>3
  <2> QED BY <1>1, <1>2, <1>3, <2>1, FinishTaskKeeps
<1>4. CASE /\ taskStatus[t] = "running"
           /\ taskStatus' = [taskStatus EXCEPT ![t] = "aborting:timeout"]
           /\ UNCHANGED <<openOffers, offeredBy, nextOffer, toBroker>>
  <2>1. "aborting:timeout" \in Started
    BY DEF Started
  <2> QED BY <1>1, <1>2, <1>4, <2>1, AbortKeeps
<1> QED BY <1>1, <1>3, <1>4

LEMMA ExecutionEndsKeeps ==
  ASSUME BrokerInv, UNCHANGED brokerVars, NEW t \in Offer, NEW stale,
         NEW result \in {"taskdone", "taskerror"}, ExecutionEnds(t, result, stale)
  PROVE  RunnerInv'
<1>1. /\ UNCHANGED <<link, canSendOffers, isShuttingDown>> /\ UNCHANGED toRunner
      /\ taskStatus[t] \in {"running", "aborting:cancelled", "aborting:timeout"}
  BY DEF ExecutionEnds
<1>2. PICK msgs \in {<<>>, <<Msg(result, t)>>} : FinishTask(t, msgs, stale)
  BY DEF ExecutionEnds
<1>3. /\ toRunner' \in [Runner -> Seq(ToRunnerMsg)] /\ NamesTask'
      /\ \A o \in Offer : \A p \in Runner :
           /\ \A y \in TaskMsg : RoutineToR(p, y, o)
           /\ o # t /\ ToR(p, "taskcancel", o) => Has(toRunner'[p], Msg("taskcancel", o))
  BY <1>1, QuietChannel
<1>4. taskStatus[t] # "none" /\ \A p \in Runner : p # offeredBy[t] => toRunner'[p] = toRunner[p]
  BY <1>1
<1> QED BY <1>1, <1>2, <1>3, <1>4, FinishTaskKeeps

LEMMA RunnerSideKeeps ==
  ASSUME BrokerInv, RunnerSide
  PROVE  BrokerInv'
<1>1. UNCHANGED brokerVars
  BY DEF RunnerSide
<1>2. ASSUME NEW r \in Runner, RunnerReceives(r) PROVE RunnerInv'
  <2>1. CASE RunnerRegistered(r) \/ Drain(r)
    BY <1>1, <2>1, SimpleReceiveKeeps
  <2>2. CASE OfferAccepted(r) \/ OfferDeferred(r)
    BY <1>1, <2>2, OfferAcceptedKeeps
  <2>3. CASE ReceivedSettings(r)
    BY <1>1, <2>3, ReceivedSettingsKeeps
  <2>4. CASE \E stale \in SUBSET openOffers[r] : TaskCancelled(r, stale)
    BY <1>1, <2>4, TaskCancelledKeeps
  <2> QED BY <1>2, <2>1, <2>2, <2>3, <2>4 DEF RunnerReceives
<1>3. ASSUME NEW r \in Runner, RunnerStep(r) PROVE RunnerInv'
  <2>1. CASE \E stale \in SUBSET openOffers[r] : SendOffers(r, stale)
    BY <1>1, <2>1, SendOffersKeeps
  <2>2. CASE StopRunner(r)
    BY <1>1, <2>2, StopRunnerKeeps
  <2>3. CASE CloseConnection(r) \/ RunnerDies(r)
    BY <1>1, <2>3, RunnerEndsKeeps
  <2> QED BY <1>3, <2>1, <2>2, <2>3 DEF RunnerStep
<1>4. ASSUME NEW t \in Offer, TaskTimer(t) PROVE RunnerInv'
  BY <1>1, <1>4, TaskTimedOutKeeps DEF TaskTimer
<1>5. ASSUME NEW t \in Offer, TaskEnds(t) PROVE RunnerInv'
  BY <1>1, <1>5, ExecutionEndsKeeps DEF TaskEnds
<1>6. RunnerInv'
  BY <1>2, <1>3, <1>4, <1>5 DEF RunnerSide
<1>7. TypeOK' /\ AttemptInv' /\ RequestInv'
  <2>1. /\ knownRunners' = knownRunners /\ pendingTaskOffers' = pendingTaskOffers
        /\ pendingTaskRequests' = pendingTaskRequests /\ acceptInProgress' = acceptInProgress
        /\ matched' = matched /\ accept' = accept /\ tasks' = tasks /\ timed' = timed
        /\ isDraining' = isDraining /\ request' = request
    BY <1>1 DEF brokerVars
  <2>2. TypeOK'
    BY <1>6, <2>1 DEF RunnerInv, TypeOK, BrokerInv
  <2>3. AttemptInv'
    BY <2>1 DEF AttemptInv, OneAttempt, BrokerInv
  <2>4. RequestInv'
    BY <2>1 DEF RequestInv, RequesterNotAbandoned, BrokerInv
  <2> QED BY <2>2, <2>3, <2>4
<1> QED BY <1>6, <1>7 DEF RunnerInv, BrokerInv

-----------------------------------------------------------------------------
(* Steps of broker and requester.                                           *)

BrokerTypeOK ==
  /\ knownRunners \subseteq Runner
  /\ pendingTaskOffers \subseteq Offer
  /\ pendingTaskRequests \subseteq Request
  /\ acceptInProgress \subseteq Request
  /\ matched \in [Offer -> Request \cup {NoRequest}]
  /\ accept \in [Offer -> {"none", "asking", "timedout", "over"}]
  /\ tasks \subseteq Offer
  /\ timed \subseteq Offer
  /\ isDraining \in BOOLEAN
  /\ request \in [Request -> RequestState]

LEMMA BrokerTypes == TypeOK <=> RunnerTypeOK /\ BrokerTypeOK
BY DEF TypeOK, BrokerTypeOK

\* Most steps leave the runners' own state alone.
LEMMA ChannelStep ==
  ASSUME BrokerInv,
         UNCHANGED <<link, canSendOffers, isShuttingDown, openOffers, offeredBy, nextOffer, taskStatus>>,
         toRunner' \in [Runner -> Seq(ToRunnerMsg)],
         toBroker' \in [Runner -> Seq(ToBrokerMsg)],
         knownRunners \subseteq knownRunners', NamesTask',
         \A r \in Runner : link[r] # "up" => toRunner'[r] = toRunner[r],
         \A o \in Offer : OfferLife(o)'
  PROVE  RunnerInv'
<1>1. RunnerTypeOK'
  BY DEF BrokerInv, TypeOK, RunnerTypeOK
<1>2. LinkInv'
  <2>1. link' = link /\ offeredBy' = offeredBy /\ openOffers' = openOffers /\ taskStatus' = taskStatus
    OBVIOUS
  <2> QED BY <2>1 DEF BrokerInv, LinkInv
<1>3. NotOvercommitted'
  BY SlotsKept
<1> QED BY <1>1, <1>2, <1>3 DEF RunnerInv

\* A message reaches the broker.
LEMMA BrokerArrival ==
  ASSUME BrokerInv, NEW r \in Runner, NEW type \in ToBrokerType,
         Next4Broker(r, type), Receive(r)
  PROVE  /\ toBroker' \in [Runner -> Seq(ToBrokerMsg)]
         /\ Taken(toBroker', toBroker, r, Msg(type, Head(toBroker[r]).id))
         /\ Head(toBroker[r]).id \in Offer
         /\ ToB(r, type, Head(toBroker[r]).id)
         /\ offeredBy[Head(toBroker[r]).id] = r
         /\ type # "taskoffer" => accept[Head(toBroker[r]).id] # "none"
         /\ \A p \in Runner : \A o \in Offer : \A y \in ToBrokerType : RoutineToB(p, y, o)
         /\ UNCHANGED <<link, canSendOffers, isShuttingDown, openOffers, offeredBy, nextOffer, taskStatus>>
<1> DEFINE t == Head(toBroker[r]).id
<1>1. /\ toBroker[r] # <<>> /\ Head(toBroker[r]).type = type
      /\ toBroker' = [toBroker EXCEPT ![r] = Tail(toBroker[r])]
      /\ UNCHANGED <<link, canSendOffers, isShuttingDown, openOffers, offeredBy, nextOffer, taskStatus>>
      /\ toBroker \in [Runner -> Seq(ToBrokerMsg)]
  BY DEF Next4Broker, Receive, BrokerInv, TypeOK, RunnerTypeOK
<1>2. /\ toBroker' \in [Runner -> Seq(ToBrokerMsg)]
      /\ Head(toBroker[r]) \in ToBrokerMsg
      /\ Taken(toBroker', toBroker, r, Head(toBroker[r]))
  BY <1>1, TakeHead
<1>3. Head(toBroker[r]) = Msg(type, t) /\ t \in Offer
  BY <1>1, <1>2, MsgFacts
<1>4. ToB(r, type, t)
  BY <1>2, <1>3 DEF Taken, ToB
<1>5. offeredBy[t] = r /\ (type # "taskoffer" => accept[t] # "none")
  BY <1>3, <1>4 DEF BrokerInv, OfferLife, Addressed, Fresh
<1>6. \A p \in Runner : \A o \in Offer : \A y \in ToBrokerType : RoutineToB(p, y, o)
  BY <1>2 DEF Taken, RoutineToB
<1> QED BY <1>1, <1>2, <1>3, <1>4, <1>5, <1>6

LEMMA AttemptsKept ==
  ASSUME AttemptInv, UNCHANGED <<accept, matched, acceptInProgress>>
  PROVE  AttemptInv'
BY DEF AttemptInv, OneAttempt

\* A question is answered, or nobody waits for the answer any more.
LEMMA AttemptEnds ==
  ASSUME TypeOK, AttemptInv, NEW t \in Offer, NEW result, result # "asking",
         accept' = [accept EXCEPT ![t] = result], UNCHANGED matched,
         acceptInProgress' \in {acceptInProgress,
                                IF accept[t] = "asking" THEN acceptInProgress \ {matched[t]}
                                                        ELSE acceptInProgress}
  PROVE  AttemptInv'
<1>1. accept \in [Offer -> {"none", "asking", "timedout", "over"}]
  BY DEF TypeOK
<1>2. \A o \in Offer : accept'[o] = "asking" => accept[o] = "asking" /\ o # t
  BY <1>1
<1>3. OneAttempt'
  BY <1>2 DEF AttemptInv, OneAttempt
<1>4. ASSUME NEW o \in Offer, accept'[o] = "asking" PROVE matched'[o] \in acceptInProgress'
  <2>1. accept[o] = "asking" /\ o # t /\ matched[o] \in acceptInProgress
    BY <1>2, <1>4 DEF AttemptInv
  <2>2. accept[t] = "asking" => matched[o] # matched[t]
    BY <2>1 DEF AttemptInv, OneAttempt
  <2> QED BY <2>1, <2>2
<1> QED BY <1>3, <1>4 DEF AttemptInv

LEMMA RequestsKept ==
  ASSUME RequestInv, UNCHANGED <<request, pendingTaskRequests>>, timed \subseteq timed',
         \A t \in timed : matched'[t] = matched[t]
  PROVE  RequestInv'
BY DEF RequestInv, RequesterNotAbandoned

\* The result of a task reaches the call that waits for it.
LEMMA ResultReaches ==
  ASSUME BrokerInv, NEW ts, NEW result \in {"done", "failed"}, TaskEndsAs(ts, result),
         UNCHANGED <<matched, pendingTaskRequests>>
  PROVE  /\ RequestInv'
         /\ request' \in [Request -> RequestState]
<1>1. /\ timed' = timed \ ts
      /\ request' = [q \in Request |->
                       IF request[q] = "running" /\ \E t \in ts \cap timed : matched[t] = q
                       THEN result ELSE request[q]]
  BY DEF TaskEndsAs
<1>2. request \in [Request -> RequestState] /\ pendingTaskRequests \subseteq Request
  BY DEF BrokerInv, TypeOK
<1>3. result \in RequestState
  BY DEF RequestState, Settled
<1>4. request' \in [Request -> RequestState]
  BY <1>1, <1>2, <1>3
<1>5. \A q \in Request :
        /\ request'[q] = "requested" => request[q] = "requested"
        /\ request[q] = "requested" => request'[q] = "requested"
        /\ request'[q] = "running" => request[q] = "running" /\ ~\E t \in ts \cap timed : matched[t] = q
  BY <1>1
<1>6. RequesterNotAbandoned'
  BY <1>1, <1>5 DEF BrokerInv, RequestInv, RequesterNotAbandoned
<1> QED BY <1>2, <1>4, <1>5, <1>6 DEF BrokerInv, RequestInv

LEMMA BrokerQED ==
  ASSUME RunnerInv', BrokerTypeOK', AttemptInv', RequestInv'
  PROVE  BrokerInv'
<1>1. TypeOK'
  BY DEF RunnerInv, TypeOK, BrokerTypeOK
<1> QED BY <1>1 DEF RunnerInv, BrokerInv

\* Nothing but the bookkeeping of requests changes.
LEMMA OnlyRequestsChange ==
  ASSUME BrokerInv, UNCHANGED runnerVars, UNCHANGED <<knownRunners, pendingTaskOffers, matched, tasks, timed>>,
         \A o \in Offer : /\ accept'[o] = "none" <=> accept[o] = "none"
                          /\ accept[o] = "over" => accept'[o] = "over"
  PROVE  RunnerInv'
<1>1. /\ UNCHANGED <<link, canSendOffers, isShuttingDown, openOffers, offeredBy, nextOffer, taskStatus>>
      /\ UNCHANGED toRunner /\ UNCHANGED toBroker
  BY DEF runnerVars
<1>2. /\ toRunner' \in [Runner -> Seq(ToRunnerMsg)] /\ toBroker' \in [Runner -> Seq(ToBrokerMsg)]
      /\ knownRunners \subseteq knownRunners' /\ NamesTask'
  BY <1>1, QuietChannel DEF BrokerInv, TypeOK, RunnerTypeOK
<1>3. ASSUME NEW o \in Offer PROVE OfferLife(o)'
  <2>1. \A p \in Runner : /\ \A y \in TaskMsg : RoutineToR(p, y, o)
                          /\ ToR(p, "taskcancel", o) => Has(toRunner'[p], Msg("taskcancel", o))
    BY <1>1, NothingReceived
  <2>2. \A p \in Runner : \A y \in ToBrokerType : RoutineToB(p, y, o)
    BY <1>1, NothingSent
  <2>3. o \in timed => o \in tasks
    BY DEF BrokerInv, OfferLife, Fresh
  <2>4. Routine(o)
    BY <1>1, <2>1, <2>2, <2>3 DEF Routine
  <2> QED BY <2>4, RoutineStep DEF BrokerInv
<1> QED BY <1>1, <1>2, <1>3, ChannelStep

LEMMA StartTaskDrainingKeeps ==
  ASSUME BrokerInv, NEW q \in Request, StartTask(q), isDraining
  PROVE  BrokerInv'
<1>1. /\ request[q] = "idle" /\ request' = [request EXCEPT ![q] = "expired"]
      /\ UNCHANGED runnerVars
      /\ UNCHANGED <<knownRunners, pendingTaskOffers, matched, tasks, timed>>
      /\ UNCHANGED <<pendingTaskRequests, acceptInProgress, accept, isDraining>>
  BY DEF StartTask, runnerVars
<1>2. request \in [Request -> RequestState] /\ "expired" \in RequestState
  BY DEF BrokerInv, TypeOK, RequestState, Settled
<1>3. BrokerTypeOK'
  BY <1>1, <1>2 DEF BrokerInv, TypeOK, BrokerTypeOK
<1>4. RunnerInv'
  BY <1>1, OnlyRequestsChange
<1>5. AttemptInv'
  BY <1>1, AttemptsKept DEF BrokerInv
<1>6. RequestInv'
  BY <1>1, <1>2 DEF BrokerInv, RequestInv, RequesterNotAbandoned
<1> QED BY <1>3, <1>4, <1>5, <1>6, BrokerQED

LEMMA HandleRequestTimeoutKeeps ==
  ASSUME BrokerInv, NEW q \in Request, HandleRequestTimeout(q)
  PROVE  BrokerInv'
<1>1. /\ q \in pendingTaskRequests /\ request' = [request EXCEPT ![q] = "expired"]
      /\ pendingTaskRequests' = pendingTaskRequests \ {q}
      /\ UNCHANGED runnerVars
      /\ UNCHANGED <<knownRunners, pendingTaskOffers, matched, tasks, timed>>
      /\ UNCHANGED <<acceptInProgress, accept, isDraining>>
  BY DEF HandleRequestTimeout
<1>2. request \in [Request -> RequestState] /\ "expired" \in RequestState
  BY DEF BrokerInv, TypeOK, RequestState, Settled
<1>3. BrokerTypeOK'
  BY <1>1, <1>2 DEF BrokerInv, TypeOK, BrokerTypeOK
<1>4. RunnerInv'
  BY <1>1, OnlyRequestsChange
<1>5. AttemptInv'
  BY <1>1, AttemptsKept DEF BrokerInv
<1>6. RequestInv'
  BY <1>1, <1>2 DEF BrokerInv, RequestInv, RequesterNotAbandoned
<1> QED BY <1>3, <1>4, <1>5, <1>6, BrokerQED

LEMMA AcceptTimeoutKeeps ==
  ASSUME BrokerInv, NEW t \in Offer, AcceptTimeout(t)
  PROVE  BrokerInv'
<1>1. /\ accept[t] = "asking" /\ accept' = [accept EXCEPT ![t] = "timedout"]
      /\ acceptInProgress' = acceptInProgress \ {matched[t]}
      /\ UNCHANGED runnerVars
      /\ UNCHANGED <<knownRunners, pendingTaskOffers, matched, tasks, timed>>
      /\ UNCHANGED <<pendingTaskRequests, isDraining, request>>
  BY DEF AcceptTimeout
<1>2. accept \in [Offer -> {"none", "asking", "timedout", "over"}]
  BY DEF BrokerInv, TypeOK
<1>3. BrokerTypeOK'
  BY <1>1, <1>2 DEF BrokerInv, TypeOK, BrokerTypeOK
<1>4. RunnerInv'
  <2>1. \A o \in Offer : /\ accept'[o] = "none" <=> accept[o] = "none"
                         /\ accept[o] = "over" => accept'[o] = "over"
    BY <1>1, <1>2
  <2> QED BY <1>1, <2>1, OnlyRequestsChange
<1>5. AttemptInv'
  BY <1>1, AttemptEnds DEF BrokerInv
<1>6. RequestInv'
  BY <1>1, RequestsKept DEF BrokerInv
<1> QED BY <1>3, <1>4, <1>5, <1>6, BrokerQED

-----------------------------------------------------------------------------
(* Messages to a runner, results and draining.                              *)

\* The broker gives task t up; its runner is told if it is connected.
LEMMA GiveUpLife ==
  ASSUME BrokerInv, NEW t \in Offer,
         UNCHANGED <<link, canSendOffers, isShuttingDown, openOffers, offeredBy, nextOffer, taskStatus>>,
         UNCHANGED toBroker, UNCHANGED <<knownRunners, pendingTaskOffers, matched, accept>>,
         tasks' = tasks \ {t}, timed' = timed \ {t}, t \in tasks,
         MessageRunners({offeredBy[t]}, "taskcancel", t)
  PROVE  RunnerInv'
<1> DEFINE r == offeredBy[t]
           rs == {p \in Runner : p \in {r} \cap knownRunners /\ link[p] = "up"}
<1>1. /\ toRunner' \in [Runner -> Seq(ToRunnerMsg)]
      /\ Written(toRunner', toRunner, rs, Msg("taskcancel", t))
  BY MessageFacts DEF BrokerInv, ToRunnerType
<1>2. accept[t] # "none" /\ r \in Runner
  BY DEF BrokerInv, OfferLife, Fresh
<1>3. \A p \in rs : p = r
  OBVIOUS
<1>4. \A p \in Runner : link[p] # "up" => p \notin rs
  OBVIOUS
<1>5. taskStatus[t] # "none" => rs = {r}
  BY <1>2 DEF BrokerInv, LinkInv
<1> HIDE DEF r, rs
<1>6. NamesTask'
  <2>1. \A type : Msg(type, 0) # Msg("taskcancel", t)
    BY MsgFacts, Slots
  <2> QED BY <1>1, <2>1 DEF BrokerInv, NamesTask, ToR, Written, Kept
<1>7. \A p \in Runner : link[p] # "up" => toRunner'[p] = toRunner[p]
  BY DEF MessageRunners
<1>8. ASSUME NEW o \in Offer PROVE OfferLife(o)'
  <2>1. ASSUME NEW p \in Runner, NEW y \in TaskMsg PROVE RoutineToR(p, y, o)
    <3>1. CASE p = r /\ o = t /\ y = "taskcancel"
      BY <1>2, <3>1 DEF RoutineToR, r
    <3>2. CASE ~(p = r /\ o = t /\ y = "taskcancel")
      <4>1. Msg(y, o) # Msg("taskcancel", t) \/ p \notin rs
        BY <1>3, <3>2, MsgFacts
      <4> QED BY <1>1, <4>1 DEF Written, RoutineToR
    <3> QED BY <3>1, <3>2
  <2>2. \A p \in Runner : ToR(p, "taskcancel", o) => Has(toRunner'[p], Msg("taskcancel", o))
    BY <1>1 DEF Written, ToR
  <2>3. \A p \in Runner : \A y \in ToBrokerType : RoutineToB(p, y, o)
    BY NothingSent
  <2>4. o \in timed => o \in tasks
    BY DEF BrokerInv, OfferLife, Fresh
  <2>5. o \in tasks /\ taskStatus[o] # "none" => o \in tasks' \/ GivenUp(o)
    <3>1. CASE o # t
      BY <3>1
    <3>2. CASE o = t /\ taskStatus[t] # "none"
      <4>1. rs = {r}
        BY <1>5, <3>2
      <4>2. Has(toRunner'[r], Msg("taskcancel", t))
        BY <1>1, <1>2, <4>1 DEF Written, r
      <4>3. Msg("tasksettings", t) # Msg("taskcancel", t)
        BY MsgFacts
      <4>4. Followed(toRunner'[r], Msg("tasksettings", t), Msg("taskcancel", t))
        BY <1>1, <1>2, <4>1, <4>3 DEF Written, r
      <4>5. "tasksettings" \in TaskMsg /\ Addressed(t)
        BY DEF TaskMsg, BrokerInv, OfferLife
      <4>6. ASSUME NEW p \in Runner, p # r
            PROVE  Followed(toRunner'[p], Msg("tasksettings", t), Msg("taskcancel", t))
        <5>1. ~ToR(p, "tasksettings", t)
          BY <4>5, <4>6 DEF Addressed, r
        <5>2. ~Has(toRunner'[p], Msg("tasksettings", t))
          BY <1>1, <4>3, <5>1 DEF Written, Kept, ToR
        <5> QED BY <5>2, NotFollowed
      <4> QED BY <3>2, <4>2, <4>4, <4>6 DEF GivenUp, r
    <3>3. CASE o = t /\ taskStatus[t] = "none"
      BY <3>3
    <3> QED BY <3>1, <3>2, <3>3
  <2>6. Routine(o)
    BY <2>1, <2>2, <2>3, <2>4, <2>5 DEF Routine
  <2> QED BY <2>6, RoutineStep DEF BrokerInv
<1>9. toBroker' \in [Runner -> Seq(ToBrokerMsg)] /\ knownRunners \subseteq knownRunners'
  BY DEF BrokerInv, TypeOK, RunnerTypeOK
<1> QED BY <1>1, <1>6, <1>7, <1>8, <1>9, ChannelStep

LEMMA CancelTaskKeeps ==
  ASSUME BrokerInv, NEW t \in Offer, CancelTask(t)
  PROVE  BrokerInv'
<1>1. /\ t \in tasks /\ request[matched[t]] = "running"
      /\ request' = [request EXCEPT ![matched[t]] = "cancelled"]
      /\ tasks' = tasks \ {t} /\ timed' = timed \ {t}
      /\ MessageRunners({offeredBy[t]}, "taskcancel", t)
      /\ UNCHANGED <<link, canSendOffers, isShuttingDown, openOffers, offeredBy, nextOffer, taskStatus>>
      /\ UNCHANGED toBroker /\ UNCHANGED <<knownRunners, pendingTaskOffers, matched, accept>>
      /\ UNCHANGED <<pendingTaskRequests, acceptInProgress, isDraining>>
  BY DEF CancelTask
<1>2. /\ request \in [Request -> RequestState] /\ "cancelled" \in RequestState
      /\ matched[t] \in Request
  BY <1>1 DEF BrokerInv, TypeOK, RequestState, Settled, OfferLife, Fresh
<1>3. BrokerTypeOK'
  BY <1>1, <1>2 DEF BrokerInv, TypeOK, BrokerTypeOK
<1>4. RunnerInv'
  BY <1>1, GiveUpLife
<1>5. AttemptInv'
  BY <1>1, AttemptsKept DEF BrokerInv
<1>6. RequestInv'
  <2>1. \A q \in Request : request'[q] = IF q = matched[t] THEN "cancelled" ELSE request[q]
    BY <1>1, <1>2
  <2>2. RequesterNotAbandoned'
    BY <1>1, <2>1 DEF BrokerInv, RequestInv, RequesterNotAbandoned
  <2> QED BY <1>1, <2>1, <2>2 DEF BrokerInv, RequestInv, TypeOK
<1> QED BY <1>3, <1>4, <1>5, <1>6, BrokerQED

LEMMA StartDrainingKeeps ==
  ASSUME BrokerInv, StartDraining
  PROVE  BrokerInv'
<1>1. /\ isDraining' = TRUE /\ MessageRunners(knownRunners, "drain", 0)
      /\ UNCHANGED <<link, canSendOffers, isShuttingDown, openOffers, offeredBy, nextOffer, taskStatus>>
      /\ UNCHANGED toBroker
      /\ UNCHANGED <<knownRunners, pendingTaskOffers, matched, accept, tasks, timed>>
      /\ UNCHANGED <<pendingTaskRequests, acceptInProgress, request>>
  BY DEF StartDraining
<1>2. PICK rs : /\ toRunner' \in [Runner -> Seq(ToRunnerMsg)]
                /\ Written(toRunner', toRunner, rs, Msg("drain", 0))
  BY <1>1, MessageFacts DEF BrokerInv, ToRunnerType
<1>3. \A y \in TaskMsg : \A i : Msg(y, i) # Msg("drain", 0)
  BY MsgFacts DEF TaskMsg
<1>4. \A p \in Runner : \A y \in TaskMsg : \A i : Kept(toRunner'[p], toRunner[p], Msg(y, i))
  BY <1>2, <1>3 DEF Written
<1>5. NamesTask'
  BY <1>4 DEF BrokerInv, NamesTask, ToR, Kept
<1>6. ASSUME NEW o \in Offer PROVE OfferLife(o)'
  <2>1. \A p \in Runner : \A y \in TaskMsg : RoutineToR(p, y, o)
    BY <1>4 DEF RoutineToR
  <2>2. \A p \in Runner : ToR(p, "taskcancel", o) => Has(toRunner'[p], Msg("taskcancel", o))
    BY <1>2 DEF Written, ToR
  <2>3. \A p \in Runner : \A y \in ToBrokerType : RoutineToB(p, y, o)
    BY <1>1, NothingSent
  <2>4. o \in timed => o \in tasks
    BY DEF BrokerInv, OfferLife, Fresh
  <2>5. Routine(o)
    BY <1>1, <2>1, <2>2, <2>3, <2>4 DEF Routine
  <2> QED BY <2>5, RoutineStep DEF BrokerInv
<1>7. \A r \in Runner : link[r] # "up" => toRunner'[r] = toRunner[r]
  BY <1>1 DEF MessageRunners
<1>8. toBroker' \in [Runner -> Seq(ToBrokerMsg)] /\ knownRunners \subseteq knownRunners'
  BY <1>1 DEF BrokerInv, TypeOK, RunnerTypeOK
<1>9. RunnerInv'
  BY <1>1, <1>2, <1>5, <1>6, <1>7, <1>8, ChannelStep
<1>10. BrokerTypeOK'
  BY <1>1 DEF BrokerInv, TypeOK, BrokerTypeOK
<1>11. AttemptInv'
  BY <1>1, AttemptsKept DEF BrokerInv
<1>12. RequestInv'
  BY <1>1, RequestsKept DEF BrokerInv
<1> QED BY <1>9, <1>10, <1>11, <1>12, BrokerQED

LEMMA RegisterRunnerKeeps ==
  ASSUME BrokerInv, NEW r \in Runner, RegisterRunner(r)
  PROVE  BrokerInv'
<1>1. /\ link[r] = "off" /\ link' = [link EXCEPT ![r] = "up"]
      /\ knownRunners' = knownRunners \cup {r}
      /\ toRunner' = [toRunner EXCEPT ![r] = <<Msg("runnerregistered", 0)>>]
      /\ UNCHANGED <<canSendOffers, isShuttingDown, openOffers, offeredBy, nextOffer, taskStatus>>
      /\ UNCHANGED toBroker
      /\ UNCHANGED <<pendingTaskOffers, matched, accept, tasks, timed>>
      /\ UNCHANGED <<pendingTaskRequests, acceptInProgress, isDraining, request>>
  BY DEF RegisterRunner
<1>2. RunnerTypeOK /\ toRunner[r] = <<>>
  BY <1>1 DEF BrokerInv, TypeOK, LinkInv
<1>3. Msg("runnerregistered", 0) \in ToRunnerMsg
  BY MsgFacts DEF ToRunnerType
<1>4. <<Msg("runnerregistered", 0)>> \in Seq(ToRunnerMsg)
  BY <1>3
<1>5. RunnerTypeOK'
  BY <1>1, <1>2, <1>4 DEF RunnerTypeOK
<1>6. \A y \in TaskMsg : \A i : ~Has(<<Msg("runnerregistered", 0)>>, Msg(y, i))
  BY MsgFacts DEF Has, TaskMsg
<1>7. toRunner'[r] = <<Msg("runnerregistered", 0)>> /\ \A p \in Runner : p # r => toRunner'[p] = toRunner[p]
  BY <1>1, <1>2 DEF RunnerTypeOK
<1>8. \A p \in Runner : \A y \in TaskMsg : \A i : Kept(toRunner'[p], toRunner[p], Msg(y, i))
  <2>1. \A y \in TaskMsg : \A i : Kept(toRunner'[r], toRunner[r], Msg(y, i))
    BY <1>6, <1>7, NotThere, NotFollowed DEF Kept
  <2> QED BY <1>7, <2>1, Untouched
<1>9. NamesTask'
  BY <1>8 DEF BrokerInv, NamesTask, ToR, Kept
<1>10. LinkInv'
  <2>1. \A p \in Runner : link'[p] = IF p = r THEN "up" ELSE link[p]
    BY <1>1, <1>2 DEF RunnerTypeOK
  <2> QED BY <1>1, <1>7, <2>1 DEF BrokerInv, LinkInv
<1>11. ASSUME NEW o \in Offer PROVE OfferLife(o)'
  <2>1. \A p \in Runner : \A y \in TaskMsg : RoutineToR(p, y, o)
    BY <1>8 DEF RoutineToR
  <2>2. \A p \in Runner : ToR(p, "taskcancel", o) => Has(toRunner'[p], Msg("taskcancel", o))
    BY <1>2, <1>7 DEF ToR, Has
  <2>3. \A p \in Runner : \A y \in ToBrokerType : RoutineToB(p, y, o)
    BY <1>1, NothingSent
  <2>4. o \in timed => o \in tasks
    BY DEF BrokerInv, OfferLife, Fresh
  <2>5. Routine(o)
    BY <1>1, <2>1, <2>2, <2>3, <2>4 DEF Routine
  <2> QED BY <2>5, RoutineStep DEF BrokerInv
<1>12. NotOvercommitted'
  BY <1>1, SlotsKept
<1>13. RunnerInv'
  BY <1>5, <1>9, <1>10, <1>11, <1>12 DEF RunnerInv
<1>14. BrokerTypeOK'
  BY <1>1 DEF BrokerInv, TypeOK, BrokerTypeOK
<1>15. AttemptInv'
  BY <1>1, AttemptsKept DEF BrokerInv
<1>16. RequestInv'
  BY <1>1, RequestsKept DEF BrokerInv
<1> QED BY <1>13, <1>14, <1>15, <1>16, BrokerQED

\* A runner process ends and the broker drops some of its tasks.
LEMMA EndsLife ==
  ASSUME BrokerInv, NEW r \in Runner, Ends(r),
         toBroker' \in [Runner -> Seq(ToBrokerMsg)],
         \A p \in Runner : \A o \in Offer : \A y \in ToBrokerType : RoutineToB(p, y, o),
         knownRunners \ {r} \subseteq knownRunners',
         UNCHANGED <<matched, accept>>, pendingTaskOffers' \subseteq pendingTaskOffers,
         NEW ts, \A t \in ts : offeredBy[t] = r,
         tasks' = tasks \ ts, timed' = timed \ ts
  PROVE  RunnerInv'
<1>1. RunnerTypeOK'
  BY EndsFacts DEF RunnerTypeOK, BrokerInv, TypeOK
<1>2. LinkInv'
  <2>1. \A p \in Runner :
          /\ link'[p] = "up" => link[p] = "up" /\ p # r
          /\ link'[p] # "up" =>
               /\ openOffers'[p] = {} /\ toRunner'[p] = <<>>
               /\ \A t \in Offer : offeredBy'[t] = p => taskStatus'[t] = "none"
    BY EndsFacts
  <2> QED BY <2>1 DEF BrokerInv, LinkInv
<1>3. ASSUME NEW o \in Offer PROVE OfferLife(o)'
  <2>1. /\ offeredBy' = offeredBy /\ nextOffer' = nextOffer
        /\ taskStatus'[o] \in {taskStatus[o], "none"}
        /\ offeredBy[o] = r => taskStatus'[o] = "none"
        /\ \A p \in Runner :
             /\ o \in openOffers'[p] => o \in openOffers[p]
             /\ \A type \in TaskMsg : RoutineToR(p, type, o)
             /\ taskStatus'[o] = "running" /\ ToR(p, "taskcancel", o)
                  => Has(toRunner'[p], Msg("taskcancel", o))
    BY EndsFacts
  <2>2. o \in timed => o \in tasks
    BY DEF BrokerInv, OfferLife, Fresh
  <2>3. Routine(o)
    BY <2>1, <2>2 DEF Routine
  <2> QED BY <2>3, RoutineStep DEF BrokerInv
<1> QED BY <1>1, <1>2, <1>3, EndsFacts DEF RunnerInv

LEMMA DeregisterRunnerKeeps ==
  ASSUME BrokerInv, NEW r \in Runner, DeregisterRunner(r)
  PROVE  BrokerInv'
<1> DEFINE ts == {t \in tasks : offeredBy[t] = r}
<1>1. /\ knownRunners' = knownRunners \ {r}
      /\ pendingTaskOffers' = {o \in pendingTaskOffers : offeredBy[o] # r}
      /\ TaskEndsAs(ts, "failed") /\ Ends(r)
      /\ toBroker' = [toBroker EXCEPT ![r] = <<>>]
      /\ UNCHANGED <<matched, accept>> /\ UNCHANGED <<matched, pendingTaskRequests>>
      /\ UNCHANGED <<accept, matched, acceptInProgress>> /\ UNCHANGED isDraining
  BY DEF DeregisterRunner
<1>2. tasks' = tasks \ ts /\ timed' = timed \ ts
  BY <1>1 DEF TaskEndsAs
<1>3. toBroker \in [Runner -> Seq(ToBrokerMsg)]
  BY DEF BrokerInv, TypeOK, RunnerTypeOK
<1>4. toBroker' \in [Runner -> Seq(ToBrokerMsg)]
  BY <1>1, <1>3
<1>5. \A p \in Runner : \A o \in Offer : \A y \in ToBrokerType : RoutineToB(p, y, o)
  <2>1. \A p \in Runner : toBroker'[p] = IF p = r THEN <<>> ELSE toBroker[p]
    BY <1>1, <1>3
  <2>2. \A s, x : Kept(<<>>, s, x)
    BY DEF Kept, Has, Once, Followed
  <2>3. \A p \in Runner : \A x : Kept(toBroker'[p], toBroker[p], x)
    BY <2>1, <2>2, Untouched
  <2> QED BY <2>3 DEF RoutineToB
<1>6. \A t \in ts : offeredBy[t] = r
  OBVIOUS
<1> HIDE DEF ts
<1>7. RunnerInv'
  BY <1>1, <1>2, <1>4, <1>5, <1>6, EndsLife
<1>8. RequestInv' /\ request' \in [Request -> RequestState]
  BY <1>1, ResultReaches
<1>9. BrokerTypeOK'
  BY <1>1, <1>2, <1>8 DEF BrokerInv, TypeOK, BrokerTypeOK
<1>10. AttemptInv'
  BY <1>1, AttemptsKept DEF BrokerInv
<1> QED BY <1>7, <1>8, <1>9, <1>10, BrokerQED

LEMMA HandleTaskTimeoutKeeps ==
  ASSUME BrokerInv, NEW t \in Offer, HandleTaskTimeout(t)
  PROVE  BrokerInv'
<1>1. /\ t \in timed /\ AbortTimedOut(t) /\ TaskEndsAs({t}, "failed")
      /\ UNCHANGED <<knownRunners, pendingTaskOffers, matched, accept>>
      /\ UNCHANGED <<matched, pendingTaskRequests>>
      /\ UNCHANGED <<accept, matched, acceptInProgress>> /\ UNCHANGED isDraining
  BY DEF HandleTaskTimeout
<1>2. tasks' = tasks \ {t} /\ timed' = timed \ {t}
  BY <1>1 DEF TaskEndsAs
<1>3. t \in tasks /\ offeredBy[t] \in Runner
  BY <1>1 DEF BrokerInv, OfferLife, Fresh
<1>4. RunnerInv'
  <2>1. CASE InternalMode /\ link[offeredBy[t]] = "up"
    <3>1. PICK r \in Runner : r = offeredBy[t]
      BY <1>3
    <3>2. Ends(r) /\ UNCHANGED toBroker
      BY <1>1, <2>1, <3>1 DEF AbortTimedOut
    <3>3. \A p \in Runner : \A o \in Offer : \A y \in ToBrokerType : RoutineToB(p, y, o)
      BY <3>2, NothingSent
    <3>4. /\ toBroker' \in [Runner -> Seq(ToBrokerMsg)]
          /\ knownRunners \ {r} \subseteq knownRunners'
          /\ pendingTaskOffers' \subseteq pendingTaskOffers /\ UNCHANGED <<matched, accept>>
      BY <1>1, <3>2 DEF BrokerInv, TypeOK, RunnerTypeOK
    <3> DEFINE ts == {t}
    <3>5. (\A o \in ts : offeredBy[o] = r) /\ tasks' = tasks \ ts /\ timed' = timed \ ts
      BY <1>2, <3>1
    <3> HIDE DEF ts
    <3> QED BY <3>2, <3>3, <3>4, <3>5, EndsLife
  <2>2. CASE InternalMode /\ link[offeredBy[t]] # "up"
    <3>1. /\ UNCHANGED <<link, canSendOffers, isShuttingDown, openOffers, offeredBy, nextOffer, taskStatus>>
          /\ UNCHANGED toRunner /\ UNCHANGED toBroker
      BY <1>1, <2>2 DEF AbortTimedOut, runnerVars
    <3>2. taskStatus[t] = "none"
      BY <1>3, <2>2 DEF BrokerInv, LinkInv
    <3>3. /\ toRunner' \in [Runner -> Seq(ToRunnerMsg)] /\ toBroker' \in [Runner -> Seq(ToBrokerMsg)]
          /\ knownRunners \subseteq knownRunners' /\ NamesTask'
      BY <1>1, <3>1, QuietChannel DEF BrokerInv, TypeOK, RunnerTypeOK
    <3>4. ASSUME NEW o \in Offer PROVE OfferLife(o)'
      <4>1. \A p \in Runner : /\ \A y \in TaskMsg : RoutineToR(p, y, o)
                              /\ ToR(p, "taskcancel", o) => Has(toRunner'[p], Msg("taskcancel", o))
        BY <3>1, NothingReceived
      <4>2. \A p \in Runner : \A y \in ToBrokerType : RoutineToB(p, y, o)
        BY <3>1, NothingSent
      <4>3. o \in timed => o \in tasks
        BY DEF BrokerInv, OfferLife, Fresh
      <4>4. Routine(o)
        BY <1>1, <1>2, <3>1, <3>2, <4>1, <4>2, <4>3 DEF Routine
      <4> QED BY <4>4, RoutineStep DEF BrokerInv
    <3> QED BY <3>1, <3>3, <3>4, ChannelStep
  <2>3. CASE ~InternalMode
    <3>1. /\ MessageRunners({offeredBy[t]}, "taskcancel", t)
          /\ UNCHANGED <<link, canSendOffers, isShuttingDown, openOffers, offeredBy, nextOffer, taskStatus>>
          /\ UNCHANGED toBroker
      BY <1>1, <2>3 DEF AbortTimedOut
    <3> QED BY <1>1, <1>2, <1>3, <3>1, GiveUpLife
  <2> QED BY <2>1, <2>2, <2>3
<1>5. RequestInv' /\ request' \in [Request -> RequestState]
  BY <1>1, ResultReaches
<1>6. BrokerTypeOK'
  BY <1>1, <1>2, <1>5 DEF BrokerInv, TypeOK, BrokerTypeOK
<1>7. AttemptInv'
  BY <1>1, AttemptsKept DEF BrokerInv
<1> QED BY <1>4, <1>5, <1>6, <1>7, BrokerQED

LEMMA TaskResultKeeps ==
  ASSUME BrokerInv, NEW r \in Runner, TaskResult(r)
  PROVE  BrokerInv'
<1> DEFINE t == Head(toBroker[r]).id
<1>1. /\ Receive(r) /\ UNCHANGED toRunner
      /\ UNCHANGED <<knownRunners, pendingTaskOffers, matched, accept>>
      /\ UNCHANGED <<matched, pendingTaskRequests>>
      /\ UNCHANGED <<accept, matched, acceptInProgress>> /\ UNCHANGED isDraining
  BY DEF TaskResult
<1>2. PICK type \in {"taskdone", "taskerror"}, result \in {"done", "failed"} :
        Next4Broker(r, type) /\ TaskEndsAs({t} \cap tasks, result)
  BY DEF TaskResult
<1>3. type \in ToBrokerType
  BY DEF ToBrokerType
<1>4. /\ toBroker' \in [Runner -> Seq(ToBrokerMsg)]
      /\ t \in Offer /\ ToB(r, type, t)
      /\ \A p \in Runner : \A o \in Offer : \A y \in ToBrokerType : RoutineToB(p, y, o)
      /\ UNCHANGED <<link, canSendOffers, isShuttingDown, openOffers, offeredBy, nextOffer, taskStatus>>
  BY <1>1, <1>2, <1>3, BrokerArrival
<1>5. taskStatus[t] = "none"
  BY <1>4 DEF BrokerInv, OfferLife, Spent
<1> HIDE DEF t
<1>6. tasks' = tasks \ ({t} \cap tasks) /\ timed' = timed \ ({t} \cap tasks)
  BY <1>2 DEF TaskEndsAs
<1>7. /\ toRunner' \in [Runner -> Seq(ToRunnerMsg)] /\ NamesTask'
      /\ knownRunners \subseteq knownRunners'
      /\ \A p \in Runner : link[p] # "up" => toRunner'[p] = toRunner[p]
  BY <1>1, QuietChannel
<1>8. ASSUME NEW o \in Offer PROVE OfferLife(o)'
  <2>1. \A p \in Runner : /\ \A y \in TaskMsg : RoutineToR(p, y, o)
                          /\ ToR(p, "taskcancel", o) => Has(toRunner'[p], Msg("taskcancel", o))
    BY <1>1, NothingReceived
  <2>2. \A p \in Runner : \A y \in ToBrokerType : RoutineToB(p, y, o)
    BY <1>4
  <2>3. o \in timed => o \in tasks
    BY DEF BrokerInv, OfferLife, Fresh
  <2>4. Routine(o)
    BY <1>1, <1>4, <1>5, <1>6, <2>1, <2>2, <2>3 DEF Routine
  <2> QED BY <2>4, RoutineStep DEF BrokerInv
<1>9. RunnerInv'
  BY <1>4, <1>7, <1>8, ChannelStep
<1>10. RequestInv' /\ request' \in [Request -> RequestState]
  BY <1>1, <1>2, ResultReaches
<1>11. BrokerTypeOK'
  BY <1>1, <1>6, <1>10 DEF BrokerInv, TypeOK, BrokerTypeOK
<1>12. AttemptInv'
  BY <1>1, AttemptsKept DEF BrokerInv
<1> QED BY <1>9, <1>10, <1>11, <1>12, BrokerQED

LEMMA HandleRunnerRejectKeeps ==
  ASSUME BrokerInv, NEW r \in Runner, HandleRunnerReject(r)
  PROVE  BrokerInv'
<1> DEFINE t == Head(toBroker[r]).id
<1>1. /\ Receive(r) /\ UNCHANGED toRunner
      /\ accept' = [accept EXCEPT ![t] = "over"]
      /\ acceptInProgress' = IF accept[t] = "asking" THEN acceptInProgress \ {matched[t]}
                                                     ELSE acceptInProgress
      /\ UNCHANGED <<knownRunners, pendingTaskOffers, matched, tasks, timed>>
      /\ UNCHANGED <<request, pendingTaskRequests>> /\ UNCHANGED isDraining
  BY DEF HandleRunnerReject, Answered
<1>2. PICK type \in {"taskrejected", "taskdeferred"} : Next4Broker(r, type)
  BY DEF HandleRunnerReject
<1>3. type \in ToBrokerType /\ type # "taskoffer"
  BY DEF ToBrokerType
<1>4. /\ toBroker' \in [Runner -> Seq(ToBrokerMsg)]
      /\ t \in Offer /\ accept[t] # "none"
      /\ \A p \in Runner : \A o \in Offer : \A y \in ToBrokerType : RoutineToB(p, y, o)
      /\ UNCHANGED <<link, canSendOffers, isShuttingDown, openOffers, offeredBy, nextOffer, taskStatus>>
  BY <1>1, <1>2, <1>3, BrokerArrival
<1> HIDE DEF t
<1>5. accept \in [Offer -> {"none", "asking", "timedout", "over"}]
  BY DEF BrokerInv, TypeOK
<1>6. \A o \in Offer : /\ accept'[o] = "none" <=> accept[o] = "none"
                       /\ accept[o] = "over" => accept'[o] = "over"
  BY <1>1, <1>4, <1>5
<1>7. /\ toRunner' \in [Runner -> Seq(ToRunnerMsg)] /\ NamesTask'
      /\ knownRunners \subseteq knownRunners'
      /\ \A p \in Runner : link[p] # "up" => toRunner'[p] = toRunner[p]
  BY <1>1, QuietChannel
<1>8. ASSUME NEW o \in Offer PROVE OfferLife(o)'
  <2>1. \A p \in Runner : /\ \A y \in TaskMsg : RoutineToR(p, y, o)
                          /\ ToR(p, "taskcancel", o) => Has(toRunner'[p], Msg("taskcancel", o))
    BY <1>1, NothingReceived
  <2>2. \A p \in Runner : \A y \in ToBrokerType : RoutineToB(p, y, o)
    BY <1>4
  <2>3. o \in timed => o \in tasks
    BY DEF BrokerInv, OfferLife, Fresh
  <2>4. Routine(o)
    BY <1>1, <1>4, <1>6, <2>1, <2>2, <2>3 DEF Routine
  <2> QED BY <2>4, RoutineStep DEF BrokerInv
<1>9. RunnerInv'
  BY <1>4, <1>7, <1>8, ChannelStep
<1>10. BrokerTypeOK'
  BY <1>1, <1>4, <1>5 DEF BrokerInv, TypeOK, BrokerTypeOK
<1>11. AttemptInv'
  BY <1>1, <1>4, AttemptEnds DEF BrokerInv
<1>12. RequestInv'
  BY <1>1, RequestsKept DEF BrokerInv
<1> QED BY <1>9, <1>10, <1>11, <1>12, BrokerQED

-----------------------------------------------------------------------------
(* handleRunnerAccept.                                                      *)

\* The life of an offer whose acceptance the broker waited for: it becomes a
\* task, and its settings may go out.
LEMMA TaskLife ==
  ASSUME BrokerInv, NEW r \in Runner, NEW t \in Offer,
         ToB(r, "taskaccepted", t), offeredBy[t] = r, accept[t] = "asking",
         UNCHANGED <<openOffers, offeredBy, nextOffer, taskStatus>>,
         UNCHANGED <<pendingTaskOffers, matched>>,
         accept'[t] = "over", t \in tasks',
         \A p \in Runner : \A x : Kept(toBroker'[p], toBroker[p], x),
         \A p \in Runner :
           /\ \A y \in TaskMsg : y # "tasksettings" => Kept(toRunner'[p], toRunner[p], Msg(y, t))
           /\ Has(toRunner'[p], Msg("tasksettings", t)) => p = r
           /\ Once(toRunner'[p], Msg("tasksettings", t))
  PROVE  OfferLife(t)'
<1> USE DEF ToR, ToB
<1>1. Addressed(t) /\ Fresh(t) /\ SettingsOnce(t) /\ Spent(t)
  BY DEF BrokerInv, OfferLife
<1>2. \A p \in Runner : t \notin openOffers[p]
  BY <1>1 DEF Addressed, Spent, Claimed
<1>3. \A p \in Runner : \A y \in TaskMsg : Has(toRunner'[p], Msg(y, t)) => p = r
  BY <1>1 DEF Addressed, Kept
<1>4. Addressed(t)'
  BY <1>1, <1>3 DEF Addressed, Kept
<1>5. Fresh(t)'
  <2>1. \A p \in Runner :
          /\ ~ToB(p, "taskoffer", t)'
          /\ Once(toBroker'[p], Msg("taskoffer", t))
    BY <1>1 DEF Fresh, Kept
  <2> QED BY <1>1, <1>2, <2>1 DEF Fresh
<1>6. SettingsOnce(t)'
  <2>1. taskStatus[t] \notin Started
    BY <1>1 DEF SettingsOnce
  <2> QED BY <2>1 DEF SettingsOnce
<1>7. Spent(t)'
  <2>1. \A p \in Runner : ToB(p, "taskdone", t)' \/ ToB(p, "taskerror", t)' => taskStatus[t] = "none"
    BY <1>1 DEF Spent, Kept
  <2> QED BY <1>2, <2>1 DEF Spent
<1> QED BY <1>4, <1>5, <1>6, <1>7 DEF OfferLife

LEMMA HandleRunnerAcceptKeeps ==
  ASSUME BrokerInv, NEW r \in Runner, HandleRunnerAccept(r)
  PROVE  BrokerInv'
<1> DEFINE t == Head(toBroker[r]).id
           q == matched[t]
           goesOn == accept[t] = "asking"
           ready == goesOn /\ q \in pendingTaskRequests
<1>1. /\ Next4Broker(r, "taskaccepted") /\ Receive(r)
      /\ accept' = [accept EXCEPT ![t] = "over"]
      /\ tasks' = IF goesOn THEN tasks \cup {t} ELSE tasks
      /\ IF ready
         THEN /\ pendingTaskRequests' = pendingTaskRequests \ {q}
              /\ request' = [request EXCEPT ![q] = "running"]
              /\ timed' = timed \cup {t}
              /\ MessageRunners({r}, "tasksettings", t)
         ELSE UNCHANGED <<pendingTaskRequests, request, timed, toRunner>>
      /\ UNCHANGED <<knownRunners, pendingTaskOffers, acceptInProgress, matched>>
      /\ UNCHANGED isDraining
  BY DEF HandleRunnerAccept, Answered
<1>2. "taskaccepted" \in ToBrokerType /\ "tasksettings" \in ToRunnerType /\ "tasksettings" \in TaskMsg
  BY DEF ToBrokerType, ToRunnerType, TaskMsg
<1>3. /\ toBroker' \in [Runner -> Seq(ToBrokerMsg)]
      /\ Taken(toBroker', toBroker, r, Msg("taskaccepted", t))
      /\ t \in Offer /\ ToB(r, "taskaccepted", t) /\ offeredBy[t] = r /\ accept[t] # "none"
      /\ \A p \in Runner : \A o \in Offer : \A y \in ToBrokerType : RoutineToB(p, y, o)
      /\ UNCHANGED <<link, canSendOffers, isShuttingDown, openOffers, offeredBy, nextOffer, taskStatus>>
  BY <1>1, <1>2, BrokerArrival
<1> HIDE DEF t
<1>4. /\ accept \in [Offer -> {"none", "asking", "timedout", "over"}]
      /\ request \in [Request -> RequestState] /\ toRunner \in [Runner -> Seq(ToRunnerMsg)]
      /\ q \in Request /\ "running" \in RequestState
      /\ pendingTaskRequests \subseteq Request
  BY <1>3 DEF BrokerInv, TypeOK, RunnerTypeOK, OfferLife, Fresh, RequestState
<1>5. /\ accept'[t] = "over"
      /\ \A o \in Offer : /\ accept'[o] = "none" <=> accept[o] = "none"
                          /\ accept[o] = "over" => accept'[o] = "over"
  BY <1>1, <1>3, <1>4
\* What is on its way to the runners afterwards.
<1>6. /\ toRunner' \in [Runner -> Seq(ToRunnerMsg)] /\ NamesTask'
      /\ \A p \in Runner : link[p] # "up" => toRunner'[p] = toRunner[p]
      /\ \A p \in Runner : \A x : Has(toRunner[p], x) => Has(toRunner'[p], x)
      /\ \A p \in Runner : \A x : x # Msg("tasksettings", t) \/ ~ready \/ p # r
           => Kept(toRunner'[p], toRunner[p], x)
      /\ \A p \in Runner : ~Has(toRunner[p], Msg("tasksettings", t))
           => Once(toRunner'[p], Msg("tasksettings", t))
  <2>1. CASE ready
    <3> DEFINE rs == {p \in Runner : p \in {r} \cap knownRunners /\ link[p] = "up"}
    <3>1. MessageRunners({r}, "tasksettings", t)
      BY <1>1, <2>1
    <3>2. /\ toRunner' \in [Runner -> Seq(ToRunnerMsg)]
          /\ Written(toRunner', toRunner, rs, Msg("tasksettings", t))
      BY <1>2, <1>3, <3>1, MessageFacts DEF BrokerInv
    <3>3. \A p \in Runner : p \in rs => p = r
      OBVIOUS
    <3> HIDE DEF rs
    <3>4. \A p \in Runner : \A x : x # Msg("tasksettings", t) \/ p # r => Kept(toRunner'[p], toRunner[p], x)
      BY <3>2, <3>3 DEF Written
    <3>5. \A y : Msg(y, 0) # Msg("tasksettings", t)
      BY <1>3, MsgFacts, Slots
    <3>6. NamesTask'
      BY <3>4, <3>5 DEF BrokerInv, NamesTask, ToR, Kept
    <3>7. \A p \in Runner : link[p] # "up" => toRunner'[p] = toRunner[p]
      BY <3>1 DEF MessageRunners
    <3> QED BY <2>1, <3>2, <3>4, <3>6, <3>7 DEF Written
  <2>2. CASE ~ready
    <3>1. UNCHANGED toRunner
      BY <1>1, <2>2
    <3> QED BY <3>1, QuietChannel, Untouched, NotThere
  <2> QED BY <2>1, <2>2
<1>7. ASSUME NEW o \in Offer PROVE OfferLife(o)'
  <2>1. CASE o = t /\ goesOn
    <3>1. \A p \in Runner : ~Has(toRunner[p], Msg("tasksettings", t))
      <4>1. accept[t] # "over"
        BY <2>1
      <4> QED BY <1>3, <4>1 DEF BrokerInv, OfferLife, SettingsOnce, ToR
    <3>2. \A y : y # "tasksettings" => Msg(y, t) # Msg("tasksettings", t)
      BY MsgFacts
    <3>3. ASSUME NEW p \in Runner
          PROVE  /\ \A y \in TaskMsg : y # "tasksettings" => Kept(toRunner'[p], toRunner[p], Msg(y, t))
                 /\ Has(toRunner'[p], Msg("tasksettings", t)) => p = r
                 /\ Once(toRunner'[p], Msg("tasksettings", t))
      BY <1>6, <3>1, <3>2 DEF Kept
    <3>4. \A p \in Runner : \A x : Kept(toBroker'[p], toBroker[p], x)
      BY <1>3 DEF Taken
    <3>5. t \in tasks' /\ accept[t] = "asking"
      BY <1>1, <2>1
    <3> QED BY <1>1, <1>3, <1>5, <2>1, <3>3, <3>4, <3>5, TaskLife
  <2>2. CASE ~(o = t /\ goesOn)
    <3>1. o # t \/ ~ready
      BY <2>2
    <3>2. \A p \in Runner : \A y : Kept(toRunner'[p], toRunner[p], Msg(y, o))
      <4>1. o # t => \A y : Msg(y, o) # Msg("tasksettings", t)
        BY MsgFacts
      <4> QED BY <1>6, <3>1, <4>1
    <3>3. \A p \in Runner : /\ \A y \in TaskMsg : RoutineToR(p, y, o)
                            /\ ToR(p, "taskcancel", o) => Has(toRunner'[p], Msg("taskcancel", o))
      BY <1>6, <3>2 DEF RoutineToR, ToR
    <3>4. \A p \in Runner : \A y \in ToBrokerType : RoutineToB(p, y, o)
      BY <1>3
    <3>5. /\ o \in tasks' <=> o \in tasks
          /\ o \in timed' => o \in timed
      BY <1>1, <2>2
    <3>6. o \in timed => o \in tasks
      BY DEF BrokerInv, OfferLife, Fresh
    <3>7. Routine(o)
      BY <1>1, <1>3, <1>5, <3>3, <3>4, <3>5, <3>6 DEF Routine
    <3> QED BY <3>7, RoutineStep DEF BrokerInv
  <2> QED BY <2>1, <2>2
<1>8. RunnerInv'
  <2>1. knownRunners \subseteq knownRunners'
    BY <1>1
  <2> QED BY <1>3, <1>6, <1>7, <2>1, ChannelStep
<1>9. BrokerTypeOK'
  <2>1. accept' \in [Offer -> {"none", "asking", "timedout", "over"}]
    BY <1>1, <1>4
  <2>2. request' \in [Request -> RequestState] /\ pendingTaskRequests' \subseteq Request
    BY <1>1, <1>4
  <2>3. tasks' \subseteq Offer /\ timed' \subseteq Offer
    BY <1>1, <1>3 DEF BrokerInv, TypeOK
  <2> QED BY <1>1, <2>1, <2>2, <2>3 DEF BrokerInv, TypeOK, BrokerTypeOK
<1>10. AttemptInv'
  BY <1>1, <1>3, AttemptEnds DEF BrokerInv
<1>11. RequestInv'
  <2>1. CASE ready
    <3>1. \A p \in Request : request'[p] = IF p = q THEN "running" ELSE request[p]
      BY <1>1, <1>4, <2>1
    <3>2. /\ pendingTaskRequests' = pendingTaskRequests \ {q}
          /\ timed' = timed \cup {t} /\ matched' = matched
      BY <1>1, <2>1
    <3>3. RequesterNotAbandoned'
      BY <3>1, <3>2 DEF BrokerInv, RequestInv, RequesterNotAbandoned
    <3> QED BY <1>4, <3>1, <3>2, <3>3 DEF BrokerInv, RequestInv
  <2>2. CASE ~ready
    BY <1>1, <2>2, RequestsKept DEF BrokerInv
  <2> QED BY <2>1, <2>2
<1> QED BY <1>8, <1>9, <1>10, <1>11, BrokerQED

-----------------------------------------------------------------------------
(* Steps that end in settleTasks.                                           *)

\* The life of an offer that is taken for a request.
LEMMA TakenLife ==
  ASSUME BrokerInv, NEW offers, NEW requests \in SUBSET Request, NEW taken, NEW m,
         Settling(offers, requests, taken, m), NEW o \in taken, o \in Offer,
         UNCHANGED <<openOffers, offeredBy, nextOffer, taskStatus, tasks, timed>>,
         accept[o] = "none", offeredBy[o] \in Runner,
         \A p \in Runner : \A x : Kept(toBroker'[p], toBroker[p], x),
         \A p \in Runner : ~Has(toBroker'[p], Msg("taskoffer", o))
  PROVE  OfferLife(o)'
<1> USE DEF ToR, ToB
<1>1. Addressed(o) /\ Fresh(o) /\ SettingsOnce(o) /\ Spent(o)
  BY DEF BrokerInv, OfferLife
<1>2. /\ accept'[o] = "asking" /\ matched'[o] \in Request /\ o \notin pendingTaskOffers'
      /\ o \notin tasks /\ o \notin timed /\ taskStatus[o] = "none"
  BY <1>1 DEF Settling, Fresh
<1>3. ASSUME NEW p \in Runner, NEW y \in TaskMsg, ToR(p, y, o)'
      PROVE  p = offeredBy[o] /\ y = "taskofferaccept"
  <2>1. ~ToR(p, y, o)
    BY <1>1 DEF Fresh
  <2>2. PICK n \in taken : Msg(y, o) = Msg("taskofferaccept", n) /\ offeredBy[n] = p
    BY <1>3, <2>1 DEF Settling
  <2> QED BY <2>2, MsgFacts
<1>4. \A p \in Runner : \A y \in ToBrokerType : ~ToB(p, y, o)'
  BY <1>1 DEF Fresh, Kept
<1>5. \A p \in Runner : ~ToR(p, "tasksettings", o)'
  BY <1>3 DEF TaskMsg
<1>6. Addressed(o)'
  BY <1>1, <1>3, <1>4 DEF Addressed
<1>7. Fresh(o)'
  BY <1>2, <1>4, NotThere DEF Fresh
<1>8. SettingsOnce(o)'
  BY <1>2, <1>5, NotThere DEF SettingsOnce, Started
<1>9. Spent(o)'
  <2>1. \A p \in Runner : ~Claimed(p, o)'
    BY <1>2, <1>4, <1>5 DEF Claimed, ToBrokerType
  <2> QED BY <1>2, <2>1 DEF Spent
<1> QED BY <1>6, <1>7, <1>8, <1>9 DEF OfferLife

LEMMA SettleKeeps ==
  ASSUME BrokerInv, NEW offers \in SUBSET Offer, NEW requests \in SUBSET Request,
         SettleTasks(offers, requests),
         UNCHANGED <<link, canSendOffers, isShuttingDown, openOffers, offeredBy, nextOffer, taskStatus>>,
         UNCHANGED <<knownRunners, tasks, timed>>,
         toBroker' \in [Runner -> Seq(ToBrokerMsg)],
         \A p \in Runner : \A x : Kept(toBroker'[p], toBroker[p], x),
         \A o \in offers :
           /\ accept[o] = "none" /\ offeredBy[o] \in Runner
           /\ \A p \in Runner : ~Has(toBroker'[p], Msg("taskoffer", o))
  PROVE  /\ RunnerInv' /\ AttemptInv'
         /\ pendingTaskOffers' \subseteq Offer
         /\ pendingTaskRequests' = requests
         /\ acceptInProgress' \subseteq Request
         /\ matched' \in [Offer -> Request \cup {NoRequest}]
         /\ accept' \in [Offer -> {"none", "asking", "timedout", "over"}]
         /\ \A t \in timed : matched'[t] = matched[t]
<1>1. TypeOK
  BY DEF BrokerInv
<1>2. PICK taken, m : Settling(offers, requests, taken, m)
  BY <1>1, SettlingFacts
<1>3. /\ taken \subseteq offers /\ taken \subseteq Offer
      /\ matched' = [o \in Offer |-> IF o \in taken THEN m[o] ELSE matched[o]]
      /\ accept' = [o \in Offer |-> IF o \in taken THEN "asking" ELSE accept[o]]
      /\ acceptInProgress' = acceptInProgress \cup {m[o] : o \in taken}
      /\ pendingTaskOffers' \subseteq offers /\ pendingTaskRequests' = requests
      /\ \A o \in taken : m[o] \in Request /\ m[o] \notin acceptInProgress
      /\ \A o, p \in taken : m[o] = m[p] => o = p
  BY <1>2 DEF Settling
<1>4. /\ matched' \in [Offer -> Request \cup {NoRequest}]
      /\ accept' \in [Offer -> {"none", "asking", "timedout", "over"}]
      /\ acceptInProgress' \subseteq Request
  BY <1>1, <1>3 DEF TypeOK
<1>5. \A t \in timed : matched'[t] = matched[t]
  <2>1. \A t \in timed : t \in Offer /\ accept[t] = "over"
    BY <1>1 DEF BrokerInv, TypeOK, OfferLife, Fresh
  <2> QED BY <1>3, <2>1
<1>6. AttemptInv'
  <2>1. \A o \in Offer : accept'[o] = "asking" =>
          \/ o \in taken /\ matched'[o] = m[o]
          \/ o \notin taken /\ accept[o] = "asking" /\ matched'[o] = matched[o]
    BY <1>3
  <2>2. OneAttempt'
    <3> SUFFICES ASSUME NEW o \in Offer, NEW p \in Offer, accept'[o] = "asking", accept'[p] = "asking",
                        matched'[o] = matched'[p]
                 PROVE  o = p
      BY DEF OneAttempt
    <3> QED BY <1>3, <2>1 DEF BrokerInv, AttemptInv, OneAttempt
  <2>3. \A o \in Offer : accept'[o] = "asking" => matched'[o] \in acceptInProgress'
    BY <1>3, <2>1 DEF BrokerInv, AttemptInv
  <2> QED BY <2>2, <2>3 DEF AttemptInv
<1>7. ASSUME NEW o \in Offer PROVE OfferLife(o)'
  <2>1. CASE o \in taken
    BY <1>2, <1>3, <2>1, TakenLife
  <2>2. CASE o \notin taken
    <3>1. \A p \in Runner : \A y : Kept(toRunner'[p], toRunner[p], Msg(y, o))
      <4>1. \A y : \A n \in taken : Msg(y, o) # Msg("taskofferaccept", n)
        BY <2>2, MsgFacts
      <4> QED BY <1>2, <4>1 DEF Settling
    <3>2. \A p \in Runner : /\ \A y \in TaskMsg : RoutineToR(p, y, o)
                            /\ ToR(p, "taskcancel", o) => Has(toRunner'[p], Msg("taskcancel", o))
      BY <1>2, <3>1 DEF RoutineToR, ToR, Settling
    <3>3. \A p \in Runner : \A y \in ToBrokerType : RoutineToB(p, y, o)
      BY DEF RoutineToB
    <3>4. accept'[o] = accept[o] /\ matched'[o] = matched[o]
      BY <1>3, <2>2
    <3>5. o \in pendingTaskOffers' => Arrived(o)
      BY <1>3, <3>4 DEF Arrived
    <3>6. o \in timed => o \in tasks
      BY DEF BrokerInv, OfferLife, Fresh
    <3>7. Routine(o)
      BY <3>2, <3>3, <3>4, <3>5, <3>6 DEF Routine
    <3> QED BY <3>7, RoutineStep DEF BrokerInv
  <2> QED BY <2>1, <2>2
<1>8. RunnerInv'
  <2>1. toRunner' \in [Runner -> Seq(ToRunnerMsg)] /\ \A p \in Runner : link[p] # "up" => toRunner'[p] = toRunner[p]
    BY <1>2 DEF Settling
  <2>2. NamesTask'
    <3> SUFFICES ASSUME NEW p \in Runner, NEW y \in TaskMsg, ToR(p, y, 0)'
                 PROVE  FALSE
      BY DEF NamesTask
    <3>1. ~Has(toRunner[p], Msg(y, 0))
      BY DEF BrokerInv, NamesTask, ToR
    <3>2. PICK n \in taken : Msg(y, 0) = Msg("taskofferaccept", n)
      BY <1>2, <3>1 DEF Settling, ToR
    <3> QED BY <1>3, <3>2, MsgFacts, Slots
  <2>3. knownRunners \subseteq knownRunners'
    OBVIOUS
  <2> QED BY <1>7, <2>1, <2>2, <2>3, ChannelStep
<1> QED BY <1>3, <1>4, <1>5, <1>6, <1>8

\* A pending offer is not on its way any more.
LEMMA PendingOffers ==
  ASSUME BrokerInv, NEW o \in pendingTaskOffers
  PROVE  /\ o \in Offer /\ accept[o] = "none" /\ offeredBy[o] \in Runner
         /\ \A p \in Runner : ~Has(toBroker[p], Msg("taskoffer", o))
BY DEF BrokerInv, TypeOK, OfferLife, Fresh, ToB

LEMMA StartTaskKeeps ==
  ASSUME BrokerInv, NEW q \in Request, StartTask(q), ~isDraining
  PROVE  BrokerInv'
<1> DEFINE requests == pendingTaskRequests \cup {q}
<1>1. /\ request[q] = "idle" /\ request' = [request EXCEPT ![q] = "requested"]
      /\ SettleTasks(pendingTaskOffers, requests)
      /\ UNCHANGED <<link, canSendOffers, isShuttingDown, openOffers, offeredBy, nextOffer, taskStatus>>
      /\ UNCHANGED <<knownRunners, tasks, timed>> /\ UNCHANGED toBroker /\ UNCHANGED isDraining
  BY DEF StartTask
<1>2. /\ pendingTaskOffers \in SUBSET Offer /\ requests \in SUBSET Request
      /\ request \in [Request -> RequestState] /\ "requested" \in RequestState
      /\ toBroker' \in [Runner -> Seq(ToBrokerMsg)]
  BY <1>1 DEF BrokerInv, TypeOK, RunnerTypeOK, RequestState
<1> HIDE DEF requests
<1>3. \A p \in Runner : \A x : Kept(toBroker'[p], toBroker[p], x)
  BY <1>1, Untouched
<1>4. \A o \in pendingTaskOffers :
        /\ accept[o] = "none" /\ offeredBy[o] \in Runner
        /\ \A p \in Runner : ~Has(toBroker'[p], Msg("taskoffer", o))
  BY <1>1, PendingOffers
<1>5. /\ RunnerInv' /\ AttemptInv'
      /\ pendingTaskOffers' \subseteq Offer
      /\ pendingTaskRequests' = requests
      /\ acceptInProgress' \subseteq Request
      /\ matched' \in [Offer -> Request \cup {NoRequest}]
      /\ accept' \in [Offer -> {"none", "asking", "timedout", "over"}]
      /\ \A t \in timed : matched'[t] = matched[t]
  BY <1>1, <1>2, <1>3, <1>4, SettleKeeps
<1>6. BrokerTypeOK'
  <2>1. request' \in [Request -> RequestState]
    BY <1>1, <1>2
  <2> QED BY <1>1, <1>2, <1>5, <2>1 DEF BrokerInv, TypeOK, BrokerTypeOK
<1>7. RequestInv'
  <2>1. \A p \in Request : request'[p] = IF p = q THEN "requested" ELSE request[p]
    BY <1>1, <1>2
  <2>2. pendingTaskRequests' = pendingTaskRequests \cup {q} /\ timed' = timed
    BY <1>1, <1>5 DEF requests
  <2>3. RequesterNotAbandoned'
    BY <1>5, <2>1, <2>2 DEF BrokerInv, RequestInv, RequesterNotAbandoned
  <2>4. pendingTaskRequests \subseteq Request
    BY DEF BrokerInv, TypeOK
  <2> QED BY <2>1, <2>2, <2>3, <2>4 DEF BrokerInv, RequestInv
<1> QED BY <1>5, <1>6, <1>7, BrokerQED

LEMMA TaskOfferedKeeps ==
  ASSUME BrokerInv, NEW r \in Runner, TaskOffered(r)
  PROVE  BrokerInv'
<1> DEFINE t == Head(toBroker[r]).id
           offers == pendingTaskOffers \cup {t}
<1>1. /\ Next4Broker(r, "taskoffer") /\ Receive(r)
      /\ SettleTasks(offers, pendingTaskRequests)
      /\ UNCHANGED <<knownRunners, tasks, timed>> /\ UNCHANGED isDraining /\ UNCHANGED request
  BY DEF TaskOffered
<1>2. "taskoffer" \in ToBrokerType
  BY DEF ToBrokerType
<1>3. /\ toBroker' \in [Runner -> Seq(ToBrokerMsg)]
      /\ Taken(toBroker', toBroker, r, Msg("taskoffer", t))
      /\ t \in Offer /\ ToB(r, "taskoffer", t) /\ offeredBy[t] = r
      /\ UNCHANGED <<link, canSendOffers, isShuttingDown, openOffers, offeredBy, nextOffer, taskStatus>>
  BY <1>1, <1>2, BrokerArrival
<1> HIDE DEF t
<1>4. /\ accept[t] = "none" /\ Once(toBroker[r], Msg("taskoffer", t))
      /\ \A p \in Runner : ToB(p, "taskoffer", t) => p = r
  BY <1>2, <1>3 DEF BrokerInv, OfferLife, Fresh, Addressed
<1>5. \A p \in Runner : \A x : Kept(toBroker'[p], toBroker[p], x)
  BY <1>3 DEF Taken
<1>6. \A p \in Runner : ~Has(toBroker'[p], Msg("taskoffer", t))
  BY <1>3, <1>4, <1>5 DEF Taken, Kept, ToB
<1>7. \A o \in pendingTaskOffers :
        /\ accept[o] = "none" /\ offeredBy[o] \in Runner
        /\ \A p \in Runner : ~Has(toBroker'[p], Msg("taskoffer", o))
  BY <1>5, PendingOffers DEF Kept
<1>8. /\ offers \in SUBSET Offer /\ pendingTaskRequests \in SUBSET Request
      /\ \A o \in offers :
           /\ accept[o] = "none" /\ offeredBy[o] \in Runner
           /\ \A p \in Runner : ~Has(toBroker'[p], Msg("taskoffer", o))
  BY <1>3, <1>4, <1>6, <1>7 DEF BrokerInv, TypeOK
<1> HIDE DEF offers
<1>9. /\ RunnerInv' /\ AttemptInv'
      /\ pendingTaskOffers' \subseteq Offer
      /\ pendingTaskRequests' = pendingTaskRequests
      /\ acceptInProgress' \subseteq Request
      /\ matched' \in [Offer -> Request \cup {NoRequest}]
      /\ accept' \in [Offer -> {"none", "asking", "timedout", "over"}]
      /\ \A o \in timed : matched'[o] = matched[o]
  BY <1>1, <1>3, <1>5, <1>8, SettleKeeps
<1>10. BrokerTypeOK'
  BY <1>1, <1>8, <1>9 DEF BrokerInv, TypeOK, BrokerTypeOK
<1>11. RequestInv'
  BY <1>1, <1>9, RequestsKept DEF BrokerInv
<1> QED BY <1>9, <1>10, <1>11, BrokerQED

-----------------------------------------------------------------------------
LEMMA BrokerSideKeeps ==
  ASSUME BrokerInv, BrokerSide
  PROVE  BrokerInv'
<1>1. ASSUME NEW q \in Request, StartTask(q) PROVE BrokerInv'
  BY <1>1, StartTaskDrainingKeeps, StartTaskKeeps
<1>2. ASSUME NEW q \in Request, HandleRequestTimeout(q) PROVE BrokerInv'
  BY <1>2, HandleRequestTimeoutKeeps
<1>3. ASSUME NEW t \in Offer, CancelTask(t) PROVE BrokerInv'
  BY <1>3, CancelTaskKeeps
<1>4. ASSUME NEW t \in Offer, AcceptTimeout(t) PROVE BrokerInv'
  BY <1>4, AcceptTimeoutKeeps
<1>5. ASSUME NEW t \in Offer, HandleTaskTimeout(t) PROVE BrokerInv'
  BY <1>5, HandleTaskTimeoutKeeps
<1>6. ASSUME NEW r \in Runner, BrokerReceives(r) PROVE BrokerInv'
  BY <1>6, TaskOfferedKeeps, HandleRunnerAcceptKeeps, HandleRunnerRejectKeeps, TaskResultKeeps
     DEF BrokerReceives
<1>7. ASSUME NEW r \in Runner, RegisterRunner(r) \/ DeregisterRunner(r) PROVE BrokerInv'
  BY <1>7, RegisterRunnerKeeps, DeregisterRunnerKeeps
<1>8. ASSUME StartDraining PROVE BrokerInv'
  BY <1>8, StartDrainingKeeps
<1> QED BY <1>1, <1>2, <1>3, <1>4, <1>5, <1>6, <1>7, <1>8 DEF BrokerSide

LEMMA BrokerInit ==
  ASSUME Init
  PROVE  BrokerInv
<1> USE DEF Init, RunnerInit
<1>1. \A x : ~Has(<<>>, x)
  BY DEF Has
<1>2. \A r \in Runner : toRunner[r] = <<>> /\ toBroker[r] = <<>> /\ openOffers[r] = {}
  OBVIOUS
<1>3. \A r \in Runner : \A type, o : ~ToR(r, type, o) /\ ~ToB(r, type, o)
  BY <1>1, <1>2 DEF ToR, ToB
<1>4. RunnerTypeOK
  <2>1. <<>> \in Seq(ToRunnerMsg) /\ <<>> \in Seq(ToBrokerMsg) /\ 1 \in 1 .. MaxOffers + 1
    BY Slots
  <2> QED BY <2>1 DEF RunnerTypeOK, TaskStatus
<1>5. BrokerTypeOK
  BY DEF BrokerTypeOK, RequestState, NoRequest
<1>6. LinkInv /\ NamesTask
  BY <1>2, <1>3 DEF LinkInv, NamesTask
<1>7. ASSUME NEW o \in Offer PROVE OfferLife(o)
  <2>1. offeredBy[o] \notin Runner /\ taskStatus[o] = "none" /\ accept[o] = "none"
    BY RunnerAssumption
  <2>2. ~(o < nextOffer)
    BY Slots
  <2>3. \A r \in Runner : Once(toRunner[r], Msg("tasksettings", o)) /\ Once(toBroker[r], Msg("taskoffer", o))
    BY <1>1, <1>2, NotThere
  <2> QED BY <1>2, <1>3, <2>1, <2>2, <2>3
          DEF OfferLife, Addressed, Fresh, SettingsOnce, Spent, Started
<1>8. AttemptInv /\ RequestInv
  BY DEF AttemptInv, OneAttempt, RequestInv, RequesterNotAbandoned
<1>9. NotOvercommitted
  <2> SUFFICES ASSUME NEW r \in Runner
               PROVE  Cardinality(openOffers[r]) + Cardinality(RunningTasks(r)) <= MaxConcurrency
    BY DEF NotOvercommitted
  <2>1. openOffers[r] = {} /\ RunningTasks(r) = {}
    BY DEF RunningTasks
  <2>2. Cardinality(openOffers[r]) = 0 /\ Cardinality(RunningTasks(r)) = 0
    BY <2>1, FS_EmptySet
  <2> QED BY <2>2, Slots
<1> QED BY <1>4, <1>5, <1>6, <1>7, <1>8, <1>9, BrokerTypes DEF BrokerInv

LEMMA BrokerStutters ==
  ASSUME BrokerInv, UNCHANGED vars
  PROVE  BrokerInv'
<1>1. UNCHANGED runnerVars /\ UNCHANGED brokerVars
  BY DEF vars
<1>2. UNCHANGED <<knownRunners, pendingTaskOffers, matched, tasks, timed>> /\ UNCHANGED accept
      /\ UNCHANGED <<accept, matched, acceptInProgress>> /\ UNCHANGED <<request, pendingTaskRequests>>
      /\ UNCHANGED isDraining
  BY <1>1 DEF brokerVars
<1>3. RunnerInv'
  BY <1>1, <1>2, OnlyRequestsChange
<1>4. BrokerTypeOK'
  BY <1>2 DEF BrokerInv, TypeOK, BrokerTypeOK
<1>5. AttemptInv'
  BY <1>2, AttemptsKept DEF BrokerInv
<1>6. RequestInv'
  BY <1>2, RequestsKept DEF BrokerInv
<1> QED BY <1>3, <1>4, <1>5, <1>6, BrokerQED

LEMMA BrokerInvariant == Spec => []BrokerInv
<1>1. Init => BrokerInv
  BY BrokerInit
<1>2. BrokerInv /\ [Next]_vars => BrokerInv'
  BY RunnerSideKeeps, BrokerSideKeeps, BrokerStutters DEF Next
<1> QED BY <1>1, <1>2, PTL DEF Spec

-----------------------------------------------------------------------------
(* The theorems.                                                            *)

\* The variables of runners, connections, broker and requester keep their types:
\* every message on its way is one its receiver's switch on the type handles.
THEOREM BrokerTypeCorrect == Spec => []TypeOK
<1>1. BrokerInv => TypeOK
  BY DEF BrokerInv
<1> QED BY <1>1, BrokerInvariant, PTL

\* sendOffers and offerAccepted keep a runner within maxConcurrency: its open
\* offers and its tasks never take more slots than it has.
THEOREM NeverOvercommitted == Spec => []NotOvercommitted
<1>1. BrokerInv => NotOvercommitted
  BY DEF BrokerInv
<1> QED BY <1>1, BrokerInvariant, PTL

\* A call of startTask that waits for a task id is in the broker's queue, one
\* that waits for its result has a task with a running timer: whatever message
\* is lost, something is left that settles the call.
THEOREM RequesterNeverAbandoned == Spec => []RequesterNotAbandoned
<1>1. BrokerInv => RequesterNotAbandoned
  BY DEF BrokerInv, RequestInv
<1> QED BY <1>1, BrokerInvariant, PTL

\* The acceptInProgress flag of settleTasks does its work: no two acceptOffer
\* calls for one request are waiting for an answer.
THEOREM OneAttemptAlways == Spec => []OneAttempt
<1>1. BrokerInv => OneAttempt
  BY DEF BrokerInv, AttemptInv
<1> QED BY <1>1, BrokerInvariant, PTL

\* receivedSettings never meets the states its comment says "should never
\* happen": settings on their way are for a task that waits for them or is gone.
THEOREM SettingsAlwaysAwaited == Spec => []SettingsWhenWaiting
<1>1. BrokerInv => SettingsWhenWaiting
  <2> SUFFICES ASSUME BrokerInv, NEW r \in Runner, NEW i \in DOMAIN toRunner[r],
                      toRunner[r][i].type = "tasksettings"
               PROVE  taskStatus[toRunner[r][i].id] \in {"none", "waitingForSettings"}
    BY DEF SettingsWhenWaiting
  <2> DEFINE x == toRunner[r][i]
  <2>1. toRunner[r] \in Seq(ToRunnerMsg) /\ taskStatus \in [Offer -> TaskStatus]
    BY DEF BrokerInv, TypeOK, RunnerTypeOK
  <2>2. x \in ToRunnerMsg
    BY <2>1
  <2>3. x = Msg("tasksettings", x.id) /\ x.id \in Offer \cup {0}
    BY <2>2 DEF ToRunnerMsg, Msg
  <2>4. ToR(r, "tasksettings", x.id)
    BY <2>3 DEF ToR, Has
  <2>5. x.id \in Offer
    BY <2>3, <2>4 DEF BrokerInv, NamesTask, TaskMsg
  <2>6. taskStatus[x.id] \notin Started
    BY <2>4, <2>5 DEF BrokerInv, OfferLife, SettingsOnce
  <2> QED BY <2>1, <2>5, <2>6 DEF TaskStatus, Started
<1> QED BY <1>1, BrokerInvariant, PTL

\* While a runner executes a task, the broker still waits for it, or the
\* cancellation that will abort it is on its way.
THEOREM NoZombieEver == Spec => []NoZombie
<1>1. BrokerInv => NoZombie
  <2> SUFFICES ASSUME BrokerInv, NEW t \in Offer, taskStatus[t] = "running"
               PROVE  t \in tasks \/ ToR(offeredBy[t], "taskcancel", t)
    BY DEF NoZombie, ToR, Has
  <2> QED BY DEF BrokerInv, OfferLife, Spent
<1> QED BY <1>1, BrokerInvariant, PTL

=============================================================================

--------------------------- MODULE ThrottleService ---------------------------
(***************************************************************************)
(* What the throttle promises to the calls of WorkflowRunner.run: a call is *)
(* admitted at once if a slot is free, else it waits in line, a slot that   *)
(* comes free goes to the first in line, and nobody drops out of the line   *)
(* except by being stopped. When a call that waits is stopped, the next one *)
(* is let in although no slot came free.                                    *)
(***************************************************************************)
EXTENDS Integers, Sequences, FiniteSets

CONSTANTS
  Call,
  Line,           \* the queues
  MaxConcurrent   \* the limit of each

VARIABLES
  inForce,   \* throttling is on; nothing is promised during a shutdown
  waiting,   \* the calls that wait, per queue
  admitted   \* the calls that hold a slot, per queue

NobodyWaits == [q \in Line |-> <<>>]
NobodyRuns == [q \in Line |-> {}]

Init == inForce = TRUE /\ waiting = NobodyWaits /\ admitted = NobodyRuns

First(s) == IF s = <<>> THEN {} ELSE {Head(s)}
Others(s) == IF s = <<>> THEN <<>> ELSE Tail(s)

IsIn(x, s) == \E i \in 1 .. Len(s) : s[i] = x

\* A call comes once, and passes nobody.
Arrive(r, q) ==
  /\ \A p \in Line : r \notin admitted[p] /\ ~IsIn(r, waiting[p])
  /\ IF waiting[q] = <<>> /\ Cardinality(admitted[q]) < MaxConcurrent[q]
     THEN admitted' = [admitted EXCEPT ![q] = @ \cup {r}] /\ UNCHANGED waiting
     ELSE waiting' = [waiting EXCEPT ![q] = Append(@, r)] /\ UNCHANGED admitted
  /\ inForce /\ UNCHANGED inForce

\* A call gives up its slot, to the first in line if there is one.
Leave(r, q) ==
  /\ r \in admitted[q]
  /\ admitted' = [admitted EXCEPT ![q] = (@ \ {r}) \cup First(waiting[q])]
  /\ waiting' = [waiting EXCEPT ![q] = Others(@)]
  /\ inForce /\ UNCHANGED inForce

\* The k-th in line is stopped.
Withdraw(q, k) ==
  LET rest == [i \in 1 .. Len(waiting[q]) - 1 |->
                 IF i < k THEN waiting[q][i] ELSE waiting[q][i + 1]]
  IN /\ k \in 1 .. Len(waiting[q])
     /\ admitted' = [admitted EXCEPT ![q] = @ \cup First(rest)]
     /\ waiting' = [waiting EXCEPT ![q] = Others(rest)]
     /\ inForce /\ UNCHANGED inForce

\* The process shuts down, or comes up again with nobody in it.
Reset ==
  /\ inForce' \in BOOLEAN
  /\ waiting' = NobodyWaits
  /\ admitted' = NobodyRuns

\* Somebody joins or leaves queue q.
Moves(q) == waiting'[q] # waiting[q] \/ admitted'[q] # admitted[q]

Next ==
  \/ \E q \in Line : /\ Moves(q)
                     /\ \/ \E r \in Call : Arrive(r, q) \/ Leave(r, q)
                        \/ \E k \in 1 .. Len(waiting[q]) : Withdraw(q, k)
  \/ Reset

Spec == Init /\ [][Next]_<<inForce, waiting, admitted>>
=============================================================================

------------------------ MODULE PartialExecutionProofs ------------------------
(***************************************************************************)
(* Proofs about PartialExecution for every workflow, run data and           *)
(* destination.                                                             *)
(***************************************************************************)
EXTENDS PartialExecution, FiniteSetTheorems, WellFoundedInduction, TLAPS

-----------------------------------------------------------------------------
(* Induction and recursion over 0 .. N, with sets and functions in place of *)
(* the operators of the library's theorems.                                 *)

\* A set of numbers with 0 and with the successors of its elements has them all.
LEMMA Induction ==
  ASSUME NEW P, 0 \in P, \A k \in P \cap Nat : k + 1 \in P
  PROVE  Nat \subseteq P
<1> SUFFICES ASSUME Nat \ P # {} PROVE FALSE
  OBVIOUS
<1>1. IsWellFoundedOn(OpToRel(<, Nat), Nat)
  BY NatLessThanWellFounded
<1>2. OpToRel(<, Nat) = {p \in Nat \X Nat : p[1] < p[2]}
  BY Zenon DEF OpToRel
<1>3. IsWellFoundedOn({p \in Nat \X Nat : p[1] < p[2]}, Nat)
  BY <1>1, <1>2, Zenon
<1>4. PICK k \in Nat \ P : \A j \in Nat \ P : <<j, k>> \notin {p \in Nat \X Nat : p[1] < p[2]}
  BY <1>3, WFMin
<1>5. \A j \in Nat \ P : ~(j < k)
  BY <1>4
<1>6. k # 0 /\ k - 1 \in Nat
  BY <1>4
<1>7. k - 1 \in P \cap Nat
  BY <1>5, <1>6
<1>8. (k - 1) + 1 \in P
  BY <1>7
<1> QED
  BY <1>4, <1>8

\* The same up to N.
LEMMA UpTo ==
  ASSUME NEW N \in Nat, NEW P, 0 \in P, \A k \in 0 .. N : k \in P /\ k < N => k + 1 \in P
  PROVE  0 .. N \subseteq P
<1> DEFINE Q == {k \in Nat : k <= N => k \in P}
<1>1. 0 \in Q /\ \A k \in Q \cap Nat : k + 1 \in Q
  OBVIOUS
<1>2. Nat \subseteq Q
  <2> HIDE DEF Q
  <2> QED
    BY <1>1, Induction
<1> QED
  BY <1>2

\* h is the course of a loop from x on, with step F[i] in round i.
Steps(N, S) == [1 .. N -> [S -> S]]
Loop(h, x, F, N) == h[0] = x /\ \A i \in 1 .. N : h[i] = F[i][h[i - 1]]

\* Every loop has a course.
LEMMA Recursion ==
  ASSUME NEW S, NEW x \in S, NEW N \in Nat, NEW F \in Steps(N, S)
  PROVE  \E h \in [0 .. N -> S] : Loop(h, x, F, N)
<1> USE DEF Steps, Loop
<1> DEFINE Good(k, h) == h[0] = x /\ \A i \in 1 .. k : h[i] = F[i][h[i - 1]]
           P == {k \in Nat : k <= N => \E h \in [0 .. k -> S] : Good(k, h)}
<1>1. 0 \in P
  <2> DEFINE h == [i \in 0 .. 0 |-> x]
  <2>1. h \in [0 .. 0 -> S]
    OBVIOUS
  <2>2. Good(0, h)
    OBVIOUS
  <2> HIDE DEF h
  <2> QED
    BY <2>1, <2>2
<1>2. ASSUME NEW k \in P \cap Nat PROVE k + 1 \in P
  <2>1. CASE k + 1 <= N
    <3>1. PICK h \in [0 .. k -> S] : Good(k, h)
      BY <1>2, <2>1
    <3> DEFINE g == [i \in 0 .. k + 1 |-> IF i = k + 1 THEN F[k + 1][h[k]] ELSE h[i]]
    <3>3. F[k + 1][h[k]] \in S
      BY <2>1
    <3>4. g \in [0 .. k + 1 -> S]
      BY <3>3
    <3>5. g[k + 1] = F[k + 1][g[k]] /\ (k + 1) - 1 = k
      OBVIOUS
    <3>6. \A i \in 0 .. k : g[i] = h[i]
      OBVIOUS
    <3> HIDE DEF g
    <3>7. g[0] = x /\ \A i \in 1 .. k : g[i] = F[i][g[i - 1]]
      BY <3>1, <3>6
    <3>8. ASSUME NEW i \in 1 .. k + 1 PROVE g[i] = F[i][g[i - 1]]
      <4>1. i \in 1 .. k \/ i = k + 1
        OBVIOUS
      <4> QED
        BY <3>5, <3>7, <4>1
    <3>9. Good(k + 1, g)
      BY <3>7, <3>8
    <3> HIDE DEF Good
    <3> QED
      BY <3>4, <3>9
  <2>2. CASE ~(k + 1 <= N)
    <3> HIDE DEF Good
    <3> QED
      BY <2>2
  <2> QED
    BY <2>1, <2>2
<1> HIDE DEF P
<1>3. N \in P
  BY <1>1, <1>2, Induction
<1> QED
  BY <1>3 DEF P

-----------------------------------------------------------------------------
(* Sequences built in a loop.                                               *)

\* What a sequence holds after another element was added.
LEMMA SeenAppended ==
  ASSUME NEW S, NEW s \in Seq(S), NEW x \in S
  PROVE  Append(s, x) \in Seq(S) /\ ToSet(Append(s, x)) = ToSet(s) \cup {x}
<1>1. Append(s, x) \in Seq(S) /\ Len(Append(s, x)) = Len(s) + 1
  OBVIOUS
<1>2. DOMAIN Append(s, x) = 1 .. Len(s) + 1 /\ DOMAIN s = 1 .. Len(s)
  BY <1>1
<1>3. \A i \in 1 .. Len(s) : Append(s, x)[i] = s[i]
  OBVIOUS
<1>4. Append(s, x)[Len(s) + 1] = x
  OBVIOUS
<1>5. 1 .. Len(s) + 1 = (1 .. Len(s)) \cup {Len(s) + 1}
  OBVIOUS
<1>6. ToSet(Append(s, x)) = ToSet(s) \cup {x}
  <2> DEFINE t == Append(s, x)
             n == Len(s) + 1
  <2>1. {t[i] : i \in 1 .. n} = {t[i] : i \in 1 .. Len(s)} \cup {t[n]}
    BY <1>5
  <2>2. {t[i] : i \in 1 .. Len(s)} = {s[i] : i \in 1 .. Len(s)}
    BY <1>3
  <2> HIDE DEF t, n
  <2> QED
    BY <1>2, <1>4, <2>1, <2>2 DEF ToSet, t, n
<1> QED
  BY <1>1, <1>6

\* The loop that Where is.
LEMMA WhereLoop ==
  ASSUME NEW S, NEW s \in Seq(S), NEW T
  PROVE  \E f : /\ Where(s, T) = f[Len(s)] /\ f[0] = <<>>
                /\ \A i \in 1 .. Len(s) :
                     f[i] = IF s[i] \in T THEN Append(f[i - 1], s[i]) ELSE f[i - 1]
<1> DEFINE N == Len(s)
           Good(h) == h = [i \in 0 .. N |->
                             IF i = 0 THEN <<>>
                             ELSE IF s[i] \in T THEN Append(h[i - 1], s[i]) ELSE h[i - 1]]
           f == CHOOSE h : Good(h)
           F == [i \in 1 .. N |->
                   [r \in Seq(S) |-> IF s[i] \in T THEN Append(r, s[i]) ELSE r]]
<1>1. Where(s, T) = f[N]
  BY Zenon DEF Where
<1>2. N \in Nat
  OBVIOUS
<1>3. Good(f)
  <2>1. F \in Steps(N, Seq(S))
    BY DEF Steps
  <2> HIDE DEF N
  <2>a. <<>> \in Seq(S)
    OBVIOUS
  <2>2. PICK h \in [0 .. N -> Seq(S)] : Loop(h, <<>>, F, N)
    <3> HIDE DEF F
    <3> QED
      BY <1>2, <2>1, <2>a, Recursion
  <2>3. \A i \in 1 .. N : i - 1 \in 0 .. N
    BY <1>2
  <2>4. \A i \in 1 .. N : F[i][h[i - 1]] = IF s[i] \in T THEN Append(h[i - 1], s[i]) ELSE h[i - 1]
    BY <2>3
  <2>5. Good(h)
    <3>1. \A i \in 0 .. N : i # 0 => i \in 1 .. N
      BY <1>2
    <3> HIDE DEF F
    <3> QED
      BY <2>2, <2>4, <3>1 DEF Loop
  <2> HIDE DEF Good
  <2> QED
    BY <2>5
<1> HIDE DEF f
<1>a. f[0] = <<>>
  BY <1>2, <1>3
<1>b. ASSUME NEW i \in 1 .. N
      PROVE  f[i] = IF s[i] \in T THEN Append(f[i - 1], s[i]) ELSE f[i - 1]
  <2>1. i \in 0 .. N /\ i # 0
    BY <1>2
  <2> QED
    BY <1>3, <2>1
<1> HIDE DEF N, F, Good
<1> QED
  BY <1>1, <1>a, <1>b DEF N

\* Where keeps exactly the elements that are in the set.
LEMMA WhereKeeps ==
  ASSUME NEW S, NEW s \in Seq(S), NEW T
  PROVE  Where(s, T) \in Seq(S) /\ ToSet(Where(s, T)) = ToSet(s) \cap T
<1> DEFINE N == Len(s)
<1>1. PICK f : /\ Where(s, T) = f[N] /\ f[0] = <<>>
               /\ \A i \in 1 .. N :
                    f[i] = IF s[i] \in T THEN Append(f[i - 1], s[i]) ELSE f[i - 1]
  BY WhereLoop
<1>2. N \in Nat
  OBVIOUS
<1> HIDE DEF N
<1> DEFINE P == {k \in 0 .. N : f[k] \in Seq(S) /\ ToSet(f[k]) = {s[i] : i \in 1 .. k} \cap T}
<1>4. 0 \in P
  <2>2. ToSet(<<>>) = {} /\ {s[i] : i \in 1 .. 0} = {} /\ <<>> \in Seq(S)
    BY DEF ToSet
  <2>3. f[0] \in Seq(S) /\ ToSet(f[0]) = {s[i] : i \in 1 .. 0} \cap T
    BY <1>1, <2>2
  <2>4. 0 \in 0 .. N
    BY <1>2
  <2> QED
    BY <2>3, <2>4
<1>5. ASSUME NEW k \in 0 .. N, k \in P, k < N PROVE k + 1 \in P
  <2>1. k + 1 \in 1 .. N /\ (k + 1) - 1 = k /\ k + 1 # 0
    BY <1>2, <1>5
  <2>2. f[k + 1] = IF s[k + 1] \in T THEN Append(f[k], s[k + 1]) ELSE f[k]
    BY <1>1, <2>1
  <2>3. f[k] \in Seq(S) /\ ToSet(f[k]) = {s[i] : i \in 1 .. k} \cap T
    BY <1>5
  <2>4. s[k + 1] \in S
    BY <2>1 DEF N
  <2>5. {s[i] : i \in 1 .. k + 1} = {s[i] : i \in 1 .. k} \cup {s[k + 1]}
    <3>1. 1 .. k + 1 = (1 .. k) \cup {k + 1}
      OBVIOUS
    <3> QED
      BY <3>1
  <2>6. CASE s[k + 1] \in T
    <3>1. f[k + 1] \in Seq(S) /\ ToSet(f[k + 1]) = ToSet(f[k]) \cup {s[k + 1]}
      BY <2>2, <2>3, <2>4, <2>6, SeenAppended
    <3> QED
      BY <2>1, <2>3, <2>5, <2>6, <3>1
  <2>7. CASE s[k + 1] \notin T
    BY <2>1, <2>2, <2>3, <2>5, <2>7
  <2> QED
    BY <2>6, <2>7
<1>6. ToSet(s) = {s[i] : i \in 1 .. N}
  BY DEF ToSet, N
<1>7. N \in P
  <2> HIDE DEF P
  <2> QED
    <3>1. 0 .. N \subseteq P
      BY <1>2, <1>4, <1>5, UpTo
    <3> QED
      BY <1>2, <3>1
<1> QED
  BY <1>1, <1>6, <1>7

LEMMA SeenAddedOnce ==
  ASSUME NEW S, NEW s \in Seq(S), NEW x \in S
  PROVE  AddOnce(s, x) \in Seq(S) /\ ToSet(AddOnce(s, x)) = ToSet(s) \cup {x}
<1>1. CASE Contains(s, x)
  BY <1>1 DEF AddOnce, Contains, ToSet
<1>2. CASE ~Contains(s, x)
  BY <1>2, SeenAppended DEF AddOnce
<1> QED
  BY <1>1, <1>2

\* AddAll holds what was there and what was added.
LEMMA SeenAddedAll ==
  ASSUME NEW S, NEW s \in Seq(S), NEW t \in Seq(S)
  PROVE  AddAll(s, t) \in Seq(S) /\ ToSet(AddAll(s, t)) = ToSet(s) \cup ToSet(t)
<1> DEFINE N == Len(t)
           Good(h) == h = [i \in 0 .. N |-> IF i = 0 THEN s ELSE AddOnce(h[i - 1], t[i])]
           f == CHOOSE h : Good(h)
           F == [i \in 1 .. N |-> [r \in Seq(S) |-> AddOnce(r, t[i])]]
<1>1. AddAll(s, t) = f[N]
  BY Zenon DEF AddAll
<1>2. N \in Nat /\ \A i \in 1 .. N : t[i] \in S
  OBVIOUS
<1>3. Good(f)
  <2> HIDE DEF N
  <2>1. F \in Steps(N, Seq(S))
    BY <1>2, SeenAddedOnce DEF Steps
  <2>2. PICK h \in [0 .. N -> Seq(S)] : Loop(h, s, F, N)
    <3> HIDE DEF F
    <3> QED
      BY <1>2, <2>1, Recursion
  <2>3. \A i \in 1 .. N : i - 1 \in 0 .. N
    BY <1>2
  <2>4. \A i \in 1 .. N : F[i][h[i - 1]] = AddOnce(h[i - 1], t[i])
    BY <2>3
  <2>5. Good(h)
    <3>1. \A i \in 0 .. N : i # 0 => i \in 1 .. N
      BY <1>2
    <3> HIDE DEF F
    <3> QED
      BY <2>2, <2>4, <3>1 DEF Loop
  <2> HIDE DEF Good
  <2> QED
    BY <2>5
<1> HIDE DEF f
<1>4. f[0] = s
  BY <1>2, <1>3
<1>5. ASSUME NEW i \in 1 .. N PROVE f[i] = AddOnce(f[i - 1], t[i])
  <2>1. i \in 0 .. N /\ i # 0
    BY <1>2
  <2> QED
    BY <1>3, <2>1
<1> HIDE DEF N, F, Good
<1> DEFINE First(k) == {t[i] : i \in 1 .. k}
           P == {k \in 0 .. N : f[k] \in Seq(S) /\ ToSet(f[k]) = ToSet(s) \cup First(k)}
<1>6. 0 \in P
  <2>1. First(0) = {}
    OBVIOUS
  <2>2. f[0] \in Seq(S) /\ ToSet(f[0]) = ToSet(s) \cup First(0)
    BY <1>4, <2>1
  <2>3. 0 \in 0 .. N
    BY <1>2
  <2> QED
    BY <2>2, <2>3
<1>7. ASSUME NEW k \in 0 .. N, k \in P, k < N PROVE k + 1 \in P
  <2>1. k + 1 \in 1 .. N /\ (k + 1) - 1 = k
    BY <1>2, <1>7
  <2>2. f[k + 1] = AddOnce(f[k], t[k + 1])
    BY <1>5, <2>1
  <2>3. f[k] \in Seq(S) /\ ToSet(f[k]) = ToSet(s) \cup First(k)
    BY <1>7
  <2>4. t[k + 1] \in S
    BY <1>2, <2>1
  <2>5. First(k + 1) = First(k) \cup {t[k + 1]}
    <3>1. 1 .. k + 1 = (1 .. k) \cup {k + 1}
      OBVIOUS
    <3> QED
      BY <3>1
  <2>6. f[k + 1] \in Seq(S) /\ ToSet(f[k + 1]) = ToSet(f[k]) \cup {t[k + 1]}
    <3> DEFINE r == f[k]
               y == t[k + 1]
    <3>1. r \in Seq(S) /\ y \in S /\ f[k + 1] = AddOnce(r, y)
      BY <2>2, <2>3, <2>4
    <3> HIDE DEF r, y
    <3>2. f[k + 1] \in Seq(S) /\ ToSet(f[k + 1]) = ToSet(r) \cup {y}
      BY <3>1, SeenAddedOnce
    <3> QED
      BY <3>2 DEF r, y
  <2> HIDE DEF First
  <2>7. ToSet(f[k + 1]) = ToSet(s) \cup First(k + 1)
    BY <2>3, <2>5, <2>6
  <2>8. k + 1 \in 0 .. N
    BY <2>1
  <2> QED
    BY <2>6, <2>7, <2>8
<1>8. ToSet(t) = First(N)
  BY DEF ToSet, N
<1>9. N \in P
  <2> HIDE DEF P
  <2>1. 0 .. N \subseteq P
    BY <1>2, <1>6, <1>7, UpTo
  <2> QED
    BY <1>2, <2>1
<1> QED
  BY <1>1, <1>8, <1>9

-----------------------------------------------------------------------------
(* getChildren finds the nodes that can be reached: the least set that holds *)
(* the ends of all connections from the node and from the set.              *)

Ends(g) == {c.to : c \in ToSet(g.conns)}
Ahead(g, n, R) == {c.to : c \in From(g, {n} \cup R)}

\* A graph has at most as many ends as connections.
LEMMA EndsBounded ==
  ASSUME NEW g, NEW S, g.conns \in Seq(S)
  PROVE  /\ IsFiniteSet(Ends(g)) /\ Len(g.conns) \in Nat
         /\ Cardinality(Ends(g)) \in Nat /\ Cardinality(Ends(g)) <= Len(g.conns)
<1> DEFINE N == Len(g.conns)
           f == [i \in 1 .. N |-> g.conns[i].to]
<1>1. N \in Nat /\ DOMAIN g.conns = 1 .. N
  OBVIOUS
<1>2. Ends(g) = {f[i] : i \in 1 .. N}
  BY <1>1 DEF Ends, ToSet
<1>3. f \in Surjection(1 .. N, Ends(g))
  <2>1. f \in [1 .. N -> Ends(g)]
    BY <1>2
  <2>2. \A e \in Ends(g) : \E i \in 1 .. N : f[i] = e
    BY <1>2
  <2> HIDE DEF f, N
  <2> QED
    BY <2>1, <2>2 DEF Surjection
<1> HIDE DEF f, N
<1>4. IsFiniteSet(1 .. N) /\ Cardinality(1 .. N) = N
  BY <1>1, FS_Interval
<1>5. IsFiniteSet(Ends(g)) /\ Cardinality(Ends(g)) <= N
  BY <1>3, <1>4, FS_Surjection
<1> QED
  BY <1>1, <1>5, FS_CardinalityType DEF N

LEMMA AheadGrows ==
  ASSUME NEW g, NEW n, NEW R, NEW T, R \subseteq T
  PROVE  Ahead(g, n, R) \subseteq Ahead(g, n, T) /\ Ahead(g, n, R) \subseteq Ends(g)
BY DEF Ahead, Ends, From

LEMMA ChildrenAreReached ==
  ASSUME NEW g, NEW S, g.conns \in Seq(S), NEW n
  PROVE  /\ Ahead(g, n, GetChildren(g, n)) = GetChildren(g, n)
         /\ \A T : Ahead(g, n, T) \subseteq T => GetChildren(g, n) \subseteq T
<1> DEFINE N == Len(g.conns)
           Good(h) == h = [k \in 0 .. N |->
                             IF k = 0 THEN {} ELSE {c.to : c \in From(g, {n} \cup h[k - 1])}]
           f == CHOOSE h : Good(h)
           F == [k \in 1 .. N |-> [R \in SUBSET Ends(g) |-> Ahead(g, n, R)]]
<1>1. GetChildren(g, n) = f[N]
  BY Zenon DEF GetChildren
<1>2. N \in Nat
  OBVIOUS
<1>3. Good(f)
  <2> HIDE DEF N
  <2>1. F \in Steps(N, SUBSET Ends(g))
    BY AheadGrows DEF Steps
  <2>2. PICK h \in [0 .. N -> SUBSET Ends(g)] : Loop(h, {}, F, N)
    <3> HIDE DEF F
    <3>1. {} \in SUBSET Ends(g)
      OBVIOUS
    <3> QED
      BY <1>2, <2>1, <3>1, Recursion
  <2>3. \A k \in 1 .. N : k - 1 \in 0 .. N
    BY <1>2
  <2>4. \A k \in 1 .. N : F[k][h[k - 1]] = {c.to : c \in From(g, {n} \cup h[k - 1])}
    BY <2>3 DEF Ahead
  <2>5. Good(h)
    <3>1. \A k \in 0 .. N : k # 0 => k \in 1 .. N
      BY <1>2
    <3> HIDE DEF F
    <3> QED
      BY <2>2, <2>4, <3>1 DEF Loop
  <2> HIDE DEF Good
  <2> QED
    BY <2>5
<1> HIDE DEF f
<1>4. f[0] = {}
  BY <1>2, <1>3
<1>5. ASSUME NEW k \in 1 .. N PROVE f[k] = Ahead(g, n, f[k - 1])
  <2>1. k \in 0 .. N /\ k # 0
    BY <1>2
  <2> QED
    BY <1>3, <2>1 DEF Ahead
<1> HIDE DEF N, F, Good
<1>6. ASSUME NEW T, Ahead(g, n, T) \subseteq T PROVE f[N] \subseteq T
  <2> DEFINE P == {k \in 0 .. N : f[k] \subseteq T}
  <2>1. 0 \in P
    BY <1>2, <1>4
  <2>2. ASSUME NEW k \in 0 .. N, k \in P, k < N PROVE k + 1 \in P
    <3>1. k + 1 \in 1 .. N /\ (k + 1) - 1 = k
      BY <1>2, <2>2
    <3>2. f[k + 1] = Ahead(g, n, f[k])
      BY <1>5, <3>1
    <3>3. f[k + 1] \subseteq T
      BY <1>6, <2>2, <3>2, AheadGrows
    <3> QED
      BY <3>1, <3>3
  <2>3. 0 .. N \subseteq P
    <3> HIDE DEF P
    <3> QED
      BY <1>2, <2>1, <2>2, UpTo
  <2> QED
    BY <1>2, <2>3
<1>7. Ahead(g, n, f[N]) = f[N]
  <2> DEFINE Grown(k) == /\ f[k] \subseteq Ends(g) /\ f[k] \subseteq Ahead(g, n, f[k])
                         /\ Ahead(g, n, f[k]) = f[k] \/ Cardinality(f[k]) >= k
             P == {k \in 0 .. N : Grown(k)}
  <2>a. IsFiniteSet(Ends(g)) /\ Cardinality(Ends(g)) \in Nat /\ Cardinality(Ends(g)) <= N
    BY EndsBounded DEF N
  <2>1. 0 \in P
    <3>1. Cardinality({}) = 0
      BY FS_EmptySet
    <3>2. Cardinality(f[0]) >= 0 /\ f[0] \subseteq Ends(g) /\ f[0] \subseteq Ahead(g, n, f[0])
      BY <1>4, <3>1
    <3>3. 0 \in 0 .. N
      BY <1>2
    <3> QED
      BY <3>2, <3>3
  <2>2. ASSUME NEW k \in 0 .. N, k \in P, k < N PROVE k + 1 \in P
    <3>1. k + 1 \in 1 .. N /\ (k + 1) - 1 = k
      BY <1>2, <2>2
    <3>2. f[k + 1] = Ahead(g, n, f[k])
      BY <1>5, <3>1
    <3>3. Grown(k)
      BY <2>2
    <3>4. f[k] \subseteq f[k + 1] /\ f[k + 1] \subseteq Ends(g)
      BY <3>2, <3>3, AheadGrows
    <3>5. f[k + 1] \subseteq Ahead(g, n, f[k + 1])
      BY <3>2, <3>4, AheadGrows
    <3>6. CASE Ahead(g, n, f[k]) = f[k]
      BY <3>1, <3>2, <3>3, <3>6
    <3>7. CASE Ahead(g, n, f[k]) # f[k]
      <4>1. Cardinality(f[k]) >= k /\ f[k] # f[k + 1]
        BY <3>2, <3>3, <3>7
      <4>2. IsFiniteSet(f[k + 1]) /\ IsFiniteSet(f[k])
        BY <2>a, <3>3, <3>4, FS_Subset
      <4>3. Cardinality(f[k]) \in Nat /\ Cardinality(f[k + 1]) \in Nat
        BY <4>2, FS_CardinalityType
      <4>4. Cardinality(f[k]) <= Cardinality(f[k + 1]) /\ Cardinality(f[k + 1]) # Cardinality(f[k])
        BY <3>4, <4>1, <4>2, FS_Subset
      <4>5. Cardinality(f[k + 1]) >= k + 1
        BY <4>1, <4>3, <4>4
      <4> QED
        BY <3>1, <3>4, <3>5, <4>5
    <3> QED
      BY <3>6, <3>7
  <2>3. Grown(N)
    <3>1. 0 .. N \subseteq P
      <4> HIDE DEF P
      <4> QED
        BY <1>2, <2>1, <2>2, UpTo
    <3> QED
      BY <1>2, <3>1
  <2>4. CASE Cardinality(f[N]) >= N
    <3>1. Cardinality(f[N]) <= Cardinality(Ends(g)) /\ Cardinality(f[N]) \in Nat
      BY <2>a, <2>3, FS_Subset, FS_CardinalityType
    <3>2. Cardinality(f[N]) = Cardinality(Ends(g))
      BY <1>2, <2>a, <2>4, <3>1
    <3>3. f[N] = Ends(g)
      BY <2>a, <2>3, <3>2, FS_Subset
    <3>4. Ahead(g, n, f[N]) \subseteq Ends(g)
      BY AheadGrows
    <3> QED
      BY <2>3, <3>3, <3>4
  <2> QED
    BY <2>3, <2>4
<1> QED
  BY <1>1, <1>6, <1>7

-----------------------------------------------------------------------------
(* removeNode with reconnectConnections.                                    *)

\* The connections that go past a removed node n.
Past(g, n) ==
  {Joined(c, d) : c \in Into(g, {n}) \cap Main(g), d \in From(g, {n}) \cap Main(g)}
Aside(g, n) == ToSet(g.conns) \ (From(g, {n}) \cup Into(g, {n}))

LEMMA JoinedType ==
  ASSUME NEW c \in Connection, NEW d \in Connection
  PROVE  /\ Joined(c, d) \in Connection
         /\ Joined(c, d).from = c.from /\ Joined(c, d).to = d.to /\ Joined(c, d).type = c.type
BY DEF Joined, Connection

\* One connection joined to each of a sequence.
LEMMA JoinedToAll ==
  ASSUME NEW c \in Connection, NEW t \in Seq(Connection)
  PROVE  LET r == [j \in DOMAIN t |-> Joined(c, t[j])]
         IN r \in Seq(Connection) /\ ToSet(r) = {Joined(c, d) : d \in ToSet(t)}
<1> DEFINE r == [j \in DOMAIN t |-> Joined(c, t[j])]
<1>1. DOMAIN t = 1 .. Len(t) /\ Len(t) \in Nat /\ \A j \in 1 .. Len(t) : t[j] \in Connection
  OBVIOUS
<1>2. r \in [1 .. Len(t) -> Connection]
  BY <1>1, JoinedType
<1>3. r \in Seq(Connection)
  <2> HIDE DEF r
  <2> QED
    BY <1>1, <1>2
<1>4. DOMAIN r = DOMAIN t /\ \A j \in DOMAIN t : r[j] = Joined(c, t[j])
  OBVIOUS
<1>5. ToSet(r) = {Joined(c, d) : d \in ToSet(t)}
  <2> HIDE DEF r
  <2> QED
    BY <1>4 DEF ToSet
<1> QED
  BY <1>3, <1>5

LEMMA RemovedNodeIsPassed ==
  ASSUME NEW g \in Graph, NEW n
  PROVE  /\ RemoveNode(g, n) \in Graph
         /\ ToSet(RemoveNode(g, n).conns) = Aside(g, n) \cup Past(g, n)
<1> DEFINE A == Where(g.conns, Into(g, {n}) \cap Main(g))
           B == Where(g.conns, From(g, {n}) \cap Main(g))
           K == Where(g.conns, ToSet(g.conns) \ (From(g, {n}) \cup Into(g, {n})))
           N == Len(A)
           Good(h) == h = [i \in 0 .. N |->
                             IF i = 0 THEN K
                             ELSE AddAll(h[i - 1], [j \in DOMAIN B |-> Joined(A[i], B[j])])]
           f == CHOOSE h : Good(h)
           Row(i) == [j \in DOMAIN B |-> Joined(A[i], B[j])]
           F == [i \in 1 .. N |-> [r \in Seq(Connection) |-> AddAll(r, Row(i))]]
<1>1. RemoveNode(g, n) = [nodes |-> Where(g.nodes, ToSet(g.nodes) \ {n}), conns |-> f[N]]
  BY Zenon DEF RemoveNode
<1>2. g.conns \in Seq(Connection) /\ g.nodes \in Seq(Node)
  BY DEF Graph
<1>3. /\ A \in Seq(Connection) /\ ToSet(A) = Into(g, {n}) \cap Main(g)
      /\ B \in Seq(Connection) /\ ToSet(B) = From(g, {n}) \cap Main(g)
      /\ K \in Seq(Connection) /\ ToSet(K) = Aside(g, n)
  BY <1>2, WhereKeeps DEF Into, From, Main, Aside
<1> HIDE DEF A, B, K
<1>4. N \in Nat /\ \A i \in 1 .. N : A[i] \in Connection
  BY <1>3
<1>5. ASSUME NEW i \in 1 .. N
      PROVE  Row(i) \in Seq(Connection) /\ ToSet(Row(i)) = {Joined(A[i], d) : d \in ToSet(B)}
  BY <1>3, <1>4, JoinedToAll
<1>6. Good(f)
  <2>1. F \in Steps(N, Seq(Connection))
    <3>1. ASSUME NEW i \in 1 .. N, NEW r \in Seq(Connection)
          PROVE  AddAll(r, Row(i)) \in Seq(Connection)
      <4> HIDE DEF Row
      <4> QED
        BY <1>5, SeenAddedAll
    <3> HIDE DEF Row, N
    <3> QED
      BY <3>1 DEF Steps
  <2> HIDE DEF N
  <2>2. PICK h \in [0 .. N -> Seq(Connection)] : Loop(h, K, F, N)
    <3> HIDE DEF F
    <3> QED
      BY <1>3, <1>4, <2>1, Recursion
  <2>3. \A i \in 1 .. N : i - 1 \in 0 .. N
    BY <1>4
  <2>4. \A i \in 1 .. N : F[i][h[i - 1]] = AddAll(h[i - 1], Row(i))
    <3> HIDE DEF Row
    <3> QED
      BY <2>3
  <2>5. Good(h)
    <3>1. \A i \in 0 .. N : i # 0 => i \in 1 .. N
      BY <1>4
    <3> HIDE DEF F
    <3> QED
      BY <2>2, <2>4, <3>1 DEF Loop
  <2> HIDE DEF Good
  <2> QED
    BY <2>5
<1> HIDE DEF f
<1>7. f[0] = K
  BY <1>4, <1>6
<1>8. ASSUME NEW i \in 1 .. N PROVE f[i] = AddAll(f[i - 1], Row(i))
  <2>1. i \in 0 .. N /\ i # 0
    BY <1>4
  <2> QED
    BY <1>6, <2>1
<1> HIDE DEF N, F, Good, Row
<1> DEFINE First(k) == {Joined(A[p[1]], p[2]) : p \in (1 .. k) \X ToSet(B)}
           P == {k \in 0 .. N : f[k] \in Seq(Connection) /\ ToSet(f[k]) = ToSet(K) \cup First(k)}
<1>9. 0 \in P
  <2>1. First(0) = {}
    OBVIOUS
  <2> HIDE DEF First
  <2>2. f[0] \in Seq(Connection) /\ ToSet(f[0]) = ToSet(K) \cup First(0)
    BY <1>3, <1>7, <2>1
  <2>3. 0 \in 0 .. N
    BY <1>4
  <2> QED
    BY <2>2, <2>3
<1>10. ASSUME NEW k \in 0 .. N, k \in P, k < N PROVE k + 1 \in P
  <2>1. k + 1 \in 1 .. N /\ (k + 1) - 1 = k
    BY <1>4, <1>10
  <2>2. f[k + 1] = AddAll(f[k], Row(k + 1))
    BY <1>8, <2>1
  <2>3. f[k] \in Seq(Connection) /\ ToSet(f[k]) = ToSet(K) \cup First(k)
    BY <1>10
  <2>4. First(k + 1) = First(k) \cup {Joined(A[k + 1], d) : d \in ToSet(B)}
    <3>1. 1 .. k + 1 = (1 .. k) \cup {k + 1}
      OBVIOUS
    <3>2. First(k + 1) \subseteq First(k) \cup {Joined(A[k + 1], d) : d \in ToSet(B)}
      BY <3>1
    <3>3. First(k) \subseteq First(k + 1)
      BY <3>1
    <3>4. ASSUME NEW d \in ToSet(B) PROVE Joined(A[k + 1], d) \in First(k + 1)
      <4>1. <<k + 1, d>> \in (1 .. k + 1) \X ToSet(B)
        OBVIOUS
      <4> QED
        BY <4>1
    <3> HIDE DEF First
    <3> QED
      BY <3>2, <3>3, <3>4
  <2> HIDE DEF First
  <2>5. f[k + 1] \in Seq(Connection) /\ ToSet(f[k + 1]) = ToSet(f[k]) \cup ToSet(Row(k + 1))
    <3> DEFINE r == f[k]
               y == Row(k + 1)
    <3>1. r \in Seq(Connection) /\ y \in Seq(Connection) /\ f[k + 1] = AddAll(r, y)
      BY <1>5, <2>1, <2>2, <2>3
    <3> HIDE DEF r, y
    <3>2. f[k + 1] \in Seq(Connection) /\ ToSet(f[k + 1]) = ToSet(r) \cup ToSet(y)
      BY <3>1, SeenAddedAll
    <3> QED
      BY <3>2 DEF r, y
  <2>6. ToSet(Row(k + 1)) = {Joined(A[k + 1], d) : d \in ToSet(B)}
    BY <1>5, <2>1
  <2>7. ToSet(f[k + 1]) = ToSet(K) \cup First(k + 1)
    BY <2>3, <2>4, <2>5, <2>6
  <2>8. k + 1 \in 0 .. N
    BY <2>1
  <2> QED
    BY <2>5, <2>7, <2>8
<1>11. f[N] \in Seq(Connection) /\ ToSet(f[N]) = ToSet(K) \cup First(N)
  <2>1. 0 .. N \subseteq P
    <3> HIDE DEF P
    <3> QED
      BY <1>4, <1>9, <1>10, UpTo
  <2> QED
    BY <1>4, <2>1
<1>12. First(N) = Past(g, n)
  <2>1. ToSet(A) = {A[i] : i \in 1 .. N}
    BY DEF ToSet, N
  <2>a. \A j : j \in Past(g, n) <=> \E c \in ToSet(A), d \in ToSet(B) : j = Joined(c, d)
    <3>1. \A j : j \in Past(g, n) <=> \E c \in Into(g, {n}) \cap Main(g),
                                        d \in From(g, {n}) \cap Main(g) : j = Joined(c, d)
      BY DEF Past
    <3> QED
      BY <1>3, <3>1, Zenon
  <2>2. ASSUME NEW p \in (1 .. N) \X ToSet(B) PROVE Joined(A[p[1]], p[2]) \in Past(g, n)
    BY <2>1, <2>a
  <2>3. ASSUME NEW c \in ToSet(A), NEW d \in ToSet(B) PROVE Joined(c, d) \in First(N)
    <3>1. PICK i \in 1 .. N : c = A[i]
      BY <2>1
    <3>2. <<i, d>> \in (1 .. N) \X ToSet(B)
      OBVIOUS
    <3> QED
      BY <3>1, <3>2
  <2>4. ASSUME NEW j \in First(N) PROVE j \in Past(g, n)
    <3>1. PICK p \in (1 .. N) \X ToSet(B) : j = Joined(A[p[1]], p[2])
      BY <2>4
    <3> QED
      BY <2>2, <3>1
  <2> HIDE DEF First
  <2>5. ASSUME NEW j \in Past(g, n) PROVE j \in First(N)
    <3>1. PICK c \in ToSet(A), d \in ToSet(B) : j = Joined(c, d)
      BY <2>5, <2>a, Zenon
    <3> QED
      BY <2>3, <3>1
  <2> QED
    BY <2>4, <2>5
<1>13. Where(g.nodes, ToSet(g.nodes) \ {n}) \in Seq(Node)
  BY <1>2, WhereKeeps
<1> HIDE DEF First
<1>14. RemoveNode(g, n) \in Graph
  BY <1>1, <1>11, <1>13 DEF Graph
<1>15. ToSet(RemoveNode(g, n).conns) = Aside(g, n) \cup Past(g, n)
  <2>1. RemoveNode(g, n).conns = f[N]
    BY <1>1
  <2> QED
    BY <1>3, <1>11, <1>12, <2>1
<1> QED
  BY <1>14, <1>15

-----------------------------------------------------------------------------
(* filterDisabledNodes leaves the ways between the other nodes as they were. *)

Edge(g, a, b) == \E c \in Main(g) : c.from = a /\ c.to = b
Reach(g, n) == GetChildren(MainOf(g), n)

\* Reach is the least set closed under edges from the node and from the set.
LEMMA ReachIsLeast ==
  ASSUME NEW g \in Graph, NEW n
  PROVE  /\ \A a \in {n} \cup Reach(g, n) : \A b : Edge(g, a, b) => b \in Reach(g, n)
         /\ \A T : (\A a \in {n} \cup T : \A b : Edge(g, a, b) => b \in T) => Reach(g, n) \subseteq T
<1> DEFINE m == MainOf(g)
<1>1. g.conns \in Seq(Connection)
  BY DEF Graph
<1>2. m.conns = Where(g.conns, Main(g))
  BY DEF MainOf, Graph
<1>3. m.conns \in Seq(Connection) /\ ToSet(m.conns) = Main(g)
  BY <1>1, <1>2, WhereKeeps DEF Main
<1> HIDE DEF m
<1>4. ASSUME NEW R, NEW b
      PROVE  b \in Ahead(m, n, R) <=> \E a \in {n} \cup R : Edge(g, a, b)
  BY <1>3 DEF Ahead, From, Edge
<1>5. /\ Ahead(m, n, GetChildren(m, n)) = GetChildren(m, n)
      /\ \A T : Ahead(m, n, T) \subseteq T => GetChildren(m, n) \subseteq T
  BY <1>3, ChildrenAreReached
<1>6. Reach(g, n) = GetChildren(m, n)
  BY DEF Reach, m
<1>7. \A a \in {n} \cup Reach(g, n) : \A b : Edge(g, a, b) => b \in Reach(g, n)
  BY <1>4, <1>5, <1>6
<1>8. ASSUME NEW T, \A a \in {n} \cup T : \A b : Edge(g, a, b) => b \in T
      PROVE  Reach(g, n) \subseteq T
  <2>1. Ahead(m, n, T) \subseteq T
    BY <1>4, <1>8
  <2> QED
    BY <1>5, <1>6, <2>1
<1> QED
  BY <1>7, <1>8

\* The edges once node x is removed: those aside, and those past it.
LEMMA EdgesPast ==
  ASSUME NEW g \in Graph, NEW x, NEW a, NEW b
  PROVE  Edge(RemoveNode(g, x), a, b) <=>
           \/ a # x /\ b # x /\ Edge(g, a, b)
           \/ Edge(g, a, x) /\ Edge(g, x, b)
<1> DEFINE h == RemoveNode(g, x)
<1>1. ToSet(h.conns) = Aside(g, x) \cup Past(g, x)
  BY RemovedNodeIsPassed
<1>2. \A c \in ToSet(g.conns) : c \in Connection
  BY DEF Graph, ToSet
<1> HIDE DEF h
<1>3. ASSUME Edge(h, a, b)
      PROVE  (a # x /\ b # x /\ Edge(g, a, b)) \/ (Edge(g, a, x) /\ Edge(g, x, b))
  <2>1. PICK e \in ToSet(h.conns) : IsMain(e) /\ e.from = a /\ e.to = b
    BY <1>3 DEF Edge, Main
  <2>2. CASE e \in Aside(g, x)
    BY <2>1, <2>2 DEF Aside, From, Into, Edge, Main
  <2>3. CASE e \in Past(g, x)
    <3>1. PICK c \in Into(g, {x}) \cap Main(g), d \in From(g, {x}) \cap Main(g) : e = Joined(c, d)
      BY <2>3 DEF Past
    <3>2. c \in Connection /\ d \in Connection
      BY <1>2 DEF Into, From
    <3>3. e.from = c.from /\ e.to = d.to
      BY <3>1, <3>2, JoinedType
    <3> QED
      BY <2>1, <3>1, <3>3 DEF Edge, Into, From
  <2> QED
    BY <1>1, <2>1, <2>2, <2>3
<1>4. ASSUME a # x, b # x, Edge(g, a, b) PROVE Edge(h, a, b)
  BY <1>1, <1>4 DEF Edge, Main, Aside, From, Into
<1>5. ASSUME Edge(g, a, x), Edge(g, x, b) PROVE Edge(h, a, b)
  <2>1. PICK c \in Main(g) : c.from = a /\ c.to = x
    BY <1>5 DEF Edge
  <2>2. PICK d \in Main(g) : d.from = x /\ d.to = b
    BY <1>5 DEF Edge
  <2>3. c \in Connection /\ d \in Connection
    BY <1>2 DEF Main
  <2>4. /\ c \in Into(g, {x}) \cap Main(g) /\ d \in From(g, {x}) \cap Main(g)
    BY <2>1, <2>2 DEF Into, From, Main
  <2>5. Joined(c, d) \in ToSet(h.conns)
    BY <1>1, <2>4 DEF Past
  <2>6. IsMain(Joined(c, d)) /\ Joined(c, d).from = a /\ Joined(c, d).to = b
    BY <2>1, <2>2, <2>3, JoinedType DEF IsMain, Main
  <2> QED
    BY <2>5, <2>6 DEF Edge, Main
<1> QED
  BY <1>3, <1>4, <1>5 DEF h

\* Between other nodes a node can be removed.
LEMMA RemovalKeepsWays ==
  ASSUME NEW g \in Graph, NEW x, NEW n, n # x
  PROVE  Reach(RemoveNode(g, x), n) \ {x} = Reach(g, n) \ {x}
<1> DEFINE h == RemoveNode(g, x)
           R == Reach(g, n)
           Q == Reach(h, n)
<1>1. h \in Graph
  BY RemovedNodeIsPassed
<1>2. \A a, b : Edge(h, a, b) <=> (a # x /\ b # x /\ Edge(g, a, b)) \/ (Edge(g, a, x) /\ Edge(g, x, b))
  BY EdgesPast
<1> HIDE DEF h
<1>3. /\ \A a \in {n} \cup R : \A b : Edge(g, a, b) => b \in R
      /\ \A T : (\A a \in {n} \cup T : \A b : Edge(g, a, b) => b \in T) => R \subseteq T
  BY ReachIsLeast
<1>4. /\ \A a \in {n} \cup Q : \A b : Edge(h, a, b) => b \in Q
      /\ \A T : (\A a \in {n} \cup T : \A b : Edge(h, a, b) => b \in T) => Q \subseteq T
  BY <1>1, ReachIsLeast
<1> HIDE DEF R, Q
<1>5. Q \subseteq R
  <2>1. \A a \in {n} \cup R : \A b : Edge(h, a, b) => b \in R
    BY <1>2, <1>3
  <2> QED
    BY <1>4, <2>1
<1>6. R \ {x} \subseteq Q
  <2> DEFINE entered == \E a \in ({n} \cup Q) \ {x} : Edge(g, a, x)
             T == (Q \ {x}) \cup (IF entered THEN {x} ELSE {})
  <2>1. ASSUME NEW a \in {n} \cup T, NEW b, Edge(g, a, b) PROVE b \in T
    <3>1. CASE a # x /\ b # x
      <4>1. a \in {n} \cup Q /\ Edge(h, a, b)
        BY <1>2, <2>1, <3>1
      <4> QED
        BY <1>4, <3>1, <4>1
    <3>2. CASE a # x /\ b = x
      BY <2>1, <3>2
    <3>3. CASE a = x
      <4>1. entered
        BY <3>3
      <4>2. PICK e \in ({n} \cup Q) \ {x} : Edge(g, e, x)
        BY <4>1
      <4>3. Edge(h, e, b)
        BY <1>2, <2>1, <3>3, <4>2
      <4>4. b \in Q
        BY <1>4, <4>2, <4>3
      <4> QED
        BY <4>1, <4>4
    <3> QED
      BY <3>1, <3>2, <3>3
  <2>2. R \subseteq T
    <3> HIDE DEF T
    <3> QED
      BY <1>3, <2>1
  <2> QED
    BY <2>2
<1> QED
  BY <1>5, <1>6 DEF R, Q, h

\* All disabled nodes can be removed.
LEMMA FilterKeepsWays ==
  ASSUME NEW g \in Graph
  PROVE  /\ FilterDisabledNodes(g) \in Graph
         /\ \A n : n \notin input.disabled =>
              Reach(FilterDisabledNodes(g), n) \ input.disabled = Reach(g, n) \ input.disabled
<1> DEFINE D == input.disabled
           off == Where(g.nodes, D)
           N == Len(off)
           Good(h) == h = [i \in 0 .. N |-> IF i = 0 THEN g ELSE RemoveNode(h[i - 1], off[i])]
           f == CHOOSE h : Good(h)
           F == [i \in 1 .. N |-> [r \in Graph |-> RemoveNode(r, off[i])]]
<1>1. FilterDisabledNodes(g) = f[N]
  BY Zenon DEF FilterDisabledNodes
<1>2. off \in Seq(Node) /\ ToSet(off) \subseteq D
  BY WhereKeeps DEF Graph
<1> HIDE DEF off
<1>3. N \in Nat /\ \A i \in 1 .. N : off[i] \in D
  BY <1>2 DEF ToSet
<1>4. Good(f)
  <2> HIDE DEF N
  <2>1. F \in Steps(N, Graph)
    BY RemovedNodeIsPassed DEF Steps
  <2>2. PICK h \in [0 .. N -> Graph] : Loop(h, g, F, N)
    <3> HIDE DEF F
    <3> QED
      BY <1>3, <2>1, Recursion
  <2>3. \A i \in 1 .. N : i - 1 \in 0 .. N
    BY <1>3
  <2>4. \A i \in 1 .. N : F[i][h[i - 1]] = RemoveNode(h[i - 1], off[i])
    BY <2>3
  <2>5. Good(h)
    <3>1. \A i \in 0 .. N : i # 0 => i \in 1 .. N
      BY <1>3
    <3> HIDE DEF F
    <3> QED
      BY <2>2, <2>4, <3>1 DEF Loop
  <2> HIDE DEF Good
  <2> QED
    BY <2>5
<1> HIDE DEF f
<1>5. f[0] = g
  BY <1>3, <1>4
<1>6. ASSUME NEW i \in 1 .. N PROVE f[i] = RemoveNode(f[i - 1], off[i])
  <2>1. i \in 0 .. N /\ i # 0
    BY <1>3
  <2> QED
    BY <1>4, <2>1
<1> HIDE DEF N, F, Good, D
<1> DEFINE Same(h) == \A n : n \notin D => Reach(h, n) \ D = Reach(g, n) \ D
           P == {k \in 0 .. N : f[k] \in Graph /\ Same(f[k])}
<1>7. 0 \in P
  BY <1>3, <1>5
<1>8. ASSUME NEW k \in 0 .. N, k \in P, k < N PROVE k + 1 \in P
  <2>1. k + 1 \in 1 .. N /\ (k + 1) - 1 = k
    BY <1>3, <1>8
  <2> DEFINE r == f[k]
             x == off[k + 1]
  <2>2. f[k + 1] = RemoveNode(r, x) /\ x \in D
    BY <1>3, <1>6, <2>1
  <2>3. r \in Graph /\ Same(r)
    BY <1>8
  <2> HIDE DEF r, x
  <2>4. f[k + 1] \in Graph
    BY <2>2, <2>3, RemovedNodeIsPassed
  <2>5. ASSUME NEW n, n \notin D PROVE Reach(f[k + 1], n) \ D = Reach(g, n) \ D
    <3>1. Reach(f[k + 1], n) \ {x} = Reach(r, n) \ {x}
      BY <2>2, <2>3, <2>5, RemovalKeepsWays
    <3> QED
      BY <2>2, <2>3, <2>5, <3>1
  <2> QED
    BY <2>1, <2>4, <2>5
<1>9. f[N] \in Graph /\ Same(f[N])
  <2>1. 0 .. N \subseteq P
    <3> HIDE DEF P
    <3> QED
      BY <1>3, <1>7, <1>8, UpTo
  <2> QED
    BY <1>3, <2>1
<1> QED
  BY <1>1, <1>9 DEF D

\* The workflow stays as it was given.
LEMMA InputInitial == Init => input.graph \in Graph
BY PartialAssumption DEF Init, Graph

LEMMA InputStays == [Next]_vars => UNCHANGED input
BY DEF Next, vars, FindTrigger, FindSubgraph, FindStartNodes, HandleCycles, Clean,
       RecreateNodeExecutionStack

\* In every workflow, whatever nodes are disabled, in chains, branches or loops:
\* filterDisabledNodes keeps which of the other nodes can be reached from which.
THEOREM DisabledNodesArePassed == Spec => []BypassKeepsWays
<1>1. Init => input.graph \in Graph
  BY InputInitial
<1>2. input.graph \in Graph /\ [Next]_vars => (input.graph \in Graph)'
  BY InputStays
<1>3. input.graph \in Graph => BypassKeepsWays
  BY FilterKeepsWays DEF BypassKeepsWays, Reach
<1> QED
  BY <1>1, <1>2, <1>3, PTL DEF Spec

-----------------------------------------------------------------------------
(* cleanRunData and the sources of the first nodes to run.                  *)

\* Nothing is left of what node n and the nodes below it made.
NothingBelow(n) == \A m \in {n} \cup GetChildren(graph, n) : ~HasData(runData, m)

DirtyNodes == {n \in input.dirty : HasNode(graph, n)}

\* What is deleted in step 3 for dirty nodes and in step 6 for start nodes stays
\* deleted until the stack is made of what is left.
DirtyCleaned ==
  stage \in {"start", "cycles", "clean", "ready"} => \A n \in DirtyNodes : NothingBelow(n)
StartCleaned ==
  stage \in {"clean", "ready"} => \A n \in ToSet(startNodes) : NothingBelow(n)
SourcesHaveData ==
  stage = "ready" => \A e \in stack \cup waiting : \A c \in e.from : HasSourceData(c)

Cleaned == DirtyCleaned /\ StartCleaned /\ SourcesHaveData

LEMMA CleanedBelow ==
  ASSUME NEW rd, NEW g, NEW ns, NEW n \in ns, NEW m \in {n} \cup GetChildren(g, n)
  PROVE  ~HasData(CleanRunData(rd, g, ns), m)
<1>1. m \in Outdated(g, ns)
  BY DEF Outdated
<1> QED
  BY <1>1 DEF HasData, CleanRunData, Restrict

\* No data comes back.
LEMMA CleanedStays ==
  ASSUME NEW rd, NEW g, NEW ns, NEW m, ~HasData(rd, m)
  PROVE  ~HasData(CleanRunData(rd, g, ns), m)
BY DEF HasData, CleanRunData, Restrict

LEMMA SourcesFromData ==
  ASSUME NEW n, NEW e \in StackOf(n) \cup WaitingOf(n), NEW c \in e.from
  PROVE  HasSourceData(c)
<1>1. CASE e \in StackOf(n)
  BY <1>1 DEF StackOf, Complete
<1>2. CASE e \in WaitingOf(n)
  BY <1>2 DEF WaitingOf, HadItems, HasSourceData
<1> QED
  BY <1>1, <1>2

LEMMA CleanedInitial == Init => Cleaned
BY DEF Init, Cleaned, DirtyCleaned, StartCleaned, SourcesHaveData

LEMMA CleanedStep == Cleaned /\ [Next]_vars => Cleaned'
<1> SUFFICES ASSUME Cleaned, [Next]_vars PROVE Cleaned'
  OBVIOUS
<1> USE DEF Cleaned
<1>1. CASE FindTrigger
  BY <1>1 DEF FindTrigger, Fails, DirtyCleaned, StartCleaned, SourcesHaveData
<1>2. CASE FindSubgraph
  BY <1>2 DEF FindSubgraph, Fails, DirtyCleaned, StartCleaned, SourcesHaveData
<1>3. CASE FindStartNodes
  <2>1. CASE stage' = "failed"
    BY <2>1 DEF DirtyCleaned, StartCleaned, SourcesHaveData
  <2>2. CASE stage' # "failed"
    <3>1. /\ runData' = CleanRunData(runData, graph, DirtyNodes)
          /\ stage' = "start" /\ UNCHANGED <<input, graph>>
      BY <1>3, <2>2 DEF FindStartNodes, Fails, DirtyNodes
    <3>2. ASSUME NEW n \in DirtyNodes PROVE NothingBelow(n)'
      BY <3>1, CleanedBelow DEF NothingBelow, HasData
    <3>3. DirtyNodes' = DirtyNodes
      BY <3>1 DEF DirtyNodes, HasNode
    <3> QED
      BY <3>1, <3>2, <3>3 DEF DirtyCleaned, StartCleaned, SourcesHaveData
  <2> QED
    BY <2>1, <2>2
<1>4. CASE HandleCycles
  <2>1. stage = "start" /\ stage' = "cycles" /\ UNCHANGED <<input, runData, graph>>
    BY <1>4 DEF HandleCycles
  <2>2. DirtyNodes' = DirtyNodes /\ \A n : NothingBelow(n) => NothingBelow(n)'
    BY <2>1 DEF DirtyNodes, HasNode, NothingBelow, HasData
  <2> QED
    BY <2>1, <2>2 DEF DirtyCleaned, StartCleaned, SourcesHaveData
<1>5. CASE Clean
  <2>1. CASE stage' = "failed"
    BY <2>1 DEF DirtyCleaned, StartCleaned, SourcesHaveData
  <2>2. CASE stage' # "failed"
    <3>1. /\ stage = "cycles" /\ runData' = CleanRunData(runData, graph, ToSet(startNodes))
          /\ stage' = "clean" /\ UNCHANGED <<input, graph, startNodes>>
      BY <1>5, <2>2 DEF Clean, Fails
    <3>2. ASSUME NEW n \in ToSet(startNodes) PROVE NothingBelow(n)'
      BY <3>1, CleanedBelow DEF NothingBelow, HasData
    <3>3. DirtyNodes' = DirtyNodes
      BY <3>1 DEF DirtyNodes, HasNode
    <3>4. ASSUME NEW n \in DirtyNodes PROVE NothingBelow(n)'
      <4>1. NothingBelow(n)
        BY <3>1 DEF DirtyCleaned
      <4> QED
        BY <3>1, <4>1, CleanedStays DEF NothingBelow, HasData
    <3> QED
      BY <3>1, <3>2, <3>3, <3>4 DEF DirtyCleaned, StartCleaned, SourcesHaveData
  <2> QED
    BY <2>1, <2>2
<1>6. CASE RecreateNodeExecutionStack /\ stage' = "failed"
  BY <1>6 DEF DirtyCleaned, StartCleaned, SourcesHaveData
<1>8. CASE RecreateNodeExecutionStack /\ stage' # "failed"
  <2>1. /\ stage = "clean" /\ stage' = "ready" /\ UNCHANGED <<input, runData, graph, startNodes>>
        /\ stack' = UNION {StackOf(n) : n \in ToSet(startNodes)}
        /\ waiting' = UNION {WaitingOf(n) : n \in ToSet(startNodes)}
    BY <1>8 DEF RecreateNodeExecutionStack, Fails
  <2>2. DirtyNodes' = DirtyNodes /\ \A n : NothingBelow(n) => NothingBelow(n)'
    BY <2>1 DEF DirtyNodes, HasNode, NothingBelow, HasData
  <2>3. ASSUME NEW e \in stack' \cup waiting', NEW c \in e.from PROVE HasSourceData(c)'
    <3>1. PICK n : e \in StackOf(n) \cup WaitingOf(n)
      BY <2>1, <2>3
    <3>2. HasSourceData(c)
      BY <3>1, SourcesFromData
    <3> QED
      BY <2>1, <3>2 DEF HasSourceData, HasData, Pinned
  <2> QED
    BY <2>1, <2>2, <2>3 DEF DirtyCleaned, StartCleaned, SourcesHaveData
<1>7. CASE UNCHANGED vars
  <2>1. DirtyNodes' = DirtyNodes /\ \A n : NothingBelow(n) => NothingBelow(n)'
    BY <1>7 DEF vars, DirtyNodes, HasNode, NothingBelow, HasData
  <2>2. \A c : HasSourceData(c) => HasSourceData(c)'
    BY <1>7 DEF vars, HasSourceData, HasData, Pinned
  <2> QED
    BY <1>7, <2>1, <2>2 DEF vars, DirtyCleaned, StartCleaned, SourcesHaveData
<1> QED
  BY <1>1, <1>2, <1>3, <1>4, <1>5, <1>6, <1>7, <1>8 DEF Next

LEMMA CleanedFresh == Cleaned => SourcesAreFresh
BY DEF Cleaned, DirtyCleaned, StartCleaned, SourcesHaveData, SourcesAreFresh, NothingBelow,
       DirtyNodes, HasNode, HasSourceData

\* Whatever is disabled, pinned or dirty and wherever execution starts: data a
\* node is given was pinned, or was made neither by a dirty or a start node nor
\* below one.
THEOREM SourcesFresh == Spec => []SourcesAreFresh
BY CleanedInitial, CleanedStep, CleanedFresh, PTL DEF Spec

-----------------------------------------------------------------------------
(* Recursive calls of bounded depth.                                        *)

\* What rule G says of call d, given the answers a to the other calls, depends only
\* on the answers to calls of smaller measure.
Rules(D, V) == [D -> [[D -> V] -> V]]
Descends(G, D, V, mu) ==
  \A d \in D : \A a, b \in [D -> V] :
    (\A e \in D : mu[e] < mu[d] => a[e] = b[e]) => G[d][a] = G[d][b]

\* Recursive calls of bounded depth have answers.
LEMMA Answers ==
  ASSUME NEW D, NEW V, NEW v \in V, NEW M \in Nat, NEW mu \in [D -> 0 .. M],
         NEW G \in Rules(D, V), Descends(G, D, V, mu)
  PROVE  \E h \in [D -> V] : \A d \in D : h[d] = G[d][h]
<1> DEFINE S == [D -> V]
           x == [d \in D |-> v]
           round == [a \in S |-> [d \in D |-> G[d][a]]]
           F == [k \in 1 .. M + 2 |-> round]
<1>1. \A a \in S : round[a] \in S /\ \A d \in D : round[a][d] = G[d][a]
  BY DEF Rules
<1>2. x \in S
  OBVIOUS
<1>3. F \in Steps(M + 2, S) /\ \A k \in 1 .. M + 2 : F[k] = round
  <2>1. round \in [S -> S]
    BY <1>1
  <2> HIDE DEF round, S
  <2> QED
    BY <2>1 DEF Steps
<1> HIDE DEF x, round, F
<1>4. PICK f \in [0 .. M + 2 -> S] : Loop(f, x, F, M + 2)
  <2> HIDE DEF S
  <2>1. M + 2 \in Nat
    OBVIOUS
  <2> QED
    BY <1>2, <1>3, <2>1, Recursion
<1>5. ASSUME NEW k \in 0 .. M + 1, NEW d \in D
      PROVE  f[k + 1] \in S /\ f[k] \in S /\ f[k + 1][d] = G[d][f[k]]
  <2> HIDE DEF S
  <2>1. k + 1 \in 1 .. M + 2 /\ (k + 1) - 1 = k /\ k \in 0 .. M + 2 /\ k + 1 \in 0 .. M + 2
    OBVIOUS
  <2>2. f[k + 1] = round[f[k]]
    BY <1>3, <1>4, <2>1 DEF Loop
  <2> QED
    BY <1>1, <2>1, <2>2
<1> DEFINE P == {k \in 0 .. M + 1 : \A d \in D : mu[d] < k => f[k][d] = f[k + 1][d]}
<1>6. 0 \in P
  OBVIOUS
<1>7. ASSUME NEW k \in 0 .. M + 1, k \in P, k < M + 1 PROVE k + 1 \in P
  <2>1. k + 1 \in 0 .. M + 1 /\ k \in 0 .. M + 1
    BY <1>7
  <2>2. ASSUME NEW d \in D, mu[d] < k + 1 PROVE f[k + 1][d] = f[(k + 1) + 1][d]
    <3> DEFINE a == f[k]
               b == f[k + 1]
    <3>1. a \in S /\ b \in S /\ f[k + 1][d] = G[d][a] /\ f[(k + 1) + 1][d] = G[d][b]
      BY <1>5, <2>1
    <3>2. ASSUME NEW e \in D, mu[e] < mu[d] PROVE a[e] = b[e]
      <4>1. mu[e] < k
        <5>1. mu[e] \in Int /\ mu[d] \in Int /\ k \in Int
          OBVIOUS
        <5> QED
          BY <2>2, <3>2, <5>1
      <4> QED
        BY <1>7, <4>1
    <3> HIDE DEF a, b
    <3>3. G[d][a] = G[d][b]
      BY <3>1, <3>2 DEF Descends
    <3> QED
      BY <3>1, <3>3
  <2> QED
    BY <2>1, <2>2
<1>8. M + 1 \in P
  <2> HIDE DEF P
  <2>1. M + 1 \in Nat
    OBVIOUS
  <2>2. 0 .. M + 1 \subseteq P
    BY <1>6, <1>7, <2>1, UpTo
  <2> QED
    BY <2>2
<1>9. f[M + 1] \in S /\ M + 1 \in 0 .. M + 1
  OBVIOUS
<1>10. ASSUME NEW d \in D PROVE f[M + 1][d] = G[d][f[M + 1]]
  <2>1. mu[d] < M + 1
    OBVIOUS
  <2>2. f[M + 1][d] = f[(M + 1) + 1][d]
    BY <1>8, <2>1
  <2> QED
    BY <1>5, <1>9, <2>2
<1> QED
  BY <1>9, <1>10

-----------------------------------------------------------------------------
(* addConnections: each connection and its ends are added once.             *)

EndsOf(cs) == {c.from : c \in cs} \cup {c.to : c \in cs}

\* The graph holds no connection twice, and the ends of each.
Proper(g) == IsInjective(g.conns) /\ EndsOf(ToSet(g.conns)) \subseteq ToSet(g.nodes)


LEMMA AddedOnceInjective ==
  ASSUME NEW S, NEW s \in Seq(S), NEW x \in S, IsInjective(s)
  PROVE  IsInjective(AddOnce(s, x))
<1>1. CASE Contains(s, x)
  BY <1>1 DEF AddOnce
<1>2. CASE ~Contains(s, x)
  <2>1. AddOnce(s, x) = Append(s, x)
    BY <1>2 DEF AddOnce
  <2> DEFINE t == Append(s, x)
  <2>2. /\ DOMAIN t = 1 .. Len(s) + 1 /\ DOMAIN s = 1 .. Len(s) /\ Len(s) \in Nat
        /\ t[Len(s) + 1] = x /\ \A i \in 1 .. Len(s) : t[i] = s[i]
    OBVIOUS
  <2> HIDE DEF t
  <2>3. ASSUME NEW i \in 1 .. Len(s) + 1, NEW j \in 1 .. Len(s) + 1, t[i] = t[j] PROVE i = j
    <3>1. (i \in 1 .. Len(s) \/ i = Len(s) + 1) /\ (j \in 1 .. Len(s) \/ j = Len(s) + 1)
      BY <2>2
    <3>2. \A k \in 1 .. Len(s) : s[k] # x
      BY <1>2 DEF Contains
    <3> QED
      BY <2>2, <2>3, <3>1, <3>2 DEF IsInjective
  <2> QED
    BY <2>1, <2>2, <2>3 DEF IsInjective, t
<1> QED
  BY <1>1, <1>2

LEMMA ConnectionAdded ==
  ASSUME NEW g \in Graph, NEW c \in Connection
  PROVE  /\ AddConnection(g, c) \in Graph /\ (Proper(g) => Proper(AddConnection(g, c)))
         /\ ToSet(AddConnection(g, c).conns) = ToSet(g.conns) \cup {c}
         /\ ToSet(AddConnection(g, c).nodes) = ToSet(g.nodes) \cup EndsOf({c})
<1>1. g.nodes \in Seq(Node) /\ g.conns \in Seq(Connection)
  BY DEF Graph
<1>2. c.from \in Node /\ c.to \in Node
  BY DEF Connection
<1> DEFINE a == c.from
           b == c.to
           s == AddOnce(g.nodes, a)
           t == AddOnce(s, b)
           u == AddOnce(g.conns, c)
<1>3. s \in Seq(Node) /\ ToSet(s) = ToSet(g.nodes) \cup {a}
  <2>1. a \in Node
    BY <1>2
  <2> HIDE DEF a
  <2> QED
    BY <1>1, <2>1, SeenAddedOnce
<1>4. t \in Seq(Node) /\ ToSet(t) = ToSet(s) \cup {b}
  <2>1. b \in Node
    BY <1>2
  <2> HIDE DEF b, s
  <2> QED
    BY <1>3, <2>1, SeenAddedOnce
<1>5. /\ u \in Seq(Connection) /\ ToSet(u) = ToSet(g.conns) \cup {c}
      /\ IsInjective(g.conns) => IsInjective(u)
  BY <1>1, SeenAddedOnce, AddedOnceInjective
<1>6. AddConnection(g, c) = [nodes |-> t, conns |-> u]
  BY DEF AddConnection
<1>7. EndsOf({c}) = {a, b}
  BY DEF EndsOf
<1> HIDE DEF a, b, s, t, u
<1> DEFINE h == AddConnection(g, c)
<1>8. h.nodes = t /\ h.conns = u /\ h \in Graph
  BY <1>4, <1>5, <1>6 DEF Graph
<1> HIDE DEF h
<1>9. ToSet(h.conns) = ToSet(g.conns) \cup {c} /\ ToSet(h.nodes) = ToSet(g.nodes) \cup EndsOf({c})
  BY <1>3, <1>4, <1>5, <1>7, <1>8
<1>10. Proper(g) => Proper(h)
  <2>1. EndsOf(ToSet(h.conns)) = EndsOf(ToSet(g.conns)) \cup EndsOf({c})
    BY <1>9 DEF EndsOf
  <2> QED
    BY <1>5, <1>8, <1>9, <2>1 DEF Proper
<1> QED
  BY <1>8, <1>9, <1>10 DEF h

LEMMA NodeAdded ==
  ASSUME NEW g \in Graph, NEW n \in Node
  PROVE  /\ AddNode(g, n) \in Graph /\ AddNode(g, n).conns = g.conns
         /\ ToSet(AddNode(g, n).nodes) = ToSet(g.nodes) \cup {n}
<1>1. g.nodes \in Seq(Node) /\ g.conns \in Seq(Connection)
  BY DEF Graph
<1> DEFINE s == AddOnce(g.nodes, n)
<1>2. s \in Seq(Node) /\ ToSet(s) = ToSet(g.nodes) \cup {n}
  BY <1>1, SeenAddedOnce
<1>3. AddNode(g, n) = [nodes |-> s, conns |-> g.conns]
  BY DEF AddNode, Graph
<1> HIDE DEF s
<1> QED
  BY <1>1, <1>2, <1>3 DEF Graph

\* What a graph holds after connections were added.
LEMMA ConnectionsAdded ==
  ASSUME NEW g \in Graph, NEW cs \in Seq(Connection)
  PROVE  /\ AddConnections(g, cs) \in Graph /\ (Proper(g) => Proper(AddConnections(g, cs)))
         /\ ToSet(AddConnections(g, cs).conns) = ToSet(g.conns) \cup ToSet(cs)
         /\ ToSet(AddConnections(g, cs).nodes) = ToSet(g.nodes) \cup EndsOf(ToSet(cs))
<1> DEFINE N == Len(cs)
           Good(h) == h = [i \in 0 .. N |-> IF i = 0 THEN g ELSE AddConnection(h[i - 1], cs[i])]
           f == CHOOSE h : Good(h)
           F == [i \in 1 .. N |-> [r \in Graph |-> AddConnection(r, cs[i])]]
<1>1. AddConnections(g, cs) = f[N]
  BY Zenon DEF AddConnections
<1>2. N \in Nat /\ \A i \in 1 .. N : cs[i] \in Connection
  OBVIOUS
<1>3. Good(f)
  <2> HIDE DEF N
  <2>1. F \in Steps(N, Graph)
    BY <1>2, ConnectionAdded DEF Steps
  <2>2. PICK h \in [0 .. N -> Graph] : Loop(h, g, F, N)
    <3> HIDE DEF F
    <3> QED
      BY <1>2, <2>1, Recursion
  <2>3. \A i \in 1 .. N : i - 1 \in 0 .. N
    BY <1>2
  <2>4. \A i \in 1 .. N : F[i][h[i - 1]] = AddConnection(h[i - 1], cs[i])
    BY <2>3
  <2>5. Good(h)
    <3>1. \A i \in 0 .. N : i # 0 => i \in 1 .. N
      BY <1>2
    <3> HIDE DEF F
    <3> QED
      BY <2>2, <2>4, <3>1 DEF Loop
  <2> HIDE DEF Good
  <2> QED
    BY <2>5
<1> HIDE DEF f
<1>4. f[0] = g
  BY <1>2, <1>3
<1>5. ASSUME NEW i \in 1 .. N PROVE f[i] = AddConnection(f[i - 1], cs[i])
  <2>1. i \in 0 .. N /\ i # 0
    BY <1>2
  <2> QED
    BY <1>3, <2>1
<1> HIDE DEF N, F, Good
<1> DEFINE First(k) == {cs[i] : i \in 1 .. k}
           Added(r, k) == /\ r \in Graph /\ (Proper(g) => Proper(r)) /\ ToSet(r.conns) = ToSet(g.conns) \cup First(k)
                          /\ ToSet(r.nodes) = ToSet(g.nodes) \cup EndsOf(First(k))
           P == {k \in 0 .. N : Added(f[k], k)}
<1>6. 0 \in P
  <2>1. First(0) = {}
    OBVIOUS
  <2>2. EndsOf(First(0)) = {}
    BY <2>1 DEF EndsOf
  <2> HIDE DEF First
  <2>3. Added(g, 0)
    BY <2>1, <2>2
  <2> HIDE DEF Added
  <2> QED
    BY <1>2, <1>4, <2>3
<1>7. ASSUME NEW k \in 0 .. N, k \in P, k < N PROVE k + 1 \in P
  <2>1. k + 1 \in 1 .. N /\ (k + 1) - 1 = k
    BY <1>2, <1>7
  <2> DEFINE r == f[k]
             y == cs[k + 1]
             z == f[k + 1]
  <2>2. z = AddConnection(r, y)
    BY <1>5, <2>1
  <2>3. Added(r, k)
    BY <1>7
  <2>4. y \in Connection
    BY <1>2, <2>1
  <2>5. First(k + 1) = First(k) \cup {y}
    <3>1. 1 .. k + 1 = (1 .. k) \cup {k + 1}
      OBVIOUS
    <3> QED
      BY <3>1
  <2> HIDE DEF First, r, y
  <2>6. EndsOf(First(k + 1)) = EndsOf(First(k)) \cup EndsOf({y})
    BY <2>5 DEF EndsOf
  <2>7. /\ z \in Graph /\ (Proper(r) => Proper(z)) /\ ToSet(z.conns) = ToSet(r.conns) \cup {y}
        /\ ToSet(z.nodes) = ToSet(r.nodes) \cup EndsOf({y})
    <3> HIDE DEF z
    <3> QED
      BY <2>2, <2>3, <2>4, ConnectionAdded
  <2> HIDE DEF z
  <2>8. Added(z, k + 1)
    BY <2>3, <2>5, <2>6, <2>7
  <2>9. k + 1 \in 0 .. N
    BY <2>1
  <2> HIDE DEF Added
  <2> QED
    BY <2>8, <2>9 DEF z
<1>8. ToSet(cs) = First(N)
  BY DEF ToSet, N
<1>9. N \in P
  <2> HIDE DEF P
  <2>1. 0 .. N \subseteq P
    BY <1>2, <1>6, <1>7, UpTo
  <2> QED
    BY <1>2, <2>1
<1> HIDE DEF First
<1> QED
  BY <1>1, <1>8, <1>9

-----------------------------------------------------------------------------
(* findSubgraphRecursive: every call has an answer, for calls get deeper and *)
(* no branch visits more nodes than there are.                              *)

Answer == Graph \cup {NotInGraph}

Visited(branch) == {c.to : c \in ToSet(branch)}
MainInto(g, n) == Where(g.conns, Into(g, {n}) \cap Main(g))

\* The call that follows connection c, with what is kept before it.
Further(call, c, before) ==
  [node |-> c.from, kept |-> before, branch |-> Append(call.branch, c)]

\* The nodes still to be visited: they bound the depth of the recursion.
Depth(call) == Cardinality(Node \ Visited(call.branch))

\* The calls that make other calls; what the others return.
GoesOn(g, call) ==
  /\ call.node # trigger /\ HasNode(g, call.node)
  /\ Into(g, {call.node}) # {} /\ call.node \notin Visited(call.branch)

Stops(g, call) ==
  IF call.node = trigger THEN AddConnections(AddNode(call.kept, call.node), call.branch)
  ELSE IF ~HasNode(g, call.node) THEN NotInGraph
  ELSE IF \/ Into(g, {call.node}) = {}
          \/ call.node = input.destination /\ call.node \in Visited(call.branch)
  THEN call.kept ELSE AddConnections(call.kept, call.branch)

\* h is what is kept after each connection into the node, when find is what other
\* calls return.
Rounds(g, call, find, h) ==
  /\ h[0] = call.kept
  /\ \A i \in 1 .. Len(MainInto(g, call.node)) :
       h[i] = IF h[i - 1] = NotInGraph THEN h[i - 1]
              ELSE find[Further(call, MainInto(g, call.node)[i], h[i - 1])]

LEMMA NotAGraph == NotInGraph \notin Graph
<1>1. NoNode \notin Node
  BY PartialAssumption
<1>2. ASSUME NotInGraph \in Graph PROVE FALSE
  <2>1. NotInGraph.nodes = <<NoNode>> /\ NotInGraph.nodes \in Seq(Node)
    BY <1>2 DEF Graph, NotInGraph
  <2> QED
    BY <1>1, <2>1
<1> QED
  BY <1>2

LEMMA VisitedMore ==
  ASSUME NEW branch \in Seq(Connection), NEW c \in Connection
  PROVE  /\ Append(branch, c) \in Seq(Connection)
         /\ Visited(Append(branch, c)) = Visited(branch) \cup {c.to}
<1>1. Append(branch, c) \in Seq(Connection) /\ ToSet(Append(branch, c)) = ToSet(branch) \cup {c}
  BY SeenAppended
<1> QED
  BY <1>1 DEF Visited

LEMMA MainIntoType ==
  ASSUME NEW g \in Graph, NEW n
  PROVE  /\ MainInto(g, n) \in Seq(Connection) /\ Len(MainInto(g, n)) \in Nat
         /\ ToSet(MainInto(g, n)) = Into(g, {n}) \cap Main(g)
         /\ \A i \in 1 .. Len(MainInto(g, n)) :
              MainInto(g, n)[i] \in Connection /\ MainInto(g, n)[i].to = n
<1> DEFINE s == MainInto(g, n)
<1>1. s \in Seq(Connection) /\ ToSet(s) = Into(g, {n}) \cap Main(g)
  BY WhereKeeps DEF MainInto, Graph, Into, Main
<1> HIDE DEF s
<1>2. \A i \in 1 .. Len(s) : s[i] \in ToSet(s) /\ s[i] \in Connection
  BY <1>1 DEF ToSet
<1> QED
  BY <1>1, <1>2 DEF s, Into

LEMMA DepthBounded ==
  ASSUME NEW call \in SubgraphCall
  PROVE  Depth(call) \in 0 .. Cardinality(Node) /\ Cardinality(Node) \in Nat
<1>1. IsFiniteSet(Node)
  BY PartialAssumption
<1>2. Cardinality(Node \ Visited(call.branch)) <= Cardinality(Node)
      /\ IsFiniteSet(Node \ Visited(call.branch))
  BY <1>1, FS_Subset
<1> QED
  BY <1>1, <1>2, FS_CardinalityType DEF Depth

\* Each further call has less to visit.
LEMMA FurtherIsDeeper ==
  ASSUME NEW g \in Graph, NEW call \in SubgraphCall, GoesOn(g, call), NEW before \in Graph,
         NEW i \in 1 .. Len(MainInto(g, call.node))
  PROVE  LET e == Further(call, MainInto(g, call.node)[i], before)
         IN /\ e \in SubgraphCall /\ Depth(e) < Depth(call)
            /\ Visited(e.branch) = Visited(call.branch) \cup {call.node}
<1> DEFINE c == MainInto(g, call.node)[i]
           e == Further(call, c, before)
<1>1. c \in Connection /\ c.to = call.node
  BY MainIntoType
<1> HIDE DEF c
<1>2. call.branch \in Seq(Connection) /\ call.node \in Node
  BY DEF SubgraphCall
<1>3. Append(call.branch, c) \in Seq(Connection)
      /\ Visited(Append(call.branch, c)) = Visited(call.branch) \cup {call.node}
  BY <1>1, <1>2, VisitedMore
<1>4. e \in SubgraphCall /\ e.branch = Append(call.branch, c)
  <2>1. c.from \in Node
    BY <1>1 DEF Connection
  <2> QED
    BY <1>3, <2>1 DEF Further, SubgraphCall
<1> HIDE DEF e
<1> DEFINE A == Node \ Visited(call.branch)
           B == Node \ Visited(e.branch)
<1>5. B \subseteq A /\ call.node \in A /\ call.node \notin B
  BY <1>2, <1>3, <1>4 DEF GoesOn
<1>6. IsFiniteSet(A)
  BY PartialAssumption, FS_Subset
<1>7. IsFiniteSet(B) /\ Cardinality(B) <= Cardinality(A) /\ Cardinality(A) # Cardinality(B)
  BY <1>5, <1>6, FS_Subset
<1>8. Cardinality(A) \in Nat /\ Cardinality(B) \in Nat
  BY <1>6, <1>7, FS_CardinalityType
<1>9. Depth(e) < Depth(call)
  BY <1>7, <1>8 DEF Depth
<1> QED
  BY <1>3, <1>4, <1>9 DEF e, c

LEMMA RoundsExist ==
  ASSUME NEW g \in Graph, NEW call \in SubgraphCall, GoesOn(g, call),
         NEW find \in [SubgraphCall -> Answer]
  PROVE  \E h \in [0 .. Len(MainInto(g, call.node)) -> Answer] : Rounds(g, call, find, h)
<1> DEFINE s == MainInto(g, call.node)
           N == Len(s)
           Step(i, r) == IF r = NotInGraph THEN r ELSE find[Further(call, s[i], r)]
           F == [i \in 1 .. N |-> [r \in Answer |-> Step(i, r)]]
<1>1. N \in Nat
  BY MainIntoType
<1>2. ASSUME NEW i \in 1 .. N, NEW r \in Answer PROVE Step(i, r) \in Answer
  <2>1. CASE r = NotInGraph
    BY <2>1
  <2>2. CASE r # NotInGraph
    <3>1. r \in Graph
      BY <2>2 DEF Answer
    <3>2. Further(call, s[i], r) \in SubgraphCall
      BY <3>1, FurtherIsDeeper
    <3> HIDE DEF s
    <3> QED
      BY <2>2, <3>2
  <2> QED
    BY <2>1, <2>2
<1> HIDE DEF Step, N
<1>3. F \in Steps(N, Answer)
  BY <1>2 DEF Steps
<1>4. call.kept \in Answer
  BY DEF SubgraphCall, Answer
<1>5. PICK h \in [0 .. N -> Answer] : Loop(h, call.kept, F, N)
  <2> HIDE DEF F
  <2> DEFINE x == call.kept
  <2> HIDE DEF x
  <2> QED
    BY <1>1, <1>3, <1>4, Recursion DEF x
<1>6. \A i \in 1 .. N : i - 1 \in 0 .. N
  BY <1>1
<1>7. \A i \in 1 .. N : F[i][h[i - 1]] = Step(i, h[i - 1])
  BY <1>6
<1>8. h[0] = call.kept /\ \A i \in 1 .. N : h[i] = Step(i, h[i - 1])
  <2> HIDE DEF F
  <2> QED
    BY <1>5, <1>7 DEF Loop
<1>9. Rounds(g, call, find, h)
  BY <1>8 DEF Rounds, Step, N
<1> QED
  BY <1>5, <1>9 DEF N

\* What a call returns is known from what find returns for deeper calls.
LEMMA RoundsAreMade ==
  ASSUME NEW g \in Graph, NEW call \in SubgraphCall, GoesOn(g, call), NEW a,
         NEW find \in [SubgraphCall -> Answer],
         \A e \in SubgraphCall : Depth(e) < Depth(call) => a[e] = find[e],
         NEW h \in [0 .. Len(MainInto(g, call.node)) -> Answer], Rounds(g, call, find, h)
  PROVE  FindSubgraphRecursive(g, call, a) = h[Len(MainInto(g, call.node))]
<1> DEFINE s == Where(g.conns, Into(g, {call.node}) \cap Main(g))
           N == Len(s)
           Good(k) == k = [i \in 0 .. N |->
                             IF i = 0 THEN call.kept
                             ELSE IF k[i - 1] = NotInGraph THEN k[i - 1]
                                  ELSE a[[node |-> s[i].from, kept |-> k[i - 1],
                                          branch |-> Append(call.branch, s[i])]]]
           f == CHOOSE k : Good(k)
<1>1. FindSubgraphRecursive(g, call, a) =
        IF call.node = trigger THEN AddConnections(AddNode(call.kept, call.node), call.branch)
        ELSE IF ~HasNode(g, call.node) THEN NotInGraph
        ELSE IF \/ Into(g, {call.node}) = {}
                \/ call.node = input.destination /\ \E c \in ToSet(call.branch) : c.to = call.node
        THEN call.kept
        ELSE IF \E c \in ToSet(call.branch) : c.to = call.node
        THEN AddConnections(call.kept, call.branch) ELSE f[N]
  BY Zenon DEF FindSubgraphRecursive
<1> HIDE DEF f
<1>2. FindSubgraphRecursive(g, call, a) = f[N]
  BY <1>1 DEF GoesOn, Visited
<1>3. s = MainInto(g, call.node)
  BY DEF MainInto
<1> HIDE DEF s
<1>4. N \in Nat
  BY <1>3, MainIntoType
<1>5. \A i \in 1 .. N : i - 1 \in 0 .. N /\ i \in 0 .. N /\ i # 0
  BY <1>4
<1>6. h[0] = call.kept /\ h \in [0 .. N -> Answer]
  BY <1>3 DEF Rounds
<1>7. ASSUME NEW i \in 1 .. N, h[i - 1] # NotInGraph
      PROVE  a[[node |-> s[i].from, kept |-> h[i - 1], branch |-> Append(call.branch, s[i])]] = h[i]
  <2> DEFINE r == h[i - 1]
             e == Further(call, s[i], r)
  <2>1. r \in Graph
    BY <1>5, <1>6, <1>7 DEF Answer
  <2>2. e \in SubgraphCall /\ Depth(e) < Depth(call)
    <3> HIDE DEF r
    <3> QED
      BY <1>3, <2>1, FurtherIsDeeper
  <2>3. h[i] = find[e]
    BY <1>3, <1>7 DEF Rounds
  <2>4. a[e] = find[e]
    <3> HIDE DEF e
    <3> QED
      BY <2>2
  <2> QED
    BY <2>3, <2>4 DEF Further
<1>8. ASSUME NEW i \in 1 .. N, h[i - 1] = NotInGraph PROVE h[i] = NotInGraph
  BY <1>3, <1>8 DEF Rounds
<1>9. Good(h)
  <2>1. ASSUME NEW i \in 0 .. N
        PROVE  h[i] = IF i = 0 THEN call.kept
                      ELSE IF h[i - 1] = NotInGraph THEN h[i - 1]
                      ELSE a[[node |-> s[i].from, kept |-> h[i - 1],
                              branch |-> Append(call.branch, s[i])]]
    <3>1. CASE i = 0
      BY <1>6, <3>1
    <3>2. CASE i # 0
      <4>1. i \in 1 .. N
        BY <1>4, <3>2
      <4>2. CASE h[i - 1] = NotInGraph
        BY <1>8, <3>2, <4>1, <4>2
      <4>3. CASE h[i - 1] # NotInGraph
        BY <1>7, <3>2, <4>1, <4>3
      <4> QED
        BY <4>2, <4>3
    <3> QED
      BY <3>1, <3>2
  <2> HIDE DEF N
  <2> QED
    BY <1>6, <2>1
<1>10. Good(f)
  <2> HIDE DEF Good
  <2> QED
    BY <1>9 DEF f
<1>11. f[0] = call.kept
  BY <1>4, <1>10
<1>12. ASSUME NEW i \in 1 .. N
       PROVE  f[i] = IF f[i - 1] = NotInGraph THEN f[i - 1]
                     ELSE a[[node |-> s[i].from, kept |-> f[i - 1],
                             branch |-> Append(call.branch, s[i])]]
  <2> HIDE DEF N
  <2> QED
    BY <1>5, <1>10
<1> HIDE DEF N, Good
<1> DEFINE P == {k \in 0 .. N : f[k] = h[k]}
<1>13. 0 \in P
  BY <1>4, <1>6, <1>11
<1>14. ASSUME NEW k \in 0 .. N, k \in P, k < N PROVE k + 1 \in P
  <2>1. k + 1 \in 1 .. N /\ (k + 1) - 1 = k /\ k + 1 \in 0 .. N
    BY <1>4, <1>14
  <2>2. f[k] = h[k]
    BY <1>14
  <2> DEFINE j == k + 1
  <2>3. j \in 1 .. N /\ f[j - 1] = h[j - 1]
    BY <2>1, <2>2
  <2> HIDE DEF j
  <2>4. f[j] = h[j]
    BY <1>7, <1>8, <1>12, <2>3
  <2> QED
    BY <2>1, <2>4 DEF j
<1>15. N \in P
  <2> HIDE DEF P
  <2>1. 0 .. N \subseteq P
    BY <1>4, <1>13, <1>14, UpTo
  <2> QED
    BY <1>4, <2>1
<1> QED
  BY <1>2, <1>3, <1>15 DEF N

\* The other calls need no find.
LEMMA OthersStop ==
  ASSUME NEW g \in Graph, NEW call \in SubgraphCall, ~GoesOn(g, call), NEW find
  PROVE  FindSubgraphRecursive(g, call, find) = Stops(g, call)
<1> DEFINE s == Where(g.conns, Into(g, {call.node}) \cap Main(g))
           Good(k) == k = [i \in 0 .. Len(s) |->
                             IF i = 0 THEN call.kept
                             ELSE IF k[i - 1] = NotInGraph THEN k[i - 1]
                                  ELSE find[[node |-> s[i].from, kept |-> k[i - 1],
                                             branch |-> Append(call.branch, s[i])]]]
           f == CHOOSE k : Good(k)
<1>1. FindSubgraphRecursive(g, call, find) =
        IF call.node = trigger THEN AddConnections(AddNode(call.kept, call.node), call.branch)
        ELSE IF ~HasNode(g, call.node) THEN NotInGraph
        ELSE IF \/ Into(g, {call.node}) = {}
                \/ call.node = input.destination /\ \E c \in ToSet(call.branch) : c.to = call.node
        THEN call.kept
        ELSE IF \E c \in ToSet(call.branch) : c.to = call.node
        THEN AddConnections(call.kept, call.branch) ELSE f[Len(s)]
  BY Zenon DEF FindSubgraphRecursive
<1> HIDE DEF f
<1>2. (\E c \in ToSet(call.branch) : c.to = call.node) <=> call.node \in Visited(call.branch)
  BY DEF Visited
<1> QED
  BY <1>1, <1>2 DEF GoesOn, Stops

LEMMA StopsType ==
  ASSUME NEW g \in Graph, NEW call \in SubgraphCall
  PROVE  Stops(g, call) \in Answer
<1> DEFINE k == call.kept
           b == call.branch
           n == call.node
<1>1. k \in Graph /\ b \in Seq(Connection) /\ n \in Node
  BY DEF SubgraphCall
<1> HIDE DEF k, b, n
<1>2. AddNode(k, n) \in Graph
  BY <1>1, NodeAdded
<1>3. AddConnections(AddNode(k, n), b) \in Graph /\ AddConnections(k, b) \in Graph
  BY <1>1, <1>2, ConnectionsAdded
<1> QED
  BY <1>1, <1>3 DEF Stops, Answer, k, b, n

\* Given answers to deeper calls, a call has one answer.
LEMMA SubgraphAnswer ==
  ASSUME NEW g \in Graph, NEW call \in SubgraphCall, NEW a,
         NEW find \in [SubgraphCall -> Answer],
         \A e \in SubgraphCall : Depth(e) < Depth(call) => a[e] = find[e]
  PROVE  /\ FindSubgraphRecursive(g, call, a) = FindSubgraphRecursive(g, call, find)
         /\ FindSubgraphRecursive(g, call, a) \in Answer
<1>1. CASE GoesOn(g, call)
  <2> DEFINE N == Len(MainInto(g, call.node))
  <2>1. PICK h \in [0 .. N -> Answer] : Rounds(g, call, find, h)
    BY <1>1, RoundsExist
  <2>2. FindSubgraphRecursive(g, call, a) = h[N]
    BY <1>1, <2>1, RoundsAreMade
  <2>3. FindSubgraphRecursive(g, call, find) = h[N]
    BY <1>1, <2>1, RoundsAreMade
  <2>4. N \in 0 .. N
    BY MainIntoType
  <2> HIDE DEF N
  <2> QED
    BY <2>1, <2>2, <2>3, <2>4
<1>2. CASE ~GoesOn(g, call)
  BY <1>2, OthersStop, StopsType
<1> QED
  BY <1>1, <1>2

\* f returns what findSubgraphRecursive returns for it.
Solves(f, g) == \A call \in SubgraphCall : f[call] = FindSubgraphRecursive(g, call, f)

LEMMA SubgraphRecursion ==
  ASSUME NEW g \in Graph, NEW d \in Node
  PROVE  \E f \in [SubgraphCall -> Answer] :
           /\ Solves(f, g)
           /\ FindSubgraphFrom(g, d) = f[[node |-> d, kept |-> EmptyGraph, branch |-> <<>>]]
<1> DEFINE D == SubgraphCall
           V == Answer
           M == Cardinality(Node)
           mu == [call \in D |-> Depth(call)]
           G == [call \in D |-> [a \in [D -> V] |-> FindSubgraphRecursive(g, call, a)]]
           start == [node |-> d, kept |-> EmptyGraph, branch |-> <<>>]
           Good(h) == h = [call \in SubgraphCall |-> FindSubgraphRecursive(g, call, h)]
           f == CHOOSE h : Good(h)
<1>1. FindSubgraphFrom(g, d) = f[start]
  BY Zenon DEF FindSubgraphFrom
<1>2. start \in D /\ NotInGraph \in V
  BY DEF SubgraphCall, EmptyGraph, Graph, Answer
<1>3. M \in Nat /\ mu \in [D -> 0 .. M]
  BY <1>2, DepthBounded
<1>4. \A call \in D : \A a \in [D -> V] : G[call][a] = FindSubgraphRecursive(g, call, a)
  OBVIOUS
<1>5. G \in Rules(D, V)
  BY SubgraphAnswer DEF Rules
<1>6. \A call \in D : mu[call] = Depth(call)
  OBVIOUS
<1> HIDE DEF D, V, M, mu, G, start, f
<1>7. Descends(G, D, V, mu)
  <2> SUFFICES ASSUME NEW call \in D, NEW a \in [D -> V], NEW b \in [D -> V],
                      \A e \in D : mu[e] < mu[call] => a[e] = b[e]
               PROVE  G[call][a] = G[call][b]
    BY DEF Descends
  <2>1. \A e \in SubgraphCall : Depth(e) < Depth(call) => a[e] = b[e]
    BY <1>6 DEF D
  <2>2. FindSubgraphRecursive(g, call, a) = FindSubgraphRecursive(g, call, b)
    BY <2>1, SubgraphAnswer DEF D, V
  <2> QED
    BY <1>4, <2>2
<1>8. PICK b \in [D -> V] : \A call \in D : b[call] = G[call][b]
  BY <1>2, <1>3, <1>5, <1>7, Answers
<1>9. Solves(b, g)
  BY <1>4, <1>8 DEF Solves, D
<1>10. Good(b)
  BY <1>8, <1>9 DEF Solves, D
<1>11. Good(f)
  <2> HIDE DEF Good
  <2> QED
    BY <1>10 DEF f
<1>12. \A call \in D : f[call] = FindSubgraphRecursive(g, call, f)
  BY <1>11 DEF D
<1> HIDE DEF Good
<1> DEFINE P == {k \in Nat : \A call \in D : Depth(call) < k => f[call] = b[call]}
<1>13. 0 \in P
  <2>1. \A call \in D : ~(Depth(call) < 0)
    BY DepthBounded DEF D
  <2> QED
    BY <2>1
<1>14. ASSUME NEW k \in P \cap Nat PROVE k + 1 \in P
  <2>1. ASSUME NEW call \in D, Depth(call) < k + 1 PROVE f[call] = b[call]
    <3>1. \A e \in SubgraphCall : Depth(e) \in Int
      BY DepthBounded
    <3>2. \A e \in SubgraphCall : Depth(e) < Depth(call) => f[e] = b[e]
      BY <1>14, <2>1, <3>1 DEF D
    <3>3. FindSubgraphRecursive(g, call, f) = FindSubgraphRecursive(g, call, b)
      BY <3>2, SubgraphAnswer DEF D, V
    <3> QED
      BY <1>9, <1>12, <3>3 DEF Solves, D
  <2> QED
    BY <2>1
<1>15. Nat \subseteq P
  <2> HIDE DEF P
  <2> QED
    BY <1>13, <1>14, Induction
<1>16. f[start] = b[start]
  <2>1. M + 1 \in Nat /\ Depth(start) < M + 1
    BY <1>2, DepthBounded DEF D, M
  <2> QED
    BY <1>2, <1>15, <2>1
<1> QED
  BY <1>1, <1>8, <1>9, <1>16 DEF D, V, start

-----------------------------------------------------------------------------
(* The subgraph holds the ways from the trigger to the destination: a call at *)
(* a node the trigger leads to keeps its branch and what lies behind it.    *)

\* Connections on the way, and a set of nodes to which such connections lead from
\* the trigger.
OnTheWay(g) == {c \in Main(g) : c.from # input.destination /\ c.to # trigger}
Led(g, R) == \A n \in R : n = trigger \/ \E c \in OnTheWay(g) : c.to = n /\ c.from \in R

\* Z holds what lies before its nodes, except W, and graph r the connections from R
\* into Z.
Upstream(g, Z, W) == \A c \in OnTheWay(g) : c.to \in Z /\ c.from \notin W => c.from \in Z
Covered(g, Z, R, r) == \A c \in OnTheWay(g) : c.to \in Z /\ c.from \in R => c \in ToSet(r.conns)

\* What a call adds to a graph: nothing is lost, the branch is added if the trigger
\* leads to its node, and behind a new node nothing is missed.
Grown(before, r) ==
  ToSet(before.conns) \subseteq ToSet(r.conns) /\ (Proper(before) => Proper(r))
BranchKept(R, call, r) ==
  /\ call.node \in R
  /\ call.node # input.destination \/ call.node \notin Visited(call.branch)
  => ToSet(call.branch) \subseteq ToSet(r.conns)
BehindKept(g, R, call, r) ==
  call.node \notin Visited(call.branch) =>
    \E Z : call.node \in Z /\ Upstream(g, Z, Visited(call.branch)) /\ Covered(g, Z, R, r)
Found(g, R, call, r) ==
  r # NotInGraph => Grown(call.kept, r) /\ BranchKept(R, call, r) /\ BehindKept(g, R, call, r)

LEMMA StopFound ==
  ASSUME NEW g \in Graph, NEW R, Led(g, R), NEW call \in SubgraphCall, ~GoesOn(g, call)
  PROVE  Found(g, R, call, Stops(g, call))
<1> DEFINE k == call.kept
           b == call.branch
           n == call.node
           r == Stops(g, call)
           W == Visited(b)
<1>1. k \in Graph /\ b \in Seq(Connection) /\ n \in Node
  BY DEF SubgraphCall
<1>2. OnTheWay(g) \subseteq ToSet(g.conns)
  BY DEF OnTheWay, Main
<1> SUFFICES ASSUME r # NotInGraph
             PROVE  Grown(k, r) /\ BranchKept(R, call, r) /\ BehindKept(g, R, call, r)
  BY DEF Found
<1>3. CASE n = trigger
  <2> HIDE DEF k, b, n, r
  <2>1. /\ AddNode(k, n) \in Graph /\ AddNode(k, n).conns = k.conns
        /\ ToSet(AddNode(k, n).nodes) = ToSet(k.nodes) \cup {n}
    BY <1>1, NodeAdded
  <2> DEFINE q == AddNode(k, n)
  <2> HIDE DEF q
  <2>2. q \in Graph /\ q.conns = k.conns /\ (Proper(k) => Proper(q))
    BY <2>1 DEF q, Proper
  <2>3. r = AddConnections(q, b)
    BY <1>3 DEF Stops, r, q, k, b, n
  <2>4. ToSet(r.conns) = ToSet(q.conns) \cup ToSet(b) /\ (Proper(q) => Proper(r))
    BY <1>1, <2>2, <2>3, ConnectionsAdded
  <2>5. Grown(k, r) /\ ToSet(b) \subseteq ToSet(r.conns)
    BY <2>2, <2>4 DEF Grown
  <2>6. BranchKept(R, call, r)
    BY <2>5 DEF BranchKept, b
  <2>7. Upstream(g, {n}, W) /\ Covered(g, {n}, R, r)
    BY <1>3 DEF Upstream, Covered, OnTheWay
  <2>8. BehindKept(g, R, call, r)
    BY <2>7 DEF BehindKept, n, b
  <2> QED
    BY <2>5, <2>6, <2>8
<1>4. CASE n # trigger /\ Into(g, {n}) = {}
  <2>1. HasNode(g, n) /\ r = k
    BY <1>4 DEF Stops
  <2>2. \A c \in OnTheWay(g) : c.to # n
    BY <1>2, <1>4 DEF Into
  <2>3. n \notin R
    BY <1>4, <2>2 DEF Led
  <2>4. Upstream(g, {n}, W) /\ Covered(g, {n}, R, r)
    BY <2>2 DEF Upstream, Covered
  <2> HIDE DEF k, b, n, r
  <2>5. Grown(k, r)
    BY <2>1 DEF Grown
  <2>6. BranchKept(R, call, r) /\ BehindKept(g, R, call, r)
    BY <2>3, <2>4 DEF BranchKept, BehindKept, b, n
  <2> QED
    BY <2>5, <2>6
<1>5. CASE n # trigger /\ Into(g, {n}) # {}
  <2>1. HasNode(g, n) /\ n \in W
    BY <1>5 DEF Stops, GoesOn
  <2>2. BehindKept(g, R, call, r)
    BY <2>1 DEF BehindKept
  <2>3. CASE n = input.destination
    <3>1. r = k
      BY <1>5, <2>1, <2>3 DEF Stops
    <3>2. Grown(k, r)
      <4> HIDE DEF k, r
      <4> QED
        BY <3>1 DEF Grown
    <3> QED
      BY <2>1, <2>2, <2>3, <3>2 DEF BranchKept
  <2>4. CASE n # input.destination
    <3>1. r = AddConnections(k, b)
      BY <1>5, <2>1, <2>4 DEF Stops
    <3> HIDE DEF k, b, n, r
    <3>2. ToSet(r.conns) = ToSet(k.conns) \cup ToSet(b) /\ (Proper(k) => Proper(r))
      BY <1>1, <3>1, ConnectionsAdded
    <3>3. Grown(k, r) /\ BranchKept(R, call, r)
      BY <3>2 DEF Grown, BranchKept, b
    <3> QED
      BY <2>2, <3>3
  <2> QED
    BY <2>3, <2>4
<1> QED
  BY <1>3, <1>4, <1>5

\* What the first i rounds of a call found.
RoundsFound(g, R, call, r, i) ==
  r # NotInGraph =>
    /\ Grown(call.kept, r)
    /\ \A j \in 1 .. i : LET c == MainInto(g, call.node)[j] IN
         c.from \in R /\ c.from # input.destination
         => ToSet(call.branch) \cup {c} \subseteq ToSet(r.conns)
    /\ \E Z : /\ Upstream(g, Z, Visited(call.branch) \cup {call.node}) /\ Covered(g, Z, R, r)
              /\ \A j \in 1 .. i : LET c == MainInto(g, call.node)[j] IN
                   c.from \notin Visited(call.branch) \cup {call.node} => c.from \in Z

LEMMA RoundFound ==
  ASSUME NEW g \in Graph, NEW R, NEW call \in SubgraphCall, GoesOn(g, call),
         NEW i \in Nat, i + 1 \in 1 .. Len(MainInto(g, call.node)),
         NEW before \in Graph, RoundsFound(g, R, call, before, i), NEW r,
         Found(g, R, Further(call, MainInto(g, call.node)[i + 1], before), r)
  PROVE  RoundsFound(g, R, call, r, i + 1)
<1> SUFFICES ASSUME r # NotInGraph PROVE RoundsFound(g, R, call, r, i + 1)
  BY DEF RoundsFound
<1> DEFINE s == MainInto(g, call.node)
           c == s[i + 1]
           e == Further(call, c, before)
           W == Visited(call.branch) \cup {call.node}
<1>1. before # NotInGraph
  BY NotAGraph
<1>2. Visited(e.branch) = W
  BY FurtherIsDeeper
<1>3. e.kept = before /\ e.node = c.from /\ e.branch = Append(call.branch, c)
  BY DEF Further
<1>4. c \in Connection
  BY MainIntoType
<1>5. ToSet(e.branch) = ToSet(call.branch) \cup {c}
  BY <1>3, <1>4, SeenAppended DEF SubgraphCall
<1>6. Grown(before, r) /\ BranchKept(R, e, r) /\ BehindKept(g, R, e, r)
  BY <1>3 DEF Found
<1>7. Grown(call.kept, before)
  BY <1>1 DEF RoundsFound
<1> HIDE DEF W, e
<1>8. Grown(call.kept, r)
  BY <1>6, <1>7 DEF Grown
<1>9. \A j \in 1 .. i + 1 : j \in 1 .. i \/ j = i + 1
  OBVIOUS
<1>10. ASSUME NEW j \in 1 .. i + 1, s[j].from \in R, s[j].from # input.destination
       PROVE  ToSet(call.branch) \cup {s[j]} \subseteq ToSet(r.conns)
  <2>1. CASE j \in 1 .. i
    <3>1. ToSet(call.branch) \cup {s[j]} \subseteq ToSet(before.conns)
      BY <1>1, <1>10, <2>1 DEF RoundsFound
    <3> QED
      BY <1>6, <3>1 DEF Grown
  <2>2. CASE j = i + 1
    <3>1. ToSet(e.branch) \subseteq ToSet(r.conns)
      BY <1>3, <1>6, <1>10, <2>2 DEF BranchKept
    <3> QED
      BY <1>5, <2>2, <3>1
  <2> QED
    BY <1>9, <2>1, <2>2
<1>11. PICK Z : /\ Upstream(g, Z, W) /\ Covered(g, Z, R, before)
                /\ \A j \in 1 .. i : s[j].from \notin W => s[j].from \in Z
  BY <1>1 DEF RoundsFound, W
<1>12. Covered(g, Z, R, r)
  BY <1>6, <1>11 DEF Covered, Grown
<1>13. \E Y : /\ Upstream(g, Y, W) /\ Covered(g, Y, R, r)
              /\ \A j \in 1 .. i + 1 : s[j].from \notin W => s[j].from \in Y
  <2>1. CASE c.from \in W
    <3>1. \A j \in 1 .. i + 1 : s[j].from \notin W => s[j].from \in Z
      BY <1>9, <1>11, <2>1
    <3> HIDE DEF s
    <3> QED
      BY <1>11, <1>12, <3>1
  <2>2. CASE c.from \notin W
    <3>1. PICK X : e.node \in X /\ Upstream(g, X, W) /\ Covered(g, X, R, r)
      BY <1>2, <1>3, <1>6, <2>2 DEF BehindKept
    <3>2. Upstream(g, Z \cup X, W) /\ Covered(g, Z \cup X, R, r)
      BY <1>11, <1>12, <3>1 DEF Upstream, Covered
    <3>3. \A j \in 1 .. i + 1 : s[j].from \notin W => s[j].from \in Z \cup X
      BY <1>3, <1>9, <1>11, <3>1
    <3> HIDE DEF s
    <3> QED
      BY <3>2, <3>3
  <2> QED
    BY <2>1, <2>2
<1> QED
  BY <1>8, <1>10, <1>13 DEF RoundsFound, W

LEMMA RoundsFoundAll ==
  ASSUME NEW g \in Graph, NEW R, Led(g, R), NEW call \in SubgraphCall, GoesOn(g, call), NEW r,
         RoundsFound(g, R, call, r, Len(MainInto(g, call.node)))
  PROVE  Found(g, R, call, r)
<1> DEFINE s == MainInto(g, call.node)
           n == call.node
           W == Visited(call.branch)
<1> SUFFICES ASSUME r # NotInGraph
             PROVE  Grown(call.kept, r) /\ BranchKept(R, call, r) /\ BehindKept(g, R, call, r)
  BY DEF Found
<1>1. \A c \in OnTheWay(g) : c.to = n => \E j \in 1 .. Len(s) : s[j] = c
  <2>1. ToSet(s) = Into(g, {n}) \cap Main(g)
    BY MainIntoType
  <2>2. \A c \in OnTheWay(g) : c.to = n => c \in ToSet(s)
    BY <2>1 DEF OnTheWay, Main, Into
  <2>3. s \in Seq(Connection)
    BY MainIntoType
  <2> HIDE DEF s
  <2> QED
    BY <2>2, <2>3 DEF ToSet
<1>2. \A c \in OnTheWay(g) : c.from # input.destination
  BY DEF OnTheWay
<1>3. \A j \in 1 .. Len(s) : s[j].from \in R /\ s[j].from # input.destination
        => ToSet(call.branch) \cup {s[j]} \subseteq ToSet(r.conns)
  BY DEF RoundsFound
<1>4. PICK Z : /\ Upstream(g, Z, W \cup {n}) /\ Covered(g, Z, R, r)
               /\ \A j \in 1 .. Len(s) : s[j].from \notin W \cup {n} => s[j].from \in Z
  BY DEF RoundsFound
<1>5. Grown(call.kept, r)
  BY DEF RoundsFound
<1> HIDE DEF s
<1>6. BranchKept(R, call, r)
  <2> SUFFICES ASSUME n \in R PROVE ToSet(call.branch) \subseteq ToSet(r.conns)
    BY DEF BranchKept
  <2>1. PICK c \in OnTheWay(g) : c.to = n /\ c.from \in R
    BY DEF Led, GoesOn
  <2> QED
    BY <1>1, <1>2, <1>3, <2>1
<1>7. BehindKept(g, R, call, r)
  <2> DEFINE Y == Z \cup {n}
  <2>1. ASSUME NEW c \in OnTheWay(g), c.to \in Y, c.from \notin W PROVE c.from \in Y
    <3>1. CASE c.to \in Z
      BY <1>4, <2>1, <3>1 DEF Upstream
    <3>2. CASE c.to = n
      BY <1>1, <1>4, <2>1, <3>2
    <3> QED
      BY <2>1, <3>1, <3>2
  <2>2. ASSUME NEW c \in OnTheWay(g), c.to \in Y, c.from \in R PROVE c \in ToSet(r.conns)
    <3>1. CASE c.to \in Z
      BY <1>4, <2>2, <3>1 DEF Covered
    <3>2. CASE c.to = n
      BY <1>1, <1>2, <1>3, <2>2, <3>2
    <3> QED
      BY <2>2, <3>1, <3>2
  <2>3. n \in Y /\ Upstream(g, Y, W) /\ Covered(g, Y, R, r)
    BY <2>1, <2>2 DEF Upstream, Covered
  <2> HIDE DEF Y
  <2> QED
    BY <2>3 DEF BehindKept
<1> QED
  BY <1>5, <1>6, <1>7

\* If deeper calls find what they should, a call does.
LEMMA CallFound ==
  ASSUME NEW g \in Graph, NEW R, Led(g, R), NEW f \in [SubgraphCall -> Answer], Solves(f, g),
         NEW call \in SubgraphCall,
         \A e \in SubgraphCall : Depth(e) < Depth(call) => Found(g, R, e, f[e])
  PROVE  Found(g, R, call, f[call])
<1>1. f[call] = FindSubgraphRecursive(g, call, f)
  BY DEF Solves
<1>2. CASE ~GoesOn(g, call)
  BY <1>1, <1>2, OthersStop, StopFound
<1>3. CASE GoesOn(g, call)
  <2> DEFINE s == MainInto(g, call.node)
             N == Len(s)
  <2>1. N \in Nat
    BY MainIntoType
  <2>2. PICK h \in [0 .. N -> Answer] : Rounds(g, call, f, h)
    BY <1>3, RoundsExist
  <2>3. f[call] = h[N]
    BY <1>1, <1>3, <2>2, RoundsAreMade
  <2> HIDE DEF N
  <2> DEFINE P == {k \in 0 .. N : RoundsFound(g, R, call, h[k], k)}
  <2>4. 0 \in P
    <3>1. Upstream(g, {}, Visited(call.branch) \cup {call.node}) /\ Covered(g, {}, R, h[0])
      BY DEF Upstream, Covered
    <3>2. Grown(call.kept, h[0])
      <4>1. h[0] = call.kept
        BY <2>2 DEF Rounds
      <4> DEFINE k == call.kept
      <4> HIDE DEF k
      <4> QED
        BY <4>1 DEF Grown, k
    <3>3. RoundsFound(g, R, call, h[0], 0)
      BY <3>1, <3>2 DEF RoundsFound
    <3> QED
      BY <2>1, <3>3
  <2>5. ASSUME NEW k \in 0 .. N, k \in P, k < N PROVE k + 1 \in P
    <3>1. k + 1 \in 1 .. N /\ (k + 1) - 1 = k /\ k \in Nat /\ k + 1 \in 0 .. N
      BY <2>1, <2>5
    <3> DEFINE b == h[k]
               r == h[k + 1]
               e == Further(call, s[k + 1], b)
    <3>2. r = IF b = NotInGraph THEN b ELSE f[e]
      BY <2>2, <3>1 DEF Rounds, N
    <3>3. b \in Answer /\ RoundsFound(g, R, call, b, k)
      BY <2>5
    <3> HIDE DEF b, r
    <3>4. CASE b = NotInGraph
      <4>1. RoundsFound(g, R, call, r, k + 1)
        BY <3>2, <3>4 DEF RoundsFound
      <4> QED
        BY <3>1, <4>1 DEF r
    <3>5. CASE b # NotInGraph
      <4>1. b \in Graph
        BY <3>3, <3>5 DEF Answer
      <4>2. e \in SubgraphCall /\ Depth(e) < Depth(call)
        BY <1>3, <3>1, <4>1, FurtherIsDeeper DEF N
      <4>3. Found(g, R, e, r)
        <5> HIDE DEF e
        <5> QED
          BY <3>2, <3>5, <4>2
      <4>4. k + 1 \in 1 .. Len(MainInto(g, call.node))
        BY <3>1 DEF N
      <4>5. RoundsFound(g, R, call, r, k + 1)
        BY <1>3, <3>1, <3>3, <4>1, <4>3, <4>4, RoundFound
      <4> QED
        BY <3>1, <4>5 DEF r
    <3> QED
      BY <3>4, <3>5
  <2>6. RoundsFound(g, R, call, h[N], N)
    <3>1. 0 .. N \subseteq P
      <4> HIDE DEF P
      <4> QED
        BY <2>1, <2>4, <2>5, UpTo
    <3> QED
      BY <2>1, <3>1
  <2>7. Found(g, R, call, h[N])
    BY <1>3, <2>6, RoundsFoundAll DEF N
  <2> QED
    BY <2>3, <2>7
<1> QED
  BY <1>2, <1>3

LEMMA AllFound ==
  ASSUME NEW g \in Graph, NEW R, Led(g, R), NEW f \in [SubgraphCall -> Answer], Solves(f, g)
  PROVE  \A call \in SubgraphCall : Found(g, R, call, f[call])
<1> DEFINE P == {k \in Nat : \A call \in SubgraphCall : Depth(call) < k => Found(g, R, call, f[call])}
<1>1. 0 \in P
  <2>1. \A call \in SubgraphCall : ~(Depth(call) < 0)
    BY DepthBounded
  <2> QED
    BY <2>1
<1>2. ASSUME NEW k \in P \cap Nat PROVE k + 1 \in P
  <2>1. ASSUME NEW call \in SubgraphCall, Depth(call) < k + 1 PROVE Found(g, R, call, f[call])
    <3>1. \A e \in SubgraphCall : Depth(e) \in Int
      BY DepthBounded
    <3>2. \A e \in SubgraphCall : Depth(e) < Depth(call) => Found(g, R, e, f[e])
      BY <1>2, <2>1, <3>1
    <3> QED
      BY <3>2, CallFound
  <2> QED
    BY <2>1
<1>3. Nat \subseteq P
  <2> HIDE DEF P
  <2> QED
    BY <1>1, <1>2, Induction
<1>4. ASSUME NEW call \in SubgraphCall PROVE Found(g, R, call, f[call])
  <2>1. Depth(call) \in Nat
    BY DepthBounded
  <2>2. Depth(call) + 1 \in P /\ Depth(call) < Depth(call) + 1
    BY <1>3, <2>1
  <2> QED
    BY <2>2
<1> QED
  BY <1>4

\* The subgraph of a graph: it has no connection twice, and none is missing on the
\* way from the trigger to the destination.
LEMMA SubgraphFound ==
  ASSUME NEW g \in Graph, NEW d \in Node, NEW R, Led(g, R),
         FindSubgraphFrom(g, d) # NotInGraph
  PROVE  LET r == FindSubgraphFrom(g, d)
         IN /\ r \in Graph /\ Proper(r)
            /\ \E Z : d \in Z /\ Upstream(g, Z, {}) /\ Covered(g, Z, R, r)
<1> DEFINE start == [node |-> d, kept |-> EmptyGraph, branch |-> <<>>]
           r == FindSubgraphFrom(g, d)
<1>1. PICK f \in [SubgraphCall -> Answer] : Solves(f, g) /\ r = f[start]
  BY SubgraphRecursion
<1>2. start \in SubgraphCall /\ start.node = d /\ start.kept = EmptyGraph /\ start.branch = <<>>
  BY DEF SubgraphCall, EmptyGraph, Graph
<1>3. Visited(<<>>) = {}
  BY DEF Visited, ToSet
<1>4. Proper(EmptyGraph)
  BY DEF Proper, EmptyGraph, IsInjective, EndsOf, ToSet
<1> HIDE DEF start
<1>5. Found(g, R, start, f[start])
  BY <1>1, <1>2, AllFound
<1>6. r \in Graph
  BY <1>1, <1>2 DEF Answer
<1> HIDE DEF r
<1>7. Grown(EmptyGraph, r) /\ BehindKept(g, R, start, r)
  BY <1>1, <1>2, <1>5 DEF Found, r
<1>8. Proper(r)
  BY <1>4, <1>7 DEF Grown
<1>9. \E Z : d \in Z /\ Upstream(g, Z, {}) /\ Covered(g, Z, R, r)
  BY <1>2, <1>3, <1>7 DEF BehindKept
<1> QED
  BY <1>6, <1>8, <1>9 DEF r

-----------------------------------------------------------------------------
(* SubgraphComplete.                                                        *)

LEMMA AlongHolds ==
  ASSUME NEW g \in Graph, NEW cs
  PROVE  /\ Along(g, cs).conns \in Seq(Connection)
         /\ ToSet(Along(g, cs).conns) = ToSet(g.conns) \cap cs
<1>1. g.conns \in Seq(Connection) /\ Along(g, cs).conns = Where(g.conns, cs)
  BY DEF Graph, Along
<1> QED
  BY <1>1, WhereKeeps

LEMMA WaysKept ==
  ASSUME NEW g \in Graph, input.destination \in Node,
         FindSubgraphFrom(g, input.destination) # NotInGraph,
         NEW c \in OnTheWay(g),
         LET G == Along(g, OnTheWay(g))
         IN /\ c.from \in {trigger} \cup GetChildren(G, trigger)
            /\ input.destination \in {c.to} \cup GetChildren(G, c.to)
  PROVE  c \in ToSet(FindSubgraphFrom(g, input.destination).conns)
<1> DEFINE G == Along(g, OnTheWay(g))
           R == {trigger} \cup GetChildren(G, trigger)
           d == input.destination
           r == FindSubgraphFrom(g, d)
<1>1. G.conns \in Seq(Connection) /\ ToSet(G.conns) = OnTheWay(g)
  BY AlongHolds DEF OnTheWay, Main
<1> HIDE DEF G
<1>2. /\ Ahead(G, trigger, GetChildren(G, trigger)) = GetChildren(G, trigger)
      /\ \A T : Ahead(G, c.to, T) \subseteq T => GetChildren(G, c.to) \subseteq T
  BY <1>1, ChildrenAreReached
<1>3. Led(g, R)
  BY <1>1, <1>2 DEF Led, Ahead, From
<1> HIDE DEF R
<1>4. PICK Z : d \in Z /\ Upstream(g, Z, {}) /\ Covered(g, Z, R, r)
  BY <1>3, SubgraphFound
<1>5. c.to \in Z
  <2> SUFFICES ASSUME c.to \notin Z PROVE FALSE
    OBVIOUS
  <2> DEFINE T == Ends(G) \ Z
  <2>1. ASSUME NEW e \in From(G, {c.to} \cup T) PROVE e.to \in T
    BY <1>1, <1>4, <2>1 DEF From, Upstream, Ends
  <2>2. Ahead(G, c.to, T) \subseteq T
    <3> HIDE DEF T
    <3> QED
      BY <2>1 DEF Ahead
  <2>3. GetChildren(G, c.to) \subseteq T
    BY <1>2, <2>2
  <2>4. d \in {c.to} \cup GetChildren(G, c.to)
    BY DEF G
  <2> QED
    BY <1>4, <2>3, <2>4
<1>6. c.from \in R
  BY DEF G, R
<1> QED
  BY <1>4, <1>5, <1>6 DEF Covered

LEMMA SubNodesAdded ==
  ASSUME NEW g \in Graph, NEW kept \in Graph
  PROVE  LET r == AddSubNodes(g, kept)
             sub == SubNodeConnections(g, ToSet(kept.nodes)) \cap ToSet(g.conns)
         IN /\ r \in Graph /\ (Proper(kept) => Proper(r))
            /\ ToSet(r.conns) = ToSet(kept.conns) \cup sub
            /\ ToSet(r.nodes) = ToSet(kept.nodes) \cup EndsOf(sub)
<1> DEFINE cs == Where(g.conns, SubNodeConnections(g, ToSet(kept.nodes)))
<1>1. /\ cs \in Seq(Connection)
      /\ ToSet(cs) = SubNodeConnections(g, ToSet(kept.nodes)) \cap ToSet(g.conns)
  BY WhereKeeps DEF Graph
<1>2. AddSubNodes(g, kept) = AddConnections(kept, cs)
  BY DEF AddSubNodes
<1> HIDE DEF cs
<1> QED
  BY <1>1, <1>2, ConnectionsAdded

\* The workflow and destination given.
InputType == input.graph \in Graph /\ input.destination \in Node

LEMMA InputTypeHolds == /\ Init => InputType
                        /\ InputType /\ [Next]_vars => InputType' /\ UNCHANGED input
<1>1. Init => InputType
  BY PartialAssumption DEF Init, InputType
<1>2. [Next]_vars => UNCHANGED input
  BY InputStays
<1> QED
  BY <1>1, <1>2 DEF InputType

\* What findSubgraph leaves.
LEMMA SubgraphStep ==
  ASSUME InputType, FindSubgraph, stage' = "subgraph"
  PROVE  LET filtered == FilterDisabledNodes(input.graph)
             kept == FindSubgraphFrom(filtered, input.destination)
         IN /\ filtered \in Graph /\ kept \in Graph /\ kept # NotInGraph /\ Proper(kept)
            /\ Sound(filtered, ToSet(kept.nodes))
            /\ graph' = AddSubNodes(filtered, kept) /\ UNCHANGED <<input, trigger>>
<1> DEFINE filtered == FilterDisabledNodes(input.graph)
           kept == FindSubgraphFrom(filtered, input.destination)
<1>1. filtered \in Graph
  BY FilterKeepsWays DEF InputType
<1>2. /\ kept # NotInGraph /\ Sound(filtered, ToSet(kept.nodes))
      /\ graph' = AddSubNodes(filtered, kept) /\ UNCHANGED <<input, trigger>>
  BY DEF FindSubgraph, Fails
<1> HIDE DEF filtered
<1>3. Led(filtered, {})
  BY DEF Led
<1>4. kept \in Graph /\ Proper(kept)
  BY <1>1, <1>2, <1>3, SubgraphFound DEF InputType
<1> QED
  BY <1>1, <1>2, <1>4 DEF filtered

LEMMA CompleteStep == InputType /\ SubgraphComplete /\ [Next]_vars => SubgraphComplete'
<1> SUFFICES ASSUME InputType, SubgraphComplete, [Next]_vars, stage' = "subgraph"
             PROVE  SubgraphComplete'
  BY DEF SubgraphComplete
<1>1. CASE UNCHANGED vars
  <2>1. FilterDisabledNodes(input.graph)' = FilterDisabledNodes(input.graph)
    BY <1>1 DEF vars, FilterDisabledNodes
  <2> QED
    BY <1>1, <2>1 DEF vars, SubgraphComplete
<1>2. CASE FindSubgraph
  <2> DEFINE filtered == FilterDisabledNodes(input.graph)
             kept == FindSubgraphFrom(filtered, input.destination)
  <2>1. /\ filtered \in Graph /\ kept \in Graph /\ kept # NotInGraph
        /\ graph' = AddSubNodes(filtered, kept) /\ UNCHANGED <<input, trigger>>
    BY <1>2, SubgraphStep
  <2>2. filtered' = filtered
    BY <2>1 DEF FilterDisabledNodes
  <2>3. ToSet(kept.conns) \subseteq ToSet(graph'.conns)
    <3> HIDE DEF filtered, kept
    <3>1. ToSet(kept.conns) \subseteq ToSet(AddSubNodes(filtered, kept).conns)
      <4>1. filtered \in Graph /\ kept \in Graph
        BY <2>1
      <4> DEFINE r == AddSubNodes(filtered, kept)
                 sub == SubNodeConnections(filtered, ToSet(kept.nodes)) \cap ToSet(filtered.conns)
      <4>2. ToSet(r.conns) = ToSet(kept.conns) \cup sub
        BY <4>1, SubNodesAdded, Zenon
      <4> QED
        BY <4>2
    <3> QED
      BY <2>1, <3>1
  <2> DEFINE G == Along(filtered, OnTheWay(filtered))
  <2>4. ASSUME NEW c \in ToSet(G.conns),
               c.from \in {trigger} \cup GetChildren(G, trigger),
               input.destination \in {c.to} \cup GetChildren(G, c.to)
        PROVE  c \in ToSet(graph'.conns)
    <3> HIDE DEF filtered
    <3>1. c \in OnTheWay(filtered)
      BY <2>1, <2>4, AlongHolds
    <3>2. c \in ToSet(kept.conns)
      BY <2>1, <2>4, <3>1, WaysKept DEF InputType
    <3> QED
      BY <2>3, <3>2
  <2>5. G' = G
    <3> HIDE DEF filtered
    <3> QED
      BY <2>1, <2>2 DEF OnTheWay
  <2>6. OnTheWay(filtered) =
          {c \in Main(filtered) : c.from # input.destination /\ c.to # trigger}
    BY DEF OnTheWay
  <2> QED
    BY <2>1, <2>4, <2>5 DEF SubgraphComplete, OnTheWay
<1>3. CASE Next /\ ~FindSubgraph
  BY <1>3 DEF Next, FindTrigger, FindStartNodes, HandleCycles, Clean, RecreateNodeExecutionStack, Fails
<1> QED
  BY <1>1, <1>2, <1>3

\* In every workflow: the subgraph has all connections on ways from the trigger to
\* the destination, loops included.
THEOREM NoWayIsLost == Spec => []SubgraphComplete
<1>1. Init => SubgraphComplete
  BY DEF Init, SubgraphComplete
<1> QED
  BY <1>1, InputTypeHolds, CompleteStep, PTL DEF Spec

-----------------------------------------------------------------------------
(* No node of the subgraph is disabled.                                     *)

LEMMA FilterRemoves ==
  ASSUME NEW g \in Graph
  PROVE  ToSet(FilterDisabledNodes(g).nodes) \cap input.disabled = {}
<1> DEFINE D == input.disabled
           off == Where(g.nodes, D)
           N == Len(off)
           Good(h) == h = [i \in 0 .. N |-> IF i = 0 THEN g ELSE RemoveNode(h[i - 1], off[i])]
           f == CHOOSE h : Good(h)
           F == [i \in 1 .. N |-> [r \in Graph |-> RemoveNode(r, off[i])]]
<1>1. FilterDisabledNodes(g) = f[N]
  BY Zenon DEF FilterDisabledNodes
<1>2. off \in Seq(Node) /\ ToSet(off) = ToSet(g.nodes) \cap D
  BY WhereKeeps DEF Graph
<1> HIDE DEF off
<1>3. N \in Nat
  BY <1>2
<1>4. Good(f)
  <2> HIDE DEF N
  <2>1. F \in Steps(N, Graph)
    BY RemovedNodeIsPassed DEF Steps
  <2>2. PICK h \in [0 .. N -> Graph] : Loop(h, g, F, N)
    <3> HIDE DEF F
    <3> QED
      BY <1>3, <2>1, Recursion
  <2>3. \A i \in 1 .. N : i - 1 \in 0 .. N
    BY <1>3
  <2>4. \A i \in 1 .. N : F[i][h[i - 1]] = RemoveNode(h[i - 1], off[i])
    BY <2>3
  <2>5. Good(h)
    <3>1. \A i \in 0 .. N : i # 0 => i \in 1 .. N
      BY <1>3
    <3> HIDE DEF F
    <3> QED
      BY <2>2, <2>4, <3>1 DEF Loop
  <2> HIDE DEF Good
  <2> QED
    BY <2>5
<1> HIDE DEF f
<1>5. f[0] = g
  BY <1>3, <1>4
<1>6. ASSUME NEW i \in 1 .. N PROVE f[i] = RemoveNode(f[i - 1], off[i])
  <2>1. i \in 0 .. N /\ i # 0
    BY <1>3
  <2> QED
    BY <1>4, <2>1
<1> HIDE DEF N, F, Good, D
<1> DEFINE First(k) == {off[i] : i \in 1 .. k}
           P == {k \in 0 .. N : f[k] \in Graph /\ ToSet(f[k].nodes) = ToSet(g.nodes) \ First(k)}
<1>7. 0 \in P
  <2>1. First(0) = {}
    OBVIOUS
  <2> HIDE DEF First
  <2> QED
    BY <1>3, <1>5, <2>1
<1>8. ASSUME NEW k \in 0 .. N, k \in P, k < N PROVE k + 1 \in P
  <2>1. k + 1 \in 1 .. N /\ (k + 1) - 1 = k /\ k + 1 \in 0 .. N
    BY <1>3, <1>8
  <2> DEFINE r == f[k]
             x == off[k + 1]
  <2>2. f[k + 1] = RemoveNode(r, x)
    BY <1>6, <2>1
  <2>3. r \in Graph /\ ToSet(r.nodes) = ToSet(g.nodes) \ First(k)
    BY <1>8
  <2>4. First(k + 1) = First(k) \cup {x}
    <3>1. 1 .. k + 1 = (1 .. k) \cup {k + 1}
      OBVIOUS
    <3> QED
      BY <3>1
  <2> HIDE DEF r, x, First
  <2>5. f[k + 1] \in Graph
    BY <2>2, <2>3, RemovedNodeIsPassed
  <2>6. ToSet(f[k + 1].nodes) = ToSet(r.nodes) \ {x}
    <3>1. f[k + 1].nodes = Where(r.nodes, ToSet(r.nodes) \ {x})
      BY <2>2 DEF RemoveNode
    <3>2. r.nodes \in Seq(Node)
      BY <2>3 DEF Graph
    <3>3. ToSet(Where(r.nodes, ToSet(r.nodes) \ {x})) = ToSet(r.nodes) \cap (ToSet(r.nodes) \ {x})
      BY <3>2, WhereKeeps
    <3> QED
      BY <3>1, <3>3
  <2>7. ToSet(f[k + 1].nodes) = ToSet(g.nodes) \ First(k + 1)
    BY <2>3, <2>4, <2>6
  <2> QED
    BY <2>1, <2>5, <2>7
<1>9. ToSet(f[N].nodes) = ToSet(g.nodes) \ First(N)
  <2>1. 0 .. N \subseteq P
    <3> HIDE DEF P
    <3> QED
      BY <1>3, <1>7, <1>8, UpTo
  <2> QED
    BY <1>3, <2>1
<1>10. First(N) = ToSet(off)
  BY DEF ToSet, N
<1> HIDE DEF First
<1> QED
  BY <1>1, <1>2, <1>9, <1>10 DEF D

\* A connection before node n leads into it or into where another such comes from.
LEMMA ParentsMeet ==
  ASSUME NEW g \in Graph, NEW n, NEW c \in GetParentConnections(g, n)
  PROVE  c.to \in {n} \cup {d.from : d \in GetParentConnections(g, n)}
<1> DEFINE N == Len(g.conns)
           Up(R) == Into(g, {n} \cup {d.from : d \in R})
           Good(h) == h = [k \in 0 .. N |->
                             IF k = 0 THEN {} ELSE Into(g, {n} \cup {d.from : d \in h[k - 1]})]
           f == CHOOSE h : Good(h)
           S == SUBSET ToSet(g.conns)
           F == [k \in 1 .. N |-> [R \in S |-> Up(R)]]
<1>1. GetParentConnections(g, n) = f[N]
  BY Zenon DEF GetParentConnections
<1>2. N \in Nat
  BY DEF Graph
<1>3. Good(f)
  <2> HIDE DEF N
  <2>1. \A R \in S : Up(R) \in S
    BY DEF Into
  <2> HIDE DEF Up, S
  <2>2. F \in Steps(N, S)
    BY <2>1 DEF Steps
  <2>3. PICK h \in [0 .. N -> S] : Loop(h, {}, F, N)
    <3> HIDE DEF F
    <3>1. {} \in S
      BY DEF S
    <3> QED
      BY <1>2, <2>2, <3>1, Recursion
  <2>4. \A k \in 1 .. N : k - 1 \in 0 .. N
    BY <1>2
  <2>5. \A k \in 1 .. N : F[k][h[k - 1]] = Up(h[k - 1])
    BY <2>4
  <2>6. Good(h)
    <3>1. \A k \in 0 .. N : k # 0 => k \in 1 .. N
      BY <1>2
    <3> HIDE DEF F
    <3> QED
      BY <2>3, <2>5, <3>1 DEF Loop, Up
  <2> HIDE DEF Good
  <2> QED
    BY <2>6
<1> HIDE DEF f
<1>4. f[0] = {}
  BY <1>2, <1>3
<1>5. ASSUME NEW k \in 1 .. N PROVE f[k] = Up(f[k - 1])
  <2>1. k \in 0 .. N /\ k # 0
    BY <1>2
  <2> QED
    BY <1>3, <2>1
<1>6. \A R, T : R \subseteq T => Up(R) \subseteq Up(T)
  BY DEF Into
<1>a. \A R : \A e \in Up(R) : e.to \in {n} \cup {d.from : d \in R}
  BY DEF Into
<1> HIDE DEF N, F, Good, Up
<1> DEFINE P == {k \in 0 .. N : k > 0 => f[k - 1] \subseteq f[k]}
<1>7. 0 \in P
  BY <1>2
<1>8. ASSUME NEW k \in 0 .. N, k \in P, k < N PROVE k + 1 \in P
  <2>1. k + 1 \in 1 .. N /\ (k + 1) - 1 = k /\ k + 1 \in 0 .. N
    BY <1>2, <1>8
  <2>2. f[k + 1] = Up(f[k])
    BY <1>5, <2>1
  <2>3. CASE k = 0
    BY <1>4, <2>1, <2>3
  <2>4. CASE k > 0
    <3>1. k \in 1 .. N
      BY <2>4
    <3>2. f[k] = Up(f[k - 1]) /\ f[k - 1] \subseteq f[k]
      BY <1>5, <1>8, <2>4, <3>1
    <3>3. f[k] \subseteq f[k + 1]
      BY <1>6, <2>2, <3>2
    <3> QED
      BY <2>1, <3>3
  <2> QED
    BY <2>3, <2>4
<1>9. N \in P
  <2> HIDE DEF P
  <2>1. 0 .. N \subseteq P
    BY <1>2, <1>7, <1>8, UpTo
  <2> QED
    BY <1>2, <2>1
<1>10. N > 0
  BY <1>1, <1>2, <1>4
<1>11. c.to \in {n} \cup {d.from : d \in f[N - 1]}
  <2>1. N \in 1 .. N
    BY <1>2, <1>10
  <2>2. c \in Up(f[N - 1])
    BY <1>1, <1>5, <2>1
  <2> QED
    BY <1>a, <2>2
<1>12. f[N - 1] \subseteq f[N]
  BY <1>9, <1>10
<1> QED
  BY <1>1, <1>11, <1>12

\* The subgraph holds no connection twice, the ends of each, and no disabled node.
GraphType == graph \in Graph /\ Proper(graph) /\ NoDisabledNodes

LEMMA GraphInitial == Init => GraphType
BY DEF Init, GraphType, EmptyGraph, Graph, Proper, IsInjective, EndsOf, NoDisabledNodes, ToSet

LEMMA GraphStep == InputType /\ GraphType /\ [Next]_vars => GraphType'
<1> SUFFICES ASSUME InputType, GraphType, [Next]_vars PROVE GraphType'
  OBVIOUS
<1>0. UNCHANGED input
  BY InputStays
<1>1. CASE UNCHANGED graph
  BY <1>0, <1>1 DEF GraphType, Proper, NoDisabledNodes
<1>2. CASE FindSubgraph /\ stage' = "subgraph"
  <2> DEFINE filtered == FilterDisabledNodes(input.graph)
             kept == FindSubgraphFrom(filtered, input.destination)
             sub == SubNodeConnections(filtered, ToSet(kept.nodes)) \cap ToSet(filtered.conns)
  <2>1. /\ filtered \in Graph /\ kept \in Graph /\ Proper(kept)
        /\ Sound(filtered, ToSet(kept.nodes)) /\ graph' = AddSubNodes(filtered, kept)
    BY <1>2, SubgraphStep
  <2>2. ToSet(filtered.nodes) \cap input.disabled = {}
    BY FilterRemoves DEF InputType
  <2> HIDE DEF filtered, kept
  <2>3. filtered \in Graph /\ kept \in Graph
    BY <2>1
  <2>4. /\ AddSubNodes(filtered, kept) \in Graph
        /\ Proper(kept) => Proper(AddSubNodes(filtered, kept))
        /\ ToSet(AddSubNodes(filtered, kept).nodes) = ToSet(kept.nodes) \cup EndsOf(sub)
    BY <2>3, SubNodesAdded, Zenon
  <2>5. ToSet(kept.nodes) \subseteq ToSet(filtered.nodes)
    BY <2>1 DEF Sound, HasNode
  <2>6. ASSUME NEW c \in sub PROVE c.from \in ToSet(filtered.nodes) /\ c.to \in ToSet(filtered.nodes)
    <3>1. PICK n \in ToSet(kept.nodes) : c \in GetParentConnections(filtered, n)
      BY <2>6 DEF SubNodeConnections
    <3>2. \A d \in GetParentConnections(filtered, n) : d.from \in ToSet(filtered.nodes)
      BY <2>1 DEF Sound, HasNode
    <3>3. c.to \in {n} \cup {d.from : d \in GetParentConnections(filtered, n)}
      BY <2>3, <3>1, ParentsMeet
    <3> QED
      BY <2>5, <3>1, <3>2, <3>3
  <2>7. EndsOf(sub) \subseteq ToSet(filtered.nodes)
    <3> HIDE DEF sub
    <3> QED
      BY <2>6 DEF EndsOf
  <2>8. ToSet(graph'.nodes) \subseteq ToSet(filtered.nodes)
    BY <2>1, <2>4, <2>5, <2>7
  <2>9. NoDisabledNodes'
    BY <1>0, <2>2, <2>8 DEF NoDisabledNodes
  <2>10. graph' \in Graph /\ Proper(graph)'
    BY <2>1, <2>4 DEF Proper
  <2> QED
    BY <2>9, <2>10 DEF GraphType
<1>3. CASE FindSubgraph /\ stage' # "subgraph"
  <2>1. UNCHANGED graph
    BY <1>3 DEF FindSubgraph, Fails
  <2> QED
    BY <1>1, <2>1
<1>4. CASE ~FindSubgraph
  <2>1. UNCHANGED graph
    BY <1>4 DEF Next, vars, FindTrigger, FindStartNodes, HandleCycles, Clean,
                RecreateNodeExecutionStack, Fails
  <2> QED
    BY <1>1, <2>1
<1> QED
  BY <1>2, <1>3, <1>4

\* No workflow makes the assertion of recreateNodeExecutionStack fail.
THEOREM StackHasNoDisabledNodes == Spec => []NoDisabledNodes
<1>1. GraphType => NoDisabledNodes
  BY DEF GraphType
<1> QED
  BY <1>1, InputTypeHolds, GraphInitial, GraphStep, PTL DEF Spec

-----------------------------------------------------------------------------
(* getSourceDataGroups: the loop keeps its groups greedy and ends with every *)
(* connection used.                                                         *)

LEMMA Least ==
  ASSUME NEW S \in SUBSET Nat, S # {}
  PROVE  Min(S) \in S /\ \A y \in S : Min(S) <= y
<1>1. IsWellFoundedOn(OpToRel(<, Nat), Nat)
  BY NatLessThanWellFounded
<1>2. OpToRel(<, Nat) = {p \in Nat \X Nat : p[1] < p[2]}
  BY Zenon DEF OpToRel
<1>3. IsWellFoundedOn({p \in Nat \X Nat : p[1] < p[2]}, Nat)
  BY <1>1, <1>2, Zenon
<1>4. PICK k \in S : \A j \in S : <<j, k>> \notin {p \in Nat \X Nat : p[1] < p[2]}
  BY <1>3, WFMin
<1>5. ASSUME NEW j \in S PROVE k <= j
  <2>1. j \in Nat /\ k \in Nat
    OBVIOUS
  <2>2. <<j, k>> \notin {p \in Nat \X Nat : p[1] < p[2]}
    BY <1>4, Zenon
  <2> QED
    BY <2>1, <2>2
<1>6. k \in S /\ \A j \in S : k <= j
  BY <1>5
<1> QED
  BY <1>6 DEF Min

\* FirstOf takes one of the connections, one with data if there is one.
LEMMA FirstOfHere ==
  ASSUME NEW s \in Seq(Connection), NEW J \in SUBSET DOMAIN s, J # {}
  PROVE  /\ FirstOf(s, J) \in J
         /\ \A j \in J : HasSourceData(s[j]) => HasSourceData(s[FirstOf(s, J)])
<1> DEFINE with == {j \in J : HasSourceData(s[j])}
           first == IF with # {} THEN with ELSE J
           names == {s[j].from : j \in first}
           lowest == {j \in first : \A k \in first : s[j].from <= s[k].from}
<1>1. first # {} /\ first \subseteq J /\ DOMAIN s \subseteq Nat
  OBVIOUS
<1>2. names \subseteq Nat /\ names # {}
  <2>1. \A j \in J : s[j] \in Connection
    OBVIOUS
  <2>2. \A j \in J : s[j].from \in Nat
    BY <2>1, PartialAssumption DEF Connection
  <2> HIDE DEF first
  <2> QED
    BY <1>1, <2>2
<1>3. Min(names) \in names /\ \A y \in names : Min(names) <= y
  <2> HIDE DEF names
  <2> QED
    BY <1>2, Least
<1>4. PICK j \in first : s[j].from = Min(names)
  <2> HIDE DEF first
  <2> QED
    BY <1>3
<1>5. lowest # {}
  <2>1. \A k \in first : s[k].from \in names
    <3> HIDE DEF first
    <3> QED
      OBVIOUS
  <2>2. \A k \in first : s[j].from <= s[k].from
    <3> HIDE DEF first, names
    <3> QED
      BY <1>3, <1>4, <2>1
  <2> HIDE DEF first
  <2> QED
    BY <2>2
<1>6. Min(lowest) \in lowest
  <2>1. lowest \subseteq Nat
    <3> HIDE DEF first
    <3> QED
      BY <1>1
  <2> HIDE DEF lowest
  <2> QED
    BY <1>5, <2>1, Least
<1>7. FirstOf(s, J) = Min(lowest)
  BY DEF FirstOf
<1>8. FirstOf(s, J) \in first
  <2> HIDE DEF first
  <2> QED
    BY <1>6, <1>7
<1> QED
  BY <1>1, <1>8

\* Of groups T[1], ..., T[m] of the connections s, as sets, with those of rest left
\* and input `in` next: each connection is in one group or left, a group has one per
\* input, and one with data is never left or later while one without is taken.
Grouped(s, all, T, m, rest, in) ==
  /\ m \in Nat \ {0} /\ T \in [1 .. m -> SUBSET Connection] /\ rest \subseteq all /\ in \in Nat
  /\ \A i \in 1 .. m : \A c \in T[i] : \E j \in all \ rest : c = s[j]
  /\ \A j \in all \ rest : \E i \in 1 .. m : s[j] \in T[i]
  /\ \A i, k \in 1 .. m : T[i] \cap T[k] # {} => i = k
  /\ \A c \in T[m] : c.in < in
  /\ \A i \in 1 .. m : \A c, d \in T[i] : c.in = d.in => c = d
  /\ \A i \in 1 .. m : \A c \in T[i] : \A j \in rest :
       c.in = s[j].in /\ HasSourceData(s[j]) => HasSourceData(c)
  /\ \A i, k \in 1 .. m : i < k =>
       \A c \in T[i], d \in T[k] : c.in = d.in /\ HasSourceData(d) => HasSourceData(c)

LEMMA GroupGrows ==
  ASSUME NEW s \in Seq(Connection), IsInjective(s), NEW all \in SUBSET DOMAIN s,
         NEW T, NEW m, NEW rest, NEW in, Grouped(s, all, T, m, rest, in),
         NEW x \in rest, s[x].in = in,
         \A j \in rest : s[j].in = in /\ HasSourceData(s[j]) => HasSourceData(s[x])
  PROVE  Grouped(s, all, [T EXCEPT ![m] = @ \cup {s[x]}], m, rest \ {x}, in + 1)
<1> DEFINE U == [T EXCEPT ![m] = @ \cup {s[x]}]
           c0 == s[x]
<1>1. /\ m \in Nat \ {0} /\ T \in [1 .. m -> SUBSET Connection] /\ rest \subseteq all /\ in \in Nat
      /\ m \in 1 .. m
  BY DEF Grouped
<1>2. c0 \in Connection /\ c0.in = in
  BY <1>1
<1>3. U[m] = T[m] \cup {c0} /\ \A i \in 1 .. m : i # m => U[i] = T[i]
  BY <1>1
<1>4. U \in [1 .. m -> SUBSET Connection]
  BY <1>1, <1>2
<1>5. \A j \in DOMAIN s : s[j] = c0 => j = x
  BY <1>1 DEF IsInjective
<1>6. \A i \in 1 .. m : c0 \notin T[i]
  BY <1>1, <1>5 DEF Grouped
<1>7. \A c \in T[m] : c.in \in Nat /\ c.in < in
  <2>1. \A c \in T[m] : c \in Connection
    BY <1>1
  <2> QED
    BY <2>1 DEF Grouped, Connection
<1> HIDE DEF U, c0
<1>8. ASSUME NEW i \in 1 .. m, NEW c \in U[i] PROVE c \in T[i] \/ (i = m /\ c = c0)
  BY <1>3
<1>9. \A i \in 1 .. m : \A c \in U[i] : \E j \in all \ (rest \ {x}) : c = s[j]
  BY <1>1, <1>8 DEF Grouped, c0
<1>10. \A j \in all \ (rest \ {x}) : \E i \in 1 .. m : s[j] \in U[i]
  <2>1. \A i \in 1 .. m : T[i] \subseteq U[i]
    BY <1>3
  <2>2. s[x] \in U[m]
    BY <1>3 DEF c0
  <2> QED
    BY <1>1, <2>1, <2>2 DEF Grouped
<1>11. \A i, k \in 1 .. m : U[i] \cap U[k] # {} => i = k
  <2> SUFFICES ASSUME NEW i \in 1 .. m, NEW k \in 1 .. m, NEW c, c \in U[i], c \in U[k]
               PROVE  i = k
    OBVIOUS
  <2>1. (c \in T[i] \/ (i = m /\ c = c0)) /\ (c \in T[k] \/ (k = m /\ c = c0))
    BY <1>8
  <2>2. c \in T[i] /\ c \in T[k] => i = k
    BY DEF Grouped
  <2> QED
    BY <1>6, <2>1, <2>2
<1>12. \A c \in U[m] : c.in < in + 1
  BY <1>1, <1>2, <1>3, <1>7
<1>13. \A i \in 1 .. m : \A c, d \in U[i] : c.in = d.in => c = d
  <2> SUFFICES ASSUME NEW i \in 1 .. m, NEW c \in U[i], NEW d \in U[i], c.in = d.in PROVE c = d
    OBVIOUS
  <2>1. (c \in T[i] \/ (i = m /\ c = c0)) /\ (d \in T[i] \/ (i = m /\ d = c0))
    BY <1>8
  <2>2. c \in T[i] /\ d \in T[i] => c = d
    BY DEF Grouped
  <2> QED
    BY <1>1, <1>2, <1>7, <2>1, <2>2
<1>14. \A i \in 1 .. m : \A c \in U[i] : \A j \in rest \ {x} :
         c.in = s[j].in /\ HasSourceData(s[j]) => HasSourceData(c)
  <2> SUFFICES ASSUME NEW i \in 1 .. m, NEW c \in U[i], NEW j \in rest, c.in = s[j].in,
                      HasSourceData(s[j])
               PROVE  HasSourceData(c)
    OBVIOUS
  <2>1. CASE c \in T[i]
    BY <2>1 DEF Grouped
  <2>2. CASE c = c0
    BY <1>2, <2>2 DEF c0
  <2> QED
    BY <1>8, <2>1, <2>2
<1>15. \A i, k \in 1 .. m : i < k =>
         \A c \in U[i], d \in U[k] : c.in = d.in /\ HasSourceData(d) => HasSourceData(c)
  <2> SUFFICES ASSUME NEW i \in 1 .. m, NEW k \in 1 .. m, i < k, NEW c \in U[i], NEW d \in U[k],
                      c.in = d.in, HasSourceData(d)
               PROVE  HasSourceData(c)
    OBVIOUS
  <2>1. c \in T[i]
    BY <1>1, <1>8
  <2>2. CASE d \in T[k]
    BY <2>1, <2>2 DEF Grouped
  <2>3. CASE d = c0
    BY <2>1, <2>3 DEF Grouped, c0
  <2> QED
    BY <1>8, <2>2, <2>3
<1>16. rest \ {x} \subseteq all /\ in + 1 \in Nat
  BY <1>1
<1>17. Grouped(s, all, U, m, rest \ {x}, in + 1)
  BY <1>1, <1>4, <1>9, <1>10, <1>11, <1>12, <1>13, <1>14, <1>15, <1>16 DEF Grouped
<1> QED
  BY <1>17 DEF U

LEMMA GroupCloses ==
  ASSUME NEW s \in Seq(Connection), NEW all \in SUBSET DOMAIN s,
         NEW T, NEW m, NEW rest, NEW in, Grouped(s, all, T, m, rest, in), NEW in2 \in Nat
  PROVE  Grouped(s, all, [i \in 1 .. m + 1 |-> IF i = m + 1 THEN {} ELSE T[i]], m + 1, rest, in2)
<1> DEFINE U == [i \in 1 .. m + 1 |-> IF i = m + 1 THEN {} ELSE T[i]]
<1>1. m \in Nat \ {0} /\ T \in [1 .. m -> SUBSET Connection] /\ rest \subseteq all
  BY DEF Grouped
<1>2. \A i \in 1 .. m + 1 : i = m + 1 \/ i \in 1 .. m
  BY <1>1
<1>3. U[m + 1] = {} /\ \A i \in 1 .. m : U[i] = T[i] /\ i \in 1 .. m + 1
  BY <1>1
<1>4. U \in [1 .. m + 1 -> SUBSET Connection] /\ m + 1 \in Nat \ {0}
  BY <1>1, <1>2
<1> HIDE DEF U
<1>5. \A i \in 1 .. m + 1 : \A c \in U[i] : i \in 1 .. m /\ c \in T[i]
  BY <1>2, <1>3
<1>6. \A i \in 1 .. m + 1 : \A c \in U[i] : \E j \in all \ rest : c = s[j]
  BY <1>5 DEF Grouped
<1>7. \A j \in all \ rest : \E i \in 1 .. m + 1 : s[j] \in U[i]
  BY <1>3 DEF Grouped
<1>8. \A i, k \in 1 .. m + 1 : U[i] \cap U[k] # {} => i = k
  <2> SUFFICES ASSUME NEW i \in 1 .. m + 1, NEW k \in 1 .. m + 1, NEW c, c \in U[i], c \in U[k]
               PROVE  i = k
    OBVIOUS
  <2> QED
    BY <1>5 DEF Grouped
<1>9. \A c \in U[m + 1] : c.in < in2
  BY <1>3
<1>10. \A i \in 1 .. m + 1 : \A c, d \in U[i] : c.in = d.in => c = d
  BY <1>5 DEF Grouped
<1>11. \A i \in 1 .. m + 1 : \A c \in U[i] : \A j \in rest :
         c.in = s[j].in /\ HasSourceData(s[j]) => HasSourceData(c)
  BY <1>5 DEF Grouped
<1>12. \A i, k \in 1 .. m + 1 : i < k =>
         \A c \in U[i], d \in U[k] : c.in = d.in /\ HasSourceData(d) => HasSourceData(c)
  BY <1>5 DEF Grouped
<1>13. Grouped(s, all, U, m + 1, rest, in2)
  BY <1>1, <1>4, <1>6, <1>7, <1>8, <1>9, <1>10, <1>11, <1>12 DEF Grouped
<1> QED
  BY <1>13 DEF U

\* The loop of getSourceDataGroups: its state, one round, the groups as sets.
GroupLoop(s) ==
  [groups : Seq(Seq(Connection)), group : Seq(Connection), rest : SUBSET DOMAIN s, in : Nat]

FirstInput(s, J) == Min({s[j].in : j \in J})
Here(s, l) == {j \in l.rest : s[j].in = l.in}

CloseGroup(s, l) ==
  [l EXCEPT !.groups = Append(@, l.group), !.group = <<>>, !.in = FirstInput(s, l.rest)]
AddToGroup(s, l) ==
  [l EXCEPT !.group = Append(@, s[FirstOf(s, Here(s, l))]),
            !.rest = @ \ {FirstOf(s, Here(s, l))}, !.in = @ + 1]
GroupRound(s, l) ==
  IF l.rest = {} THEN l ELSE IF Here(s, l) = {} THEN CloseGroup(s, l) ELSE AddToGroup(s, l)

Current(l) == Len(l.groups) + 1
AsSets(l) ==
  [i \in 1 .. Current(l) |-> IF i = Current(l) THEN ToSet(l.group) ELSE ToSet(l.groups[i])]

LEMMA FirstInputIs ==
  ASSUME NEW s \in Seq(Connection), NEW J \in SUBSET DOMAIN s, J # {}
  PROVE  FirstInput(s, J) \in Nat /\ \E j \in J : s[j].in = FirstInput(s, J)
<1> DEFINE S == {s[j].in : j \in J}
<1>1. \A j \in J : s[j] \in Connection
  OBVIOUS
<1>2. S \subseteq Nat /\ S # {}
  BY <1>1 DEF Connection
<1> HIDE DEF S
<1>3. Min(S) \in S
  BY <1>2, Least
<1> QED
  BY <1>2, <1>3 DEF FirstInput, S

LEMMA AsSetsType ==
  ASSUME NEW s, NEW l \in GroupLoop(s)
  PROVE  /\ Current(l) \in Nat \ {0} /\ AsSets(l)[Current(l)] = ToSet(l.group)
         /\ \A i \in 1 .. Len(l.groups) : AsSets(l)[i] = ToSet(l.groups[i])
         /\ DOMAIN AsSets(l) = 1 .. Current(l)
<1>1. Len(l.groups) \in Nat
  BY DEF GroupLoop
<1> QED
  BY <1>1 DEF AsSets, Current

LEMMA GroupClosed ==
  ASSUME NEW s \in Seq(Connection), NEW l \in GroupLoop(s), l.rest # {}
  PROVE  LET q == CloseGroup(s, l)
         IN /\ q \in GroupLoop(s) /\ q.rest = l.rest /\ Here(s, q) # {} /\ q.in \in Nat
            /\ Current(q) = Current(l) + 1
            /\ AsSets(q) = [i \in 1 .. Current(l) + 1 |->
                              IF i = Current(l) + 1 THEN {} ELSE AsSets(l)[i]]
<1> DEFINE q == CloseGroup(s, l)
           x == FirstInput(s, l.rest)
           G == l.groups
           m == Len(G) + 1
<1>1. G \in Seq(Seq(Connection)) /\ l.group \in Seq(Connection) /\ l.rest \in SUBSET DOMAIN s
  BY DEF GroupLoop
<1>2. x \in Nat /\ \E j \in l.rest : s[j].in = x
  BY <1>1, FirstInputIs
<1> DEFINE A == Append(G, l.group)
<1>5. /\ A \in Seq(Seq(Connection)) /\ Len(A) = m /\ A[m] = l.group
      /\ \A i \in 1 .. Len(G) : A[i] = G[i]
  BY <1>1
<1>3. q = [l EXCEPT !.groups = A, !.group = <<>>, !.in = x]
  BY DEF CloseGroup
<1> HIDE DEF q, A, x
<1>4. q.groups = A /\ q.group = <<>> /\ q.rest = l.rest /\ q.in = x
  BY <1>3 DEF GroupLoop
<1>6. q \in GroupLoop(s)
  <2>1. <<>> \in Seq(Connection)
    OBVIOUS
  <2> QED
    BY <1>2, <1>3, <1>5, <2>1 DEF GroupLoop
<1>7. Here(s, q) # {}
  BY <1>2, <1>4 DEF Here
<1>8. Current(l) = m /\ Current(q) = m + 1 /\ Len(G) \in Nat
  BY <1>1, <1>4, <1>5 DEF Current
<1>9. ToSet(<<>>) = {}
  BY DEF ToSet
<1>10. /\ \A i \in 1 .. Len(G) : AsSets(l)[i] = ToSet(G[i])
       /\ AsSets(l)[m] = ToSet(l.group)
  BY <1>8, AsSetsType
<1>a. /\ Current(q) \in Nat \ {0} /\ AsSets(q)[Current(q)] = ToSet(q.group)
      /\ \A i \in 1 .. Len(q.groups) : AsSets(q)[i] = ToSet(q.groups[i])
      /\ DOMAIN AsSets(q) = 1 .. Current(q)
  BY <1>6, AsSetsType, Zenon
<1>11. \A i \in 1 .. m : AsSets(q)[i] = ToSet(A[i])
  BY <1>4, <1>5, <1>a
<1>12. AsSets(q)[m + 1] = {} /\ DOMAIN AsSets(q) = 1 .. m + 1
  BY <1>4, <1>8, <1>9, <1>a
<1>13. \A i \in 1 .. m : i = m \/ i \in 1 .. Len(G)
  BY <1>8
<1>14. \A i \in 1 .. m : AsSets(q)[i] = AsSets(l)[i]
  BY <1>5, <1>10, <1>11, <1>13
<1>15. \A i \in 1 .. m + 1 : i # m + 1 => i \in 1 .. m
  BY <1>8
<1>16. AsSets(q) = [i \in 1 .. m + 1 |-> IF i = m + 1 THEN {} ELSE AsSets(l)[i]]
  <2>1. AsSets(q) = [i \in 1 .. m + 1 |-> AsSets(q)[i]]
    BY <1>8 DEF AsSets
  <2>2. \A i \in 1 .. m + 1 : AsSets(q)[i] = IF i = m + 1 THEN {} ELSE AsSets(l)[i]
    BY <1>12, <1>14, <1>15
  <2> HIDE DEF m
  <2> QED
    BY <2>1, <2>2
<1> QED
  BY <1>2, <1>4, <1>6, <1>7, <1>8, <1>16 DEF q

LEMMA GroupAdded ==
  ASSUME NEW s \in Seq(Connection), NEW l \in GroupLoop(s), Here(s, l) # {}
  PROVE  LET q == AddToGroup(s, l)
             x == FirstOf(s, Here(s, l))
         IN /\ q \in GroupLoop(s) /\ q.rest = l.rest \ {x} /\ q.in = l.in + 1
            /\ Current(q) = Current(l)
            /\ AsSets(q) = [AsSets(l) EXCEPT ![Current(l)] = @ \cup {s[x]}]
<1> DEFINE q == AddToGroup(s, l)
           x == FirstOf(s, Here(s, l))
           G == l.groups
           m == Len(G) + 1
<1>1. /\ G \in Seq(Seq(Connection)) /\ l.group \in Seq(Connection) /\ l.rest \in SUBSET DOMAIN s
      /\ l.in \in Nat
  BY DEF GroupLoop
<1>2. Here(s, l) \in SUBSET DOMAIN s /\ Here(s, l) \subseteq l.rest
  BY <1>1 DEF Here
<1>3. x \in Here(s, l)
  BY <1>2, FirstOfHere
<1>4. s[x] \in Connection
  BY <1>2, <1>3
<1>6. /\ Append(l.group, s[x]) \in Seq(Connection)
      /\ ToSet(Append(l.group, s[x])) = ToSet(l.group) \cup {s[x]}
  <2> DEFINE y == s[x]
             t == l.group
  <2>1. y \in Connection /\ t \in Seq(Connection)
    BY <1>1, <1>4
  <2> HIDE DEF y, t
  <2>2. Append(t, y) \in Seq(Connection) /\ ToSet(Append(t, y)) = ToSet(t) \cup {y}
    BY <2>1, SeenAppended
  <2> QED
    BY <2>2 DEF y, t
<1> DEFINE v == Append(l.group, s[x])
           w == l.rest \ {x}
           z == l.in + 1
<1>5. q = [l EXCEPT !.group = v, !.rest = w, !.in = z]
  BY DEF AddToGroup
<1>b. v \in Seq(Connection) /\ w \in SUBSET DOMAIN s /\ z \in Nat
  BY <1>1, <1>6
<1> HIDE DEF x, q, v, w, z
<1>c. q.groups = G /\ q.group = v /\ q.rest = w /\ q.in = z
  BY <1>5 DEF GroupLoop
<1>7. /\ q.groups = G /\ q.group = Append(l.group, s[x]) /\ q.rest = l.rest \ {x}
      /\ q.in = l.in + 1
  BY <1>c DEF v, w, z
<1>8. q \in GroupLoop(s)
  BY <1>5, <1>b DEF GroupLoop
<1>9. Current(l) = m /\ Current(q) = m /\ Len(G) \in Nat
  BY <1>1, <1>7 DEF Current
<1>10. /\ \A i \in 1 .. Len(G) : AsSets(l)[i] = ToSet(G[i]) /\ AsSets(q)[i] = ToSet(G[i])
       /\ AsSets(l)[m] = ToSet(l.group) /\ AsSets(q)[m] = ToSet(l.group) \cup {s[x]}
       /\ DOMAIN AsSets(l) = 1 .. m
  <2>1. /\ AsSets(q)[Current(q)] = ToSet(q.group)
        /\ \A i \in 1 .. Len(q.groups) : AsSets(q)[i] = ToSet(q.groups[i])
    BY <1>8, AsSetsType, Zenon
  <2>2. /\ AsSets(l)[Current(l)] = ToSet(l.group) /\ DOMAIN AsSets(l) = 1 .. Current(l)
        /\ \A i \in 1 .. Len(l.groups) : AsSets(l)[i] = ToSet(l.groups[i])
    BY AsSetsType, Zenon
  <2> QED
    BY <1>6, <1>7, <1>9, <2>1, <2>2
<1>11. \A i \in 1 .. m : i = m \/ i \in 1 .. Len(G)
  BY <1>9
<1>12. AsSets(q) = [AsSets(l) EXCEPT ![m] = @ \cup {s[x]}]
  <2>1. AsSets(q) = [i \in 1 .. m |-> AsSets(q)[i]] /\ AsSets(l) = [i \in 1 .. m |-> AsSets(l)[i]]
    BY <1>9 DEF AsSets
  <2>2. \A i \in 1 .. m : AsSets(q)[i] =
          IF i = m THEN AsSets(l)[m] \cup {s[x]} ELSE AsSets(l)[i]
    BY <1>10, <1>11
  <2>3. m \in 1 .. m
    BY <1>9
  <2> HIDE DEF m
  <2> DEFINE a == AsSets(l)
             b == AsSets(q)
             y == s[x]
  <2> HIDE DEF a, b, y
  <2>4. /\ b = [i \in 1 .. m |-> b[i]] /\ a = [i \in 1 .. m |-> a[i]]
        /\ \A i \in 1 .. m : b[i] = IF i = m THEN a[m] \cup {y} ELSE a[i]
    BY <2>1, <2>2 DEF a, b, y
  <2>5. b = [a EXCEPT ![m] = @ \cup {y}]
    BY <2>3, <2>4
  <2> QED
    BY <2>5 DEF a, b, y
<1> QED
  BY <1>7, <1>8, <1>9, <1>12 DEF q, x

\* The rounds still needed: one for each connection, and one to close a group if
\* there is none for the next input.
Left(s, l) == 2 * Cardinality(l.rest) + (IF Here(s, l) = {} THEN 1 ELSE 0)

GroupsSoFar(s, all, l, k) ==
  /\ l \in GroupLoop(s) /\ Grouped(s, all, AsSets(l), Current(l), l.rest, l.in)
  /\ l.rest = {} \/ Left(s, l) + k <= 2 * Len(s)

LEMMA RestFinite ==
  ASSUME NEW s \in Seq(Connection), NEW J \in SUBSET DOMAIN s
  PROVE  /\ IsFiniteSet(J) /\ Cardinality(J) \in Nat /\ Cardinality(J) <= Len(s)
         /\ Cardinality(J) = 0 <=> J = {}
<1>1. DOMAIN s = 1 .. Len(s) /\ Len(s) \in Nat
  OBVIOUS
<1>2. IsFiniteSet(1 .. Len(s)) /\ Cardinality(1 .. Len(s)) = Len(s)
  <2> DEFINE n == Len(s)
  <2>1. n \in Nat
    OBVIOUS
  <2> HIDE DEF n
  <2>2. IsFiniteSet(1 .. n) /\ Cardinality(1 .. n) = n
    BY <2>1, FS_Interval
  <2> QED
    BY <2>2 DEF n
<1>3. IsFiniteSet(J) /\ Cardinality(J) <= Len(s)
  BY <1>1, <1>2, FS_Subset
<1> QED
  BY <1>3, FS_CardinalityType, FS_EmptySet

LEMMA GroupRoundHolds ==
  ASSUME NEW s \in Seq(Connection), IsInjective(s), NEW all \in SUBSET DOMAIN s,
         NEW l, NEW k \in Nat, GroupsSoFar(s, all, l, k)
  PROVE  GroupsSoFar(s, all, GroupRound(s, l), k + 1)
<1>1. l \in GroupLoop(s) /\ Grouped(s, all, AsSets(l), Current(l), l.rest, l.in)
  BY DEF GroupsSoFar
<1>2. l.rest \in SUBSET DOMAIN s /\ l.rest \subseteq all /\ l.in \in Nat
  BY <1>1 DEF GroupLoop, Grouped
<1>3. IsFiniteSet(l.rest) /\ Cardinality(l.rest) \in Nat /\ Len(s) \in Nat
  BY <1>2, RestFinite
<1>4. CASE l.rest = {}
  <2>1. GroupRound(s, l) = l
    BY <1>4 DEF GroupRound
  <2> QED
    BY <1>1, <1>4, <2>1 DEF GroupsSoFar
<1>5. CASE l.rest # {} /\ Here(s, l) = {}
  <2> DEFINE q == CloseGroup(s, l)
             m == Current(l)
  <2>1. GroupRound(s, l) = q
    BY <1>5 DEF GroupRound
  <2>2. /\ q \in GroupLoop(s) /\ q.rest = l.rest /\ Here(s, q) # {} /\ q.in \in Nat
        /\ Current(q) = m + 1
        /\ AsSets(q) = [i \in 1 .. m + 1 |-> IF i = m + 1 THEN {} ELSE AsSets(l)[i]]
    BY <1>1, <1>5, GroupClosed, Zenon
  <2> HIDE DEF q
  <2>3. Grouped(s, all, [i \in 1 .. m + 1 |-> IF i = m + 1 THEN {} ELSE AsSets(l)[i]], m + 1,
                l.rest, q.in)
    <3> DEFINE T == AsSets(l)
               rest == l.rest
               in1 == l.in
               in2 == q.in
    <3>1. Grouped(s, all, T, m, rest, in1) /\ in2 \in Nat
      BY <1>1, <2>2
    <3> HIDE DEF T, m, rest, in1, in2
    <3>2. Grouped(s, all, [i \in 1 .. m + 1 |-> IF i = m + 1 THEN {} ELSE T[i]], m + 1, rest, in2)
      BY <3>1, GroupCloses
    <3> QED
      BY <3>2 DEF T, m, rest, in2
  <2>4. Grouped(s, all, AsSets(q), Current(q), q.rest, q.in)
    BY <2>2, <2>3, Zenon
  <2>5. Left(s, l) = 2 * Cardinality(l.rest) + 1 /\ Left(s, q) = 2 * Cardinality(l.rest) + 0
    BY <1>5, <2>2 DEF Left
  <2>6. Left(s, q) + (k + 1) <= 2 * Len(s)
    BY <1>3, <1>5, <2>5 DEF GroupsSoFar
  <2> QED
    BY <2>1, <2>2, <2>4, <2>6 DEF GroupsSoFar
<1>6. CASE l.rest # {} /\ Here(s, l) # {}
  <2> DEFINE q == AddToGroup(s, l)
             m == Current(l)
             x == FirstOf(s, Here(s, l))
  <2>1. GroupRound(s, l) = q
    BY <1>6 DEF GroupRound
  <2>2. /\ q \in GroupLoop(s) /\ q.rest = l.rest \ {x} /\ q.in = l.in + 1
        /\ Current(q) = m /\ AsSets(q) = [AsSets(l) EXCEPT ![m] = @ \cup {s[x]}]
    BY <1>1, <1>6, GroupAdded, Zenon
  <2>3. Here(s, l) \in SUBSET DOMAIN s /\ Here(s, l) \subseteq l.rest
    BY <1>2 DEF Here
  <2>4. x \in Here(s, l) /\ \A j \in Here(s, l) : HasSourceData(s[j]) => HasSourceData(s[x])
    BY <1>6, <2>3, FirstOfHere
  <2>5. /\ x \in l.rest /\ s[x].in = l.in
        /\ \A j \in l.rest : s[j].in = l.in /\ HasSourceData(s[j]) => HasSourceData(s[x])
    <3> HIDE DEF x
    <3> QED
      BY <2>4 DEF Here
  <2> HIDE DEF q, x
  <2>6. Grouped(s, all, [AsSets(l) EXCEPT ![m] = @ \cup {s[x]}], m, l.rest \ {x}, l.in + 1)
    <3> DEFINE T == AsSets(l)
               rest == l.rest
               in1 == l.in
    <3>1. Grouped(s, all, T, m, rest, in1)
      BY <1>1
    <3>2. /\ x \in rest /\ s[x].in = in1
          /\ \A j \in rest : s[j].in = in1 /\ HasSourceData(s[j]) => HasSourceData(s[x])
      BY <2>5
    <3> HIDE DEF T, m, rest, in1
    <3>3. Grouped(s, all, [T EXCEPT ![m] = @ \cup {s[x]}], m, rest \ {x}, in1 + 1)
      BY <3>1, <3>2, GroupGrows
    <3> QED
      BY <3>3 DEF T, m, rest, in1
  <2>7. Grouped(s, all, AsSets(q), Current(q), q.rest, q.in)
    BY <2>2, <2>6, Zenon
  <2>8. Cardinality(q.rest) = Cardinality(l.rest) - 1
    <3> DEFINE rest == l.rest
    <3>1. IsFiniteSet(rest) /\ x \in rest /\ q.rest = rest \ {x}
      BY <1>3, <2>2, <2>5
    <3> HIDE DEF rest
    <3>2. Cardinality(rest \ {x}) = Cardinality(rest) - 1
      BY <3>1, FS_RemoveElement
    <3> QED
      BY <3>1, <3>2 DEF rest
  <2>9. Left(s, l) = 2 * Cardinality(l.rest) + 0 /\ Left(s, q) <= 2 * Cardinality(q.rest) + 1
    BY <1>3, <1>6, <2>8 DEF Left
  <2>10. Left(s, q) \in Int
    BY <1>3, <2>8 DEF Left
  <2>11. Left(s, q) + (k + 1) <= 2 * Len(s)
    BY <1>3, <1>6, <2>8, <2>9, <2>10 DEF GroupsSoFar
  <2> QED
    BY <2>1, <2>2, <2>7, <2>11 DEF GroupsSoFar
<1> QED
  BY <1>4, <1>5, <1>6

\* The rounds make all groups.
LEMMA GroupsMade ==
  ASSUME NEW s \in Seq(Connection), IsInjective(s),
         {j \in DOMAIN s : HasSourceData(s[j]) \/ IsMain(s[j])} # {}
  PROVE  LET all == {j \in DOMAIN s : HasSourceData(s[j]) \/ IsMain(s[j])}
         IN \E l \in GroupLoop(s) :
              /\ SourceDataGroups(s) = Append(l.groups, l.group)
              /\ l.rest = {} /\ Grouped(s, all, AsSets(l), Current(l), {}, l.in)
<1> DEFINE all == {j \in DOMAIN s : HasSourceData(s[j]) \/ IsMain(s[j])}
           N == 2 * Len(s)
           start == [groups |-> <<>>, group |-> <<>>, rest |-> all, in |-> FirstInput(s, all)]
           Good(h) == h = [k \in 0 .. N |-> IF k = 0 THEN start ELSE GroupRound(s, h[k - 1])]
           f == CHOOSE h : Good(h)
           S == {l \in GroupLoop(s) : \E k \in Nat : GroupsSoFar(s, all, l, k)}
           F == [k \in 1 .. N |-> [l \in S |-> GroupRound(s, l)]]
<1>1. SourceDataGroups(s) = IF all = {} THEN <<>> ELSE Append(f[N].groups, f[N].group)
  BY Zenon DEF SourceDataGroups, GroupRound, CloseGroup, AddToGroup, FirstInput, Here
<1>2. N \in Nat /\ Len(s) \in Nat /\ all \in SUBSET DOMAIN s /\ all # {}
  OBVIOUS
<1> HIDE DEF all
<1>3. GroupsSoFar(s, all, start, 0)
  <2>1. FirstInput(s, all) \in Nat /\ \E j \in all : s[j].in = FirstInput(s, all)
    BY <1>2, FirstInputIs
  <2> DEFINE x == FirstInput(s, all)
  <2> HIDE DEF x
  <2>2. /\ start.groups = <<>> /\ start.group = <<>> /\ start.rest = all /\ start.in = x
        /\ start \in GroupLoop(s)
    BY <1>2, <2>1 DEF GroupLoop, x
  <2> HIDE DEF start
  <2>3. Here(s, start) # {}
    BY <2>1, <2>2 DEF Here, x
  <2>4. Left(s, start) + 0 <= 2 * Len(s)
    <3>1. Cardinality(all) <= Len(s) /\ Cardinality(all) \in Nat
      BY <1>2, RestFinite
    <3> QED
      BY <1>2, <2>2, <2>3, <3>1 DEF Left
  <2>5. ToSet(<<>>) = {} /\ Len(<<>>) = 0
    BY DEF ToSet
  <2>6. Current(start) = 1 /\ AsSets(start) = [i \in 1 .. 1 |-> {}]
    <3>1. Current(start) = 1
      BY <2>2, <2>5 DEF Current
    <3>2. \A i \in 1 .. 1 : i = 1
      OBVIOUS
    <3> QED
      BY <2>2, <2>5, <3>1, <3>2 DEF AsSets
  <2>7. Grouped(s, all, [i \in 1 .. 1 |-> {}], 1, all, x)
    BY <2>1 DEF Grouped, x
  <2>8. Grouped(s, all, AsSets(start), Current(start), start.rest, start.in)
    BY <2>2, <2>6, <2>7
  <2> QED
    BY <2>2, <2>4, <2>8 DEF GroupsSoFar
<1> HIDE DEF start, N
<1>4. start \in S
  BY <1>3 DEF GroupsSoFar
<1>5. F \in Steps(N, S)
  <2>1. ASSUME NEW l \in S PROVE GroupRound(s, l) \in S
    <3>1. PICK k \in Nat : GroupsSoFar(s, all, l, k)
      OBVIOUS
    <3>2. GroupsSoFar(s, all, GroupRound(s, l), k + 1) /\ k + 1 \in Nat
      BY <1>2, <3>1, GroupRoundHolds
    <3>3. GroupRound(s, l) \in GroupLoop(s)
      BY <3>2 DEF GroupsSoFar
    <3> QED
      BY <3>2, <3>3
  <2> HIDE DEF S
  <2> QED
    BY <2>1 DEF Steps
<1> HIDE DEF S
<1>6. Good(f)
  <2>1. PICK h \in [0 .. N -> S] : Loop(h, start, F, N)
    <3> HIDE DEF F
    <3> QED
      BY <1>2, <1>4, <1>5, Recursion
  <2>2. \A k \in 1 .. N : k - 1 \in 0 .. N
    BY <1>2
  <2>3. \A k \in 1 .. N : F[k][h[k - 1]] = GroupRound(s, h[k - 1])
    BY <2>2
  <2>4. Good(h)
    <3>1. \A k \in 0 .. N : k # 0 => k \in 1 .. N
      BY <1>2
    <3> HIDE DEF F
    <3> QED
      BY <2>1, <2>3, <3>1 DEF Loop
  <2> HIDE DEF Good
  <2> QED
    BY <2>4
<1> HIDE DEF f, F
<1>7. f[0] = start
  BY <1>2, <1>6
<1>8. ASSUME NEW k \in 1 .. N PROVE f[k] = GroupRound(s, f[k - 1])
  <2>1. k \in 0 .. N /\ k # 0
    BY <1>2
  <2> QED
    BY <1>6, <2>1
<1> HIDE DEF Good
<1> DEFINE P == {k \in 0 .. N : GroupsSoFar(s, all, f[k], k)}
<1>9. 0 \in P
  BY <1>2, <1>3, <1>7
<1>10. ASSUME NEW k \in 0 .. N, k \in P, k < N PROVE k + 1 \in P
  <2>1. k + 1 \in 1 .. N /\ (k + 1) - 1 = k /\ k \in Nat /\ k + 1 \in 0 .. N
    BY <1>2, <1>10
  <2> DEFINE l == f[k]
  <2>2. GroupsSoFar(s, all, l, k) /\ f[k + 1] = GroupRound(s, l)
    BY <1>8, <1>10, <2>1
  <2> HIDE DEF l
  <2>3. GroupsSoFar(s, all, f[k + 1], k + 1)
    BY <1>2, <2>1, <2>2, GroupRoundHolds
  <2> QED
    BY <2>1, <2>3
<1>11. GroupsSoFar(s, all, f[N], N)
  <2>1. 0 .. N \subseteq P
    <3> HIDE DEF P
    <3> QED
      BY <1>2, <1>9, <1>10, UpTo
  <2> QED
    BY <1>2, <2>1
<1> DEFINE l == f[N]
<1> HIDE DEF l
<1>12. /\ l \in GroupLoop(s) /\ Grouped(s, all, AsSets(l), Current(l), l.rest, l.in)
       /\ l.rest = {} \/ Left(s, l) + 2 * Len(s) <= 2 * Len(s)
  BY <1>11 DEF GroupsSoFar, l, N
<1>13. l.rest = {}
  <2>1. l.rest \in SUBSET DOMAIN s
    BY <1>12 DEF GroupLoop
  <2>2. Cardinality(l.rest) \in Nat /\ (Cardinality(l.rest) = 0 <=> l.rest = {})
    BY <2>1, RestFinite
  <2>3. Left(s, l) >= 2 * Cardinality(l.rest) /\ Left(s, l) \in Int
    BY <2>2 DEF Left
  <2> QED
    BY <1>2, <1>12, <2>2, <2>3
<1>14. SourceDataGroups(s) = Append(l.groups, l.group)
  BY <1>1, <1>2 DEF l
<1> QED
  BY <1>12, <1>13, <1>14 DEF all

-----------------------------------------------------------------------------
(* GroupsAreGreedy.                                                         *)

LEMMA WhereInjective ==
  ASSUME NEW S, NEW s \in Seq(S), NEW T, IsInjective(s)
  PROVE  IsInjective(Where(s, T))
<1> DEFINE N == Len(s)
<1>1. PICK f : /\ Where(s, T) = f[N] /\ f[0] = <<>>
               /\ \A i \in 1 .. N :
                    f[i] = IF s[i] \in T THEN Append(f[i - 1], s[i]) ELSE f[i - 1]
  BY WhereLoop
<1>2. N \in Nat /\ \A i \in 1 .. N : s[i] \in S
  OBVIOUS
<1>3. \A i, j \in 1 .. N : s[i] = s[j] => i = j
  BY DEF IsInjective
<1> HIDE DEF N
<1> DEFINE P == {k \in 0 .. N : /\ f[k] \in Seq(S) /\ IsInjective(f[k])
                                /\ \A x \in ToSet(f[k]) : \E i \in 1 .. k : x = s[i]}
<1>4. 0 \in P
  <2>1. <<>> \in Seq(S) /\ IsInjective(<<>>) /\ ToSet(<<>>) = {}
    BY DEF IsInjective, ToSet
  <2>2. f[0] \in Seq(S) /\ IsInjective(f[0]) /\ ToSet(f[0]) = {} /\ 0 \in 0 .. N
    BY <1>1, <1>2, <2>1
  <2> QED
    BY <2>2
<1>5. ASSUME NEW k \in 0 .. N, k \in P, k < N PROVE k + 1 \in P
  <2>1. k + 1 \in 1 .. N /\ (k + 1) - 1 = k /\ k + 1 \in 0 .. N
    BY <1>2, <1>5
  <2> DEFINE r == f[k]
             y == s[k + 1]
             z == f[k + 1]
  <2>2. z = IF y \in T THEN Append(r, y) ELSE r
    BY <1>1, <2>1
  <2>3. r \in Seq(S) /\ IsInjective(r) /\ \A x \in ToSet(r) : \E i \in 1 .. k : x = s[i]
    BY <1>5
  <2>4. y \in S
    BY <1>2, <2>1
  <2>5. y \notin ToSet(r)
    <3>1. \A i \in 1 .. k : i \in 1 .. N /\ i # k + 1
      BY <1>2
    <3> HIDE DEF r
    <3> QED
      BY <1>3, <2>1, <2>3, <3>1
  <2>6. \A i \in 1 .. k : i \in 1 .. k + 1
    OBVIOUS
  <2>7. CASE y \notin T
    <3> HIDE DEF y
    <3> QED
      BY <2>1, <2>2, <2>3, <2>6, <2>7
  <2>8. CASE y \in T
    <3> HIDE DEF r, y, z
    <3>1. ~Contains(r, y)
      BY <2>3, <2>5 DEF Contains, ToSet
    <3>2. z = AddOnce(r, y)
      BY <2>2, <2>8, <3>1 DEF AddOnce
    <3>3. z \in Seq(S) /\ IsInjective(z) /\ ToSet(z) = ToSet(r) \cup {y}
      BY <2>3, <2>4, <3>2, SeenAddedOnce, AddedOnceInjective
    <3>4. k + 1 \in 1 .. k + 1
      OBVIOUS
    <3>5. \A x \in ToSet(z) : \E i \in 1 .. k + 1 : x = s[i]
      BY <2>3, <2>6, <3>3, <3>4 DEF y
    <3> QED
      BY <2>1, <3>3, <3>5 DEF z
  <2> QED
    BY <2>7, <2>8
<1>6. N \in P
  <2> HIDE DEF P
  <2>1. 0 .. N \subseteq P
    BY <1>2, <1>4, <1>5, UpTo
  <2> QED
    BY <1>2, <2>1
<1> QED
  BY <1>1, <1>6

Greedy(s, groups) ==
  /\ \A c \in ToSet(s) :
       IsMain(c) => Cardinality({i \in DOMAIN groups : Contains(groups[i], c)}) = 1
  /\ \A i, j \in DOMAIN groups : \A c \in ToSet(groups[i]), d \in ToSet(groups[j]) :
       /\ i = j /\ c.in = d.in => c = d
       /\ i < j /\ c.in = d.in /\ HasSourceData(d) => HasSourceData(c)

\* The groups of connections without two alike.
LEMMA GroupsGreedy ==
  ASSUME NEW s \in Seq(Connection), IsInjective(s)
  PROVE  Greedy(s, SourceDataGroups(s))
<1> DEFINE all == {j \in DOMAIN s : HasSourceData(s[j]) \/ IsMain(s[j])}
           groups == SourceDataGroups(s)
<1>1. ASSUME NEW c \in ToSet(s), IsMain(c) PROVE \E j \in all : c = s[j]
  BY <1>1 DEF ToSet
<1>2. CASE all = {}
  <2>1. groups = <<>>
    BY <1>2 DEF SourceDataGroups
  <2> HIDE DEF all
  <2> QED
    BY <1>1, <1>2, <2>1 DEF Greedy
<1>3. CASE all # {}
  <2>1. PICK l \in GroupLoop(s) :
          /\ groups = Append(l.groups, l.group)
          /\ Grouped(s, all, AsSets(l), Current(l), {}, l.in)
    BY <1>3, GroupsMade
  <2> HIDE DEF all
  <2> DEFINE G == l.groups
             T == AsSets(l)
             m == Current(l)
  <2>2. G \in Seq(Seq(Connection)) /\ l.group \in Seq(Connection)
    BY DEF GroupLoop
  <2>3. m = Len(G) + 1 /\ Len(G) \in Nat
    BY <2>2 DEF Current
  <2>4. /\ groups \in Seq(Seq(Connection)) /\ DOMAIN groups = 1 .. m
        /\ groups[m] = l.group /\ \A i \in 1 .. Len(G) : groups[i] = G[i]
    <3> HIDE DEF groups, m
    <3> QED
      BY <2>1, <2>2, <2>3
  <2>5. T[m] = ToSet(l.group) /\ \A i \in 1 .. Len(G) : T[i] = ToSet(G[i])
    BY AsSetsType, Zenon
  <2> HIDE DEF groups, T, m
  <2>6. \A i \in 1 .. m : i = m \/ i \in 1 .. Len(G)
    BY <2>3
  <2>7. ASSUME NEW i \in 1 .. m PROVE ToSet(groups[i]) = T[i] /\ groups[i] \in Seq(Connection)
    <3>1. CASE i = m
      BY <2>2, <2>4, <2>5, <3>1
    <3>2. CASE i \in 1 .. Len(G)
      <4>1. G[i] \in Seq(Connection)
        BY <2>2, <3>2
      <4>2. groups[i] = G[i] /\ T[i] = ToSet(G[i])
        BY <2>4, <2>5, <3>2
      <4> HIDE DEF G
      <4> QED
        BY <4>1, <4>2
    <3> QED
      BY <2>6, <3>1, <3>2
  <2>8. ASSUME NEW i \in 1 .. m, NEW c PROVE Contains(groups[i], c) <=> c \in T[i]
    <3> DEFINE t == groups[i]
    <3>1. t \in Seq(Connection) /\ ToSet(t) = T[i]
      BY <2>7
    <3> HIDE DEF t
    <3>2. Contains(t, c) <=> c \in T[i]
      BY <3>1 DEF Contains, ToSet
    <3> QED
      BY <3>2 DEF t
  <2>9. Grouped(s, all, T, m, {}, l.in)
    BY <2>1 DEF T, m
  <2>10. ASSUME NEW c \in ToSet(s), IsMain(c)
         PROVE  Cardinality({i \in DOMAIN groups : Contains(groups[i], c)}) = 1
    <3>1. PICK i \in 1 .. m : c \in T[i]
      BY <1>1, <2>9, <2>10 DEF Grouped
    <3>2. \A k \in 1 .. m : c \in T[k] => k = i
      BY <2>9, <3>1 DEF Grouped
    <3>3. \A k : k \in {j \in DOMAIN groups : Contains(groups[j], c)} <=> k = i
      BY <2>4, <2>8, <3>1, <3>2
    <3>4. {k \in DOMAIN groups : Contains(groups[k], c)} = {i}
      BY <3>3
    <3>5. Cardinality({i}) = 1
      BY FS_Singleton
    <3> QED
      BY <3>4, <3>5
  <2>11. ASSUME NEW i \in DOMAIN groups, NEW j \in DOMAIN groups,
                NEW c \in ToSet(groups[i]), NEW d \in ToSet(groups[j])
         PROVE  /\ i = j /\ c.in = d.in => c = d
                /\ i < j /\ c.in = d.in /\ HasSourceData(d) => HasSourceData(c)
    <3>1. i \in 1 .. m /\ j \in 1 .. m /\ c \in T[i] /\ d \in T[j]
      BY <2>4, <2>7
    <3> QED
      BY <2>9, <3>1 DEF Grouped
  <2> QED
    BY <2>10, <2>11 DEF groups, Greedy
<1> QED
  BY <1>2, <1>3

LEMMA GroupsAreMadeGreedily == GraphType => GroupsAreGreedy
<1> SUFFICES ASSUME GraphType, NEW n
             PROVE  Greedy(GetDirectParentConnections(graph, n), GetSourceDataGroups(n))
  BY DEF GroupsAreGreedy, Greedy
<1> DEFINE s == GetDirectParentConnections(graph, n)
<1>1. graph.conns \in Seq(Connection) /\ IsInjective(graph.conns)
  BY DEF GraphType, Graph, Proper
<1>2. s = Where(graph.conns, Into(graph, {n}))
  BY DEF GetDirectParentConnections
<1>3. s \in Seq(Connection) /\ IsInjective(s)
  BY <1>1, <1>2, WhereKeeps, WhereInjective
<1>4. GetSourceDataGroups(n) = SourceDataGroups(s)
  BY DEF GetSourceDataGroups
<1> HIDE DEF s
<1> QED
  BY <1>3, <1>4, GroupsGreedy DEF s

\* Whatever nodes the connections into a start node come from and however many its
\* inputs are: getSourceDataGroups uses each main connection once, one per input in
\* a group, and one without data only when those with data are used up.
THEOREM SourcesAreUsedGreedily == Spec => []GroupsAreGreedy
BY InputTypeHolds, GraphInitial, GraphStep, GroupsAreMadeGreedily, PTL DEF Spec

-----------------------------------------------------------------------------
(* findStartNodesRecursive.                                                 *)

CarryingFrom(rd, g, n) == Where(g.conns, {c \in From(g, {n}) : Carries(rd, c)})

FurtherStart(call, c, before) ==
  [node |-> c.to, found |-> before, seen |-> call.seen \cup {call.node}]

StartDepth(call) == Cardinality(Node \ call.seen)

StartGoesOn(rd, g, call) == ~IsStart(rd, g, call.node) /\ call.node \notin call.seen
StartStops(rd, g, call) ==
  IF IsStart(rd, g, call.node) THEN AddOnce(call.found, call.node) ELSE call.found

StartRounds(rd, g, call, find, h) ==
  /\ h[0] = call.found
  /\ \A i \in 1 .. Len(CarryingFrom(rd, g, call.node)) :
       h[i] = find[FurtherStart(call, CarryingFrom(rd, g, call.node)[i], h[i - 1])]

LEMMA CarryingFromType ==
  ASSUME NEW rd, NEW g \in Graph, NEW n
  PROVE  /\ CarryingFrom(rd, g, n) \in Seq(Connection) /\ Len(CarryingFrom(rd, g, n)) \in Nat
         /\ ToSet(CarryingFrom(rd, g, n)) = {c \in From(g, {n}) : Carries(rd, c)}
         /\ \A i \in 1 .. Len(CarryingFrom(rd, g, n)) :
              LET c == CarryingFrom(rd, g, n)[i]
              IN c \in Connection /\ c \in ToSet(g.conns) /\ c.from = n /\ Carries(rd, c)
<1> DEFINE s == CarryingFrom(rd, g, n)
           T == {c \in From(g, {n}) : Carries(rd, c)}
<1>1. s \in Seq(Connection) /\ ToSet(s) = ToSet(g.conns) \cap T
  <2>1. s = Where(g.conns, T) /\ g.conns \in Seq(Connection)
    BY DEF CarryingFrom, Graph
  <2> HIDE DEF s, T
  <2> QED
    BY <2>1, WhereKeeps
<1>2. ToSet(g.conns) \cap T = T
  BY DEF From
<1> HIDE DEF s
<1>3. \A i \in 1 .. Len(s) : s[i] \in ToSet(s) /\ s[i] \in Connection
  BY <1>1 DEF ToSet
<1> QED
  BY <1>1, <1>2, <1>3 DEF s, From

LEMMA StartDepthBounded ==
  ASSUME NEW call \in StartCall
  PROVE  StartDepth(call) \in 0 .. Cardinality(Node) /\ Cardinality(Node) \in Nat
<1>1. IsFiniteSet(Node)
  BY PartialAssumption
<1>2. Cardinality(Node \ call.seen) <= Cardinality(Node) /\ IsFiniteSet(Node \ call.seen)
  BY <1>1, FS_Subset
<1> QED
  BY <1>1, <1>2, FS_CardinalityType DEF StartDepth

LEMMA FurtherStartIsDeeper ==
  ASSUME NEW rd, NEW g \in Graph, NEW call \in StartCall, StartGoesOn(rd, g, call),
         NEW before \in Seq(Node), NEW i \in 1 .. Len(CarryingFrom(rd, g, call.node))
  PROVE  LET e == FurtherStart(call, CarryingFrom(rd, g, call.node)[i], before)
         IN e \in StartCall /\ StartDepth(e) < StartDepth(call)
<1> DEFINE c == CarryingFrom(rd, g, call.node)[i]
           e == FurtherStart(call, c, before)
<1>1. c \in Connection
  BY CarryingFromType
<1> HIDE DEF c
<1>2. call.seen \in SUBSET Node /\ call.node \in Node
  BY DEF StartCall
<1>3. e \in StartCall /\ e.seen = call.seen \cup {call.node}
  <2>1. c.to \in Node
    BY <1>1 DEF Connection
  <2> QED
    BY <1>2, <2>1 DEF FurtherStart, StartCall
<1> HIDE DEF e
<1> DEFINE A == Node \ call.seen
           B == Node \ e.seen
<1>4. B \subseteq A /\ call.node \in A /\ call.node \notin B
  BY <1>2, <1>3 DEF StartGoesOn
<1>5. IsFiniteSet(A)
  BY PartialAssumption, FS_Subset
<1>6. IsFiniteSet(B) /\ Cardinality(B) <= Cardinality(A) /\ Cardinality(A) # Cardinality(B)
  BY <1>4, <1>5, FS_Subset
<1>7. Cardinality(A) \in Nat /\ Cardinality(B) \in Nat
  BY <1>5, <1>6, FS_CardinalityType
<1>8. StartDepth(e) < StartDepth(call)
  BY <1>6, <1>7 DEF StartDepth
<1> QED
  BY <1>3, <1>8 DEF e, c

LEMMA StartRoundsExist ==
  ASSUME NEW rd, NEW g \in Graph, NEW call \in StartCall, StartGoesOn(rd, g, call),
         NEW find \in [StartCall -> Seq(Node)]
  PROVE  \E h \in [0 .. Len(CarryingFrom(rd, g, call.node)) -> Seq(Node)] :
           StartRounds(rd, g, call, find, h)
<1> DEFINE s == CarryingFrom(rd, g, call.node)
           N == Len(s)
           S == Seq(Node)
           Step(i, r) == find[FurtherStart(call, s[i], r)]
           F == [i \in 1 .. N |-> [r \in S |-> Step(i, r)]]
<1>1. N \in Nat
  BY CarryingFromType
<1>2. ASSUME NEW i \in 1 .. N, NEW r \in S PROVE Step(i, r) \in S
  <2>1. FurtherStart(call, s[i], r) \in StartCall
    BY FurtherStartIsDeeper
  <2> HIDE DEF s
  <2> QED
    BY <2>1
<1> HIDE DEF Step, N, S
<1>3. F \in Steps(N, S)
  BY <1>2 DEF Steps
<1>4. call.found \in S
  BY DEF StartCall, S
<1>5. PICK h \in [0 .. N -> S] : Loop(h, call.found, F, N)
  <2> HIDE DEF F
  <2> DEFINE x == call.found
  <2> HIDE DEF x
  <2> QED
    BY <1>1, <1>3, <1>4, Recursion DEF x
<1>6. \A i \in 1 .. N : i - 1 \in 0 .. N
  BY <1>1
<1>7. \A i \in 1 .. N : F[i][h[i - 1]] = Step(i, h[i - 1])
  BY <1>6
<1>8. h[0] = call.found /\ \A i \in 1 .. N : h[i] = Step(i, h[i - 1])
  <2> HIDE DEF F
  <2> QED
    BY <1>5, <1>7 DEF Loop
<1>9. StartRounds(rd, g, call, find, h)
  BY <1>8 DEF StartRounds, Step, N
<1> QED
  BY <1>5, <1>9 DEF N, S

LEMMA StartRoundsAreMade ==
  ASSUME NEW rd, NEW g \in Graph, NEW call \in StartCall, StartGoesOn(rd, g, call), NEW a,
         NEW find \in [StartCall -> Seq(Node)],
         \A e \in StartCall : StartDepth(e) < StartDepth(call) => a[e] = find[e],
         NEW h \in [0 .. Len(CarryingFrom(rd, g, call.node)) -> Seq(Node)],
         StartRounds(rd, g, call, find, h)
  PROVE  FindStartNodesRecursive(rd, g, call, a) = h[Len(CarryingFrom(rd, g, call.node))]
<1> DEFINE s == Where(g.conns, {c \in From(g, {call.node}) : Carries(rd, c)})
           N == Len(s)
           Good(k) == k = [i \in 0 .. N |->
                             IF i = 0 THEN call.found
                             ELSE a[[node |-> s[i].to, found |-> k[i - 1],
                                     seen |-> call.seen \cup {call.node}]]]
           f == CHOOSE k : Good(k)
<1>1. FindStartNodesRecursive(rd, g, call, a) =
        IF IsStart(rd, g, call.node) THEN AddOnce(call.found, call.node)
        ELSE IF call.node \in call.seen THEN call.found ELSE f[N]
  BY Zenon DEF FindStartNodesRecursive
<1> HIDE DEF f
<1>2. FindStartNodesRecursive(rd, g, call, a) = f[N]
  BY <1>1 DEF StartGoesOn
<1>3. s = CarryingFrom(rd, g, call.node)
  BY DEF CarryingFrom
<1> HIDE DEF s
<1>4. N \in Nat
  BY <1>3, CarryingFromType
<1>5. \A i \in 1 .. N : i - 1 \in 0 .. N /\ i \in 0 .. N /\ i # 0
  BY <1>4
<1>6. h[0] = call.found /\ h \in [0 .. N -> Seq(Node)]
  BY <1>3 DEF StartRounds
<1>7. ASSUME NEW i \in 1 .. N
      PROVE  a[[node |-> s[i].to, found |-> h[i - 1],
                seen |-> call.seen \cup {call.node}]] = h[i]
  <2> DEFINE r == h[i - 1]
             e == FurtherStart(call, s[i], r)
  <2>1. r \in Seq(Node)
    BY <1>5, <1>6
  <2>2. e \in StartCall /\ StartDepth(e) < StartDepth(call)
    <3> HIDE DEF r
    <3> QED
      BY <1>3, <2>1, FurtherStartIsDeeper
  <2>3. h[i] = find[e]
    BY <1>3 DEF StartRounds
  <2>4. a[e] = find[e]
    <3> HIDE DEF e
    <3> QED
      BY <2>2
  <2> QED
    BY <2>3, <2>4 DEF FurtherStart
<1>8. Good(h)
  <2>1. ASSUME NEW i \in 0 .. N
        PROVE  h[i] = IF i = 0 THEN call.found
                      ELSE a[[node |-> s[i].to, found |-> h[i - 1],
                              seen |-> call.seen \cup {call.node}]]
    <3>1. CASE i = 0
      BY <1>6, <3>1
    <3>2. CASE i # 0
      <4>1. i \in 1 .. N
        BY <1>4, <3>2
      <4> QED
        BY <1>7, <3>2, <4>1
    <3> QED
      BY <3>1, <3>2
  <2> HIDE DEF N
  <2> QED
    BY <1>6, <2>1
<1>9. Good(f)
  <2> HIDE DEF Good
  <2> QED
    BY <1>8 DEF f
<1>10. f[0] = call.found
  BY <1>4, <1>9
<1>11. ASSUME NEW i \in 1 .. N
       PROVE  f[i] = a[[node |-> s[i].to, found |-> f[i - 1],
                        seen |-> call.seen \cup {call.node}]]
  <2> HIDE DEF N
  <2> QED
    BY <1>5, <1>9
<1> HIDE DEF N, Good
<1> DEFINE P == {k \in 0 .. N : f[k] = h[k]}
<1>12. 0 \in P
  BY <1>4, <1>6, <1>10
<1>13. ASSUME NEW k \in 0 .. N, k \in P, k < N PROVE k + 1 \in P
  <2>1. k + 1 \in 1 .. N /\ (k + 1) - 1 = k /\ k + 1 \in 0 .. N
    BY <1>4, <1>13
  <2>2. f[k] = h[k]
    BY <1>13
  <2> DEFINE j == k + 1
  <2>3. j \in 1 .. N /\ f[j - 1] = h[j - 1]
    BY <2>1, <2>2
  <2> HIDE DEF j
  <2>4. f[j] = h[j]
    BY <1>7, <1>11, <2>3
  <2> QED
    BY <2>1, <2>4 DEF j
<1>14. N \in P
  <2> HIDE DEF P
  <2>1. 0 .. N \subseteq P
    BY <1>4, <1>12, <1>13, UpTo
  <2> QED
    BY <1>4, <2>1
<1> QED
  BY <1>2, <1>3, <1>14 DEF N

LEMMA OtherStartsStop ==
  ASSUME NEW rd, NEW g \in Graph, NEW call \in StartCall, ~StartGoesOn(rd, g, call), NEW find
  PROVE  FindStartNodesRecursive(rd, g, call, find) = StartStops(rd, g, call)
<1> DEFINE s == Where(g.conns, {c \in From(g, {call.node}) : Carries(rd, c)})
           Good(k) == k = [i \in 0 .. Len(s) |->
                             IF i = 0 THEN call.found
                             ELSE find[[node |-> s[i].to, found |-> k[i - 1],
                                        seen |-> call.seen \cup {call.node}]]]
           f == CHOOSE k : Good(k)
<1>1. FindStartNodesRecursive(rd, g, call, find) =
        IF IsStart(rd, g, call.node) THEN AddOnce(call.found, call.node)
        ELSE IF call.node \in call.seen THEN call.found ELSE f[Len(s)]
  BY Zenon DEF FindStartNodesRecursive
<1> HIDE DEF f
<1> QED
  BY <1>1 DEF StartGoesOn, StartStops

LEMMA StartStopsType ==
  ASSUME NEW rd, NEW g, NEW call \in StartCall
  PROVE  StartStops(rd, g, call) \in Seq(Node)
<1> DEFINE s == call.found
           n == call.node
<1>1. s \in Seq(Node) /\ n \in Node
  BY DEF StartCall
<1> HIDE DEF s, n
<1>2. AddOnce(s, n) \in Seq(Node)
  BY <1>1, SeenAddedOnce
<1> QED
  BY <1>1, <1>2 DEF StartStops, s, n

LEMMA StartAnswer ==
  ASSUME NEW rd, NEW g \in Graph, NEW call \in StartCall, NEW a,
         NEW find \in [StartCall -> Seq(Node)],
         \A e \in StartCall : StartDepth(e) < StartDepth(call) => a[e] = find[e]
  PROVE  /\ FindStartNodesRecursive(rd, g, call, a) = FindStartNodesRecursive(rd, g, call, find)
         /\ FindStartNodesRecursive(rd, g, call, a) \in Seq(Node)
<1>1. CASE StartGoesOn(rd, g, call)
  <2> DEFINE N == Len(CarryingFrom(rd, g, call.node))
  <2>1. PICK h \in [0 .. N -> Seq(Node)] : StartRounds(rd, g, call, find, h)
    BY <1>1, StartRoundsExist
  <2>2. FindStartNodesRecursive(rd, g, call, a) = h[N]
    BY <1>1, <2>1, StartRoundsAreMade
  <2>3. FindStartNodesRecursive(rd, g, call, find) = h[N]
    BY <1>1, <2>1, StartRoundsAreMade
  <2>4. N \in 0 .. N
    BY CarryingFromType
  <2> HIDE DEF N
  <2> QED
    BY <2>1, <2>2, <2>3, <2>4
<1>2. CASE ~StartGoesOn(rd, g, call)
  BY <1>2, OtherStartsStop, StartStopsType
<1> QED
  BY <1>1, <1>2

StartSolves(f, rd, g) ==
  \A call \in StartCall : f[call] = FindStartNodesRecursive(rd, g, call, f)

LEMMA StartRecursion ==
  ASSUME NEW rd, NEW g \in Graph, NEW n \in Node
  PROVE  \E f \in [StartCall -> Seq(Node)] :
           /\ StartSolves(f, rd, g)
           /\ FindStartNodesFrom(rd, g, n) = f[[node |-> n, found |-> <<>>, seen |-> {}]]
<1> DEFINE D == StartCall
           V == Seq(Node)
           M == Cardinality(Node)
           mu == [call \in D |-> StartDepth(call)]
           G == [call \in D |-> [a \in [D -> V] |-> FindStartNodesRecursive(rd, g, call, a)]]
           start == [node |-> n, found |-> <<>>, seen |-> {}]
           Good(h) == h = [call \in StartCall |-> FindStartNodesRecursive(rd, g, call, h)]
           f == CHOOSE h : Good(h)
<1>1. FindStartNodesFrom(rd, g, n) = f[start]
  BY Zenon DEF FindStartNodesFrom
<1>2. start \in D /\ <<>> \in V
  BY DEF StartCall
<1>3. M \in Nat /\ mu \in [D -> 0 .. M]
  BY <1>2, StartDepthBounded
<1>4. \A call \in D : \A a \in [D -> V] : G[call][a] = FindStartNodesRecursive(rd, g, call, a)
  OBVIOUS
<1>5. G \in Rules(D, V)
  BY StartAnswer DEF Rules
<1>6. \A call \in D : mu[call] = StartDepth(call)
  OBVIOUS
<1> HIDE DEF D, V, M, mu, G, start, f
<1>7. Descends(G, D, V, mu)
  <2> SUFFICES ASSUME NEW call \in D, NEW a \in [D -> V], NEW b \in [D -> V],
                      \A e \in D : mu[e] < mu[call] => a[e] = b[e]
               PROVE  G[call][a] = G[call][b]
    BY DEF Descends
  <2>1. \A e \in StartCall : StartDepth(e) < StartDepth(call) => a[e] = b[e]
    BY <1>6 DEF D
  <2>2. FindStartNodesRecursive(rd, g, call, a) = FindStartNodesRecursive(rd, g, call, b)
    BY <2>1, StartAnswer DEF D, V
  <2> QED
    BY <1>4, <2>2
<1>8. PICK b \in [D -> V] : \A call \in D : b[call] = G[call][b]
  BY <1>2, <1>3, <1>5, <1>7, Answers
<1>9. StartSolves(b, rd, g)
  BY <1>4, <1>8 DEF StartSolves, D
<1>10. Good(b)
  BY <1>8, <1>9 DEF StartSolves, D
<1>11. Good(f)
  <2> HIDE DEF Good
  <2> QED
    BY <1>10 DEF f
<1>12. \A call \in D : f[call] = FindStartNodesRecursive(rd, g, call, f)
  BY <1>11 DEF D
<1> HIDE DEF Good
<1> DEFINE P == {k \in Nat : \A call \in D : StartDepth(call) < k => f[call] = b[call]}
<1>13. 0 \in P
  <2>1. \A call \in D : ~(StartDepth(call) < 0)
    BY StartDepthBounded DEF D
  <2> QED
    BY <2>1
<1>14. ASSUME NEW k \in P \cap Nat PROVE k + 1 \in P
  <2>1. ASSUME NEW call \in D, StartDepth(call) < k + 1 PROVE f[call] = b[call]
    <3>1. \A e \in StartCall : StartDepth(e) \in Int
      BY StartDepthBounded
    <3>2. \A e \in StartCall : StartDepth(e) < StartDepth(call) => f[e] = b[e]
      BY <1>14, <2>1, <3>1 DEF D
    <3>3. FindStartNodesRecursive(rd, g, call, f) = FindStartNodesRecursive(rd, g, call, b)
      BY <3>2, StartAnswer DEF D, V
    <3> QED
      BY <1>9, <1>12, <3>3 DEF StartSolves, D
  <2> QED
    BY <2>1
<1>15. Nat \subseteq P
  <2> HIDE DEF P
  <2> QED
    BY <1>13, <1>14, Induction
<1>16. f[start] = b[start]
  <2>1. M + 1 \in Nat /\ StartDepth(start) < M + 1
    BY <1>2, StartDepthBounded DEF D, M
  <2> QED
    BY <1>2, <1>15, <2>1
<1> QED
  BY <1>1, <1>8, <1>9, <1>16 DEF D, V, start

-----------------------------------------------------------------------------
(* The start nodes are the first on each way that have to run.              *)

\* The connections that are followed, and sets of nodes closed under them, except
\* into W.
Followed(rd, g) == {c \in ToSet(g.conns) : Carries(rd, c) /\ ~IsStart(rd, g, c.from)}
Downstream(rd, g, Z, W) == \A c \in Followed(rd, g) : c.from \in Z /\ c.to \notin W => c.to \in Z

\* What a call adds to the start nodes: it loses none, adds only nodes to start at
\* among those R that can be reached, and at a new node all of them.
StartsAdded(rd, g, R, before, node, r) ==
  /\ ToSet(before) \subseteq ToSet(r)
  /\ node \in R => \A m \in ToSet(r) \ ToSet(before) : m \in R /\ IsStart(rd, g, m)
StartsHeld(rd, g, Z, r) == \A m \in Z : IsStart(rd, g, m) => m \in ToSet(r)
StartsFound(rd, g, R, call, r) ==
  /\ StartsAdded(rd, g, R, call.found, call.node, r)
  /\ call.node \notin call.seen =>
       \E Z : call.node \in Z /\ Downstream(rd, g, Z, call.seen) /\ StartsHeld(rd, g, Z, r)

LEMMA StartStopFound ==
  ASSUME NEW rd, NEW g \in Graph, NEW R, NEW call \in StartCall, ~StartGoesOn(rd, g, call)
  PROVE  StartsFound(rd, g, R, call, StartStops(rd, g, call))
<1> DEFINE s == call.found
           n == call.node
           r == StartStops(rd, g, call)
<1>1. s \in Seq(Node) /\ n \in Node
  BY DEF StartCall
<1>2. CASE IsStart(rd, g, n)
  <2>1. r = AddOnce(s, n)
    BY <1>2 DEF StartStops
  <2> HIDE DEF s, n, r
  <2>2. ToSet(r) = ToSet(s) \cup {n}
    BY <1>1, <2>1, SeenAddedOnce
  <2>3. StartsAdded(rd, g, R, s, n, r)
    BY <1>2, <2>2 DEF StartsAdded
  <2>4. Downstream(rd, g, {n}, call.seen) /\ StartsHeld(rd, g, {n}, r)
    BY <1>2, <2>2 DEF Downstream, StartsHeld, Followed
  <2>5. n \in {n}
    OBVIOUS
  <2> QED
    BY <2>3, <2>4, <2>5 DEF StartsFound, s, n, r
<1>3. CASE ~IsStart(rd, g, n)
  <2>1. r = s /\ n \in call.seen
    BY <1>3 DEF StartStops, StartGoesOn
  <2> HIDE DEF s, r
  <2>2. StartsAdded(rd, g, R, s, n, r)
    BY <2>1 DEF StartsAdded
  <2> QED
    BY <2>1, <2>2 DEF StartsFound, s, r
<1> QED
  BY <1>2, <1>3

\* What the first i rounds of a call found.
StartRoundsFound(rd, g, R, call, r, i) ==
  /\ StartsAdded(rd, g, R, call.found, call.node, r)
  /\ \E Z : /\ Downstream(rd, g, Z, call.seen \cup {call.node}) /\ StartsHeld(rd, g, Z, r)
            /\ \A j \in 1 .. i : LET c == CarryingFrom(rd, g, call.node)[j] IN
                 c.to \notin call.seen \cup {call.node} => c.to \in Z

LEMMA StartRoundFound ==
  ASSUME NEW rd, NEW g \in Graph, NEW R, Downstream(rd, g, R, {}),
         NEW call \in StartCall, StartGoesOn(rd, g, call),
         NEW i \in Nat, i + 1 \in 1 .. Len(CarryingFrom(rd, g, call.node)),
         NEW before, StartRoundsFound(rd, g, R, call, before, i), NEW r,
         StartsFound(rd, g, R, FurtherStart(call, CarryingFrom(rd, g, call.node)[i + 1], before), r)
  PROVE  StartRoundsFound(rd, g, R, call, r, i + 1)
<1> DEFINE s == CarryingFrom(rd, g, call.node)
           c == s[i + 1]
           e == FurtherStart(call, c, before)
           W == call.seen \cup {call.node}
<1>1. c \in ToSet(g.conns) /\ c.from = call.node /\ Carries(rd, c)
  BY CarryingFromType
<1>2. e.found = before /\ e.node = c.to /\ e.seen = W
  BY DEF FurtherStart
<1>3. c \in Followed(rd, g)
  BY <1>1 DEF Followed, StartGoesOn
<1>4. StartsFound(rd, g, R, e, r)
  OBVIOUS
<1> HIDE DEF e, W
<1>5. /\ StartsAdded(rd, g, R, before, c.to, r)
      /\ c.to \notin W => \E X : c.to \in X /\ Downstream(rd, g, X, W) /\ StartsHeld(rd, g, X, r)
  BY <1>2, <1>4 DEF StartsFound
<1>6. call.node \in R => c.to \in R
  BY <1>1, <1>3 DEF Downstream
<1>7. StartsAdded(rd, g, R, call.found, call.node, r)
  <2>1. StartsAdded(rd, g, R, call.found, call.node, before)
    BY DEF StartRoundsFound
  <2> HIDE DEF c
  <2> QED
    BY <1>5, <1>6, <2>1 DEF StartsAdded
<1>8. PICK Z : /\ Downstream(rd, g, Z, W) /\ StartsHeld(rd, g, Z, before)
               /\ \A j \in 1 .. i : s[j].to \notin W => s[j].to \in Z
  BY DEF StartRoundsFound, W
<1>9. StartsHeld(rd, g, Z, r)
  BY <1>5, <1>8 DEF StartsHeld, StartsAdded
<1>10. \A j \in 1 .. i + 1 : j \in 1 .. i \/ j = i + 1
  OBVIOUS
<1>11. \E Y : /\ Downstream(rd, g, Y, W) /\ StartsHeld(rd, g, Y, r)
              /\ \A j \in 1 .. i + 1 : s[j].to \notin W => s[j].to \in Y
  <2>1. CASE c.to \in W
    <3>1. \A j \in 1 .. i + 1 : s[j].to \notin W => s[j].to \in Z
      BY <1>8, <1>10, <2>1
    <3> HIDE DEF s
    <3> QED
      BY <1>8, <1>9, <3>1
  <2>2. CASE c.to \notin W
    <3>1. PICK X : c.to \in X /\ Downstream(rd, g, X, W) /\ StartsHeld(rd, g, X, r)
      BY <1>5, <2>2
    <3>2. Downstream(rd, g, Z \cup X, W) /\ StartsHeld(rd, g, Z \cup X, r)
      BY <1>8, <1>9, <3>1 DEF Downstream, StartsHeld
    <3>3. \A j \in 1 .. i + 1 : s[j].to \notin W => s[j].to \in Z \cup X
      BY <1>8, <1>10, <3>1
    <3> HIDE DEF s
    <3> QED
      BY <3>2, <3>3
  <2> QED
    BY <2>1, <2>2
<1> QED
  BY <1>7, <1>11 DEF StartRoundsFound, W

LEMMA StartRoundsFoundAll ==
  ASSUME NEW rd, NEW g \in Graph, NEW R, NEW call \in StartCall, StartGoesOn(rd, g, call), NEW r,
         StartRoundsFound(rd, g, R, call, r, Len(CarryingFrom(rd, g, call.node)))
  PROVE  StartsFound(rd, g, R, call, r)
<1> DEFINE s == CarryingFrom(rd, g, call.node)
           n == call.node
           W == call.seen
<1>1. \A c \in Followed(rd, g) : c.from = n => \E j \in 1 .. Len(s) : s[j] = c
  <2>1. ToSet(s) = {c \in From(g, {n}) : Carries(rd, c)} /\ s \in Seq(Connection)
    BY CarryingFromType
  <2>2. \A c \in Followed(rd, g) : c.from = n => c \in ToSet(s)
    BY <2>1 DEF Followed, From
  <2> HIDE DEF s
  <2> QED
    BY <2>1, <2>2 DEF ToSet
<1>2. PICK Z : /\ Downstream(rd, g, Z, W \cup {n}) /\ StartsHeld(rd, g, Z, r)
               /\ \A j \in 1 .. Len(s) : s[j].to \notin W \cup {n} => s[j].to \in Z
  BY DEF StartRoundsFound
<1> HIDE DEF s
<1> DEFINE Y == Z \cup {n}
<1>3. Downstream(rd, g, Y, W)
  <2> SUFFICES ASSUME NEW c \in Followed(rd, g), c.from \in Y, c.to \notin W PROVE c.to \in Y
    BY DEF Downstream
  <2>1. CASE c.from \in Z
    BY <1>2, <2>1 DEF Downstream
  <2>2. CASE c.from = n
    BY <1>1, <1>2, <2>2
  <2> QED
    BY <2>1, <2>2
<1>4. StartsHeld(rd, g, Y, r)
  BY <1>2 DEF StartsHeld, StartGoesOn
<1>5. n \in Y
  OBVIOUS
<1> HIDE DEF Y
<1>6. \E X : n \in X /\ Downstream(rd, g, X, W) /\ StartsHeld(rd, g, X, r)
  BY <1>3, <1>4, <1>5
<1> QED
  BY <1>6 DEF StartsFound, StartRoundsFound

LEMMA StartCallFound ==
  ASSUME NEW rd, NEW g \in Graph, NEW R, Downstream(rd, g, R, {}),
         NEW f \in [StartCall -> Seq(Node)], StartSolves(f, rd, g), NEW call \in StartCall,
         \A e \in StartCall : StartDepth(e) < StartDepth(call) => StartsFound(rd, g, R, e, f[e])
  PROVE  StartsFound(rd, g, R, call, f[call])
<1>1. f[call] = FindStartNodesRecursive(rd, g, call, f)
  BY DEF StartSolves
<1>2. CASE ~StartGoesOn(rd, g, call)
  BY <1>1, <1>2, OtherStartsStop, StartStopFound
<1>3. CASE StartGoesOn(rd, g, call)
  <2> DEFINE s == CarryingFrom(rd, g, call.node)
             N == Len(s)
  <2>1. N \in Nat
    BY CarryingFromType
  <2>2. PICK h \in [0 .. N -> Seq(Node)] : StartRounds(rd, g, call, f, h)
    BY <1>3, StartRoundsExist
  <2>3. f[call] = h[N]
    BY <1>1, <1>3, <2>2, StartRoundsAreMade
  <2> HIDE DEF N
  <2> DEFINE P == {k \in 0 .. N : StartRoundsFound(rd, g, R, call, h[k], k)}
  <2>4. 0 \in P
    <3>1. Downstream(rd, g, {}, call.seen \cup {call.node}) /\ StartsHeld(rd, g, {}, h[0])
      BY DEF Downstream, StartsHeld
    <3>2. StartsAdded(rd, g, R, call.found, call.node, h[0])
      <4>1. h[0] = call.found
        BY <2>2 DEF StartRounds
      <4> QED
        BY <4>1 DEF StartsAdded
    <3>3. StartRoundsFound(rd, g, R, call, h[0], 0)
      BY <3>1, <3>2 DEF StartRoundsFound
    <3> QED
      BY <2>1, <3>3
  <2>5. ASSUME NEW k \in 0 .. N, k \in P, k < N PROVE k + 1 \in P
    <3>1. k + 1 \in 1 .. N /\ (k + 1) - 1 = k /\ k \in Nat /\ k + 1 \in 0 .. N
      BY <2>1, <2>5
    <3> DEFINE b == h[k]
               r == h[k + 1]
               e == FurtherStart(call, s[k + 1], b)
    <3>2. r = f[e]
      BY <2>2, <3>1 DEF StartRounds, N
    <3>3. b \in Seq(Node) /\ StartRoundsFound(rd, g, R, call, b, k)
      BY <2>5
    <3> HIDE DEF b, r
    <3>4. k + 1 \in 1 .. Len(CarryingFrom(rd, g, call.node))
      BY <3>1 DEF N
    <3>5. e \in StartCall /\ StartDepth(e) < StartDepth(call)
      BY <1>3, <3>3, <3>4, FurtherStartIsDeeper
    <3>6. StartsFound(rd, g, R, e, r)
      <4> HIDE DEF e
      <4> QED
        BY <3>2, <3>5
    <3>7. StartRoundsFound(rd, g, R, call, r, k + 1)
      BY <1>3, <3>1, <3>3, <3>4, <3>6, StartRoundFound
    <3> QED
      BY <3>1, <3>7 DEF r
  <2>6. StartRoundsFound(rd, g, R, call, h[N], N)
    <3>1. 0 .. N \subseteq P
      <4> HIDE DEF P
      <4> QED
        BY <2>1, <2>4, <2>5, UpTo
    <3> QED
      BY <2>1, <3>1
  <2>7. StartsFound(rd, g, R, call, h[N])
    BY <1>3, <2>6, StartRoundsFoundAll DEF N
  <2> QED
    BY <2>3, <2>7
<1> QED
  BY <1>2, <1>3

LEMMA AllStartsFound ==
  ASSUME NEW rd, NEW g \in Graph, NEW R, Downstream(rd, g, R, {}),
         NEW f \in [StartCall -> Seq(Node)], StartSolves(f, rd, g)
  PROVE  \A call \in StartCall : StartsFound(rd, g, R, call, f[call])
<1> DEFINE P == {k \in Nat : \A call \in StartCall :
                               StartDepth(call) < k => StartsFound(rd, g, R, call, f[call])}
<1>1. 0 \in P
  <2>1. \A call \in StartCall : ~(StartDepth(call) < 0)
    BY StartDepthBounded
  <2> QED
    BY <2>1
<1>2. ASSUME NEW k \in P \cap Nat PROVE k + 1 \in P
  <2>1. ASSUME NEW call \in StartCall, StartDepth(call) < k + 1
        PROVE  StartsFound(rd, g, R, call, f[call])
    <3>1. \A e \in StartCall : StartDepth(e) \in Int
      BY StartDepthBounded
    <3>2. \A e \in StartCall : StartDepth(e) < StartDepth(call) => StartsFound(rd, g, R, e, f[e])
      BY <1>2, <2>1, <3>1
    <3> QED
      BY <3>2, StartCallFound
  <2> QED
    BY <2>1
<1>3. Nat \subseteq P
  <2> HIDE DEF P
  <2> QED
    BY <1>1, <1>2, Induction
<1>4. ASSUME NEW call \in StartCall PROVE StartsFound(rd, g, R, call, f[call])
  <2>1. StartDepth(call) \in Nat
    BY StartDepthBounded
  <2>2. StartDepth(call) + 1 \in P /\ StartDepth(call) < StartDepth(call) + 1
    BY <1>3, <2>1
  <2> QED
    BY <2>2
<1> QED
  BY <1>4

LEMMA StartNodesFound ==
  ASSUME NEW rd, NEW g \in Graph, NEW t \in Node
  PROVE  ToSet(FindStartNodesFrom(rd, g, t)) =
           {n \in {t} \cup GetChildren(Along(g, Followed(rd, g)), t) : IsStart(rd, g, n)}
<1> DEFINE G == Along(g, Followed(rd, g))
           R == {t} \cup GetChildren(G, t)
           start == [node |-> t, found |-> <<>>, seen |-> {}]
           r == FindStartNodesFrom(rd, g, t)
<1>1. G.conns \in Seq(Connection) /\ ToSet(G.conns) = Followed(rd, g)
  BY AlongHolds DEF Followed
<1> HIDE DEF G
<1>2. /\ Ahead(G, t, GetChildren(G, t)) = GetChildren(G, t)
      /\ \A T : Ahead(G, t, T) \subseteq T => GetChildren(G, t) \subseteq T
  BY <1>1, ChildrenAreReached
<1>3. Downstream(rd, g, R, {})
  BY <1>1, <1>2 DEF Downstream, Ahead, From
<1> HIDE DEF R
<1>4. PICK f \in [StartCall -> Seq(Node)] : StartSolves(f, rd, g) /\ r = f[start]
  BY StartRecursion
<1>5. start \in StartCall /\ start.node = t /\ start.found = <<>> /\ start.seen = {}
  BY DEF StartCall
<1> HIDE DEF start, r
<1>6. StartsFound(rd, g, R, start, r)
  BY <1>3, <1>4, <1>5, AllStartsFound
<1>7. ToSet(<<>>) = {} /\ t \in R
  BY DEF ToSet, R
<1>8. \A m \in ToSet(r) : m \in R /\ IsStart(rd, g, m)
  BY <1>5, <1>6, <1>7 DEF StartsFound, StartsAdded
<1>9. PICK Z : t \in Z /\ Downstream(rd, g, Z, {}) /\ StartsHeld(rd, g, Z, r)
  BY <1>5, <1>6 DEF StartsFound
<1>10. R \subseteq Z
  <2>1. Ahead(G, t, Z) \subseteq Z
    BY <1>1, <1>9 DEF Ahead, From, Downstream
  <2> QED
    BY <1>2, <1>9, <2>1 DEF R
<1>11. \A m \in R : IsStart(rd, g, m) => m \in ToSet(r)
  BY <1>9, <1>10 DEF StartsHeld
<1>12. ToSet(r) = {n \in R : IsStart(rd, g, n)}
  BY <1>8, <1>11
<1> QED
  BY <1>12 DEF r, R, G

\* What comes before a node is among the connections.
LEMMA ParentsType ==
  ASSUME NEW g, g.conns \in Seq(Connection), NEW n
  PROVE  \A c \in GetParentConnections(g, n) : c.from \in Node
<1> DEFINE N == Len(g.conns)
           Good(h) == h = [k \in 0 .. N |->
                             IF k = 0 THEN {} ELSE Into(g, {n} \cup {d.from : d \in h[k - 1]})]
           f == CHOOSE h : Good(h)
           S == SUBSET ToSet(g.conns)
           F == [k \in 1 .. N |-> [R \in S |-> Into(g, {n} \cup {d.from : d \in R})]]
<1>1. GetParentConnections(g, n) = f[N]
  BY Zenon DEF GetParentConnections
<1>2. N \in Nat
  OBVIOUS
<1>3. Good(f)
  <2> HIDE DEF N
  <2>1. \A R \in S : Into(g, {n} \cup {d.from : d \in R}) \in S
    BY DEF Into
  <2> HIDE DEF S
  <2>2. F \in Steps(N, S)
    BY <2>1 DEF Steps
  <2>3. PICK h \in [0 .. N -> S] : Loop(h, {}, F, N)
    <3> HIDE DEF F
    <3>1. {} \in S
      BY DEF S
    <3> QED
      BY <1>2, <2>2, <3>1, Recursion
  <2>4. \A k \in 1 .. N : k - 1 \in 0 .. N
    BY <1>2
  <2>5. \A k \in 1 .. N : F[k][h[k - 1]] = Into(g, {n} \cup {d.from : d \in h[k - 1]})
    BY <2>4
  <2>6. Good(h)
    <3>1. \A k \in 0 .. N : k # 0 => k \in 1 .. N
      BY <1>2
    <3> HIDE DEF F
    <3> QED
      BY <2>3, <2>5, <3>1 DEF Loop
  <2> HIDE DEF Good
  <2> QED
    BY <2>6
<1> HIDE DEF f
<1>4. f[N] \subseteq ToSet(g.conns)
  <2>1. f[N] = IF N = 0 THEN {} ELSE Into(g, {n} \cup {d.from : d \in f[N - 1]})
    <3> HIDE DEF N
    <3>1. N \in 0 .. N
      BY <1>2
    <3> QED
      BY <1>3, <3>1
  <2> HIDE DEF N
  <2> QED
    BY <2>1 DEF Into
<1>5. \A c \in ToSet(g.conns) : c \in Connection
  BY DEF ToSet
<1> QED
  BY <1>1, <1>4, <1>5 DEF Connection

\* Once there is a trigger, it is a node.
TriggerType == stage \notin {"begin", "failed"} => trigger \in Node

LEMMA TriggerStep == InputType /\ TriggerType /\ [Next]_vars => TriggerType'
<1> SUFFICES ASSUME InputType, TriggerType, [Next]_vars PROVE TriggerType'
  OBVIOUS
<1>1. CASE FindTrigger /\ stage' # "failed"
  <2>1. trigger' \in Triggers \cup GetParentNodes(input.destination)
    BY <1>1 DEF FindTrigger, FindTriggerForPartialExecution, Fails
  <2>2. MainOf(input.graph).conns \in Seq(Connection)
    <3>1. input.graph.conns \in Seq(Connection) /\ input.graph \in Graph
      BY DEF InputType, Graph
    <3>2. MainOf(input.graph).conns = Where(input.graph.conns, Main(input.graph))
      BY <3>1 DEF MainOf, Graph
    <3> QED
      BY <3>1, <3>2, WhereKeeps
  <2> DEFINE g == MainOf(input.graph)
             d == input.destination
  <2>3. \A c \in GetParentConnections(g, d) : c.from \in Node
    <3>1. g.conns \in Seq(Connection)
      BY <2>2
    <3> HIDE DEF g, d
    <3> QED
      BY <3>1, ParentsType
  <2>4. GetParentNodes(d) \subseteq Node
    BY <2>3 DEF GetParentNodes
  <2> QED
    BY <2>1, <2>4, PartialAssumption DEF TriggerType
<1>2. CASE stage' = "failed"
  BY <1>2 DEF TriggerType
<1>3. CASE ~FindTrigger /\ stage' # "failed"
  <2>1. (UNCHANGED trigger /\ stage \notin {"begin", "failed"}) \/ UNCHANGED vars
    BY <1>3 DEF Next, FindSubgraph, FindStartNodes, HandleCycles, Clean,
                RecreateNodeExecutionStack, Fails
  <2> QED
    BY <2>1 DEF TriggerType, vars
<1> QED
  BY <1>1, <1>2, <1>3

LEMMA EarliestStep ==
  InputType /\ GraphType /\ TriggerType /\ StartNodesAreEarliest /\ [Next]_vars
  => StartNodesAreEarliest'
<1> SUFFICES ASSUME InputType, GraphType, TriggerType, StartNodesAreEarliest, [Next]_vars,
                    stage' = "start"
             PROVE  StartNodesAreEarliest'
  BY DEF StartNodesAreEarliest
<1>0. UNCHANGED input
  BY InputStays
<1>1. CASE UNCHANGED vars
  <2>1. \A n : IsStart(runData, graph, n)' <=> IsStart(runData, graph, n)
    BY <1>1 DEF vars, IsStart, IsDirty, LoopUnfinished, HasData, Pinned
  <2>2. \A c : Carries(runData, c)' <=> Carries(runData, c)
    BY <1>1 DEF vars, Carries, HadItems, HasData, Pinned
  <2>3. Followed(runData, graph)' = Followed(runData, graph)
    BY <1>1, <2>1, <2>2 DEF vars, Followed
  <2>4. ToSet(startNodes) =
          {n \in {trigger} \cup GetChildren(Along(graph, Followed(runData, graph)), trigger) :
             IsStart(runData, graph, n)}
    BY <1>1 DEF StartNodesAreEarliest, Followed, vars
  <2>5. ToSet(startNodes') =
          {n \in {trigger'} \cup GetChildren(Along(graph', Followed(runData, graph)'), trigger') :
             IsStart(runData, graph, n)'}
    BY <1>1, <2>1, <2>3, <2>4 DEF vars
  <2> QED
    BY <2>5 DEF StartNodesAreEarliest, Followed
<1>2. CASE FindStartNodes
  <2> DEFINE rd == CleanRunData(runData, graph, {n \in input.dirty : HasNode(graph, n)})
  <2>1. /\ stage = "subgraph" /\ UNCHANGED <<trigger, graph>> /\ runData' = rd
        /\ startNodes' = FindStartNodesFrom(rd, graph, trigger)
    BY <1>2 DEF FindStartNodes, Fails
  <2>2. trigger \in Node /\ graph \in Graph
    BY <2>1 DEF TriggerType, GraphType
  <2> HIDE DEF rd
  <2>3. ToSet(startNodes') =
          {n \in {trigger} \cup GetChildren(Along(graph, Followed(rd, graph)), trigger) :
             IsStart(rd, graph, n)}
    BY <2>1, <2>2, StartNodesFound
  <2>4. \A n : IsStart(runData, graph, n)' <=> IsStart(rd, graph, n)
    BY <1>0, <2>1 DEF IsStart, IsDirty, LoopUnfinished, HasData, Pinned
  <2>5. \A c : Carries(runData, c)' <=> Carries(rd, c)
    BY <1>0, <2>1 DEF Carries, HadItems, HasData, Pinned
  <2>6. Followed(runData, graph)' = Followed(rd, graph)
    BY <2>1, <2>4, <2>5 DEF Followed
  <2>7. ToSet(startNodes') =
          {n \in {trigger'} \cup GetChildren(Along(graph', Followed(runData, graph)'), trigger') :
             IsStart(runData, graph, n)'}
    BY <2>1, <2>3, <2>4, <2>6
  <2> QED
    BY <2>7 DEF StartNodesAreEarliest, Followed
<1>3. CASE Next /\ ~FindStartNodes
  BY <1>3 DEF Next, FindTrigger, FindSubgraph, HandleCycles, Clean, RecreateNodeExecutionStack, Fails
<1> QED
  BY <1>1, <1>2, <1>3

\* In every workflow the start nodes are exactly those where a way from the trigger,
\* along outputs that carried items, first meets a node that has to run.
THEOREM StartNodesAreTheEarliest == Spec => []StartNodesAreEarliest
<1>1. Init => TriggerType /\ StartNodesAreEarliest
  BY DEF Init, TriggerType, StartNodesAreEarliest
<1> QED
  BY <1>1, InputTypeHolds, GraphInitial, GraphStep, TriggerStep, EarliestStep, PTL DEF Spec

-----------------------------------------------------------------------------
(* getStronglyConnectedComponents: a call of followNode is at a node, with    *)
(* what was known before it, and leaves fewer nodes without an id to its      *)
(* children. A node popped with another leads to it and is led to by it.      *)

NodesOf(g) == ToSet(g.nodes)
WalkOf(g) == Walk(NodesOf(g))
Children(g, n) == GetDirectChildConnections(g, n)

\* The call for child m, and what is known when it has returned u.
ChildCall(m, s) == [node |-> m, walk |-> s]
Returned(n, u, m) == [u EXCEPT !.low[n] = LowestLink(u, n, m)]

\* What is known after each child of a call was followed.
Walked(g, call, follow, w) ==
  /\ w[0] = EnterNode(call.walk, call.node)
  /\ \A i \in 1 .. Len(Children(g, call.node)) :
       LET m == Children(g, call.node)[i].to
       IN w[i] = Returned(call.node, follow[ChildCall(m, w[i - 1])], m)

\* Ids are given once; a call is measured by the nodes that have none.
Kept(g, s, t) == \A x \in NodesOf(g) : s.ids[x] # Unvisited => t.ids[x] = s.ids[x]
Unseen(g, s) == {x \in NodesOf(g) : s.ids[x] = Unvisited}
Remaining(g, call) == Cardinality(Unseen(g, call.walk))

LEMMA ChildrenType ==
  ASSUME NEW g \in Graph, Proper(g), NEW n
  PROVE  /\ Children(g, n) \in Seq(Connection) /\ Len(Children(g, n)) \in Nat
         /\ \A i \in 1 .. Len(Children(g, n)) :
              LET c == Children(g, n)[i]
              IN c \in ToSet(g.conns) /\ c.from = n /\ c.to \in NodesOf(g)
<1> DEFINE s == Children(g, n)
           T == From(g, {n})
<1>1. s \in Seq(Connection) /\ ToSet(s) = ToSet(g.conns) \cap T
  <2>1. s = Where(g.conns, T) /\ g.conns \in Seq(Connection)
    BY DEF Children, GetDirectChildConnections, Graph
  <2> HIDE DEF s, T
  <2> QED
    BY <2>1, WhereKeeps
<1> HIDE DEF s
<1>2. \A i \in 1 .. Len(s) : s[i] \in ToSet(s)
  BY <1>1 DEF ToSet
<1>3. \A c \in ToSet(g.conns) : c.to \in NodesOf(g)
  BY DEF Proper, EndsOf, NodesOf
<1>4. \A i \in 1 .. Len(s) : s[i] \in ToSet(g.conns) /\ s[i].from = n /\ s[i].to \in NodesOf(g)
  BY <1>1, <1>2, <1>3 DEF From
<1>5. Len(s) \in Nat
  BY <1>1
<1> QED
  BY <1>1, <1>4, <1>5 DEF s

LEMMA Entered ==
  ASSUME NEW N, NEW s \in Walk(N), NEW n \in N
  PROVE  LET t == EnterNode(s, n)
         IN /\ t \in Walk(N) /\ t.id = s.id + 1 /\ t.stack = Append(s.stack, n) /\ t.sccs = s.sccs
            /\ t.ids = [s.ids EXCEPT ![n] = s.id] /\ t.low = [s.low EXCEPT ![n] = s.id]
<1>1. /\ s.id \in Nat /\ s.ids \in [N -> Int] /\ s.low \in [N -> Int] /\ s.stack \in Seq(N)
      /\ s.sccs \in Seq(SUBSET N)
      /\ s = [id |-> s.id, ids |-> s.ids, low |-> s.low, stack |-> s.stack, sccs |-> s.sccs]
  BY DEF Walk
<1> DEFINE ids == [s.ids EXCEPT ![n] = s.id]
           low == [s.low EXCEPT ![n] = s.id]
           stk == Append(s.stack, n)
           i == s.id + 1
           c == s.sccs
           t == EnterNode(s, n)
<1>2. t = [s EXCEPT !.id = @ + 1, !.ids[n] = s.id, !.low[n] = s.id, !.stack = Append(@, n)]
  BY DEF EnterNode
<1>3. i \in Nat /\ ids \in [N -> Int] /\ low \in [N -> Int] /\ stk \in Seq(N) /\ c \in Seq(SUBSET N)
  BY <1>1
<1> HIDE DEF t
<1>4. t = [id |-> i, ids |-> ids, low |-> low, stack |-> stk, sccs |-> c]
  BY <1>1, <1>2
<1> HIDE DEF ids, low, stk, i, c
<1>5. t \in Walk(N) /\ t.id = i /\ t.stack = stk /\ t.sccs = c /\ t.ids = ids /\ t.low = low
  BY <1>3, <1>4 DEF Walk
<1> QED
  BY <1>5 DEF t, ids, low, stk, i, c

LEMMA ReturnedIs ==
  ASSUME NEW N, NEW u \in Walk(N), NEW n \in N, NEW m \in N
  PROVE  LET t == Returned(n, u, m)
         IN /\ t \in Walk(N) /\ t.id = u.id /\ t.stack = u.stack /\ t.sccs = u.sccs /\ t.ids = u.ids
            /\ t.low = [u.low EXCEPT ![n] = LowestLink(u, n, m)]
<1>1. /\ u.id \in Nat /\ u.ids \in [N -> Int] /\ u.low \in [N -> Int] /\ u.stack \in Seq(N)
      /\ u.sccs \in Seq(SUBSET N)
      /\ u = [id |-> u.id, ids |-> u.ids, low |-> u.low, stack |-> u.stack, sccs |-> u.sccs]
  BY DEF Walk
<1> DEFINE l == LowestLink(u, n, m)
           low == [u.low EXCEPT ![n] = l]
           t == Returned(n, u, m)
<1>2. l \in Int
  BY <1>1 DEF LowestLink
<1>3. t = [u EXCEPT !.low[n] = l]
  BY DEF Returned
<1> HIDE DEF l, t
<1>4. low \in [N -> Int]
  BY <1>1, <1>2
<1>5. t = [id |-> u.id, ids |-> u.ids, low |-> low, stack |-> u.stack, sccs |-> u.sccs]
  BY <1>1, <1>3
<1> HIDE DEF low
<1>6. /\ t \in Walk(N) /\ t.id = u.id /\ t.stack = u.stack /\ t.sccs = u.sccs /\ t.ids = u.ids
      /\ t.low = low
  BY <1>1, <1>4, <1>5 DEF Walk
<1> QED
  BY <1>6 DEF t, low, l

\* Popping takes nodes off the top of the stack whose low link is the id of n.
PoppedFrom(N, s, n, t) ==
  \E k \in 0 .. Len(s.stack), C \in SUBSET N :
    /\ t.stack = SubSeq(s.stack, 1, k)
    /\ \A i \in k + 1 .. Len(s.stack) : s.low[s.stack[i]] = s.ids[n]
    /\ \A x \in C : \E i \in k + 1 .. Len(s.stack) : x = s.stack[i]
    /\ ToSet(t.sccs) \subseteq ToSet(s.sccs) \cup {C}

LEMMA Popped ==
  ASSUME NEW N, NEW s \in Walk(N), NEW n \in N
  PROVE  LET t == PopComponent(s, n)
         IN /\ t \in Walk(N) /\ t.id = s.id /\ t.ids = s.ids /\ t.low = s.low
            /\ PoppedFrom(N, s, n, t)
<1>1. /\ s.id \in Nat /\ s.ids \in [N -> Int] /\ s.low \in [N -> Int] /\ s.stack \in Seq(N)
      /\ s.sccs \in Seq(SUBSET N) /\ Len(s.stack) \in Nat
      /\ s = [id |-> s.id, ids |-> s.ids, low |-> s.low, stack |-> s.stack, sccs |-> s.sccs]
  BY DEF Walk
<1> DEFINE all == Len(s.stack)
           K == {k \in 0 .. all : \A i \in k + 1 .. all : s.low[s.stack[i]] = s.ids[n]}
           keep == Min(K)
           scc == {s.stack[i] : i \in keep + 1 .. all}
           sccs == IF scc = {} THEN s.sccs ELSE Append(s.sccs, scc)
           stk == SubSeq(s.stack, 1, keep)
<1>2. PopComponent(s, n) = [s EXCEPT !.stack = stk, !.sccs = sccs]
  BY Zenon DEF PopComponent
<1>3. K \in SUBSET Nat /\ all \in K
  BY <1>1
<1>4. keep \in K
  <2> HIDE DEF K
  <2> QED
    BY <1>3, Least
<1>5. keep \in 0 .. all /\ \A i \in keep + 1 .. all : s.low[s.stack[i]] = s.ids[n]
  <2> HIDE DEF keep
  <2> QED
    BY <1>4
<1> HIDE DEF K, keep
<1>7. scc \in SUBSET N
  <2>1. \A i \in keep + 1 .. all : i \in 1 .. all
    BY <1>1, <1>5
  <2> QED
    BY <1>1, <2>1
<1>6. \A x \in scc : \E i \in keep + 1 .. all : x = s.stack[i]
  OBVIOUS
<1> HIDE DEF scc
<1>8. sccs \in Seq(SUBSET N) /\ ToSet(sccs) \subseteq ToSet(s.sccs) \cup {scc}
  <2> DEFINE q == s.sccs
             S == SUBSET N
  <2>1. q \in Seq(S) /\ scc \in S
    BY <1>1, <1>7
  <2> HIDE DEF q, S
  <2>2. Append(q, scc) \in Seq(S) /\ ToSet(Append(q, scc)) = ToSet(q) \cup {scc}
    BY <2>1, SeenAppended
  <2> QED
    BY <2>1, <2>2 DEF q, S
<1>9. stk \in Seq(N)
  <2>1. \A i \in 1 .. keep : i \in 1 .. all
    BY <1>1, <1>5
  <2>2. \A i \in 1 .. keep : s.stack[i] \in N
    BY <1>1, <2>1
  <2> QED
    BY <1>1, <1>5, <2>2
<1> HIDE DEF sccs, stk
<1> DEFINE t == PopComponent(s, n)
<1> HIDE DEF t
<1>10. /\ t.id = s.id /\ t.ids = s.ids /\ t.low = s.low /\ t.stack = stk /\ t.sccs = sccs
       /\ t \in Walk(N)
  BY <1>1, <1>2, <1>8, <1>9 DEF Walk, t
<1>11. PoppedFrom(N, s, n, t)
  BY <1>5, <1>6, <1>7, <1>8, <1>10 DEF stk, PoppedFrom
<1> QED
  BY <1>10, <1>11 DEF t

LEMMA LeftBehind ==
  ASSUME NEW N, NEW s \in Walk(N), NEW n \in N
  PROVE  LET t == LeaveNode(s, n) IN t \in Walk(N) /\ t.id = s.id /\ t.ids = s.ids /\ t.low = s.low
<1> DEFINE t == PopComponent(s, n)
<1>1. t \in Walk(N) /\ t.id = s.id /\ t.ids = s.ids /\ t.low = s.low
  BY Popped
<1> HIDE DEF t
<1>2. LeaveNode(s, n) = IF s.low[n] = s.ids[n] THEN t ELSE s
  BY DEF LeaveNode, t
<1> QED
  BY <1>1, <1>2

LEMMA CallType ==
  ASSUME NEW g \in Graph, NEW m \in NodesOf(g), NEW s \in WalkOf(g)
  PROVE  ChildCall(m, s) \in FollowCall(g)
BY DEF ChildCall, FollowCall, WalkOf, NodesOf

\* What a child's call returns, with the parent's low link.
LEMMA ChildFollowed ==
  ASSUME NEW g \in Graph, Proper(g), NEW call \in FollowCall(g), NEW follow, NEW s,
         NEW i \in 1 .. Len(Children(g, call.node)),
         follow[ChildCall(Children(g, call.node)[i].to, s)] \in WalkOf(g)
  PROVE  LET m == Children(g, call.node)[i].to
             u == follow[ChildCall(m, s)]
             t == Returned(call.node, u, m)
         IN /\ t \in WalkOf(g) /\ t.id = u.id /\ t.stack = u.stack /\ t.sccs = u.sccs
            /\ t.ids = u.ids /\ t.low = [u.low EXCEPT ![call.node] = LowestLink(u, call.node, m)]
<1> DEFINE m == Children(g, call.node)[i].to
           u == follow[ChildCall(m, s)]
           n == call.node
           N == NodesOf(g)
<1>1. m \in N /\ n \in N /\ u \in Walk(N)
  BY ChildrenType DEF FollowCall, NodesOf, WalkOf
<1> HIDE DEF m, u, n, N
<1> DEFINE t == Returned(n, u, m)
<1>2. /\ t \in Walk(N) /\ t.id = u.id /\ t.stack = u.stack /\ t.sccs = u.sccs /\ t.ids = u.ids
      /\ t.low = [u.low EXCEPT ![n] = LowestLink(u, n, m)]
  BY <1>1, ReturnedIs
<1> HIDE DEF t
<1> QED
  BY <1>2 DEF t, m, u, n, N, WalkOf

LEMMA WalkedExists ==
  ASSUME NEW g \in Graph, Proper(g), NEW call \in FollowCall(g),
         NEW follow \in [FollowCall(g) -> WalkOf(g)]
  PROVE  \E w \in [0 .. Len(Children(g, call.node)) -> WalkOf(g)] : Walked(g, call, follow, w)
<1> DEFINE s == Children(g, call.node)
           N == Len(s)
           S == WalkOf(g)
           Step(i, r) == Returned(call.node, follow[ChildCall(s[i].to, r)], s[i].to)
           F == [i \in 1 .. N |-> [r \in S |-> Step(i, r)]]
           x == EnterNode(call.walk, call.node)
<1>1. N \in Nat
  BY ChildrenType
<1>2. ASSUME NEW i \in 1 .. N, NEW r \in S PROVE Step(i, r) \in S
  <2> DEFINE m == s[i].to
             u == follow[ChildCall(m, r)]
  <2>1. m \in NodesOf(g)
    BY ChildrenType
  <2> HIDE DEF m
  <2>2. u \in WalkOf(g)
    BY <2>1, CallType
  <2>3. Returned(call.node, u, m) \in WalkOf(g)
    BY <2>2, ChildFollowed, Zenon DEF m
  <2> QED
    BY <2>3 DEF m
<1>3. x \in S
  <2> DEFINE M == NodesOf(g)
             c == call.walk
             n == call.node
  <2>1. c \in Walk(M) /\ n \in M
    BY DEF FollowCall, NodesOf
  <2> HIDE DEF M, c, n
  <2>2. EnterNode(c, n) \in Walk(M)
    BY <2>1, Entered, Zenon
  <2> QED
    BY <2>2 DEF c, n, M, WalkOf
<1> HIDE DEF Step, N, S, x
<1>4. F \in Steps(N, S)
  BY <1>2 DEF Steps
<1>5. PICK w \in [0 .. N -> S] : Loop(w, x, F, N)
  <2> HIDE DEF F
  <2> QED
    BY <1>1, <1>3, <1>4, Recursion
<1>6. \A i \in 1 .. N : i - 1 \in 0 .. N
  BY <1>1
<1>7. \A i \in 1 .. N : F[i][w[i - 1]] = Step(i, w[i - 1])
  BY <1>6
<1>8. w[0] = x /\ \A i \in 1 .. N : w[i] = Step(i, w[i - 1])
  <2> HIDE DEF F
  <2> QED
    BY <1>5, <1>7 DEF Loop
<1>9. Walked(g, call, follow, w)
  BY <1>8 DEF Walked, Step, N, x
<1> QED
  BY <1>5, <1>9 DEF N, S

\* What a call of followNode returns.
LEMMA NodeFollowed ==
  ASSUME NEW g \in Graph, Proper(g), NEW call \in FollowCall(g),
         call.walk.ids[call.node] = Unvisited, NEW follow,
         NEW w \in [0 .. Len(Children(g, call.node)) -> WalkOf(g)], Walked(g, call, follow, w)
  PROVE  FollowNode(g, call, follow) = LeaveNode(w[Len(Children(g, call.node))], call.node)
<1> DEFINE s == GetDirectChildConnections(g, call.node)
           N == Len(s)
           x == EnterNode(call.walk, call.node)
           Step(i, r) == [follow[[node |-> s[i].to, walk |-> r]] EXCEPT
                            !.low[call.node] = LowestLink(follow[[node |-> s[i].to, walk |-> r]],
                                                          call.node, s[i].to)]
           Good(k) == k = [i \in 0 .. N |-> IF i = 0 THEN x ELSE Step(i, k[i - 1])]
           f == CHOOSE k : Good(k)
<1>1. FollowNode(g, call, follow) =
        IF call.walk.ids[call.node] # Unvisited THEN call.walk ELSE LeaveNode(f[N], call.node)
  BY Zenon DEF FollowNode
<1> HIDE DEF f
<1>2. FollowNode(g, call, follow) = LeaveNode(f[N], call.node)
  BY <1>1
<1>3. s = Children(g, call.node)
  BY DEF Children
<1>4. N \in Nat
  BY <1>3, ChildrenType
<1>5. w[0] = x /\ \A i \in 1 .. N : w[i] = Step(i, w[i - 1])
  BY <1>3 DEF Walked, ChildCall, Returned
<1>6. w \in [0 .. N -> WalkOf(g)]
  BY <1>3
<1> HIDE DEF s, N, x, Step
<1>7. \A i \in 1 .. N : i - 1 \in 0 .. N /\ i \in 0 .. N /\ i # 0
  BY <1>4
<1>8. Good(w)
  <2>1. ASSUME NEW i \in 0 .. N PROVE w[i] = IF i = 0 THEN x ELSE Step(i, w[i - 1])
    <3>1. i # 0 => i \in 1 .. N
      BY <1>4
    <3> QED
      BY <1>5, <3>1
  <2> QED
    BY <1>6, <2>1
<1>9. Good(f)
  <2> HIDE DEF Good
  <2> QED
    BY <1>8 DEF f
<1>10. f[0] = x
  BY <1>4, <1>9
<1>11. ASSUME NEW i \in 1 .. N PROVE f[i] = Step(i, f[i - 1])
  BY <1>7, <1>9
<1> HIDE DEF Good
<1> DEFINE P == {k \in 0 .. N : f[k] = w[k]}
<1>12. 0 \in P
  BY <1>4, <1>5, <1>10
<1>13. ASSUME NEW k \in 0 .. N, k \in P, k < N PROVE k + 1 \in P
  <2>1. k + 1 \in 1 .. N /\ (k + 1) - 1 = k /\ k + 1 \in 0 .. N
    BY <1>4, <1>13
  <2>2. f[k] = w[k]
    BY <1>13
  <2>3. f[k + 1] = Step(k + 1, f[(k + 1) - 1]) /\ w[k + 1] = Step(k + 1, w[(k + 1) - 1])
    BY <1>5, <1>11, <2>1
  <2>4. f[k + 1] = w[k + 1]
    BY <2>1, <2>2, <2>3
  <2> QED
    BY <2>1, <2>4
<1>14. N \in P
  <2> HIDE DEF P
  <2>1. 0 .. N \subseteq P
    BY <1>4, <1>12, <1>13, UpTo
  <2> QED
    BY <1>4, <2>1
<1>15. f[N] = w[N]
  BY <1>14
<1> QED
  BY <1>2, <1>3, <1>15 DEF N

LEMMA NodeStays ==
  ASSUME NEW g, NEW call, call.walk.ids[call.node] # Unvisited, NEW follow
  PROVE  FollowNode(g, call, follow) = call.walk
<1> DEFINE s == GetDirectChildConnections(g, call.node)
           N == Len(s)
           x == EnterNode(call.walk, call.node)
           Step(i, r) == [follow[[node |-> s[i].to, walk |-> r]] EXCEPT
                            !.low[call.node] = LowestLink(follow[[node |-> s[i].to, walk |-> r]],
                                                          call.node, s[i].to)]
           Good(k) == k = [i \in 0 .. N |-> IF i = 0 THEN x ELSE Step(i, k[i - 1])]
           f == CHOOSE k : Good(k)
<1>1. FollowNode(g, call, follow) =
        IF call.walk.ids[call.node] # Unvisited THEN call.walk ELSE LeaveNode(f[N], call.node)
  BY Zenon DEF FollowNode
<1> HIDE DEF f
<1> QED
  BY <1>1

LEMMA FollowType ==
  ASSUME NEW g \in Graph, Proper(g), NEW call \in FollowCall(g),
         NEW follow \in [FollowCall(g) -> WalkOf(g)]
  PROVE  FollowNode(g, call, follow) \in WalkOf(g)
<1>1. CASE call.walk.ids[call.node] # Unvisited
  BY <1>1, NodeStays DEF FollowCall, WalkOf, NodesOf
<1>2. CASE call.walk.ids[call.node] = Unvisited
  <2> DEFINE N == Len(Children(g, call.node))
  <2>1. PICK w \in [0 .. N -> WalkOf(g)] : Walked(g, call, follow, w)
    BY WalkedExists
  <2>2. FollowNode(g, call, follow) = LeaveNode(w[N], call.node)
    BY <1>2, <2>1, NodeFollowed
  <2>3. N \in 0 .. N
    BY ChildrenType
  <2> DEFINE s == w[N]
             n == call.node
             M == NodesOf(g)
  <2>4. s \in Walk(M) /\ n \in M
    BY <2>1, <2>3 DEF FollowCall, WalkOf, NodesOf
  <2> HIDE DEF s, n, M
  <2>5. LeaveNode(s, n) \in Walk(M)
    BY <2>4, LeftBehind, Zenon
  <2> QED
    BY <2>2, <2>5 DEF s, n, M, WalkOf
<1> QED
  BY <1>1, <1>2

LEMMA RemainingBounded ==
  ASSUME NEW g \in Graph, NEW call \in FollowCall(g)
  PROVE  Remaining(g, call) \in 0 .. Cardinality(NodesOf(g)) /\ Cardinality(NodesOf(g)) \in Nat
<1> DEFINE A == NodesOf(g)
           B == Unseen(g, call.walk)
<1>1. IsFiniteSet(A)
  <2>1. A \subseteq Node
    BY DEF NodesOf, Graph, ToSet
  <2> HIDE DEF A
  <2> QED
    BY <2>1, PartialAssumption, FS_Subset
<1>2. B \subseteq A
  BY DEF Unseen
<1> HIDE DEF A, B
<1>3. IsFiniteSet(B) /\ Cardinality(B) <= Cardinality(A)
  BY <1>1, <1>2, FS_Subset
<1>4. Cardinality(A) \in Nat /\ Cardinality(B) \in Nat
  BY <1>1, <1>3, FS_CardinalityType
<1>5. Remaining(g, call) = Cardinality(B)
  BY DEF Remaining, B
<1> QED
  BY <1>3, <1>4, <1>5 DEF A

\* A call at a new node leaves less to its children.
LEMMA LessRemains ==
  ASSUME NEW g \in Graph, NEW call \in FollowCall(g), call.walk.ids[call.node] = Unvisited,
         NEW s \in WalkOf(g), Kept(g, call.walk, s), s.ids[call.node] # Unvisited,
         NEW m \in NodesOf(g)
  PROVE  Remaining(g, ChildCall(m, s)) < Remaining(g, call)
<1> DEFINE A == Unseen(g, call.walk)
           B == Unseen(g, s)
           n == call.node
<1>1. n \in NodesOf(g)
  BY DEF FollowCall, NodesOf
<1>2. B \subseteq A /\ n \in A /\ n \notin B
  BY <1>1 DEF Unseen, Kept
<1>3. IsFiniteSet(A)
  <2>1. A \subseteq Node
    BY DEF Unseen, NodesOf, Graph, ToSet
  <2> HIDE DEF A
  <2> QED
    BY <2>1, PartialAssumption, FS_Subset
<1> HIDE DEF A, B, n
<1>4. IsFiniteSet(B) /\ Cardinality(B) <= Cardinality(A) /\ Cardinality(A) # Cardinality(B)
  BY <1>2, <1>3, FS_Subset
<1>5. Cardinality(A) \in Nat /\ Cardinality(B) \in Nat
  BY <1>3, <1>4, FS_CardinalityType
<1> QED
  BY <1>4, <1>5 DEF Remaining, A, B, ChildCall

\* Entering node n keeps the ids there are.
LEMMA EnteredKept ==
  ASSUME NEW g \in Graph, NEW call \in FollowCall(g), call.walk.ids[call.node] = Unvisited
  PROVE  LET s == EnterNode(call.walk, call.node)
         IN s \in WalkOf(g) /\ Kept(g, call.walk, s) /\ s.ids[call.node] # Unvisited
<1> DEFINE N == NodesOf(g)
           b == call.walk
           n == call.node
           s == EnterNode(b, n)
<1>1. b \in Walk(N) /\ n \in N
  BY DEF FollowCall, NodesOf
<1>2. b.ids[n] = Unvisited
  OBVIOUS
<1> HIDE DEF N, b, n
<1>3. /\ s \in Walk(N) /\ s.id = b.id + 1 /\ s.stack = Append(b.stack, n) /\ s.sccs = b.sccs
      /\ s.ids = [b.ids EXCEPT ![n] = b.id] /\ s.low = [b.low EXCEPT ![n] = b.id]
  BY <1>1, Entered
<1>4. b.id \in Nat /\ b.ids \in [N -> Int]
  BY <1>1 DEF Walk
<1> HIDE DEF s
<1>5. s.ids[n] # Unvisited
  BY <1>1, <1>3, <1>4 DEF Unvisited
<1>6. Kept(g, b, s)
  <2>1. ASSUME NEW x \in N, b.ids[x] # Unvisited PROVE s.ids[x] = b.ids[x]
    BY <1>1, <1>2, <1>3, <1>4, <2>1
  <2> QED
    BY <2>1 DEF Kept, N
<1> QED
  BY <1>3, <1>5, <1>6 DEF s, b, n, N, WalkOf

\* In a call at a new node no child loses an id, if calls with less to do lose none.
LEMMA ChildrenKeep ==
  ASSUME NEW g \in Graph, Proper(g), NEW call \in FollowCall(g),
         call.walk.ids[call.node] = Unvisited, NEW follow \in [FollowCall(g) -> WalkOf(g)],
         \A e \in FollowCall(g) :
           Remaining(g, e) < Remaining(g, call) => Kept(g, e.walk, follow[e]),
         NEW w \in [0 .. Len(Children(g, call.node)) -> WalkOf(g)], Walked(g, call, follow, w)
  PROVE  \A i \in 0 .. Len(Children(g, call.node)) :
           Kept(g, call.walk, w[i]) /\ w[i].ids[call.node] # Unvisited
<1> DEFINE N == Len(Children(g, call.node))
           P == {k \in 0 .. N : Kept(g, call.walk, w[k]) /\ w[k].ids[call.node] # Unvisited}
<1>1. N \in Nat
  BY ChildrenType
<1>2. 0 \in P
  <2>1. w[0] = EnterNode(call.walk, call.node)
    BY DEF Walked
  <2> QED
    BY <1>1, <2>1, EnteredKept
<1>3. ASSUME NEW k \in 0 .. N, k \in P, k < N PROVE k + 1 \in P
  <2>1. k + 1 \in 1 .. N /\ (k + 1) - 1 = k /\ k + 1 \in 0 .. N
    BY <1>1, <1>3
  <2> DEFINE b == w[k]
             t == w[k + 1]
             m == Children(g, call.node)[k + 1].to
             u == follow[ChildCall(m, b)]
  <2>2. m \in NodesOf(g)
    BY <2>1, ChildrenType
  <2>3. b \in WalkOf(g) /\ Kept(g, call.walk, b) /\ b.ids[call.node] # Unvisited
    BY <1>3
  <2>4. t = Returned(call.node, u, m)
    BY <2>1 DEF Walked
  <2> HIDE DEF b, t
  <2>5. u \in WalkOf(g)
    <3> HIDE DEF m
    <3> QED
      BY <2>2, <2>3, CallType
  <2>6. t.ids = u.ids
    <3>1. call.node \in NodesOf(g) /\ u \in Walk(NodesOf(g))
      BY <2>5 DEF FollowCall, NodesOf, WalkOf
    <3> DEFINE n == call.node
               M == NodesOf(g)
    <3> HIDE DEF u, m, n, M
    <3> DEFINE z == Returned(n, u, m)
    <3>2. /\ z \in Walk(M) /\ z.id = u.id /\ z.stack = u.stack /\ z.sccs = u.sccs /\ z.ids = u.ids
          /\ z.low = [u.low EXCEPT ![n] = LowestLink(u, n, m)]
      <4>1. n \in M /\ u \in Walk(M) /\ m \in M
        BY <2>2, <3>1 DEF n, M
      <4> QED
        BY <4>1, ReturnedIs
    <3> QED
      BY <2>4, <3>2 DEF n
  <2> HIDE DEF m
  <2>7. Kept(g, b, u)
    <3>1. ChildCall(m, b) \in FollowCall(g) /\ ChildCall(m, b).walk = b
      BY <2>2, <2>3, CallType DEF ChildCall
    <3>2. Remaining(g, ChildCall(m, b)) < Remaining(g, call)
      BY <2>2, <2>3, LessRemains
    <3> QED
      BY <3>1, <3>2
  <2> HIDE DEF u
  <2>8. Kept(g, call.walk, t)
    BY <2>3, <2>6, <2>7 DEF Kept
  <2>9. t.ids[call.node] # Unvisited
    <3>1. call.node \in NodesOf(g)
      BY DEF FollowCall, NodesOf
    <3> QED
      BY <2>3, <2>6, <2>7, <3>1 DEF Kept
  <2> QED
    BY <2>1, <2>8, <2>9 DEF t
<1>4. 0 .. N \subseteq P
  <2> HIDE DEF P, N
  <2> QED
    BY <1>1, <1>2, <1>3, UpTo
<1> QED
  BY <1>4

\* A call keeps ids, if calls with less to do keep them.
LEMMA CallKeeps ==
  ASSUME NEW g \in Graph, Proper(g), NEW call \in FollowCall(g),
         NEW follow \in [FollowCall(g) -> WalkOf(g)],
         \A e \in FollowCall(g) :
           Remaining(g, e) < Remaining(g, call) => Kept(g, e.walk, follow[e])
  PROVE  Kept(g, call.walk, FollowNode(g, call, follow))
<1>1. CASE call.walk.ids[call.node] # Unvisited
  BY <1>1, NodeStays DEF Kept
<1>2. CASE call.walk.ids[call.node] = Unvisited
  <2> DEFINE N == Len(Children(g, call.node))
  <2>1. PICK w \in [0 .. N -> WalkOf(g)] : Walked(g, call, follow, w)
    BY WalkedExists
  <2>2. FollowNode(g, call, follow) = LeaveNode(w[N], call.node)
    BY <1>2, <2>1, NodeFollowed
  <2>3. N \in 0 .. N
    BY ChildrenType
  <2>4. Kept(g, call.walk, w[N])
    BY <1>2, <2>1, <2>3, ChildrenKeep
  <2> DEFINE s == w[N]
             n == call.node
             M == NodesOf(g)
  <2>5. s \in Walk(M) /\ n \in M
    BY <2>1, <2>3 DEF FollowCall, WalkOf, NodesOf
  <2>6. Kept(g, call.walk, s)
    BY <2>4
  <2> HIDE DEF s, n, M
  <2>7. LeaveNode(s, n).ids = s.ids
    BY <2>5, LeftBehind
  <2>8. Kept(g, call.walk, LeaveNode(s, n))
    BY <2>6, <2>7 DEF Kept
  <2> QED
    BY <2>2, <2>8 DEF s, n
<1> QED
  BY <1>1, <1>2

\* It is enough to know what calls with less to do return.
LEMMA CallsWithLess ==
  ASSUME NEW g \in Graph, Proper(g), NEW call \in FollowCall(g),
         NEW follow \in [FollowCall(g) -> WalkOf(g)], NEW a,
         \A e \in FollowCall(g) :
           Remaining(g, e) < Remaining(g, call) => Kept(g, e.walk, follow[e]) /\ a[e] = follow[e]
  PROVE  FollowNode(g, call, a) = FollowNode(g, call, follow)
<1>1. CASE call.walk.ids[call.node] # Unvisited
  BY <1>1, NodeStays
<1>2. CASE call.walk.ids[call.node] = Unvisited
  <2> DEFINE N == Len(Children(g, call.node))
  <2>1. PICK w \in [0 .. N -> WalkOf(g)] : Walked(g, call, follow, w)
    BY WalkedExists
  <2>2. FollowNode(g, call, follow) = LeaveNode(w[N], call.node)
    BY <1>2, <2>1, NodeFollowed
  <2>3. N \in Nat
    BY ChildrenType
  <2>4. \A i \in 0 .. N : Kept(g, call.walk, w[i]) /\ w[i].ids[call.node] # Unvisited
    BY <1>2, <2>1, ChildrenKeep
  <2>5. ASSUME NEW i \in 1 .. N
        PROVE  LET m == Children(g, call.node)[i].to
               IN w[i] = Returned(call.node, a[ChildCall(m, w[i - 1])], m)
    <3> DEFINE m == Children(g, call.node)[i].to
               b == w[i - 1]
    <3>1. i - 1 \in 0 .. N
      BY <2>3
    <3>2. b \in WalkOf(g) /\ Kept(g, call.walk, b) /\ b.ids[call.node] # Unvisited
      BY <2>4, <3>1
    <3>3. m \in NodesOf(g)
      BY ChildrenType
    <3>4. w[i] = Returned(call.node, follow[ChildCall(m, b)], m)
      BY <2>1 DEF Walked
    <3> HIDE DEF m, b
    <3>5. ChildCall(m, b) \in FollowCall(g) /\ Remaining(g, ChildCall(m, b)) < Remaining(g, call)
      BY <1>2, <3>2, <3>3, CallType, LessRemains
    <3>6. a[ChildCall(m, b)] = follow[ChildCall(m, b)]
      BY <3>5
    <3> QED
      BY <3>4, <3>6 DEF m, b
  <2>6. Walked(g, call, a, w)
    BY <2>1, <2>5 DEF Walked
  <2>7. FollowNode(g, call, a) = LeaveNode(w[N], call.node)
    BY <1>2, <2>1, <2>6, NodeFollowed
  <2> QED
    BY <2>2, <2>7
<1> QED
  BY <1>1, <1>2

Follows(f, g) == \A call \in FollowCall(g) : f[call] = FollowNode(g, call, f)

NothingVisited(g) ==
  LET unvisited == [n \in NodesOf(g) |-> Unvisited]
  IN [id |-> 0, ids |-> unvisited, low |-> unvisited, stack |-> <<>>, sccs |-> <<>>]

LEMMA NothingVisitedType ==
  ASSUME NEW g
  PROVE  NothingVisited(g) \in WalkOf(g)
<1> DEFINE u == [n \in NodesOf(g) |-> Unvisited]
<1>1. u \in [NodesOf(g) -> Int]
  BY DEF Unvisited
<1>2. NothingVisited(g) = [id |-> 0, ids |-> u, low |-> u, stack |-> <<>>, sccs |-> <<>>]
  BY DEF NothingVisited
<1> HIDE DEF u
<1> QED
  BY <1>1, <1>2 DEF WalkOf, Walk

\* followNode has answers: where only calls with less to do are asked, a function
\* with them exists; it keeps ids; so only such calls are made.
LEMMA FollowExists ==
  ASSUME NEW g \in Graph, Proper(g)
  PROVE  \E f \in [FollowCall(g) -> WalkOf(g)] :
           Follows(f, g) /\ \A call \in FollowCall(g) : Kept(g, call.walk, f[call])
<1> DEFINE D == FollowCall(g)
           V == WalkOf(g)
           M == Cardinality(NodesOf(g))
           mu == [call \in D |-> Remaining(g, call)]
           Clip(call, a) == [e \in D |-> IF mu[e] < mu[call] THEN a[e] ELSE e.walk]
           G == [call \in D |-> [a \in [D -> V] |-> FollowNode(g, call, Clip(call, a))]]
           v == NothingVisited(g)
<1>1. v \in V
  BY NothingVisitedType
<1>2. M \in Nat /\ mu \in [D -> 0 .. M]
  <2>1. M \in Nat
    <3>1. IsFiniteSet(NodesOf(g))
      <4> DEFINE A == NodesOf(g)
      <4>1. A \subseteq Node
        BY DEF NodesOf, Graph, ToSet
      <4> HIDE DEF A
      <4>2. IsFiniteSet(A)
        BY <4>1, PartialAssumption, FS_Subset
      <4> QED
        BY <4>2 DEF A
    <3> QED
      BY <3>1, FS_CardinalityType
  <2> QED
    BY <2>1, RemainingBounded
<1>3. \A call \in D : call.walk \in V
  BY DEF FollowCall, WalkOf, NodesOf
<1>4. \A call \in D : mu[call] = Remaining(g, call)
  OBVIOUS
<1>5. \A call \in D : \A a \in [D -> V] : G[call][a] = FollowNode(g, call, Clip(call, a))
  OBVIOUS
<1> HIDE DEF M, mu, v
<1>6. ASSUME NEW call \in D, NEW a \in [D -> V] PROVE Clip(call, a) \in [D -> V]
  <2> HIDE DEF D, V
  <2> QED
    BY <1>3
<1>7. G \in Rules(D, V)
  <2>1. ASSUME NEW call \in D, NEW a \in [D -> V] PROVE FollowNode(g, call, Clip(call, a)) \in V
    <3> DEFINE b == Clip(call, a)
    <3>1. b \in [FollowCall(g) -> WalkOf(g)]
      BY <1>6
    <3> HIDE DEF b
    <3>2. FollowNode(g, call, b) \in WalkOf(g)
      BY <3>1, FollowType
    <3> QED
      BY <3>2 DEF b
  <2> HIDE DEF D, V, Clip
  <2> QED
    BY <2>1 DEF Rules
<1> HIDE DEF G
<1>8. Descends(G, D, V, mu)
  <2> SUFFICES ASSUME NEW call \in D, NEW a \in [D -> V], NEW b \in [D -> V],
                      \A e \in D : mu[e] < mu[call] => a[e] = b[e]
               PROVE  G[call][a] = G[call][b]
    BY DEF Descends
  <2>1. Clip(call, a) = Clip(call, b)
    <3> HIDE DEF D, V
    <3> QED
      OBVIOUS
  <2> HIDE DEF D, V, Clip
  <2> QED
    BY <1>5, <2>1
<1>9. PICK h \in [D -> V] : \A call \in D : h[call] = G[call][h]
  <2> HIDE DEF D, V
  <2> QED
    BY <1>1, <1>2, <1>7, <1>8, Answers
<1>10. \A call \in D : h[call] = FollowNode(g, call, Clip(call, h))
  <2> HIDE DEF D, V, Clip
  <2> QED
    BY <1>5, <1>9
<1>11. ASSUME NEW call \in D, NEW e \in D, Remaining(g, e) < Remaining(g, call)
       PROVE  Clip(call, h)[e] = h[e]
  <2> HIDE DEF D, V
  <2> QED
    BY <1>4, <1>11
<1> HIDE DEF Clip
<1> DEFINE P == {k \in Nat : \A call \in D : Remaining(g, call) < k => Kept(g, call.walk, h[call])}
<1>12. 0 \in P
  <2>1. \A call \in D : ~(Remaining(g, call) < 0)
    BY RemainingBounded
  <2> QED
    BY <2>1
<1>13. ASSUME NEW k \in P \cap Nat PROVE k + 1 \in P
  <2>1. ASSUME NEW call \in D, Remaining(g, call) < k + 1 PROVE Kept(g, call.walk, h[call])
    <3>1. \A e \in D : Remaining(g, e) \in Int
      BY RemainingBounded
    <3> DEFINE b == Clip(call, h)
    <3>2. b \in [FollowCall(g) -> WalkOf(g)] /\ h[call] = FollowNode(g, call, b)
      BY <1>6, <1>10
    <3>3. \A e \in D : Remaining(g, e) < Remaining(g, call) => b[e] = h[e] /\ Kept(g, e.walk, h[e])
      BY <1>11, <1>13, <2>1, <3>1
    <3> HIDE DEF b
    <3>4. Kept(g, call.walk, FollowNode(g, call, b))
      BY <3>2, <3>3, CallKeeps
    <3> QED
      BY <3>2, <3>4
  <2> QED
    BY <2>1
<1>14. Nat \subseteq P
  <2> HIDE DEF P
  <2> QED
    BY <1>12, <1>13, Induction
<1>15. ASSUME NEW call \in D PROVE Kept(g, call.walk, h[call])
  <2>1. Remaining(g, call) + 1 \in P /\ Remaining(g, call) < Remaining(g, call) + 1
    BY <1>14, RemainingBounded
  <2> QED
    BY <2>1
<1> HIDE DEF P
<1>16. ASSUME NEW call \in D PROVE h[call] = FollowNode(g, call, h)
  <2> DEFINE b == Clip(call, h)
  <2>1. h[call] = FollowNode(g, call, b)
    BY <1>10
  <2>2. \A e \in FollowCall(g) :
          Remaining(g, e) < Remaining(g, call) => Kept(g, e.walk, h[e]) /\ b[e] = h[e]
    BY <1>11, <1>15
  <2> HIDE DEF b
  <2>3. FollowNode(g, call, b) = FollowNode(g, call, h)
    BY <2>2, CallsWithLess
  <2> QED
    BY <2>1, <2>3
<1>17. Follows(h, g)
  BY <1>16 DEF Follows
<1> QED
  BY <1>15, <1>17

\* Whatever satisfies the equation of followNode gives the same answers.
LEMMA FollowUnique ==
  ASSUME NEW g \in Graph, Proper(g), NEW h \in [FollowCall(g) -> WalkOf(g)], Follows(h, g),
         \A call \in FollowCall(g) : Kept(g, call.walk, h[call]),
         NEW f, Follows(f, g)
  PROVE  \A call \in FollowCall(g) : f[call] = h[call]
<1> DEFINE P == {k \in Nat : \A call \in FollowCall(g) : Remaining(g, call) < k => f[call] = h[call]}
<1>1. 0 \in P
  <2>1. \A call \in FollowCall(g) : ~(Remaining(g, call) < 0)
    BY RemainingBounded
  <2> QED
    BY <2>1
<1>2. ASSUME NEW k \in P \cap Nat PROVE k + 1 \in P
  <2>1. ASSUME NEW call \in FollowCall(g), Remaining(g, call) < k + 1 PROVE f[call] = h[call]
    <3>1. \A e \in FollowCall(g) : Remaining(g, e) \in Int
      BY RemainingBounded
    <3>2. \A e \in FollowCall(g) : Remaining(g, e) < Remaining(g, call)
            => Kept(g, e.walk, h[e]) /\ f[e] = h[e]
      BY <1>2, <2>1, <3>1
    <3>3. FollowNode(g, call, f) = FollowNode(g, call, h)
      BY <3>2, CallsWithLess
    <3> QED
      BY <3>3 DEF Follows
  <2> QED
    BY <2>1
<1>3. Nat \subseteq P
  <2> HIDE DEF P
  <2> QED
    BY <1>1, <1>2, Induction
<1>4. ASSUME NEW call \in FollowCall(g) PROVE f[call] = h[call]
  <2>1. Remaining(g, call) + 1 \in P /\ Remaining(g, call) < Remaining(g, call) + 1
    BY <1>3, RemainingBounded
  <2> QED
    BY <2>1
<1> QED
  BY <1>4

\* The nodes are followed one after the other.
LEMMA NodesFollowed ==
  ASSUME NEW g \in Graph, Proper(g)
  PROVE  \E h \in [FollowCall(g) -> WalkOf(g)], w \in [0 .. Len(g.nodes) -> WalkOf(g)] :
           /\ Follows(h, g) /\ \A call \in FollowCall(g) : Kept(g, call.walk, h[call])
           /\ w[0] = NothingVisited(g)
           /\ \A i \in 1 .. Len(g.nodes) : w[i] = h[ChildCall(g.nodes[i], w[i - 1])]
           /\ GetStronglyConnectedComponents(g) = w[Len(g.nodes)].sccs
<1> DEFINE N == Len(g.nodes)
           Good(a) == a = [call \in FollowCall(g) |-> FollowNode(g, call, a)]
           f == CHOOSE a : Good(a)
           unvisited == [n \in ToSet(g.nodes) |-> Unvisited]
           Made(k) == k = [i \in 0 .. N |->
                             IF i = 0
                             THEN [id |-> 0, ids |-> unvisited, low |-> unvisited, stack |-> <<>>,
                                   sccs |-> <<>>]
                             ELSE f[[node |-> g.nodes[i], walk |-> k[i - 1]]]]
           z == CHOOSE k : Made(k)
<1>1. GetStronglyConnectedComponents(g) = z[N].sccs
  BY Zenon DEF GetStronglyConnectedComponents
<1> HIDE DEF z
<1>2. PICK h \in [FollowCall(g) -> WalkOf(g)] :
        Follows(h, g) /\ \A call \in FollowCall(g) : Kept(g, call.walk, h[call])
  BY FollowExists
<1>3. Follows(f, g)
  <2>1. Good(h)
    BY <1>2 DEF Follows
  <2>2. Good(f)
    <3> HIDE DEF Good
    <3> QED
      BY <2>1
  <2> HIDE DEF f
  <2> QED
    BY <2>2 DEF Follows
<1> HIDE DEF Good, f
<1>4. \A call \in FollowCall(g) : f[call] = h[call]
  BY <1>2, <1>3, FollowUnique
<1> DEFINE S == WalkOf(g)
           Step(i, r) == h[ChildCall(g.nodes[i], r)]
           F == [i \in 1 .. N |-> [r \in S |-> Step(i, r)]]
           x == NothingVisited(g)
<1>5. N \in Nat /\ \A i \in 1 .. N : g.nodes[i] \in NodesOf(g)
  BY DEF Graph, NodesOf, ToSet
<1>6. ASSUME NEW i \in 1 .. N, NEW r \in S PROVE Step(i, r) \in S /\ f[ChildCall(g.nodes[i], r)] = Step(i, r)
  <2> DEFINE n == g.nodes[i]
  <2>1. n \in NodesOf(g)
    BY <1>5
  <2> HIDE DEF n
  <2>2. ChildCall(n, r) \in FollowCall(g)
    BY <2>1, CallType
  <2> QED
    BY <1>4, <2>2 DEF n
<1>7. x \in S /\ x = [id |-> 0, ids |-> unvisited, low |-> unvisited, stack |-> <<>>, sccs |-> <<>>]
  BY NothingVisitedType DEF NothingVisited, NodesOf
<1> HIDE DEF N, S, x, Step
<1>8. F \in Steps(N, S)
  BY <1>6 DEF Steps
<1>9. PICK w \in [0 .. N -> S] : Loop(w, x, F, N)
  <2> HIDE DEF F
  <2> QED
    BY <1>5, <1>7, <1>8, Recursion
<1>10. \A i \in 1 .. N : i - 1 \in 0 .. N /\ i \in 0 .. N /\ i # 0
  BY <1>5
<1>11. \A i \in 1 .. N : F[i][w[i - 1]] = Step(i, w[i - 1])
  BY <1>10
<1>12. w[0] = x /\ \A i \in 1 .. N : w[i] = Step(i, w[i - 1])
  <2> HIDE DEF F
  <2> QED
    BY <1>9, <1>11 DEF Loop
<1>13. \A i \in 1 .. N : w[i] = f[ChildCall(g.nodes[i], w[i - 1])]
  BY <1>6, <1>10, <1>12
<1> HIDE DEF F
<1>14. Made(w)
  <2>1. ASSUME NEW i \in 0 .. N
        PROVE  w[i] = IF i = 0
                      THEN [id |-> 0, ids |-> unvisited, low |-> unvisited, stack |-> <<>>,
                            sccs |-> <<>>]
                      ELSE f[[node |-> g.nodes[i], walk |-> w[i - 1]]]
    <3>1. CASE i = 0
      BY <1>7, <1>12, <3>1
    <3>2. CASE i # 0
      <4>1. i \in 1 .. N
        BY <1>5, <3>2
      <4> QED
        BY <1>13, <3>2, <4>1 DEF ChildCall
    <3> QED
      BY <3>1, <3>2
  <2> HIDE DEF unvisited
  <2> QED
    BY <2>1
<1>15. Made(z)
  <2> HIDE DEF Made
  <2> QED
    BY <1>14 DEF z
<1>16. z[0] = x
  BY <1>5, <1>7, <1>15
<1>17. ASSUME NEW i \in 1 .. N PROVE z[i] = f[ChildCall(g.nodes[i], z[i - 1])]
  <2> HIDE DEF unvisited
  <2> QED
    BY <1>10, <1>15 DEF ChildCall
<1> HIDE DEF Made
<1> DEFINE P == {k \in 0 .. N : z[k] = w[k]}
<1>18. 0 \in P
  BY <1>5, <1>12, <1>16
<1>19. ASSUME NEW k \in 0 .. N, k \in P, k < N PROVE k + 1 \in P
  <2>1. k + 1 \in 1 .. N /\ (k + 1) - 1 = k /\ k + 1 \in 0 .. N
    BY <1>5, <1>19
  <2>2. z[k] = w[k]
    BY <1>19
  <2>3. /\ z[k + 1] = f[ChildCall(g.nodes[k + 1], z[(k + 1) - 1])]
        /\ w[k + 1] = f[ChildCall(g.nodes[k + 1], w[(k + 1) - 1])]
    BY <1>13, <1>17, <2>1
  <2>4. z[k + 1] = w[k + 1]
    BY <2>1, <2>2, <2>3
  <2> QED
    BY <2>1, <2>4
<1>20. N \in P
  <2> HIDE DEF P
  <2>1. 0 .. N \subseteq P
    BY <1>5, <1>18, <1>19, UpTo
  <2> QED
    BY <1>5, <2>1
<1>21. GetStronglyConnectedComponents(g) = w[N].sccs
  BY <1>1, <1>20
<1> QED
  BY <1>2, <1>9, <1>12, <1>21 DEF N, S, x, Step

Leads(g, x, y) == y = x \/ y \in GetChildren(g, x)
Connected(g, C) == \A x, y \in C : Leads(g, x, y)

\* Ids are distinct and given in order; the low link of a node is the id of a node
\* it leads to, given no later than its own; what is on the stack has an id.
HasId(g, s, x) == s.ids[x] \in 0 .. s.id - 1
LowReached(g, s, x) ==
  s.low[x] \in 0 .. s.ids[x] /\ \E y \in NodesOf(g) : s.ids[y] = s.low[x] /\ Leads(g, x, y)
IdsSane(g, s) ==
  /\ \A x \in NodesOf(g) : s.ids[x] # Unvisited => HasId(g, s, x) /\ LowReached(g, s, x)
  /\ \A x, y \in NodesOf(g) : s.ids[x] # Unvisited /\ s.ids[x] = s.ids[y] => x = y
Sane(g, s) ==
  /\ IdsSane(g, s)
  /\ \A i \in 1 .. Len(s.stack) : s.ids[s.stack[i]] # Unvisited
  /\ \A C \in ToSet(s.sccs) : Connected(g, C)

\* The stack of t is that of s with nodes on it that n leads to.
Stacked(g, n, s, t) ==
  /\ Len(s.stack) <= Len(t.stack)
  /\ \A i \in 1 .. Len(s.stack) : t.stack[i] = s.stack[i]
  /\ \A i \in Len(s.stack) + 1 .. Len(t.stack) : Leads(g, n, t.stack[i])

LEMMA LeadsOn ==
  ASSUME NEW g \in Graph, NEW x, NEW y, NEW z, Leads(g, x, y), Leads(g, y, z)
  PROVE  Leads(g, x, z)
<1> DEFINE R == GetChildren(g, x)
<1>1. /\ Ahead(g, x, R) = R
      /\ \A T : Ahead(g, y, T) \subseteq T => GetChildren(g, y) \subseteq T
  BY ChildrenAreReached DEF Graph
<1> HIDE DEF R
<1>2. CASE y \in R
  <2>1. Ahead(g, y, R) \subseteq Ahead(g, x, R)
    BY <1>2 DEF Ahead, From
  <2>2. GetChildren(g, y) \subseteq R
    BY <1>1, <2>1
  <2> QED
    BY <1>2, <2>2 DEF Leads, R
<1> QED
  BY <1>2 DEF Leads, R

LEMMA LeadsAlong ==
  ASSUME NEW g \in Graph, NEW c \in ToSet(g.conns)
  PROVE  Leads(g, c.from, c.to)
<1> DEFINE R == GetChildren(g, c.from)
<1>1. Ahead(g, c.from, R) = R
  BY ChildrenAreReached DEF Graph
<1> HIDE DEF R
<1>2. c.to \in Ahead(g, c.from, R)
  BY DEF Ahead, From
<1> QED
  BY <1>1, <1>2 DEF Leads, R

LEMMA StackedOn ==
  ASSUME NEW g \in Graph, NEW n, NEW m, Leads(g, n, m),
         NEW s \in WalkOf(g), NEW u \in WalkOf(g), NEW t \in WalkOf(g),
         Stacked(g, n, s, u), Stacked(g, m, u, t)
  PROVE  Stacked(g, n, s, t)
<1>1. Len(s.stack) \in Nat /\ Len(u.stack) \in Nat /\ Len(t.stack) \in Nat
  BY DEF WalkOf, Walk
<1> DEFINE a == s.stack
           b == u.stack
           c == t.stack
<1>2. /\ Len(a) <= Len(b) /\ \A i \in 1 .. Len(a) : b[i] = a[i]
      /\ \A i \in Len(a) + 1 .. Len(b) : Leads(g, n, b[i])
      /\ Len(b) <= Len(c) /\ \A i \in 1 .. Len(b) : c[i] = b[i]
      /\ \A i \in Len(b) + 1 .. Len(c) : Leads(g, m, c[i])
  BY DEF Stacked
<1> HIDE DEF a, b, c
<1>3. Len(a) \in Nat /\ Len(b) \in Nat /\ Len(c) \in Nat
  BY <1>1 DEF a, b, c
<1>4. Len(a) <= Len(c) /\ \A i \in 1 .. Len(a) : c[i] = a[i]
  BY <1>2, <1>3
<1>5. ASSUME NEW i \in Len(a) + 1 .. Len(c) PROVE Leads(g, n, c[i])
  <2>1. CASE i <= Len(b)
    <3>1. i \in Len(a) + 1 .. Len(b) /\ i \in 1 .. Len(b)
      BY <1>3, <2>1
    <3> QED
      BY <1>2, <3>1
  <2>2. CASE ~(i <= Len(b))
    <3>1. i \in Len(b) + 1 .. Len(c)
      BY <1>3, <2>2
    <3>2. Leads(g, m, c[i])
      BY <1>2, <3>1
    <3> QED
      BY <3>2, LeadsOn
  <2> QED
    BY <2>1, <2>2
<1> QED
  BY <1>4, <1>5 DEF Stacked, a, b, c

LEMMA EnteredSane ==
  ASSUME NEW g \in Graph, NEW s \in WalkOf(g), Sane(g, s),
         NEW n \in NodesOf(g), s.ids[n] = Unvisited
  PROVE  LET t == EnterNode(s, n) IN Sane(g, t) /\ Stacked(g, n, s, t) /\ t.ids[n] = s.id
<1> DEFINE N == NodesOf(g)
           t == EnterNode(s, n)
<1>1. s \in Walk(N) /\ n \in N
  BY DEF WalkOf
<1> HIDE DEF N, t
<1>2. /\ t \in Walk(N) /\ t.id = s.id + 1 /\ t.stack = Append(s.stack, n) /\ t.sccs = s.sccs
      /\ t.ids = [s.ids EXCEPT ![n] = s.id] /\ t.low = [s.low EXCEPT ![n] = s.id]
  BY <1>1, Entered DEF t
<1>3. s.id \in Nat /\ s.ids \in [N -> Int] /\ s.low \in [N -> Int] /\ s.stack \in Seq(N)
  BY <1>1 DEF Walk
<1>4. t.ids[n] = s.id /\ t.low[n] = s.id
  BY <1>1, <1>2, <1>3
<1>5. \A x \in N : x # n => t.ids[x] = s.ids[x] /\ t.low[x] = s.low[x]
  BY <1>1, <1>2, <1>3
<1>6. \A x \in N : s.ids[x] # Unvisited => x # n
  OBVIOUS
<1>7. /\ \A x \in N : s.ids[x] # Unvisited => HasId(g, s, x) /\ LowReached(g, s, x)
      /\ \A x, y \in N : s.ids[x] # Unvisited /\ s.ids[x] = s.ids[y] => x = y
  BY DEF Sane, IdsSane, N
<1>8. ASSUME NEW x \in N, t.ids[x] # Unvisited PROVE HasId(g, t, x) /\ LowReached(g, t, x)
  <2>1. CASE x = n
    <3>1. t.ids[x] = s.id /\ t.low[x] = s.id /\ t.id = s.id + 1 /\ Leads(g, x, x)
      BY <1>2, <1>4, <2>1 DEF Leads
    <3>2. t.ids[x] \in 0 .. t.id - 1 /\ t.low[x] \in 0 .. t.ids[x]
      BY <1>3, <3>1
    <3> QED
      BY <3>1, <3>2 DEF HasId, LowReached, N
  <2>2. CASE x # n
    <3>1. t.ids[x] = s.ids[x] /\ t.low[x] = s.low[x]
      BY <1>5, <2>2
    <3>2. HasId(g, s, x) /\ LowReached(g, s, x)
      BY <1>7, <1>8, <3>1
    <3>3. PICK y \in N : s.ids[y] = s.low[x] /\ Leads(g, x, y)
      BY <3>2 DEF LowReached, N
    <3>4. s.low[x] \in 0 .. s.ids[x] /\ s.ids[x] \in 0 .. s.id - 1
      BY <3>2 DEF HasId, LowReached
    <3>5. y # n
      BY <3>3, <3>4 DEF Unvisited
    <3>6. t.ids[y] = t.low[x]
      BY <1>5, <3>1, <3>3, <3>5
    <3>7. t.ids[x] \in 0 .. t.id - 1
      BY <1>2, <1>3, <3>1, <3>4
    <3> QED
      BY <3>1, <3>3, <3>4, <3>6, <3>7 DEF HasId, LowReached, N
  <2> QED
    BY <2>1, <2>2
<1>9. ASSUME NEW x \in N, s.ids[x] # Unvisited PROVE s.ids[x] < s.id
  BY <1>3, <1>7, <1>9 DEF HasId
<1>10. ASSUME NEW x \in N, NEW y \in N, t.ids[x] # Unvisited, t.ids[x] = t.ids[y] PROVE x = y
  <2>1. ASSUME NEW v \in N, v # n, t.ids[v] # Unvisited PROVE t.ids[v] # s.id
    BY <1>3, <1>5, <1>9, <2>1
  <2>2. CASE x = n \/ y = n
    BY <1>4, <1>10, <2>1, <2>2
  <2>3. CASE x # n /\ y # n
    BY <1>5, <1>7, <1>10, <2>3
  <2> QED
    BY <2>2, <2>3
<1> DEFINE a == s.stack
           b == t.stack
<1>11. a \in Seq(N) /\ b = Append(a, n)
  BY <1>2, <1>3
<1>12. /\ Len(a) \in Nat /\ Len(b) = Len(a) + 1 /\ b[Len(a) + 1] = n
       /\ \A i \in 1 .. Len(a) : b[i] = a[i] /\ a[i] \in N
  <2> HIDE DEF a, b
  <2> QED
    BY <1>11
<1>13. \A i \in 1 .. Len(a) : s.ids[a[i]] # Unvisited
  BY DEF Sane
<1> HIDE DEF a, b
<1>14. ASSUME NEW i \in 1 .. Len(b) PROVE t.ids[b[i]] # Unvisited
  <2>1. CASE i = Len(a) + 1
    BY <1>3, <1>4, <1>12, <2>1 DEF Unvisited
  <2>2. CASE i # Len(a) + 1
    <3>1. i \in 1 .. Len(a)
      BY <1>12, <2>2
    <3> QED
      BY <1>5, <1>6, <1>12, <1>13, <3>1
  <2> QED
    BY <2>1, <2>2
<1>15. Stacked(g, n, s, t)
  <2>1. Len(a) <= Len(b) /\ \A i \in Len(a) + 1 .. Len(b) : b[i] = n
    BY <1>12
  <2> QED
    BY <1>12, <2>1 DEF Stacked, Leads, a, b
<1>16. \A C \in ToSet(t.sccs) : Connected(g, C)
  BY <1>2 DEF Sane
<1>17. Sane(g, t)
  BY <1>8, <1>10, <1>14, <1>16 DEF Sane, IdsSane, N, b
<1> QED
  BY <1>4, <1>15, <1>17 DEF t

\* The low link of a child that was followed keeps the walk sane.
LEMMA ReturnedSane ==
  ASSUME NEW g \in Graph, NEW u \in WalkOf(g), Sane(g, u), NEW n \in NodesOf(g),
         u.ids[n] # Unvisited, NEW m \in NodesOf(g), Leads(g, n, m)
  PROVE  LET t == Returned(n, u, m)
         IN t \in WalkOf(g) /\ Sane(g, t) /\ t.stack = u.stack /\ t.ids = u.ids
<1> DEFINE N == NodesOf(g)
           t == Returned(n, u, m)
           l == LowestLink(u, n, m)
<1>1. u \in Walk(N) /\ n \in N /\ m \in N
  BY DEF WalkOf
<1> HIDE DEF N, t
<1>2. /\ t \in Walk(N) /\ t.id = u.id /\ t.stack = u.stack /\ t.sccs = u.sccs /\ t.ids = u.ids
      /\ t.low = [u.low EXCEPT ![n] = l]
  BY <1>1, ReturnedIs DEF t
<1>3. u.id \in Nat /\ u.ids \in [N -> Int] /\ u.low \in [N -> Int] /\ u.stack \in Seq(N)
  BY <1>1 DEF Walk
<1>4. \A x \in N : u.ids[x] # Unvisited => HasId(g, u, x) /\ LowReached(g, u, x)
  BY DEF Sane, IdsSane, N
<1>5. l \in 0 .. u.ids[n] /\ \E y \in N : u.ids[y] = l /\ Leads(g, n, y)
  <2>0. u.low[n] \in 0 .. u.ids[n] /\ \E y \in N : u.ids[y] = u.low[n] /\ Leads(g, n, y)
    BY <1>1, <1>4 DEF LowReached, N
  <2>1. CASE Contains(u.stack, m) /\ u.low[m] < u.low[n]
    <3>1. l = u.low[m]
      BY <2>1 DEF LowestLink
    <3>2. PICK i \in 1 .. Len(u.stack) : u.stack[i] = m
      BY <1>3, <2>1 DEF Contains
    <3>3. u.ids[m] # Unvisited
      BY <3>2 DEF Sane
    <3>4. u.low[m] \in 0 .. u.ids[m] /\ \E y \in N : u.ids[y] = u.low[m] /\ Leads(g, m, y)
      BY <1>1, <1>4, <3>3 DEF LowReached, N
    <3>5. PICK y \in N : u.ids[y] = u.low[m] /\ Leads(g, m, y)
      BY <3>4
    <3>6. Leads(g, n, y)
      BY <3>5, LeadsOn
    <3>7. u.low[m] \in 0 .. u.ids[n]
      BY <1>1, <1>3, <2>0, <2>1, <3>4
    <3> QED
      BY <3>1, <3>5, <3>6, <3>7
  <2>2. CASE ~(Contains(u.stack, m) /\ u.low[m] < u.low[n])
    <3>1. l = u.low[n]
      BY <2>2 DEF LowestLink
    <3> QED
      BY <2>0, <3>1
  <2> QED
    BY <2>1, <2>2
<1> HIDE DEF l
<1>6. t.low[n] = l /\ \A x \in N : x # n => t.low[x] = u.low[x]
  BY <1>1, <1>2, <1>3
<1>7. ASSUME NEW x \in N, t.ids[x] # Unvisited PROVE HasId(g, t, x) /\ LowReached(g, t, x)
  <2>1. HasId(g, u, x) /\ LowReached(g, u, x)
    BY <1>2, <1>4, <1>7
  <2>2. HasId(g, t, x)
    BY <1>2, <2>1 DEF HasId
  <2>3. LowReached(g, t, x)
    BY <1>2, <1>5, <1>6, <2>1 DEF LowReached, N
  <2> QED
    BY <2>2, <2>3
<1>8. Sane(g, t)
  BY <1>2, <1>7 DEF Sane, IdsSane, N
<1> QED
  BY <1>2, <1>8 DEF t, N, WalkOf

\* A component popped at node n is connected: n leads to each of its nodes, and
\* their low link is the id of n; the nodes that were on the stack stay there.
LEMMA LeftSane ==
  ASSUME NEW g \in Graph, NEW b \in WalkOf(g), Sane(g, b), NEW n \in NodesOf(g),
         NEW s \in WalkOf(g), Sane(g, s), Kept(g, b, s), Stacked(g, n, b, s), s.ids[n] = b.id
  PROVE  LET t == LeaveNode(s, n) IN t \in WalkOf(g) /\ Sane(g, t) /\ Stacked(g, n, b, t)
<1> DEFINE N == NodesOf(g)
           t == PopComponent(s, n)
           v == LeaveNode(s, n)
<1>1. s \in Walk(N) /\ n \in N /\ b \in Walk(N)
  BY DEF WalkOf
<1>2. v = IF s.low[n] = s.ids[n] THEN t ELSE s
  BY DEF LeaveNode
<1> HIDE DEF N, t, v
<1>3. /\ t \in Walk(N) /\ t.id = s.id /\ t.ids = s.ids /\ t.low = s.low
      /\ PoppedFrom(N, s, n, t)
  BY <1>1, Popped DEF t
<1>4. PICK k \in 0 .. Len(s.stack), C \in SUBSET N :
        /\ t.stack = SubSeq(s.stack, 1, k)
        /\ \A i \in k + 1 .. Len(s.stack) : s.low[s.stack[i]] = s.ids[n]
        /\ \A x \in C : \E i \in k + 1 .. Len(s.stack) : x = s.stack[i]
        /\ ToSet(t.sccs) \subseteq ToSet(s.sccs) \cup {C}
  BY <1>3 DEF PoppedFrom
<1> DEFINE a == b.stack
           q == s.stack
           p == t.stack
<1>5. a \in Seq(N) /\ q \in Seq(N) /\ p = SubSeq(q, 1, k) /\ b.id \in Nat
  BY <1>1, <1>4 DEF Walk
<1>6. /\ k \in 0 .. Len(q) /\ \A i \in k + 1 .. Len(q) : s.low[q[i]] = s.ids[n]
      /\ \A x \in C : \E i \in k + 1 .. Len(q) : x = q[i]
      /\ ToSet(t.sccs) \subseteq ToSet(s.sccs) \cup {C}
  BY <1>4
<1>7. /\ Len(a) <= Len(q) /\ \A i \in 1 .. Len(a) : q[i] = a[i]
      /\ \A i \in Len(a) + 1 .. Len(q) : Leads(g, n, q[i])
  BY DEF Stacked
<1>8. /\ \A i \in 1 .. Len(a) : b.ids[a[i]] # Unvisited
      /\ \A i \in 1 .. Len(q) : s.ids[q[i]] # Unvisited
  BY DEF Sane
<1> HIDE DEF a, q, p
<1>9. /\ Len(a) \in Nat /\ Len(q) \in Nat /\ Len(p) = k
      /\ \A i \in 1 .. Len(a) : a[i] \in N
      /\ \A i \in 1 .. Len(q) : q[i] \in N
      /\ \A i \in 1 .. k : p[i] = q[i]
  BY <1>5, <1>6
<1>10. /\ \A x \in N : b.ids[x] # Unvisited => HasId(g, b, x)
       /\ \A x \in N : s.ids[x] # Unvisited => LowReached(g, s, x)
       /\ \A x, y \in N : s.ids[x] # Unvisited /\ s.ids[x] = s.ids[y] => x = y
       /\ \A x \in N : b.ids[x] # Unvisited => s.ids[x] = b.ids[x]
  BY DEF Sane, IdsSane, Kept, N
<1>11. ASSUME NEW i \in 1 .. Len(a) PROVE s.low[a[i]] # b.id
  <2> DEFINE x == a[i]
  <2>1. x \in N /\ b.ids[x] # Unvisited
    BY <1>8, <1>9
  <2> HIDE DEF x
  <2>2. b.ids[x] \in 0 .. b.id - 1 /\ s.ids[x] = b.ids[x]
    BY <1>10, <2>1 DEF HasId
  <2>3. s.low[x] \in 0 .. s.ids[x]
    <3>1. s.ids[x] # Unvisited
      BY <2>1, <2>2
    <3> QED
      BY <1>10, <2>1, <3>1 DEF LowReached
  <2>4. s.low[x] # b.id
    BY <1>5, <2>2, <2>3
  <2> QED
    BY <2>4 DEF x
<1>12. Len(a) <= k
  <2> SUFFICES ASSUME ~(Len(a) <= k) PROVE FALSE
    OBVIOUS
  <2>1. Len(a) \in k + 1 .. Len(q) /\ Len(a) \in 1 .. Len(a)
    BY <1>6, <1>7, <1>9
  <2>2. s.low[q[Len(a)]] = b.id /\ q[Len(a)] = a[Len(a)]
    BY <1>6, <1>7, <2>1
  <2> QED
    BY <1>11, <2>1, <2>2
<1>13. Stacked(g, n, b, t)
  <2>1. \A i \in 1 .. Len(a) : p[i] = a[i]
    BY <1>6, <1>7, <1>9, <1>12
  <2>2. ASSUME NEW i \in Len(a) + 1 .. Len(p) PROVE Leads(g, n, p[i])
    <3>1. i \in 1 .. k /\ i \in Len(a) + 1 .. Len(q)
      BY <1>6, <1>9
    <3> QED
      BY <1>7, <1>9, <3>1
  <2> QED
    BY <1>9, <1>12, <2>1, <2>2 DEF Stacked, a, p
<1>14. ASSUME NEW x \in C PROVE Leads(g, n, x) /\ Leads(g, x, n)
  <2>1. PICK i \in k + 1 .. Len(q) : x = q[i]
    BY <1>6
  <2>2. i \in 1 .. Len(q) /\ i \in Len(a) + 1 .. Len(q)
    BY <1>6, <1>9, <1>12
  <2>3. x \in N /\ s.ids[x] # Unvisited /\ s.low[x] = s.ids[n] /\ Leads(g, n, x)
    BY <1>6, <1>7, <1>8, <1>9, <2>1, <2>2
  <2>4. PICK y \in N : s.ids[y] = s.low[x] /\ Leads(g, x, y)
    BY <1>10, <2>3 DEF LowReached, N
  <2>5. s.ids[n] # Unvisited
    BY <1>5 DEF Unvisited
  <2>6. y = n
    BY <1>1, <1>10, <2>3, <2>4, <2>5
  <2> QED
    BY <2>3, <2>4, <2>6
<1>15. Connected(g, C)
  <2>1. ASSUME NEW x \in C, NEW y \in C PROVE Leads(g, x, y)
    BY <1>14, LeadsOn
  <2> QED
    BY <2>1 DEF Connected
<1>16. \A i \in 1 .. Len(p) : s.ids[p[i]] # Unvisited
  BY <1>6, <1>8, <1>9
<1>17. Sane(g, t)
  <2>1. IdsSane(g, t)
    BY <1>3 DEF Sane, IdsSane, HasId, LowReached
  <2>2. \A D \in ToSet(t.sccs) : Connected(g, D)
    BY <1>6, <1>15 DEF Sane
  <2>3. \A i \in 1 .. Len(t.stack) : t.ids[t.stack[i]] # Unvisited
    BY <1>3, <1>16 DEF p
  <2> QED
    BY <2>1, <2>2, <2>3 DEF Sane
<1>18. v \in WalkOf(g) /\ Sane(g, v) /\ Stacked(g, n, b, v)
  BY <1>1, <1>2, <1>3, <1>13, <1>17 DEF WalkOf, N
<1> QED
  BY <1>18 DEF v

\* What a call returns, when nothing else was wrong before it.
Returns(g, call, t) ==
  Sane(g, call.walk) => Sane(g, t) /\ Stacked(g, call.node, call.walk, t)

LEMMA StackStays ==
  ASSUME NEW g, NEW n, NEW s \in WalkOf(g)
  PROVE  Stacked(g, n, s, s)
<1>1. Len(s.stack) \in Nat
  BY DEF WalkOf, Walk
<1> QED
  BY <1>1 DEF Stacked

\* The children of a new node are followed one after the other.
LEMMA ChildrenSane ==
  ASSUME NEW g \in Graph, Proper(g), NEW call \in FollowCall(g),
         call.walk.ids[call.node] = Unvisited, Sane(g, call.walk),
         NEW h \in [FollowCall(g) -> WalkOf(g)],
         \A e \in FollowCall(g) : Kept(g, e.walk, h[e]),
         \A e \in FollowCall(g) :
           Remaining(g, e) < Remaining(g, call) => Returns(g, e, h[e]),
         NEW w \in [0 .. Len(Children(g, call.node)) -> WalkOf(g)], Walked(g, call, h, w)
  PROVE  \A i \in 0 .. Len(Children(g, call.node)) :
           /\ Sane(g, w[i]) /\ Kept(g, call.walk, w[i])
           /\ Stacked(g, call.node, call.walk, w[i]) /\ w[i].ids[call.node] = call.walk.id
<1> DEFINE n == call.node
           b == call.walk
           N == Len(Children(g, n))
           Good(s) == Sane(g, s) /\ Kept(g, b, s) /\ Stacked(g, n, b, s) /\ s.ids[n] = b.id
           P == {k \in 0 .. N : Good(w[k])}
<1>1. N \in Nat
  BY ChildrenType
<1>2. b \in WalkOf(g) /\ n \in NodesOf(g) /\ b.id \in Nat
  BY DEF FollowCall, WalkOf, NodesOf, Walk
<1>3. 0 \in P
  <2>1. w[0] = EnterNode(b, n)
    BY DEF Walked
  <2>2. Sane(g, b) /\ b.ids[n] = Unvisited
    OBVIOUS
  <2>3. Kept(g, b, EnterNode(b, n))
    BY EnteredKept
  <2> HIDE DEF b, n
  <2> DEFINE t == EnterNode(b, n)
  <2>4. Sane(g, t) /\ Stacked(g, n, b, t) /\ t.ids[n] = b.id
    BY <1>2, <2>2, EnteredSane
  <2>5. Good(t)
    BY <2>3, <2>4
  <2> QED
    BY <1>1, <2>1, <2>5
<1>4. ASSUME NEW k \in 0 .. N, k \in P, k < N PROVE k + 1 \in P
  <2>1. k + 1 \in 1 .. N /\ (k + 1) - 1 = k /\ k + 1 \in 0 .. N /\ k \in 0 .. N
    BY <1>1, <1>4
  <2> DEFINE s == w[k]
             t == w[k + 1]
             c == Children(g, n)[k + 1]
             m == c.to
             e == ChildCall(m, s)
             u == h[e]
  <2>2. c \in ToSet(g.conns) /\ c.from = n /\ m \in NodesOf(g)
    BY <2>1, ChildrenType
  <2>3. Leads(g, n, m)
    BY <2>2, LeadsAlong
  <2>4. s \in WalkOf(g) /\ Good(s)
    BY <1>4, <2>1
  <2>5. t = Returned(n, u, m)
    BY <2>1 DEF Walked
  <2>6. s.ids[n] # Unvisited /\ b.ids[n] = Unvisited
    BY <1>2, <2>4 DEF Unvisited
  <2> HIDE DEF s, t, c, m
  <2>7. e \in FollowCall(g) /\ e.walk = s /\ e.node = m
    BY <2>2, <2>4, CallType DEF ChildCall, m
  <2>8. Remaining(g, e) < Remaining(g, call)
    BY <2>2, <2>4, <2>6, LessRemains DEF m
  <2> HIDE DEF e
  <2>9. u \in WalkOf(g) /\ Kept(g, s, u) /\ Sane(g, u) /\ Stacked(g, m, s, u)
    BY <2>4, <2>7, <2>8 DEF Returns
  <2> HIDE DEF u
  <2>10. Kept(g, b, u) /\ u.ids[n] = b.id
    BY <1>2, <2>4, <2>6, <2>9 DEF Kept
  <2> HIDE DEF b, n
  <2>11. Stacked(g, n, b, u)
    BY <1>2, <2>3, <2>4, <2>9, StackedOn
  <2>12. u.ids[n] # Unvisited /\ m \in NodesOf(g)
    BY <1>2, <2>2, <2>10 DEF Unvisited, m
  <2> DEFINE z == Returned(n, u, m)
  <2>13. z \in WalkOf(g) /\ Sane(g, z) /\ z.stack = u.stack /\ z.ids = u.ids
    BY <1>2, <2>3, <2>9, <2>12, ReturnedSane
  <2> HIDE DEF z
  <2>14. Good(z)
    BY <2>10, <2>11, <2>13 DEF Kept, Stacked
  <2>15. Good(t)
    BY <2>5, <2>14 DEF z
  <2> QED
    BY <2>1, <2>15 DEF t
<1>5. 0 .. N \subseteq P
  <2> HIDE DEF P, N
  <2> QED
    BY <1>1, <1>3, <1>4, UpTo
<1> QED
  BY <1>5

\* A call leaves the walk sane, if calls with less to do leave it sane.
LEMMA CallSane ==
  ASSUME NEW g \in Graph, Proper(g), NEW call \in FollowCall(g),
         NEW h \in [FollowCall(g) -> WalkOf(g)], Follows(h, g),
         \A e \in FollowCall(g) : Kept(g, e.walk, h[e]),
         \A e \in FollowCall(g) :
           Remaining(g, e) < Remaining(g, call) => Returns(g, e, h[e])
  PROVE  Returns(g, call, h[call])
<1> DEFINE n == call.node
           b == call.walk
<1> SUFFICES ASSUME Sane(g, b) PROVE Sane(g, h[call]) /\ Stacked(g, n, b, h[call])
  BY DEF Returns
<1>1. b \in WalkOf(g) /\ n \in NodesOf(g)
  BY DEF FollowCall, WalkOf, NodesOf
<1>2. h[call] = FollowNode(g, call, h)
  BY DEF Follows
<1>3. CASE b.ids[n] # Unvisited
  <2>1. h[call] = b
    BY <1>2, <1>3, NodeStays
  <2> QED
    BY <1>1, <2>1, StackStays
<1>4. CASE b.ids[n] = Unvisited
  <2> DEFINE N == Len(Children(g, n))
  <2>1. PICK w \in [0 .. N -> WalkOf(g)] : Walked(g, call, h, w)
    BY WalkedExists
  <2>2. FollowNode(g, call, h) = LeaveNode(w[N], n)
    BY <1>4, <2>1, NodeFollowed
  <2>3. N \in 0 .. N
    BY ChildrenType
  <2>4. /\ Sane(g, w[N]) /\ Kept(g, b, w[N])
        /\ Stacked(g, n, b, w[N]) /\ w[N].ids[n] = b.id
    BY <1>4, <2>1, <2>3, ChildrenSane
  <2> DEFINE s == w[N]
  <2>5. s \in WalkOf(g)
    BY <2>1, <2>3
  <2>6. Sane(g, s) /\ Kept(g, b, s) /\ Stacked(g, n, b, s) /\ s.ids[n] = b.id
    BY <2>4
  <2> HIDE DEF s, n, b
  <2> DEFINE t == LeaveNode(s, n)
  <2>7. t \in WalkOf(g) /\ Sane(g, t) /\ Stacked(g, n, b, t)
    BY <1>1, <2>5, <2>6, LeftSane
  <2>8. h[call] = t
    BY <1>2, <2>2 DEF s
  <2> HIDE DEF t
  <2> QED
    BY <2>7, <2>8
<1> QED
  BY <1>3, <1>4

LEMMA CallsSane ==
  ASSUME NEW g \in Graph, Proper(g), NEW h \in [FollowCall(g) -> WalkOf(g)], Follows(h, g),
         \A e \in FollowCall(g) : Kept(g, e.walk, h[e])
  PROVE  \A call \in FollowCall(g) : Returns(g, call, h[call])
<1> DEFINE P == {k \in Nat : \A call \in FollowCall(g) :
                               Remaining(g, call) < k => Returns(g, call, h[call])}
<1>1. 0 \in P
  <2>1. \A call \in FollowCall(g) : ~(Remaining(g, call) < 0)
    BY RemainingBounded
  <2> QED
    BY <2>1
<1>2. ASSUME NEW k \in P \cap Nat PROVE k + 1 \in P
  <2>1. ASSUME NEW call \in FollowCall(g), Remaining(g, call) < k + 1
        PROVE  Returns(g, call, h[call])
    <3>1. \A e \in FollowCall(g) : Remaining(g, e) \in Int
      BY RemainingBounded
    <3>2. \A e \in FollowCall(g) :
            Remaining(g, e) < Remaining(g, call) => Returns(g, e, h[e])
      BY <1>2, <2>1, <3>1
    <3> QED
      BY <3>2, CallSane
  <2> QED
    BY <2>1
<1>3. Nat \subseteq P
  <2> HIDE DEF P
  <2> QED
    BY <1>1, <1>2, Induction
<1>4. ASSUME NEW call \in FollowCall(g) PROVE Returns(g, call, h[call])
  <2>1. Remaining(g, call) + 1 \in P /\ Remaining(g, call) < Remaining(g, call) + 1
    BY <1>3, RemainingBounded
  <2> QED
    BY <2>1
<1> QED
  BY <1>4

LEMMA NothingVisitedSane ==
  ASSUME NEW g
  PROVE  Sane(g, NothingVisited(g))
<1> DEFINE t == NothingVisited(g)
           N == NodesOf(g)
           u == [x \in N |-> Unvisited]
<1>1. t = [id |-> 0, ids |-> u, low |-> u, stack |-> <<>>, sccs |-> <<>>]
  BY DEF NothingVisited
<1>2. \A x \in N : u[x] = Unvisited
  OBVIOUS
<1> HIDE DEF u, N
<1>3. \A x \in N : t.ids[x] = Unvisited
  BY <1>1, <1>2
<1>4. t.stack = <<>> /\ ToSet(t.sccs) = {}
  BY <1>1 DEF ToSet
<1> HIDE DEF t
<1>5. IdsSane(g, t)
  BY <1>3 DEF IdsSane, N
<1>6. \A i \in 1 .. Len(t.stack) : t.ids[t.stack[i]] # Unvisited
  BY <1>4
<1>7. Sane(g, t)
  BY <1>4, <1>5, <1>6 DEF Sane
<1> QED
  BY <1>7 DEF t

\* The nodes of a component lead to each other.
LEMMA ComponentsConnected ==
  ASSUME NEW g \in Graph, Proper(g)
  PROVE  \A C \in ToSet(GetStronglyConnectedComponents(g)) : Connected(g, C)
<1> DEFINE N == Len(g.nodes)
<1>1. PICK h \in [FollowCall(g) -> WalkOf(g)], w \in [0 .. N -> WalkOf(g)] :
        /\ Follows(h, g) /\ \A call \in FollowCall(g) : Kept(g, call.walk, h[call])
        /\ w[0] = NothingVisited(g)
        /\ \A i \in 1 .. N : w[i] = h[ChildCall(g.nodes[i], w[i - 1])]
        /\ GetStronglyConnectedComponents(g) = w[N].sccs
  BY NodesFollowed
<1>2. \A call \in FollowCall(g) : Returns(g, call, h[call])
  BY <1>1, CallsSane
<1>3. N \in Nat /\ \A i \in 1 .. N : g.nodes[i] \in NodesOf(g)
  BY DEF Graph, NodesOf, ToSet
<1> HIDE DEF N
<1> DEFINE P == {k \in 0 .. N : Sane(g, w[k])}
<1>4. 0 \in P
  BY <1>1, <1>3, NothingVisitedSane
<1>5. ASSUME NEW k \in 0 .. N, k \in P, k < N PROVE k + 1 \in P
  <2>1. k + 1 \in 1 .. N /\ (k + 1) - 1 = k /\ k + 1 \in 0 .. N
    BY <1>3, <1>5
  <2> DEFINE e == ChildCall(g.nodes[k + 1], w[k])
  <2>2. e \in FollowCall(g) /\ e.walk = w[k] /\ w[k + 1] = h[e]
    BY <1>1, <1>3, <2>1, CallType DEF ChildCall
  <2>3. Sane(g, w[k])
    BY <1>5
  <2> HIDE DEF e
  <2>4. Sane(g, w[k + 1])
    BY <1>2, <2>2, <2>3 DEF Returns
  <2> QED
    BY <2>1, <2>4
<1>6. N \in P
  <2> HIDE DEF P
  <2>1. 0 .. N \subseteq P
    BY <1>3, <1>4, <1>5, UpTo
  <2> QED
    BY <1>3, <2>1
<1>7. Sane(g, w[N])
  BY <1>6
<1> QED
  BY <1>1, <1>7 DEF Sane

LEMMA CyclesConnected == GraphType => ComponentsAreConnected
<1> SUFFICES ASSUME GraphType, NEW C \in Cycles, NEW m \in C, NEW n \in C
             PROVE  m = n \/ n \in GetChildren(graph, m)
  BY DEF ComponentsAreConnected
<1>1. Connected(graph, C)
  BY ComponentsConnected DEF GraphType, Cycles
<1> QED
  BY <1>1 DEF Connected, Leads

\* Whatever the graph of the workflow: getStronglyConnectedComponents puts two nodes
\* into one component only if each leads to the other.
THEOREM ComponentsAreAlwaysConnected == Spec => []ComponentsAreConnected
BY InputTypeHolds, GraphInitial, GraphStep, CyclesConnected, PTL DEF Spec
=============================================================================

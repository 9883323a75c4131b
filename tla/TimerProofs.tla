---------------------------- MODULE TimerProofs ----------------------------
(***************************************************************************)
(* Proofs about module Timer for any set of timers, any timeouts and any   *)
(* bound of the clock: the timer queue stays in order and in step with     *)
(* timer->state, the loop never sleeps past an expiry and the timers fire  *)
(* in order.                                                               *)
(***************************************************************************)
EXTENDS Timer, SequenceTheorems, FiniteSetTheorems, WellFoundedInduction, TLAPS

(***************************************************************************)
(* A set of naturals has a least element: 0..m of the least m is minimal   *)
(* in the strict subset ordering, which is well-founded.                   *)
(***************************************************************************)
LEMMA LeastElement ==
  ASSUME NEW S \in SUBSET Nat, S # {}
  PROVE  \E m \in S : \A n \in S : m <= n
<1> DEFINE T == {0..n : n \in S}
<1>1. T # {} /\ T \subseteq FiniteSubsetsOf(Nat)
  <2>1. \A n \in Nat : IsFiniteSet(0..n) /\ 0..n \in SUBSET Nat
    BY FS_Interval
  <2> QED BY <2>1 DEF FiniteSubsetsOf
<1>2. IsWellFoundedOn(StrictSubsetOrdering(Nat), FiniteSubsetsOf(Nat))
  BY FS_StrictSubsetOrderingWellFounded
<1>3. \E x \in T : \A y \in T : ~ (<<y, x>> \in StrictSubsetOrdering(Nat))
  <2> HIDE DEF T
  <2> QED BY <1>1, <1>2, WFMin
<1>4. PICK m \in S : \A n \in S : ~ (<<0..n, 0..m>> \in StrictSubsetOrdering(Nat))
  BY <1>3
<1>5. ASSUME NEW n \in S, n < m
      PROVE  <<0..n, 0..m>> \in StrictSubsetOrdering(Nat)
  <2>1. 0..n \in SUBSET Nat /\ 0..m \in SUBSET Nat
    BY <1>5
  <2>2. 0..n \subseteq 0..m
    BY <1>5
  <2>3. m \in 0..m /\ m \notin 0..n
    BY <1>5
  <2> QED BY <2>1, <2>2, <2>3 DEF StrictSubsetOrdering
<1>6. \A n \in S : ~ (n < m)
  BY <1>4, <1>5
<1>7. \A n \in S : n \in Nat /\ m \in Nat
  OBVIOUS
<1> QED BY <1>6, <1>7

-----------------------------------------------------------------------------
(* the operations on the queue *)

\* QueueOrdered of a queue q with cached pointer nx and expiries ex.
Ordered(q, nx, ex) ==
  /\ \A i, j \in 1..Len(q) : i < j => q[i] # q[j] /\ ex[q[i]] <= ex[q[j]]
  /\ nx = IF q = <<>> THEN NoTimer ELSE q[1]

\* timerqueue_add() finds the one place for the node.
LEMMA PlaceFits ==
  ASSUME NEW q \in Seq(Timers), NEW nx, NEW e \in Int,
         expires \in [Timers -> Int], Ordered(q, nx, expires)
  PROVE  /\ Place(q, e) \in 1..(Len(q) + 1)
         /\ \A i \in 1..(Place(q, e) - 1) : expires[q[i]] <= e
         /\ \A i \in Place(q, e)..Len(q) : expires[q[i]] > e
<1> DEFINE S == {k \in 1..(Len(q) + 1) : \A i \in k..Len(q) : expires[q[i]] > e}
<1>1. Len(q) \in Nat /\ \A i \in 1..Len(q) : q[i] \in Timers /\ expires[q[i]] \in Int
  <2>1. Len(q) \in Nat /\ \A i \in 1..Len(q) : q[i] \in Timers
    BY LenProperties, ElementOfSeq
  <2> QED BY <2>1
<1>2. S \in SUBSET Nat /\ Len(q) + 1 \in S
  BY <1>1
<1>3. PICK m \in S : \A n \in S : m <= n
  <2> HIDE DEF S
  <2> QED BY <1>2, LeastElement
<1>4. m \in 1..(Len(q) + 1) /\ \A i \in m..Len(q) : expires[q[i]] > e
  BY <1>3
<1>5. \A i \in 1..(m - 1) : expires[q[i]] <= e
  <2>1. CASE m = 1
    BY <2>1
  <2>2. CASE m # 1
    <3>1. m - 1 \in 1..(Len(q) + 1) /\ m - 1 \notin S
      BY <2>2, <1>1, <1>3, <1>4, SMTT(30)
    <3>2. expires[q[m - 1]] <= e
      BY <3>1, <1>1, <1>4
    <3>3. \A i \in 1..(m - 1) : i < m - 1 => expires[q[i]] <= expires[q[m - 1]]
      BY <1>1, <1>4, <2>2, SMTT(30) DEF Ordered
    <3>4. ASSUME NEW i \in 1..(m - 1) PROVE expires[q[i]] <= e
      <4>1. i \in 1..Len(q) /\ m - 1 \in 1..Len(q) /\ i \in Int /\ m \in Int
        BY <1>1, <1>4
      <4>2. expires[q[i]] \in Int /\ expires[q[m - 1]] \in Int
        BY <4>1, <1>1
      <4>3. i < m - 1 \/ i = m - 1
        BY <4>1
      <4> QED BY <4>2, <4>3, <3>2, <3>3
    <3> QED BY <3>4
  <2> QED BY <2>1, <2>2
<1>6. \E k \in 1..(Len(q) + 1) : /\ \A i \in 1..(k - 1) : expires[q[i]] <= e
                                 /\ \A i \in k..Len(q) : expires[q[i]] > e
  BY <1>4, <1>5
<1> QED BY <1>6, Zenon DEF Place

\* The two halves of a sequence around position k.
LEMMA Halves ==
  ASSUME NEW S, NEW q \in Seq(S), NEW k \in 1..(Len(q) + 1), NEW l \in 1..(Len(q) + 1)
  PROVE  /\ SubSeq(q, 1, k - 1) \in Seq(S)
         /\ Len(SubSeq(q, 1, k - 1)) = k - 1
         /\ \A i \in 1..(k - 1) : SubSeq(q, 1, k - 1)[i] = q[i]
         /\ SubSeq(q, l, Len(q)) \in Seq(S)
         /\ Len(SubSeq(q, l, Len(q))) = Len(q) - l + 1
         /\ \A i \in 1..(Len(q) - l + 1) : SubSeq(q, l, Len(q))[i] = q[l + i - 1]
<1>1. Len(q) \in Nat /\ \A i \in 1..Len(q) : q[i] \in S
  BY LenProperties, ElementOfSeq
<1>2. k - 1 \in Int /\ l \in Int /\ Len(q) \in Int /\ 1 \in Int
  BY <1>1
<1>3. (\A i \in 1..(k - 1) : q[i] \in S) /\ (\A i \in l..Len(q) : q[i] \in S)
  BY <1>1
<1>4. /\ SubSeq(q, 1, k - 1) \in Seq(S)
      /\ Len(SubSeq(q, 1, k - 1)) = IF 1 <= k - 1 THEN (k - 1) - 1 + 1 ELSE 0
      /\ \A i \in 1..((k - 1) - 1 + 1) : SubSeq(q, 1, k - 1)[i] = q[1 + i - 1]
  BY <1>2, <1>3, SubSeqProperties
<1>5. /\ SubSeq(q, l, Len(q)) \in Seq(S)
      /\ Len(SubSeq(q, l, Len(q))) = IF l <= Len(q) THEN Len(q) - l + 1 ELSE 0
      /\ \A i \in 1..(Len(q) - l + 1) : SubSeq(q, l, Len(q))[i] = q[l + i - 1]
  BY <1>2, <1>3, SubSeqProperties
<1>6. /\ Len(SubSeq(q, 1, k - 1)) = k - 1
      /\ \A i \in 1..(k - 1) : SubSeq(q, 1, k - 1)[i] = q[i]
  BY <1>4
<1>7. Len(SubSeq(q, l, Len(q))) = Len(q) - l + 1
  BY <1>5, <1>1
<1> QED BY <1>4, <1>5, <1>6, <1>7

LEMMA RemoveAtProperties ==
  ASSUME NEW S, NEW q \in Seq(S), NEW k \in 1..Len(q)
  PROVE  /\ RemoveAt(q, k) \in Seq(S)
         /\ Len(RemoveAt(q, k)) = Len(q) - 1
         /\ \A i \in 1..(Len(q) - 1) : RemoveAt(q, k)[i] = IF i < k THEN q[i] ELSE q[i + 1]
<1> DEFINE a == SubSeq(q, 1, k - 1)
           b == SubSeq(q, k + 1, Len(q))
<1>1. Len(q) \in Nat /\ k \in 1..(Len(q) + 1) /\ k + 1 \in 1..(Len(q) + 1)
  BY LenProperties
<1>2. /\ a \in Seq(S) /\ Len(a) = k - 1
      /\ \A i \in 1..(k - 1) : a[i] = q[i]
      /\ b \in Seq(S) /\ Len(b) = Len(q) - (k + 1) + 1
      /\ \A i \in 1..(Len(q) - (k + 1) + 1) : b[i] = q[(k + 1) + i - 1]
  BY <1>1, Halves
<1>3. RemoveAt(q, k) = a \o b
  BY DEF RemoveAt
<1> HIDE DEF a, b
<1>4. /\ a \o b \in Seq(S)
      /\ Len(a \o b) = Len(a) + Len(b)
      /\ \A i \in 1..(Len(a) + Len(b)) : (a \o b)[i] = IF i <= Len(a) THEN a[i] ELSE b[i - Len(a)]
  BY <1>2, ConcatProperties
<1>5. ASSUME NEW i \in 1..(Len(q) - 1)
      PROVE  (a \o b)[i] = IF i < k THEN q[i] ELSE q[i + 1]
  <2>1. i \in 1..(Len(a) + Len(b)) /\ i \in Int /\ k \in Int /\ Len(q) \in Nat
    BY <1>1, <1>2
  <2>2. CASE i < k
    <3>1. (a \o b)[i] = a[i] /\ i \in 1..(k - 1) BY <2>1, <2>2, <1>2, <1>4
    <3> QED BY <3>1, <2>2, <1>2
  <2>3. CASE ~(i < k)
    <3>1. (a \o b)[i] = b[i - (k - 1)] /\ i - (k - 1) \in 1..(Len(q) - (k + 1) + 1)
      BY <2>1, <2>3, <1>1, <1>2, <1>4
    <3>2. (k + 1) + (i - (k - 1)) - 1 = i + 1
      BY <2>1
    <3> QED BY <3>1, <3>2, <2>3, <1>2
  <2> QED BY <2>2, <2>3
<1>6. Len(a \o b) = Len(q) - 1
  BY <1>1, <1>2, <1>4
<1> QED BY <1>3, <1>4, <1>5, <1>6

LEMMA InsertAtProperties ==
  ASSUME NEW S, NEW q \in Seq(S), NEW k \in 1..(Len(q) + 1), NEW t \in S
  PROVE  /\ InsertAt(q, k, t) \in Seq(S)
         /\ Len(InsertAt(q, k, t)) = Len(q) + 1
         /\ \A i \in 1..(Len(q) + 1) :
              InsertAt(q, k, t)[i] = IF i < k THEN q[i] ELSE IF i = k THEN t ELSE q[i - 1]
<1> DEFINE a == SubSeq(q, 1, k - 1)
           b == SubSeq(q, k, Len(q))
           c == <<t>>
<1>1. Len(q) \in Nat
  BY LenProperties
<1>2. /\ a \in Seq(S) /\ Len(a) = k - 1
      /\ \A i \in 1..(k - 1) : a[i] = q[i]
      /\ b \in Seq(S) /\ Len(b) = Len(q) - k + 1
      /\ \A i \in 1..(Len(q) - k + 1) : b[i] = q[k + i - 1]
  BY <1>1, Halves
<1>3. c \in Seq(S) /\ Len(c) = 1 /\ c[1] = t
  OBVIOUS
<1>4. InsertAt(q, k, t) = (a \o c) \o b
  BY DEF InsertAt
<1> HIDE DEF a, b, c
<1> DEFINE d == a \o c
<1>5. /\ d \in Seq(S)
      /\ Len(d) = Len(a) + Len(c)
      /\ \A i \in 1..(Len(a) + Len(c)) : d[i] = IF i <= Len(a) THEN a[i] ELSE c[i - Len(a)]
  BY <1>2, <1>3, ConcatProperties
<1> HIDE DEF d
<1> d \in Seq(S) /\ b \in Seq(S)
  BY <1>2, <1>5
<1>6. /\ d \o b \in Seq(S)
      /\ Len(d \o b) = Len(d) + Len(b)
      /\ \A i \in 1..(Len(d) + Len(b)) : (d \o b)[i] = IF i <= Len(d) THEN d[i] ELSE b[i - Len(d)]
  BY ConcatProperties
<1>7. Len(d) = k /\ Len(d \o b) = Len(q) + 1
  BY <1>1, <1>2, <1>3, <1>5, <1>6
<1>8. ASSUME NEW i \in 1..(Len(q) + 1)
      PROVE  (d \o b)[i] = IF i < k THEN q[i] ELSE IF i = k THEN t ELSE q[i - 1]
  <2>1. i \in 1..(Len(d) + Len(b)) /\ i \in Int /\ k \in Int /\ Len(q) \in Nat
    BY <1>1, <1>2, <1>7
  <2>2. CASE i < k
    <3>1. (d \o b)[i] = d[i] BY <2>1, <2>2, <1>6, <1>7
    <3>2. d[i] = a[i] /\ i \in 1..(k - 1) BY <2>1, <2>2, <1>2, <1>3, <1>5
    <3> QED BY <3>1, <3>2, <2>2, <1>2
  <2>3. CASE i = k
    <3>1. (d \o b)[i] = d[i] BY <2>1, <2>3, <1>6, <1>7
    <3>2. d[i] = c[1] BY <2>1, <2>3, <1>2, <1>3, <1>5
    <3> QED BY <3>1, <3>2, <2>3, <1>3
  <2>4. CASE i > k
    <3>1. (d \o b)[i] = b[i - k] /\ i - k \in 1..(Len(q) - k + 1)
      BY <2>1, <2>4, <1>1, <1>6, <1>7
    <3>2. k + (i - k) - 1 = i - 1
      BY <2>1
    <3> QED BY <3>1, <3>2, <2>1, <2>4, <1>2
  <2> QED BY <2>1, <2>2, <2>3, <2>4
<1>9. InsertAt(q, k, t) = d \o b
  BY <1>4 DEF d
<1> QED BY <1>6, <1>7, <1>8, <1>9

LEMMA PositionOf ==
  ASSUME NEW q \in Seq(Timers), NEW t \in Range(q)
  PROVE  Position(q, t) \in 1..Len(q) /\ q[Position(q, t)] = t
<1>1. \E i \in DOMAIN q : q[i] = t
  BY DEF Range
<1>2. DOMAIN q = 1..Len(q)
  BY LenProperties
<1> QED BY <1>1, <1>2, Zenon DEF Position

\* timerqueue_del() keeps the rest of the queue in order, head->next included.
LEMMA Deleted ==
  ASSUME NEW q \in Seq(Timers), NEW nx, NEW t \in Range(q),
         expires \in [Timers -> Int], Ordered(q, nx, expires)
  PROVE  /\ Without(q, t) \in Seq(Timers)
         /\ Ordered(Without(q, t), NextWithout(q, nx, t), expires)
         /\ Range(Without(q, t)) = Range(q) \ {t}
<1> DEFINE k == Position(q, t)
           w == Without(q, t)
<1>1. k \in 1..Len(q) /\ q[k] = t /\ Len(q) \in Nat
  BY PositionOf, LenProperties
<1> HIDE DEF k
<1>2. /\ w \in Seq(Timers) /\ Len(w) = Len(q) - 1
      /\ \A i \in 1..(Len(q) - 1) : w[i] = IF i < k THEN q[i] ELSE q[i + 1]
  BY <1>1, RemoveAtProperties DEF Without, k
<1> HIDE DEF w
\* where an element of the new queue comes from
<1>0. ASSUME NEW i \in 1..Len(w)
      PROVE  \/ i < k /\ i \in 1..Len(q) /\ w[i] = q[i]
             \/ ~(i < k) /\ i + 1 \in 1..Len(q) /\ i + 1 > k /\ w[i] = q[i + 1]
  <2>1. i \in 1..(Len(q) - 1) /\ i \in Int /\ k \in Int
    BY <1>1, <1>2
  <2>2. w[i] = IF i < k THEN q[i] ELSE q[i + 1]
    BY <2>1, <1>2
  <2> QED BY <2>1, <2>2, <1>1
<1>3. \A i \in 1..Len(q) : q[i] \in Timers /\ expires[q[i]] \in Int
  BY ElementOfSeq
<1>4. /\ \A i, j \in 1..Len(q) : i < j => q[i] # q[j] /\ expires[q[i]] <= expires[q[j]]
      /\ nx = IF q = <<>> THEN NoTimer ELSE q[1]
  BY DEF Ordered
<1>5. ASSUME NEW i \in 1..Len(w), NEW j \in 1..Len(w), i < j
      PROVE  w[i] # w[j] /\ expires[w[i]] <= expires[w[j]]
  <2>1. PICK a \in 1..Len(q) : w[i] = q[a] /\ a = IF i < k THEN i ELSE i + 1
    BY <1>0
  <2>2. PICK b \in 1..Len(q) : w[j] = q[b] /\ b = IF j < k THEN j ELSE j + 1
    BY <1>0
  <2>3. a < b
    BY <2>1, <2>2, <1>1, <1>5, SMTT(30)
  <2> QED BY <2>1, <2>2, <2>3, <1>4
<1>6. NextWithout(q, nx, t) = IF w = <<>> THEN NoTimer ELSE w[1]
  <2>1. q # <<>> /\ 1 \in 1..Len(q) /\ nx = q[1]
    BY <1>1, <1>4
  <2>2. w = <<>> <=> Len(q) = 1
    BY <1>1, <1>2, EmptySeq, SMTT(30)
  <2>3. CASE nx # t
    <3>1. k # 1 /\ Len(q) # 1 BY <2>1, <2>3, <1>1
    <3>2. 1 \in 1..(Len(q) - 1) /\ 1 < k BY <3>1, <1>1
    <3>3. w[1] = q[1] BY <3>2, <1>2
    <3> QED BY <3>1, <3>3, <2>1, <2>2, <2>3 DEF NextWithout
  <2>4. CASE nx = t
    <3>1. k = 1
      <4>1. k # 1 => 1 < k BY <1>1
      <4> QED BY <4>1, <2>1, <2>4, <1>1, <1>4
    <3>2. CASE Len(q) = 1
      BY <3>1, <3>2, <2>2, <2>4 DEF NextWithout, k
    <3>3. CASE Len(q) # 1
      <4>0. Len(q) \in Nat /\ Len(q) # 1 /\ 1 <= Len(q) BY <3>3, <2>1, <1>1
      <4>1. 1 \in 1..(Len(q) - 1)
        <5>1. \A n \in Nat : n # 1 /\ 1 <= n => 1 \in 1..(n - 1) OBVIOUS
        <5> QED BY <4>0, <5>1
      <4>5. ~(1 < k) BY <3>1, <1>1
      <4>2. w[1] = q[1 + 1] BY <4>1, <4>5, <1>2
      <4>3. k # Len(q) /\ w # <<>> BY <3>1, <3>3, <2>2
      <4>4. NextWithout(q, nx, t) = q[k + 1] BY <4>3, <2>4 DEF NextWithout, k
      <4> QED BY <4>2, <4>3, <4>4, <3>1
    <3> QED BY <3>2, <3>3
  <2> QED BY <2>3, <2>4
<1>7. Range(w) = Range(q) \ {t}
  <2>1. Range(q) = {q[i] : i \in 1..Len(q)} /\ Range(w) = {w[i] : i \in 1..Len(w)}
    BY <1>2, RangeEquality
  <2>2. ASSUME NEW x \in Range(w) PROVE x \in Range(q) \ {t}
    <3>1. PICK i \in 1..Len(w) : x = w[i] BY <2>1
    <3>2. PICK a \in 1..Len(q) : w[i] = q[a] /\ a # k
      BY <1>0, <1>1
    <3>3. a < k \/ k < a BY <3>2, <1>1
    <3>4. q[a] # q[k] BY <3>2, <3>3, <1>1, <1>4
    <3> QED BY <3>1, <3>2, <3>4, <2>1, <1>1
  <2>3. ASSUME NEW x \in Range(q), x # t PROVE x \in Range(w)
    <3>1. PICK a \in 1..Len(q) : x = q[a] BY <2>1
    <3>2. a # k BY <3>1, <2>3, <1>1
    <3>3. PICK i \in 1..Len(w) : i = IF a < k THEN a ELSE a - 1
      BY <3>2, <1>1, <1>2
    <3>4. w[i] = q[a] BY <3>2, <3>3, <1>1, <1>2, SMTT(30)
    <3> QED BY <3>1, <3>4, <2>1
  <2> QED BY <2>2, <2>3
<1> QED
  <2>1. Ordered(w, NextWithout(q, nx, t), expires)
    BY <1>5, <1>6 DEF Ordered
  <2> QED BY <2>1, <1>2, <1>7 DEF w

\* timerqueue_add() of a node that is not linked keeps the queue in order.
LEMMA Added ==
  ASSUME NEW q \in Seq(Timers), NEW nx, NEW t \in Timers, NEW e \in Int,
         expires \in [Timers -> Int], Ordered(q, nx, expires),
         t \notin Range(q), AddTo(q, nx, t, e)
  PROVE  /\ queue' \in Seq(Timers)
         /\ Ordered(queue', next', expires')
         /\ Range(queue') = Range(q) \cup {t}
         /\ expires' = [expires EXCEPT ![t] = e]
<1> DEFINE k == Place(q, e)
<1>1. k \in 1..(Len(q) + 1) /\ Len(q) \in Nat
  BY PlaceFits, LenProperties
<1>2. /\ \A i \in 1..(k - 1) : expires[q[i]] <= e
      /\ \A i \in k..Len(q) : expires[q[i]] > e
  BY PlaceFits
<1>3. queue' = InsertAt(q, k, t) /\ next' = NextWith(nx, t, e) /\ expires' = [expires EXCEPT ![t] = e]
  BY DEF AddTo
<1> HIDE DEF k
<1>4. /\ queue' \in Seq(Timers) /\ Len(queue') = Len(q) + 1
      /\ \A i \in 1..(Len(q) + 1) :
           queue'[i] = IF i < k THEN q[i] ELSE IF i = k THEN t ELSE q[i - 1]
  <2>1. /\ InsertAt(q, k, t) \in Seq(Timers) /\ Len(InsertAt(q, k, t)) = Len(q) + 1
        /\ \A i \in 1..(Len(q) + 1) :
             InsertAt(q, k, t)[i] = IF i < k THEN q[i] ELSE IF i = k THEN t ELSE q[i - 1]
    BY <1>1, InsertAtProperties
  <2> QED BY <2>1, <1>3
<1>5. Range(q) = {q[i] : i \in 1..Len(q)} /\ Range(queue') = {queue'[i] : i \in 1..Len(queue')}
  BY <1>4, RangeEquality
<1>6. \A i \in 1..Len(q) : q[i] \in Timers /\ q[i] # t /\ expires[q[i]] \in Int
                           /\ expires'[q[i]] = expires[q[i]]
  <2>1. \A i \in 1..Len(q) : q[i] \in Timers /\ q[i] # t
    BY <1>5, ElementOfSeq
  <2> QED BY <2>1, <1>3
<1>7. expires'[t] = e
  BY <1>3
<1>8. /\ \A i, j \in 1..Len(q) : i < j => q[i] # q[j] /\ expires[q[i]] <= expires[q[j]]
      /\ nx = IF q = <<>> THEN NoTimer ELSE q[1]
  BY DEF Ordered
\* where an element of the new queue comes from
<1>9. ASSUME NEW i \in 1..Len(queue')
      PROVE  \/ i < k /\ i \in 1..Len(q) /\ queue'[i] = q[i]
             \/ i = k /\ queue'[i] = t
             \/ i > k /\ i - 1 \in 1..Len(q) /\ i - 1 \in k..Len(q) /\ queue'[i] = q[i - 1]
  <2>1. i \in 1..(Len(q) + 1) /\ i \in Int /\ k \in Int
    BY <1>1, <1>4
  <2>2. queue'[i] = IF i < k THEN q[i] ELSE IF i = k THEN t ELSE q[i - 1]
    BY <2>1, <1>4
  <2> QED BY <2>1, <2>2, <1>1
<1>10. ASSUME NEW i \in 1..Len(queue'), NEW j \in 1..Len(queue'), i < j
       PROVE  queue'[i] # queue'[j] /\ expires'[queue'[i]] <= expires'[queue'[j]]
  <2>0. i \in Int /\ j \in Int /\ k \in Int
    BY <1>1, <1>4
  <2>1. CASE j < k
    <3>1. i \in 1..Len(q) /\ j \in 1..Len(q) /\ queue'[i] = q[i] /\ queue'[j] = q[j]
      BY <2>0, <2>1, <1>9, <1>10
    <3> QED BY <3>1, <1>6, <1>8, <1>10
  <2>2. CASE j = k
    <3>1. i \in 1..Len(q) /\ i \in 1..(k - 1) /\ queue'[i] = q[i] /\ queue'[j] = t
      BY <2>0, <2>2, <1>9, <1>10
    <3> QED BY <3>1, <1>2, <1>6, <1>7
  <2>3. CASE j > k /\ i < k
    <3>1. i \in 1..Len(q) /\ j - 1 \in 1..Len(q) /\ queue'[i] = q[i] /\ queue'[j] = q[j - 1]
          /\ i < j - 1
      BY <2>0, <2>3, <1>9, <1>10
    <3> QED BY <3>1, <1>6, <1>8
  <2>4. CASE j > k /\ i = k
    <3>1. j - 1 \in k..Len(q) /\ j - 1 \in 1..Len(q) /\ queue'[i] = t /\ queue'[j] = q[j - 1]
      BY <2>0, <2>4, <1>9, <1>10
    <3>2. expires[q[j - 1]] > e /\ expires[q[j - 1]] \in Int
      BY <3>1, <1>2, <1>6
    <3> QED BY <3>1, <3>2, <1>6, <1>7
  <2>5. CASE j > k /\ i > k
    <3>1. i - 1 \in 1..Len(q) /\ j - 1 \in 1..Len(q) /\ queue'[i] = q[i - 1] /\ queue'[j] = q[j - 1]
          /\ i - 1 < j - 1
      BY <2>0, <2>5, <1>9, <1>10
    <3> QED BY <3>1, <1>6, <1>8
  <2> QED BY <2>0, <2>1, <2>2, <2>3, <2>4, <2>5
<1>11. next' = IF queue' = <<>> THEN NoTimer ELSE queue'[1]
  <2>1. queue' # <<>> /\ 1 \in 1..Len(queue')
    BY <1>1, <1>4, EmptySeq
  <2>2. CASE q = <<>>
    <3>1. Len(q) = 0 /\ nx = NoTimer BY <2>2, <1>8
    <3>2. k = 1 BY <3>1, <1>1
    <3>3. queue'[1] = t BY <3>2, <2>1, <1>1, <1>9
    <3> QED BY <3>1, <3>3, <2>1, <1>3 DEF NextWith
  <2>3. CASE q # <<>>
    <3>1. Len(q) >= 1 /\ 1 \in 1..Len(q) /\ nx = q[1]
      BY <2>3, <1>1, <1>8, EmptySeq
    <3>2. nx \in Timers /\ nx # NoTimer /\ expires[nx] \in Int
      BY <3>1, <1>6, TimersAssumption
    <3>3. CASE k = 1
      <4>1. expires[nx] > e BY <3>1, <3>3, <1>1, <1>2
      <4>2. queue'[1] = t BY <3>3, <2>1, <1>1, <1>9
      <4>3. e < expires[nx] BY <4>1, <3>2
      <4> QED BY <4>2, <4>3, <2>1, <1>3 DEF NextWith
    <3>4. CASE k # 1
      <4>1. 1 \in 1..(k - 1) BY <3>4, <1>1
      <4>2. expires[nx] <= e BY <4>1, <3>1, <1>2
      <4>3. queue'[1] = q[1] BY <4>1, <2>1, <1>1, <1>9
      <4>4. ~(e < expires[nx]) BY <4>2, <3>2
      <4> QED BY <4>3, <4>4, <3>1, <3>2, <2>1, <1>3 DEF NextWith
    <3> QED BY <3>3, <3>4
  <2> QED BY <2>2, <2>3
<1>12. Range(queue') = Range(q) \cup {t}
  <2>1. ASSUME NEW x \in Range(queue') PROVE x \in Range(q) \cup {t}
    <3>1. PICK i \in 1..Len(queue') : x = queue'[i] BY <1>5
    <3> QED BY <3>1, <1>5, <1>9
  <2>2. t \in Range(queue')
    <3>1. k \in 1..Len(queue') BY <1>1, <1>4
    <3>2. queue'[k] = t BY <3>1, <1>1, <1>9
    <3> QED BY <3>1, <3>2, <1>5
  <2>3. ASSUME NEW x \in Range(q) PROVE x \in Range(queue')
    <3>1. PICK i \in 1..Len(q) : x = q[i] BY <1>5
    <3>2. CASE i < k
      <4>1. i \in 1..Len(queue') BY <1>1, <1>4
      <4>2. queue'[i] = q[i] BY <4>1, <3>2, <1>1, <1>9
      <4> QED BY <4>1, <4>2, <3>1, <1>5
    <3>3. CASE ~(i < k)
      <4>1. i + 1 \in 1..Len(queue') /\ i + 1 > k /\ (i + 1) - 1 = i BY <3>3, <1>1, <1>4
      <4>2. queue'[i + 1] = q[(i + 1) - 1] BY <4>1, <1>1, <1>9
      <4> QED BY <4>1, <4>2, <3>1, <1>5
    <3> QED BY <3>2, <3>3
  <2> QED BY <2>1, <2>2, <2>3
<1> QED
  <2>1. Ordered(queue', next', expires')
    BY <1>10, <1>11 DEF Ordered
  <2> QED BY <2>1, <1>3, <1>4, <1>12

-----------------------------------------------------------------------------
(* the inductive invariant: TypeOK, QueueConsistent and NoOversleep are     *)
(* inductive together, as a sleep ends before anything moves a timer        *)

IInv == TypeOK /\ QueueConsistent /\ NoOversleep

LEMMA OrderedIsQueueOrdered ==
  ASSUME queue \in Seq(Timers)
  PROVE  QueueOrdered <=> Ordered(queue, next, expires)
<1>1. DOMAIN queue = 1..Len(queue)
  BY LenProperties
<1> QED BY <1>1 DEF QueueOrdered, Ordered

LEMMA OrderedIsQueueOrderedNext ==
  ASSUME queue' \in Seq(Timers)
  PROVE  QueueOrdered' <=> Ordered(queue', next', expires')
<1>1. DOMAIN queue' = 1..Len(queue')
  BY LenProperties
<1> QED BY <1>1 DEF QueueOrdered, Ordered

\* head->next is a timer of the list or NULL.
LEMMA NextTyped ==
  ASSUME NEW q \in Seq(Timers), NEW nx, NEW ex, Ordered(q, nx, ex)
  PROVE  nx \in Range(q) \cup {NoTimer} /\ Range(q) \subseteq Timers
<1>1. Range(q) = {q[i] : i \in 1..Len(q)} /\ Range(q) \subseteq Timers
  BY RangeEquality, RangeOfSeq
<1>2. q # <<>> => 1 \in 1..Len(q)
  BY EmptySeq
<1> QED BY <1>1, <1>2 DEF Ordered

\* What start_timer(), update_timer() and stop_timer() leave behind.
QueueInv == /\ queue \in Seq(Timers)
            /\ next \in Timers \cup {NoTimer}
            /\ expires \in [Timers -> Nat]
            /\ state \in [Timers -> {"free", "inactive", "enqueued"}]
            /\ QueueConsistent

LEMMA EnqueueKeeps ==
  ASSUME QueueInv, now \in Nat, NEW t \in Timers, NEW d \in Nat, Enqueue(t, d)
  PROVE  QueueInv'
<1> DEFINE q == IF state[t] = "enqueued" THEN Without(queue, t) ELSE queue
           nx == IF state[t] = "enqueued" THEN NextWithout(queue, next, t) ELSE next
<1>1. /\ queue \in Seq(Timers) /\ expires \in [Timers -> Int] /\ now + d \in Int
      /\ Ordered(queue, next, expires)
      /\ \A u \in Timers : state[u] = "enqueued" <=> u \in Range(queue)
  BY OrderedIsQueueOrdered DEF QueueInv, QueueConsistent
<1>2. /\ q \in Seq(Timers) /\ Ordered(q, nx, expires)
      /\ Range(q) = Range(queue) \ {t}
  <2>1. CASE state[t] = "enqueued"
    BY <2>1, <1>1, Deleted
  <2>2. CASE state[t] # "enqueued"
    BY <2>2, <1>1
  <2> QED BY <2>1, <2>2
<1>3. AddTo(q, nx, t, now + d) /\ state' = [state EXCEPT ![t] = "enqueued"]
  BY DEF Enqueue
<1> HIDE DEF q, nx
<1>4. t \notin Range(q)
  BY <1>2
<1>5. /\ queue' \in Seq(Timers)
      /\ Ordered(queue', next', expires')
      /\ Range(queue') = Range(q) \cup {t}
      /\ expires' = [expires EXCEPT ![t] = now + d]
  BY <1>1, <1>2, <1>3, <1>4, Added
<1>6. next' \in Timers \cup {NoTimer}
  BY <1>5, NextTyped
<1>7. expires' \in [Timers -> Nat] /\ state' \in [Timers -> {"free", "inactive", "enqueued"}]
  BY <1>3, <1>5 DEF QueueInv
<1>8. \A u \in Timers : state'[u] = "enqueued" <=> u \in Range(queue')
  BY <1>1, <1>2, <1>3, <1>5 DEF QueueInv
<1> QED BY <1>5, <1>6, <1>7, <1>8, OrderedIsQueueOrderedNext DEF QueueInv, QueueConsistent

LEMMA DequeueKeeps ==
  ASSUME QueueInv, NEW t \in Timers, NEW s \in {"free", "inactive"}, Dequeue(t, s)
  PROVE  QueueInv' /\ expires' = expires
<1>1. /\ queue \in Seq(Timers) /\ expires \in [Timers -> Int]
      /\ Ordered(queue, next, expires)
      /\ \A u \in Timers : state[u] = "enqueued" <=> u \in Range(queue)
  BY OrderedIsQueueOrdered DEF QueueInv, QueueConsistent
<1>2. /\ queue' \in Seq(Timers) /\ Ordered(queue', next', expires')
      /\ Range(queue') = Range(queue) \ {t}
      /\ expires' = expires
  <2>1. CASE state[t] = "enqueued"
    <3>1. /\ Without(queue, t) \in Seq(Timers)
          /\ Ordered(Without(queue, t), NextWithout(queue, next, t), expires)
          /\ Range(Without(queue, t)) = Range(queue) \ {t}
      BY <2>1, <1>1, Deleted
    <3>2. /\ queue' = Without(queue, t) /\ next' = NextWithout(queue, next, t)
          /\ expires' = expires
      BY <2>1 DEF Dequeue, Del
    <3> QED BY <3>1, <3>2
  <2>2. CASE state[t] # "enqueued"
    <3>1. queue' = queue /\ next' = next /\ expires' = expires
      BY <2>2 DEF Dequeue, queueVars
    <3> QED BY <3>1, <2>2, <1>1
  <2> QED BY <2>1, <2>2
<1>3. next' \in Timers \cup {NoTimer}
  BY <1>2, NextTyped
<1>4. state' = [state EXCEPT ![t] = s]
  BY DEF Dequeue
<1>5. \A u \in Timers : state'[u] = "enqueued" <=> u \in Range(queue')
  BY <1>1, <1>2, <1>4 DEF QueueInv
<1>6. state' \in [Timers -> {"free", "inactive", "enqueued"}]
  BY <1>4 DEF QueueInv
<1>7. expires' \in [Timers -> Nat]
  BY <1>2 DEF QueueInv
<1> QED BY <1>2, <1>3, <1>5, <1>6, <1>7, OrderedIsQueueOrderedNext DEF QueueInv, QueueConsistent

\* The queue and the states do not change.
LEMMA QueueInvUnchanged ==
  ASSUME QueueInv, queueVars' = queueVars, state' = state
  PROVE  QueueInv'
<1>1. queue' = queue /\ next' = next /\ expires' = expires
  BY DEF queueVars
<1> QED BY <1>1 DEF QueueInv, QueueConsistent, QueueOrdered

LEMMA InvariantHoldsInitially == Init => IInv
<1> SUFFICES ASSUME Init PROVE IInv
  OBVIOUS
<1>1. /\ queue = <<>> /\ next = NoTimer /\ expires \in [Timers -> {0}]
      /\ state = [t \in Timers |-> "free"]
  BY DEF Init, QInit
<1>2. Range(queue) = {}
  BY <1>1 DEF Range
<1>3. Len(queue) = 0 /\ DOMAIN queue = {}
  BY <1>1
<1>4. QueueConsistent
  BY <1>1, <1>2, <1>3 DEF QueueConsistent, QueueOrdered
<1> QED BY <1>1, <1>4 DEF Init, IInv, TypeOK, NoOversleep

LEMMA InvariantIsInductive == IInv /\ [Next]_vars => IInv'
<1> SUFFICES ASSUME IInv, [Next]_vars PROVE IInv'
  OBVIOUS
<1>0. /\ QueueInv
      /\ now \in Nat /\ curr \in Nat /\ wakeAt \in Nat \cup {Forever}
      /\ pc \in {"setup", "first", "sleep", "batch", "check", "fn"}
      /\ pos \in Timers \cup {NoTimer}
  BY DEF IInv, TypeOK, QueueInv
<1>c. MaxTime \in Nat /\ FirstDelay \in Nat /\ IdleDelay \in Nat
      /\ Timeouts \subseteq Nat /\ Forever \notin Int
  BY TimeAssumption
\* the callers: the loop's variables stay, and it does not sleep
<1>1. ASSUME NEW t \in Timers, NEW d \in Timeouts, AddTimer(t, d) \/ UpdateTimer(t, d)
      PROVE  IInv'
  <2>1. Enqueue(t, d) /\ pc # "sleep" /\ loopVars' = loopVars
    BY <1>1 DEF AddTimer, UpdateTimer, CallerRuns
  <2>2. QueueInv'
    BY <2>1, <1>0, <1>c, EnqueueKeeps
  <2> QED BY <2>1, <2>2, <1>0 DEF IInv, TypeOK, QueueInv, NoOversleep, loopVars
<1>2. ASSUME NEW t \in Timers, StopTimer(t) \/ DelTimer(t)
      PROVE  IInv'
  <2>1. PICK s \in {"free", "inactive"} : Dequeue(t, s)
    BY <1>2 DEF StopTimer, DelTimer
  <2>2. pc # "sleep" /\ loopVars' = loopVars
    BY <1>2 DEF StopTimer, DelTimer, CallerRuns
  <2>3. QueueInv'
    BY <2>1, <1>0, DequeueKeeps
  <2> QED BY <2>2, <2>3, <1>0 DEF IInv, TypeOK, QueueInv, NoOversleep, loopVars
\* the loop
<1>3. CASE EnterLoop
  <2>1. QueueInv' BY <1>3, <1>0, QueueInvUnchanged DEF EnterLoop, queueVars
  <2> QED BY <2>1, <1>3, <1>0, <1>c DEF IInv, TypeOK, QueueInv, NoOversleep, EnterLoop
<1>4. CASE TimedOut
  <2>1. QueueInv' BY <1>4, <1>0, QueueInvUnchanged DEF TimedOut, queueVars
  <2> QED BY <2>1, <1>4, <1>0 DEF IInv, TypeOK, QueueInv, NoOversleep, TimedOut
<1>5. CASE Event
  <2>1. QueueInv' BY <1>5, <1>0, QueueInvUnchanged DEF Event, queueVars
  <2> QED BY <2>1, <1>5, <1>0 DEF IInv, TypeOK, QueueInv, NoOversleep, Event
<1>6. CASE EndBatch
  <2>1. QueueInv' BY <1>6, <1>0, QueueInvUnchanged DEF EndBatch, queueVars
  <2> QED BY <2>1, <1>6, <1>0 DEF IInv, TypeOK, QueueInv, NoOversleep, EndBatch
<1>7. CASE EndFn
  <2>1. QueueInv' BY <1>7, <1>0, QueueInvUnchanged DEF EndFn, queueVars
  <2> QED BY <2>1, <1>7, <1>0 DEF IInv, TypeOK, QueueInv, NoOversleep, EndFn
<1>8. CASE Fire
  <2>1. next \in Timers /\ Dequeue(next, "inactive") /\ pos' = next
        /\ pc' = "fn" /\ curr' = now /\ now' = now /\ wakeAt' = wakeAt
    BY <1>8, <1>0 DEF Fire, QueueInv
  <2>2. QueueInv'
    BY <2>1, <1>0, DequeueKeeps
  <2> QED BY <2>1, <2>2, <1>0 DEF IInv, TypeOK, QueueInv, NoOversleep
<1>9. CASE NotDue
  <2>1. /\ next \in Timers /\ expires[next] > now
        /\ queueVars' = queueVars /\ state' = state /\ now' = now /\ curr' = curr
        /\ pc' = "sleep" /\ pos' = NoTimer
        /\ wakeAt' = IF expires[next] - now < 0 THEN Forever ELSE now + (expires[next] - now)
    BY <1>9, <1>0 DEF NotDue, SleepFor, QueueInv
  <2>2. QueueInv'
    BY <2>1, <1>0, QueueInvUnchanged
  <2>3. expires[next] \in Nat /\ expires' = expires
    BY <2>1, <1>0 DEF QueueInv, queueVars
  <2>4. wakeAt' = expires[next]
    BY <2>1, <2>3, <1>0
  <2>5. ASSUME NEW t \in Timers, state[t] = "enqueued"
        PROVE  expires[next] <= expires[t]
    <3>1. queue \in Seq(Timers) /\ t \in Range(queue) /\ Ordered(queue, next, expires)
      BY <2>5, <1>0, OrderedIsQueueOrdered DEF QueueInv, QueueConsistent
    <3>2. PICK i \in 1..Len(queue) : queue[i] = t
      BY <3>1, RangeEquality
    <3>3. queue # <<>> /\ 1 \in 1..Len(queue) /\ next = queue[1]
      BY <3>1, <3>2, EmptySeq DEF Ordered
    <3>4. CASE i = 1
      BY <3>2, <3>3, <3>4, <2>3
    <3>5. CASE i # 1
      BY <3>1, <3>2, <3>3, <3>5 DEF Ordered
    <3> QED BY <3>4, <3>5
  <2>6. NoOversleep'
    BY <2>1, <2>3, <2>4, <2>5, <1>c DEF NoOversleep
  <2>7. wakeAt' \in Nat \cup {Forever}
    BY <2>3, <2>4
  <2> QED BY <2>1, <2>2, <2>6, <2>7, <1>0 DEF IInv, TypeOK, QueueInv
<1>10. CASE Empty
  <2> DEFINE ms == IF pos = NoTimer THEN IdleDelay ELSE expires[pos] - curr
  <2>1. /\ next = NoTimer
        /\ queueVars' = queueVars /\ state' = state /\ now' = now /\ curr' = curr
        /\ pc' = "sleep" /\ pos' = NoTimer
        /\ wakeAt' = IF ms < 0 THEN Forever ELSE now + ms
    BY <1>10 DEF Empty, SleepFor
  <2>2. QueueInv'
    BY <2>1, <1>0, QueueInvUnchanged
  <2>3. ms \in Int
    BY <1>0, <1>c DEF QueueInv
  <2> HIDE DEF ms
  <2>4. wakeAt' \in Nat \cup {Forever}
    BY <2>1, <2>3, <1>0
  <2>5. \A t \in Timers : state[t] # "enqueued"
    <3>1. queue \in Seq(Timers) /\ Ordered(queue, next, expires)
      BY <1>0, OrderedIsQueueOrdered DEF QueueInv, QueueConsistent
    <3>2. queue = <<>>
      <4>1. queue # <<>> => queue[1] \in Timers
        BY <3>1, EmptySeq
      <4> QED BY <4>1, <3>1, <2>1, TimersAssumption DEF Ordered
    <3>3. Range(queue) = {}
      BY <3>2 DEF Range
    <3> QED BY <3>3, <1>0 DEF QueueInv, QueueConsistent
  <2>6. NoOversleep'
    BY <2>1, <2>5 DEF NoOversleep
  <2> QED BY <2>1, <2>2, <2>4, <2>6, <1>0 DEF IInv, TypeOK, QueueInv
<1>11. CASE Tick
  <2>1. /\ queueVars' = queueVars /\ state' = state /\ now' = now + 1
        /\ pc' = pc /\ pos' = pos /\ curr' = curr /\ wakeAt' = wakeAt
    BY <1>11 DEF Tick
  <2>2. QueueInv' BY <2>1, <1>0, QueueInvUnchanged
  <2>3. expires' = expires BY <2>1 DEF queueVars
  <2>4. NoOversleep'
    BY <2>1, <2>3 DEF IInv, NoOversleep
  <2> QED BY <2>1, <2>2, <2>4, <1>0 DEF IInv, TypeOK, QueueInv
<1>12. CASE UNCHANGED vars
  <2>1. QueueInv' BY <1>12, <1>0, QueueInvUnchanged DEF vars, queueVars
  <2> QED BY <2>1, <1>12, <1>0 DEF IInv, TypeOK, QueueInv, NoOversleep, vars
<1> QED BY <1>1, <1>2, <1>3, <1>4, <1>5, <1>6, <1>7, <1>8, <1>9, <1>10, <1>11, <1>12
        DEF Next, Loop

-----------------------------------------------------------------------------
(***************************************************************************)
(* Whatever the callbacks do and whenever the events come, for any number  *)
(* of timers: the invariant of the timer queue and of the sleep holds.     *)
(***************************************************************************)
THEOREM Invariance == Spec => []IInv
BY InvariantHoldsInitially, InvariantIsInductive, PTL DEF Spec

(***************************************************************************)
(* Type correctness: expiries and wake-up times are never negative.        *)
(***************************************************************************)
THEOREM TypeCorrect == Spec => []TypeOK
<1>1. IInv => TypeOK BY DEF IInv
<1> QED BY <1>1, Invariance, PTL

(***************************************************************************)
(* timer->state, the queue and head->next agree between any two calls.     *)
(***************************************************************************)
THEOREM QueueStaysConsistent == Spec => []QueueConsistent
<1>1. IInv => QueueConsistent BY DEF IInv
<1> QED BY <1>1, Invariance, PTL

(***************************************************************************)
(* epoll_wait() is never asked to sleep past the expiry of a timer.        *)
(***************************************************************************)
THEOREM NeverOversleeps == Spec => []NoOversleep
<1>1. IInv => NoOversleep BY DEF IInv
<1> QED BY <1>1, Invariance, PTL

(***************************************************************************)
(* Only a timer that is set and due fires, and the earliest one first.     *)
(***************************************************************************)
THEOREM FiringOrder == Spec => FiresInOrder
<1> DEFINE Ordering == pc = "check" /\ pc' = "fn" =>
                         /\ state[pos'] = "enqueued" /\ state'[pos'] # "enqueued"
                         /\ expires[pos'] <= now
                         /\ \A t \in Timers : state[t] = "enqueued" => expires[pos'] <= expires[t]
<1>1. IInv /\ [Next]_vars => [Ordering]_vars
  <2> SUFFICES ASSUME IInv, Next, pc = "check", pc' = "fn" PROVE Ordering
    BY DEF vars
  <2>1. Fire
    BY DEF Next, Loop, AddTimer, UpdateTimer, StopTimer, DelTimer, CallerRuns, EnterLoop,
           TimedOut, Event, EndBatch, EndFn, NotDue, Empty, SleepFor, Tick
  <2>2. /\ queue \in Seq(Timers) /\ Ordered(queue, next, expires)
        /\ next \in Timers /\ expires \in [Timers -> Nat] /\ now \in Nat
        /\ \A t \in Timers : state[t] = "enqueued" <=> t \in Range(queue)
    BY <2>1, OrderedIsQueueOrdered DEF IInv, TypeOK, QueueConsistent, Fire
  <2>3. pos' = next /\ expires[next] <= now /\ state' = [state EXCEPT ![next] = "inactive"]
    BY <2>1 DEF Fire, Dequeue
  <2>4. queue # <<>> /\ 1 \in 1..Len(queue) /\ next = queue[1]
    <3>1. queue # <<>> BY <2>2, TimersAssumption DEF Ordered
    <3> QED BY <3>1, <2>2, EmptySeq DEF Ordered
  <2>5. Range(queue) = {queue[i] : i \in 1..Len(queue)}
    BY <2>2, RangeEquality
  <2>6. state[next] = "enqueued"
    BY <2>2, <2>4, <2>5
  <2>7. ASSUME NEW t \in Timers, state[t] = "enqueued" PROVE expires[next] <= expires[t]
    <3>1. PICK i \in 1..Len(queue) : queue[i] = t BY <2>2, <2>5, <2>7
    <3>2. CASE i = 1 BY <3>1, <3>2, <2>2, <2>4
    <3>3. CASE i # 1 BY <3>1, <3>3, <2>2, <2>4 DEF Ordered
    <3> QED BY <3>2, <3>3
  <2>8. state'[next] # "enqueued"
    BY <2>2, <2>3 DEF IInv, TypeOK
  <2> QED BY <2>3, <2>6, <2>7, <2>8
<1> QED BY <1>1, Invariance, PTL DEF Spec, FiresInOrder
=============================================================================

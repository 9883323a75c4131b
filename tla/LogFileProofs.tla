---------------------------- MODULE LogFileProofs ----------------------------
(***************************************************************************)
(* Theorems about LogFile, for any number of logs and any limits: the      *)
(* books of logd are right and its clean-up works, whichever system call   *)
(* fails and whenever it is killed.                                        *)
(***************************************************************************)
EXTENDS LogFile, FiniteSetTheorems, WellFoundedInduction, TLAPS

TypeOK ==
  /\ old \in [Logs -> SUBSET Slots] /\ main \in [Logs -> Int]
  /\ up \in BOOLEAN /\ scan \subseteq Logs /\ known \subseteq Logs
  /\ num \in [Logs -> Int] /\ index \in [Logs -> Slots] /\ fd \in [Logs -> Fds]
  /\ total \in Int /\ opened \in [Fds -> Logs \cup {"other", "closed"}]
  /\ at \in {"idle", "clean", "replace", "rename", "open"} /\ cur \in Logs \cup {NoLog}
  /\ times \in 0..(CleanStep - 1)

\* Whom new_file() runs for: a log of the table, whose descriptor is closed.
Where ==
  /\ ~up => known = {} /\ at = "idle"
  /\ scan \cap known = {}
  /\ at # "idle" => cur \in known /\ \A f \in Fds : opened[f] # cur
  /\ \A f \in Fds : opened[f] = "other" => f = 0

\* An archive that could not be removed is not counted any more when rename()
\* replaces it.
Room == at = "rename" /\ index[cur] \in old[cur] => num[cur] <= Cardinality(old[cur])

\* What the total is in the middle of a rotation.
Total ==
  /\ at = "clean" /\ times > 0 => total >= MaxFiles - times
  /\ at \in {"replace", "rename"} => total < MaxFiles
  /\ at \in {"idle", "open"} => total <= MaxFiles


-----------------------------------------------------------------------------
(* The least number of a set *)

NatLess == {ss \in Nat \X Nat : ss[1] < ss[2]}

LEMMA NatLessWF == IsWellFoundedOn(NatLess, Nat)
  BY NatLessThanWellFounded, Zenon DEF OpToRel, NatLess

LEMMA SmallestNat ==
  ASSUME NEW S \in SUBSET Nat, S # {}
  PROVE  \E x \in S : \A y \in S : x <= y
<1>1. PICK x \in S : \A y \in S : ~(<<y, x>> \in NatLess)
  BY NatLessWF, WFMin
<1>2. ASSUME NEW y \in S PROVE x <= y
  <2>1. <<y, x>> \in Nat \X Nat /\ <<y, x>>[1] = y /\ <<y, x>>[2] = x
    OBVIOUS
  <2>2. y < x => <<y, x>> \in NatLess
    BY <2>1, Zenon DEF NatLess
  <2> QED
    BY <1>1, <2>2
<1> QED
  BY <1>2

LEMMA MinNat ==
  ASSUME NEW S \in SUBSET Nat, S # {}
  PROVE  Min(S) \in S /\ \A y \in S : Min(S) <= y
  BY SmallestNat DEF Min

\* A set of numbers with an upper bound has a largest one.
LEMMA LargestInt ==
  ASSUME NEW S \in SUBSET Int, S # {}, NEW b \in Int, \A x \in S : x <= b
  PROVE  \E x \in S : \A y \in S : y <= x
<1> DEFINE T == {b - x : x \in S}
<1>1. T \in SUBSET Nat /\ T # {}
  <2>1. \A x \in S : b - x \in Nat
    OBVIOUS
  <2> QED
    BY <2>1
<1>2. PICK t \in T : \A u \in T : t <= u
  BY <1>1, SmallestNat
<1>3. PICK x \in S : t = b - x
  OBVIOUS
<1>4. ASSUME NEW y \in S PROVE y <= x
  <2>1. b - y \in T
    OBVIOUS
  <2>2. b - x <= b - y
    BY <1>2, <1>3, <2>1
  <2>3. x \in Int /\ y \in Int
    OBVIOUS
  <2> QED
    BY <2>2, <2>3
<1> QED
  BY <1>4

-----------------------------------------------------------------------------
(* The sum of what the logs count *)

\* Pairs and Sum for any table K and counts n.
PairsOf(K, n) == {p \in K \X Nat : p[2] \in 1..n[p[1]]}
Negated(n) == [l \in Logs |-> -n[l]]
SumOf(K, n) == Cardinality(PairsOf(K, n)) - Cardinality(PairsOf(K, Negated(n)))

LEMMA PairsArePairsOf ==
  ASSUME NEW n \in [Logs -> Int]
  PROVE  Pairs(n) = PairsOf(known, n)
<1>1. ASSUME NEW p \in Pairs(n) PROVE p \in PairsOf(known, n)
  <2>1. PICK l \in known : p \in {l} \X (1..n[l])
    BY DEF Pairs
  <2> QED
    BY <2>1 DEF PairsOf
<1>2. ASSUME NEW p \in PairsOf(known, n) PROVE p \in Pairs(n)
  <2>1. p[1] \in known /\ p = <<p[1], p[2]>> /\ p[2] \in 1..n[p[1]]
    BY DEF PairsOf
  <2>2. p \in {p[1]} \X (1..n[p[1]])
    BY <2>1
  <2> QED
    BY <2>1, <2>2 DEF Pairs
<1> QED
  BY <1>1, <1>2

LEMMA PairsFinite ==
  ASSUME NEW K, IsFiniteSet(K), NEW n \in [Logs -> Int], K \subseteq Logs
  PROVE  IsFiniteSet(PairsOf(K, n)) /\ Cardinality(PairsOf(K, n)) \in Nat
<1> DEFINE part(l) == {l} \X (1..n[l])
           parts == {part(l) : l \in K}
<1>1. IsFiniteSet(parts)
  <2> DEFINE f == [l \in K |-> part(l)]
  <2>1. f \in Surjection(K, parts)
    BY DEF Surjection
  <2> QED
    BY <2>1, FS_Surjection
<1>2. \A P \in parts : IsFiniteSet(P)
  <2> TAKE P \in parts
  <2>1. PICK l \in K : P = part(l)
    OBVIOUS
  <2>2. IsFiniteSet({l}) /\ IsFiniteSet(1..n[l])
    <3> DEFINE b == n[l]
    <3>1. b \in Int
      OBVIOUS
    <3> HIDE DEF b
    <3>2. IsFiniteSet(1..b)
      BY <3>1, FS_Interval
    <3> QED
      BY <3>2, FS_Singleton DEF b
  <2> QED
    BY <2>1, <2>2, FS_Product
<1>3. IsFiniteSet(UNION parts)
  BY <1>1, <1>2, FS_UNION
<1>4. PairsOf(K, n) \subseteq UNION parts
  <2>1. ASSUME NEW p \in PairsOf(K, n) PROVE p \in UNION parts
    <3>1. p[1] \in K /\ p = <<p[1], p[2]>> /\ p[2] \in 1..n[p[1]]
      BY DEF PairsOf
    <3>2. p \in part(p[1])
      BY <3>1
    <3> QED
      BY <3>1, <3>2
  <2> QED
    BY <2>1
<1> HIDE DEF parts
<1> QED
  BY <1>3, <1>4, FS_Subset, FS_CardinalityType

\* One more for a log is one pair more, unless its count is below 0.
LEMMA PairsIncr ==
  ASSUME NEW K, IsFiniteSet(K), K \subseteq Logs, NEW n \in [Logs -> Int], NEW l \in K,
         NEW m, m = [n EXCEPT ![l] = n[l] + 1]
  PROVE  /\ n[l] >= 0 => Cardinality(PairsOf(K, m)) = Cardinality(PairsOf(K, n)) + 1
         /\ ~(n[l] >= 0) => Cardinality(PairsOf(K, m)) = Cardinality(PairsOf(K, n))
<1>1. m \in [Logs -> Int] /\ m[l] = n[l] + 1 /\ (\A k \in K \ {l} : m[k] = n[k]) /\ n[l] \in Int
  OBVIOUS
<1>2. IsFiniteSet(PairsOf(K, n)) /\ Cardinality(PairsOf(K, n)) \in Nat
  BY PairsFinite
<1>3. CASE n[l] >= 0
  <2> DEFINE x == <<l, n[l] + 1>>
  <2>1. x \notin PairsOf(K, n)
    BY <1>1 DEF PairsOf
  <2>2. PairsOf(K, m) = PairsOf(K, n) \cup {x}
    <3>1. x \in PairsOf(K, m)
      BY <1>1, <1>3 DEF PairsOf
    <3>2. ASSUME NEW p \in PairsOf(K, n) PROVE p \in PairsOf(K, m)
      <4>1. p \in K \X Nat /\ p[1] \in K /\ p[2] \in 1..n[p[1]]
        BY DEF PairsOf
      <4>2. p[2] \in 1..m[p[1]]
        BY <1>1, <4>1
      <4> QED
        BY <4>1, <4>2 DEF PairsOf
    <3>3. ASSUME NEW p \in PairsOf(K, m), p # x PROVE p \in PairsOf(K, n)
      <4>1. p \in K \X Nat /\ p[1] \in K /\ p[2] \in 1..m[p[1]] /\ p = <<p[1], p[2]>>
        BY DEF PairsOf
      <4>2. p[1] = l => p[2] # n[l] + 1
        BY <3>3, <4>1
      <4>3. p[2] \in 1..n[p[1]]
        BY <1>1, <4>1, <4>2
      <4> QED
        BY <4>1, <4>3 DEF PairsOf
    <3> HIDE DEF x
    <3> QED
      BY <3>1, <3>2, <3>3
  <2> QED
    BY <1>2, <1>3, <2>1, <2>2, FS_AddElement
<1>4. CASE ~(n[l] >= 0)
  <2>1. \A k \in K : 1..m[k] = 1..n[k]
    BY <1>1, <1>4
  <2>2. PairsOf(K, m) = PairsOf(K, n)
    BY <2>1 DEF PairsOf
  <2> QED
    BY <1>2, <1>4, <2>2
<1> QED
  BY <1>3, <1>4

\* The same of any two counts of which one is the other with one more for a log.
LEMMA PairsIncrAll ==
  ASSUME NEW K, IsFiniteSet(K), K \subseteq Logs, NEW l \in K
  PROVE  \A n, m \in [Logs -> Int] : m = [n EXCEPT ![l] = n[l] + 1] =>
           /\ n[l] >= 0 => Cardinality(PairsOf(K, m)) = Cardinality(PairsOf(K, n)) + 1
           /\ ~(n[l] >= 0) => Cardinality(PairsOf(K, m)) = Cardinality(PairsOf(K, n))
<1> TAKE n, m \in [Logs -> Int]
<1> HAVE m = [n EXCEPT ![l] = n[l] + 1]
<1> QED
  BY PairsIncr, ZenonT(60)

LEMMA SumIncr ==
  ASSUME NEW K, IsFiniteSet(K), K \subseteq Logs, NEW n \in [Logs -> Int], NEW l \in K,
         NEW m, m = [n EXCEPT ![l] = n[l] + 1]
  PROVE  SumOf(K, m) = SumOf(K, n) + 1 /\ SumOf(K, n) \in Int
<1>1. m \in [Logs -> Int] /\ m[l] = n[l] + 1 /\ n[l] \in Int /\ l \in Logs
  OBVIOUS
<1>2. /\ Negated(n) \in [Logs -> Int] /\ Negated(m) \in [Logs -> Int]
      /\ Negated(n) = [Negated(m) EXCEPT ![l] = Negated(m)[l] + 1]
      /\ Negated(m)[l] >= 0 <=> ~(n[l] >= 0)
  <2>1. Negated(n) \in [Logs -> Int] /\ Negated(m) \in [Logs -> Int]
    BY <1>1 DEF Negated
  <2>2. Negated(n)[l] = -n[l] /\ Negated(m)[l] = -(n[l] + 1)
    BY <1>1 DEF Negated
  <2>3. \A k \in Logs \ {l} : Negated(n)[k] = Negated(m)[k]
    BY DEF Negated
  <2>4. Negated(n)[l] = Negated(m)[l] + 1 /\ (Negated(m)[l] >= 0 <=> ~(n[l] >= 0))
    BY <1>1, <2>2
  <2> QED
    BY <2>1, <2>3, <2>4
<1>0. \A p, q \in [Logs -> Int] : q = [p EXCEPT ![l] = p[l] + 1] =>
        /\ p[l] >= 0 => Cardinality(PairsOf(K, q)) = Cardinality(PairsOf(K, p)) + 1
        /\ ~(p[l] >= 0) => Cardinality(PairsOf(K, q)) = Cardinality(PairsOf(K, p))
  BY PairsIncrAll
<1> DEFINE v == Negated(m)
           w == Negated(n)
           a == Cardinality(PairsOf(K, n))
           b == Cardinality(PairsOf(K, w))
           c == Cardinality(PairsOf(K, m))
           d == Cardinality(PairsOf(K, v))
<1>3. (n[l] >= 0 => c = a + 1) /\ (~(n[l] >= 0) => c = a)
  BY PairsIncr
<1>4. v \in [Logs -> Int] /\ w \in [Logs -> Int] /\ w = [v EXCEPT ![l] = v[l] + 1]
  BY <1>2
<1>5. (v[l] >= 0) <=> ~(n[l] >= 0)
  BY <1>2
<1>6. SumOf(K, m) = c - d /\ SumOf(K, n) = a - b
  BY DEF SumOf
<1> HIDE DEF v, w, a, b, c, d
<1>7. (v[l] >= 0 => b = d + 1) /\ (~(v[l] >= 0) => b = d)
  <2>1. /\ v[l] >= 0 => Cardinality(PairsOf(K, w)) = Cardinality(PairsOf(K, v)) + 1
        /\ ~(v[l] >= 0) => Cardinality(PairsOf(K, w)) = Cardinality(PairsOf(K, v))
    BY <1>4, <1>0
  <2> QED
    BY <2>1 DEF b, d
<1>8. a \in Nat /\ b \in Nat /\ c \in Nat /\ d \in Nat
  BY <1>1, <1>4, PairsFinite DEF a, b, c, d
<1> QED
  BY <1>3, <1>5, <1>6, <1>7, <1>8

LEMMA SumDecr ==
  ASSUME NEW K, IsFiniteSet(K), K \subseteq Logs, NEW n \in [Logs -> Int], NEW l \in K,
         NEW m, m = [n EXCEPT ![l] = n[l] - 1]
  PROVE  SumOf(K, m) = SumOf(K, n) - 1
<1>1. m \in [Logs -> Int] /\ m[l] + 1 = n[l] /\ n = [m EXCEPT ![l] = m[l] + 1]
  <2>1. n[l] \in Int /\ n[l] - 1 \in Int /\ l \in Logs
    OBVIOUS
  <2>2. m \in [Logs -> Int] /\ m[l] = n[l] - 1
    BY <2>1
  <2>3. m[l] + 1 = n[l]
    BY <2>1, <2>2
  <2> QED
    BY <2>2, <2>3
<1> QED
  BY <1>1, SumIncr

\* A log that comes into the table adds what it counts.
LEMMA SumAdd ==
  ASSUME NEW K, IsFiniteSet(K), K \subseteq Logs, NEW n \in [Logs -> Int], NEW l \in Logs \ K,
         NEW c \in Nat, NEW m, m = [n EXCEPT ![l] = c]
  PROVE  SumOf(K \cup {l}, m) = SumOf(K, n) + c
<1> DEFINE L == K \cup {l}
           X == {l} \X (1..c)
<1>1. /\ m \in [Logs -> Int] /\ m[l] = c /\ Negated(m) \in [Logs -> Int] /\ Negated(m)[l] = -c
      /\ \A k \in K : m[k] = n[k] /\ Negated(m)[k] = Negated(n)[k]
  BY DEF Negated
<1>2. IsFiniteSet(X) /\ Cardinality(X) = c
  <2>1. IsFiniteSet(1..c) /\ Cardinality(1..c) = c
    BY FS_Interval
  <2>2. IsFiniteSet({l}) /\ Cardinality({l}) = 1
    BY FS_Singleton
  <2>3. IsFiniteSet(X) /\ Cardinality(X) = 1 * c
    BY <2>1, <2>2, FS_Product, ZenonT(60)
  <2> QED
    BY <2>3
<1>3. PairsOf(L, m) = PairsOf(K, n) \cup X
  <2>1. \A p \in X : p \in PairsOf(L, m)
    BY <1>1 DEF PairsOf
  <2>2. \A p \in PairsOf(K, n) : p \in PairsOf(L, m)
    BY <1>1 DEF PairsOf
  <2>3. ASSUME NEW p \in PairsOf(L, m) PROVE p \in PairsOf(K, n) \cup X
    <3>1. p \in L \X Nat /\ p[1] \in L /\ p[2] \in 1..m[p[1]] /\ p = <<p[1], p[2]>> /\ p[2] \in Nat
      BY DEF PairsOf
    <3>2. CASE p[1] = l
      BY <1>1, <3>1, <3>2
    <3>3. CASE p[1] \in K
      <4>1. <<p[1], p[2]>> \in K \X Nat /\ p[2] \in 1..n[p[1]]
        BY <1>1, <3>1, <3>3
      <4> QED
        BY <3>1, <4>1 DEF PairsOf
    <3> QED
      BY <3>1, <3>2, <3>3
  <2> HIDE DEF X
  <2> QED
    BY <2>1, <2>2, <2>3
<1>4. PairsOf(L, Negated(m)) = PairsOf(K, Negated(n))
  <2>1. 1..Negated(m)[l] = {}
    BY <1>1
  <2>2. ASSUME NEW p \in PairsOf(L, Negated(m)) PROVE p \in PairsOf(K, Negated(n))
    <3>1. p \in L \X Nat /\ p[1] \in L /\ p[2] \in 1..Negated(m)[p[1]] /\ p = <<p[1], p[2]>> /\ p[2] \in Nat
      BY DEF PairsOf
    <3>2. p[1] \in K
      BY <2>1, <3>1
    <3>3. <<p[1], p[2]>> \in K \X Nat /\ p[2] \in 1..Negated(n)[p[1]]
      BY <1>1, <3>1, <3>2
    <3> QED
      BY <3>1, <3>3 DEF PairsOf
  <2>3. \A p \in PairsOf(K, Negated(n)) : p \in PairsOf(L, Negated(m))
    BY <1>1 DEF PairsOf
  <2> QED
    BY <2>2, <2>3
<1>5. PairsOf(K, n) \cap X = {}
  BY DEF PairsOf
<1>6. /\ IsFiniteSet(PairsOf(K, n)) /\ Cardinality(PairsOf(K, n)) \in Nat
      /\ Cardinality(PairsOf(K, Negated(n))) \in Nat
  <2>1. Negated(n) \in [Logs -> Int]
    BY DEF Negated
  <2> QED
    BY <2>1, PairsFinite
<1>7. Cardinality(PairsOf(L, m)) = Cardinality(PairsOf(K, n)) + c
  <2>1. Cardinality({}) = 0
    BY FS_EmptySet
  <2> DEFINE P == PairsOf(K, n)
  <2>2. IsFiniteSet(P) /\ Cardinality(P) \in Nat /\ P \cap X = {}
    BY <1>5, <1>6
  <2>3. PairsOf(L, m) = P \cup X
    BY <1>3
  <2> HIDE DEF L, X, P
  <2>4. Cardinality(P \cup X) = Cardinality(P) + Cardinality(X) - Cardinality(P \cap X)
    BY <1>2, <2>2, FS_Union
  <2>5. Cardinality(P \cap X) = 0
    BY <2>1, <2>2
  <2>6. Cardinality(P \cup X) = Cardinality(P) + c
    BY <1>2, <2>2, <2>4, <2>5
  <2> QED
    BY <2>3, <2>6 DEF P
<1> QED
  BY <1>4, <1>6, <1>7 DEF SumOf

LEMMA SumNone == ASSUME NEW n PROVE SumOf({}, n) = 0
<1>1. \A m : PairsOf({}, m) = {}
  BY DEF PairsOf
<1> QED
  BY <1>1, FS_EmptySet DEF SumOf

-----------------------------------------------------------------------------
(* The invariant *)

Added == total = SumOf(known, num)

IInv == TypeOK /\ Where /\ Room /\ Total /\ Added /\ CountedExist /\ NoFdLost

LEMMA Constants ==
  /\ IsFiniteSet(Logs) /\ Cardinality(Logs) \in Nat /\ Fds = 0..Cardinality(Logs)
  /\ MaxLogs \in Nat /\ MaxLogs > 0 /\ CleanStep \in Nat /\ CleanStep > 0 /\ MaxFiles \in Nat
  /\ NoLog \notin Logs /\ "other" \notin Logs /\ "closed" \notin Logs
  /\ Slots = 0..MaxLogs
  BY LogFileAssumption, FS_CardinalityType DEF Fds, Slots

\* The archives of a log can be counted.
LEMMA OldFinite ==
  ASSUME TypeOK, NEW l \in Logs
  PROVE  old[l] \subseteq Slots /\ IsFiniteSet(old[l]) /\ Cardinality(old[l]) \in Nat
<1>1. old[l] \in SUBSET Slots
  BY DEF TypeOK
<1>2. IsFiniteSet(0..MaxLogs)
  BY Constants, FS_Interval
<1> QED
  BY <1>1, <1>2, Constants, FS_Subset, FS_CardinalityType

LEMMA KnownFinite == TypeOK => IsFiniteSet(known)
  BY Constants, FS_Subset DEF TypeOK

LEMMA InitIInv == Init => IInv
<1> SUFFICES ASSUME Init PROVE IInv
  OBVIOUS
<1>1. TypeOK
  <2>1. 0 \in Slots /\ 0 \in Fds /\ 0 \in 0..(CleanStep - 1) /\ {} \in SUBSET Slots
    BY Constants
  <2>2. None \in [Logs -> Int] /\ None \in [Logs -> Slots] /\ None \in [Logs -> Fds]
    BY <2>1 DEF None
  <2>3. old \in [Logs -> SUBSET Slots] /\ main \in [Logs -> Int]
    BY <2>1 DEF Init, NoFile
  <2>4. opened \in [Fds -> Logs \cup {"other", "closed"}]
    BY DEF Init
  <2>5. up \in BOOLEAN /\ scan \subseteq Logs /\ known \subseteq Logs
    BY DEF Init
  <2>6. /\ num \in [Logs -> Int] /\ index \in [Logs -> Slots] /\ fd \in [Logs -> Fds]
        /\ total \in Int
    BY <2>2 DEF Init
  <2>7. /\ at \in {"idle", "clean", "replace", "rename", "open"} /\ cur \in Logs \cup {NoLog}
        /\ times \in 0..(CleanStep - 1)
    BY <2>1 DEF Init
  <2> QED
    BY <2>3, <2>4, <2>5, <2>6, <2>7 DEF TypeOK
<1>2. Added
  BY SumNone DEF Init, Added
<1> QED
  BY <1>1, <1>2, Constants DEF Init, IInv, Where, Room, Total, CountedExist, NoFdLost

LEMMA StartIInv == ASSUME IInv, Start PROVE IInv'
<1>1. known = {} /\ known' = {} /\ at = "idle" /\ total' = total
  BY DEF IInv, Where, Start, struct
<1>2. TypeOK'
  BY Constants DEF IInv, TypeOK, Start, disk, struct, job
<1>3. Where' /\ Room' /\ Total' /\ CountedExist' /\ NoFdLost'
  BY <1>1, Constants DEF IInv, Where, Room, Total, CountedExist, NoFdLost, Start, disk, struct, job
<1> QED
  BY <1>2, <1>3 DEF IInv, Added, Start, struct

LEMMA CrashIInv == ASSUME IInv, Crash PROVE IInv'
<1>1. TypeOK'
  <2>1. 0 \in Slots /\ 0 \in Fds /\ 0 \in 0..(CleanStep - 1)
    BY Constants
  <2>2. None \in [Logs -> Int] /\ None \in [Logs -> Slots] /\ None \in [Logs -> Fds]
    BY <2>1 DEF None
  <2>3. old' \in [Logs -> SUBSET Slots] /\ main' \in [Logs -> Int]
    BY DEF IInv, TypeOK, Crash, disk
  <2>4. opened' \in [Fds -> Logs \cup {"other", "closed"}]
    BY DEF Crash
  <2>5. up' \in BOOLEAN /\ scan' \subseteq Logs /\ known' \subseteq Logs
    BY DEF Crash
  <2>6. /\ num' \in [Logs -> Int] /\ index' \in [Logs -> Slots] /\ fd' \in [Logs -> Fds]
        /\ total' \in Int
    BY <2>2 DEF Crash
  <2>7. /\ at' \in {"idle", "clean", "replace", "rename", "open"} /\ cur' \in Logs \cup {NoLog}
        /\ times' \in 0..(CleanStep - 1)
    BY <2>1 DEF Crash
  <2> QED
    BY <2>3, <2>4, <2>5, <2>6, <2>7 DEF TypeOK
<1>2. Added'
  BY SumNone DEF Added, Crash
<1>3. Where' /\ Room' /\ Total' /\ CountedExist' /\ NoFdLost'
  BY Constants DEF Where, Room, Total, CountedExist, NoFdLost, Crash
<1> QED
  BY <1>1, <1>2, <1>3 DEF IInv

LEMMA FilesType ==
  ASSUME TypeOK, NEW l \in Logs
  PROVE  Files(l) \in Nat /\ Files(l) <= Cardinality(old[l]) + 1 /\ FirstFree(l) \in Slots
<1>1. /\ Cardinality(old[l] \ {MaxLogs}) \in Nat
      /\ Cardinality(old[l] \ {MaxLogs}) <= Cardinality(old[l])
  <2>1. old[l] \ {MaxLogs} \in SUBSET old[l]
    OBVIOUS
  <2> QED
    BY <2>1, OldFinite, FS_Subset, FS_CardinalityType
<1>2. Files(l) \in Nat /\ Files(l) <= Cardinality(old[l]) + 1
  BY <1>1, OldFinite DEF Files
<1>3. FirstFree(l) \in Slots
  <2> DEFINE free == {i \in 0..(MaxLogs - 1) : i \notin old[l]}
  <2>1. free \in SUBSET Nat /\ free \subseteq Slots /\ MaxLogs \in Slots
    BY Constants
  <2>2. free # {} => Min(free) \in free
    BY <2>1, MinNat
  <2> QED
    BY <2>1, <2>2 DEF FirstFree
<1> QED
  BY <1>2, <1>3

LEMMA NewLogIInv ==
  ASSUME IInv, NEW l \in Logs \ known, up, at = "idle", NewLog(l), scan' \subseteq scan \ {l}
  PROVE  IInv'
<1>1. l \in Logs /\ Files(l) \in Nat /\ Files(l) <= Cardinality(old[l]) + 1 /\ FirstFree(l) \in Slots
  BY FilesType DEF IInv
<1>2. TypeOK'
  BY <1>1, Constants DEF IInv, TypeOK, NewLog, disk
<1>3. Where'
  <2>1. \A f \in Fds : opened[f] # l
    BY DEF IInv, NoFdLost
  <2> QED
    BY <2>1 DEF IInv, Where, NewLog
<1>4. Room' /\ Total'
  BY DEF Room, Total, NewLog
<1>5. Added'
  <2>1. SumOf(known \cup {l}, num') = SumOf(known, num) + Files(l)
    <3>1. /\ IsFiniteSet(known) /\ known \subseteq Logs /\ num \in [Logs -> Int]
          /\ num' = [num EXCEPT ![l] = Files(l)]
      BY KnownFinite DEF IInv, TypeOK, NewLog
    <3>2. \A c \in Nat : \A m : m = [num EXCEPT ![l] = c] => SumOf(known \cup {l}, m) = SumOf(known, num) + c
      BY <3>1, SumAdd
    <3> QED
      BY <1>1, <3>1, <3>2
  <2> QED
    BY <2>1 DEF IInv, Added, NewLog
<1>6. CountedExist'
  BY <1>1 DEF IInv, TypeOK, CountedExist, NewLog, disk
<1>7. NoFdLost'
  BY DEF IInv, NoFdLost, NewLog
<1> QED
  BY <1>2, <1>3, <1>4, <1>5, <1>6, <1>7 DEF IInv

LEMMA StepOfTimes ==
  ASSUME NEW c \in Nat, c > 0, NEW t \in 0..(c - 1)
  PROVE  (t + 1) % c = IF t + 1 < c THEN t + 1 ELSE 0
<1>1. CASE t + 1 < c
  BY <1>1
<1>2. CASE t + 1 = c
  BY <1>2
<1> QED
  BY <1>1, <1>2

\* The count of a log of the table goes up or down by one, and the total with it.
LEMMA CountStep ==
  ASSUME IInv, NEW l \in known, known' = known, NEW d \in {1, -1},
         num' = [num EXCEPT ![l] = num[l] + d], total' = total + d
  PROVE  /\ Added' /\ num' \in [Logs -> Int] /\ total' \in Int
         /\ num'[l] = num[l] + d /\ \A k \in Logs \ {l} : num'[k] = num[k]
<1>1. /\ IsFiniteSet(known) /\ known \subseteq Logs /\ num \in [Logs -> Int] /\ l \in Logs
      /\ num[l] \in Int /\ total \in Int /\ total = SumOf(known, num)
  BY KnownFinite DEF IInv, TypeOK, Added
<1>2. SumOf(known, num') = SumOf(known, num) + d
  <2>1. CASE d = 1
    <3>1. \A m : m = [num EXCEPT ![l] = num[l] + 1] => SumOf(known, m) = SumOf(known, num) + 1
      BY <1>1, SumIncr, ZenonT(60)
    <3> QED
      BY <2>1, <3>1
  <2>2. CASE d = -1
    <3>1. \A m : m = [num EXCEPT ![l] = num[l] - 1] => SumOf(known, m) = SumOf(known, num) - 1
      BY <1>1, SumDecr
    <3>2. num' = [num EXCEPT ![l] = num[l] - 1]
      BY <1>1, <2>2
    <3>3. SumOf(known, num') = SumOf(known, num) - 1
      BY <3>1, <3>2
    <3> QED
      BY <1>1, <2>2, <3>3
  <2> QED
    BY <2>1, <2>2
<1> QED
  BY <1>1, <1>2 DEF Added

\* An archive of l goes, or its removal fails.
LEMMA OneLess ==
  ASSUME TypeOK, NEW l \in Logs, NEW i, old' = [old EXCEPT ![l] = @ \ {i}] \/ UNCHANGED old
  PROVE  /\ old' \in [Logs -> SUBSET Slots]
         /\ Cardinality(old'[l]) \in Nat /\ Cardinality(old'[l]) >= Cardinality(old[l]) - 1
         /\ i \in old'[l] => old'[l] = old[l]
         /\ \A k \in Logs \ {l} : old'[k] = old[k]
<1>1. old'[l] = old[l] \ {i} \/ old'[l] = old[l]
  BY DEF TypeOK
<1>2. old' \in [Logs -> SUBSET Slots] /\ \A k \in Logs \ {l} : old'[k] = old[k]
  BY DEF TypeOK
<1>3. /\ Cardinality(old[l]) \in Nat /\ Cardinality(old[l] \ {i}) \in Nat
      /\ Cardinality(old[l] \ {i}) >= Cardinality(old[l]) - 1
  <2>1. IsFiniteSet(old[l]) /\ Cardinality(old[l]) \in Nat
    BY OldFinite
  <2>2. IsFiniteSet(old[l] \ {i}) /\ Cardinality(old[l] \ {i}) =
            IF i \in old[l] THEN Cardinality(old[l]) - 1 ELSE Cardinality(old[l])
    BY <2>1, FS_RemoveElement
  <2>3. Cardinality(old[l] \ {i}) \in Nat
    BY <2>2, FS_CardinalityType
  <2> QED
    BY <2>1, <2>2, <2>3
<1>4. CASE old'[l] = old[l] \ {i}
  BY <1>2, <1>3, <1>4
<1>5. CASE old'[l] = old[l]
  <2>1. Cardinality(old[l]) >= Cardinality(old[l]) - 1
    BY <1>3
  <2> QED
    BY <1>2, <1>3, <1>5, <2>1
<1> QED
  BY <1>1, <1>4, <1>5

LEMMA CleanIInv == ASSUME IInv, Clean PROVE IInv'
<1>1. PICK l \in Largest :
        /\ old' = [old EXCEPT ![l] = @ \ {Victim(l)}] \/ UNCHANGED old
        /\ num' = [num EXCEPT ![l] = num[l] - 1]
  BY DEF Clean
<1>2. /\ l \in known /\ l \in Logs /\ num[l] \in Int /\ total \in Int /\ total' = total - 1 /\ at = "clean"
      /\ times' = (times + 1) % CleanStep
      /\ UNCHANGED <<main, up, scan, known, index, size, fd, opened, cur, at>>
  BY DEF Clean, Cleaning, Largest, IInv, TypeOK
<1>3. num[l] - 1 = num[l] + (-1) /\ total - 1 = total + (-1)
  BY <1>2
<1>4. /\ Added' /\ num' \in [Logs -> Int] /\ total' \in Int
      /\ num'[l] = num[l] + (-1) /\ \A k \in Logs \ {l} : num'[k] = num[k]
  BY <1>1, <1>2, <1>3, CountStep
<1>5. /\ old' \in [Logs -> SUBSET Slots]
      /\ Cardinality(old'[l]) \in Nat /\ Cardinality(old'[l]) >= Cardinality(old[l]) - 1
      /\ \A k \in Logs \ {l} : old'[k] = old[k]
  BY <1>1, <1>2, OneLess DEF IInv
<1>6. times' = (IF times + 1 < CleanStep THEN times + 1 ELSE 0) /\ times \in 0..(CleanStep - 1)
  BY <1>2, Constants, StepOfTimes DEF IInv, TypeOK
<1>7. TypeOK'
  BY <1>2, <1>4, <1>5, <1>6, Constants, SMTT(30) DEF IInv, TypeOK
<1>8. Where' /\ Room' /\ NoFdLost'
  BY <1>2 DEF IInv, Where, Room, NoFdLost
<1>9. Total'
  <2>1. times = 0 => total >= MaxFiles
    BY DEF Clean, Cleaning, IInv, TypeOK
  <2>2. times > 0 => total >= MaxFiles - times
    BY <1>2 DEF IInv, Total
  <2> QED
    BY <1>2, <1>6, <2>1, <2>2, Constants DEF Total
<1>10. CountedExist'
  <2>1. num'[l] <= Cardinality(old'[l]) + 1
    BY <1>2, <1>4, <1>5, OldFinite DEF IInv, CountedExist
  <2>2. \A k \in known \ {l} : num'[k] <= Cardinality(old'[k]) + 1
    BY <1>4, <1>5 DEF IInv, TypeOK, CountedExist
  <2> QED
    BY <1>2, <2>1, <2>2 DEF CountedExist
<1> QED
  BY <1>4, <1>7, <1>8, <1>9, <1>10 DEF IInv

LEMMA CleanedIInv == ASSUME IInv, Cleaned PROVE IInv'
<1>1. /\ at = "clean" /\ at' = "replace" /\ times = 0 /\ total < MaxFiles
      /\ UNCHANGED <<disk, up, scan, struct, total, opened, cur, times>>
  BY Constants DEF Cleaned, Cleaning, IInv, TypeOK
<1>2. TypeOK'
  BY <1>1 DEF IInv, TypeOK, disk, struct
<1>3. Where' /\ Room' /\ Total' /\ CountedExist' /\ NoFdLost' /\ Added'
  BY <1>1 DEF IInv, Where, Room, Total, CountedExist, NoFdLost, Added, disk, struct
<1> QED
  BY <1>2, <1>3 DEF IInv

LEMMA ReplaceIInv == ASSUME IInv, Replace PROVE IInv'
<1>1. /\ at = "replace" /\ at' = "rename" /\ cur \in known /\ cur \in Logs
      /\ num[cur] \in Int /\ total \in Int /\ total < MaxFiles
      /\ UNCHANGED <<main, up, scan, known, index, size, fd, opened, cur, times>>
  BY DEF Replace, IInv, TypeOK, Where, Total
<1>2. Where' /\ NoFdLost'
  BY <1>1 DEF IInv, Where, NoFdLost
<1>3. CASE index[cur] \in old[cur]
  <2>1. /\ old' = [old EXCEPT ![cur] = @ \ {index[cur]}] \/ UNCHANGED old
        /\ num' = [num EXCEPT ![cur] = num[cur] + (-1)] /\ total' = total + (-1)
    BY <1>1, <1>3 DEF Replace
  <2>2. /\ Added' /\ num' \in [Logs -> Int] /\ total' \in Int
        /\ num'[cur] = num[cur] + (-1) /\ \A k \in Logs \ {cur} : num'[k] = num[k]
    BY <1>1, <2>1, CountStep
  <2>3. /\ old' \in [Logs -> SUBSET Slots]
        /\ Cardinality(old'[cur]) \in Nat /\ Cardinality(old'[cur]) >= Cardinality(old[cur]) - 1
        /\ index[cur] \in old'[cur] => old'[cur] = old[cur]
        /\ \A k \in Logs \ {cur} : old'[k] = old[k]
    BY <1>1, <2>1, OneLess DEF IInv
  <2>4. TypeOK'
    BY <1>1, <2>2, <2>3 DEF IInv, TypeOK
  <2>5. Cardinality(old[cur]) \in Nat /\ num[cur] <= Cardinality(old[cur]) + 1
    BY <1>1, OldFinite DEF IInv, CountedExist
  <2>6. Room' /\ num'[cur] <= Cardinality(old'[cur]) + 1
    BY <1>1, <2>2, <2>3, <2>5 DEF Room
  <2>7. CountedExist'
    BY <1>1, <2>2, <2>3, <2>6 DEF IInv, TypeOK, CountedExist
  <2>8. Total'
    BY <1>1, <2>1, Constants DEF Total
  <2> QED
    BY <1>2, <2>2, <2>4, <2>6, <2>7, <2>8 DEF IInv
<1>4. CASE index[cur] \notin old[cur]
  <2>1. UNCHANGED <<old, num, total>>
    BY <1>4 DEF Replace
  <2>2. TypeOK' /\ Added' /\ CountedExist'
    BY <1>1, <2>1 DEF IInv, TypeOK, Added, CountedExist
  <2>3. Room' /\ Total'
    BY <1>1, <1>4, <2>1 DEF Room, Total
  <2> QED
    BY <1>2, <2>2, <2>3 DEF IInv
<1> QED
  BY <1>3, <1>4

LEMMA RenameIInv == ASSUME IInv, Rename PROVE IInv'
<1>1. /\ at = "rename" /\ cur \in known /\ cur \in Logs /\ num[cur] \in Int /\ total \in Int
      /\ total < MaxFiles /\ index[cur] \in Slots /\ main[cur] \in Int
      /\ UNCHANGED <<up, scan, known, index, size, fd, opened, times>>
  BY DEF Rename, IInv, TypeOK, Where, Total
<1>2. CASE at' = "open" /\ UNCHANGED <<disk, num, total, cur>>
  <2>1. TypeOK' /\ Where' /\ Room' /\ CountedExist' /\ NoFdLost' /\ Added'
    BY <1>1, <1>2 DEF IInv, TypeOK, Where, Room, CountedExist, NoFdLost, Added, disk
  <2>2. Total'
    BY <1>1, <1>2, Constants DEF Total
  <2> QED
    BY <2>1, <2>2 DEF IInv
<1>3. CASE /\ main' = [main EXCEPT ![cur] = NoFile]
           /\ old' = [old EXCEPT ![cur] = @ \cup {index[cur]}]
           /\ num' = [num EXCEPT ![cur] = num[cur] + 1]
           /\ total' = total + 1 /\ at' = "open" /\ UNCHANGED cur
  <2>1. /\ Added' /\ num' \in [Logs -> Int] /\ total' \in Int
        /\ num'[cur] = num[cur] + 1 /\ \A k \in Logs \ {cur} : num'[k] = num[k]
    BY <1>1, <1>3, CountStep
  <2>2. /\ old' \in [Logs -> SUBSET Slots] /\ old'[cur] = old[cur] \cup {index[cur]}
        /\ \A k \in Logs \ {cur} : old'[k] = old[k]
    BY <1>1, <1>3 DEF IInv, TypeOK
  <2>3. main' \in [Logs -> Int]
    BY <1>1, <1>3 DEF IInv, TypeOK, NoFile
  <2>4. TypeOK'
    BY <1>1, <1>3, <2>1, <2>2, <2>3 DEF IInv, TypeOK
  <2>5. IsFiniteSet(old[cur]) /\ Cardinality(old[cur]) \in Nat /\ num[cur] <= Cardinality(old[cur]) + 1
    BY <1>1, OldFinite DEF IInv, CountedExist
  <2>6. num'[cur] <= Cardinality(old'[cur]) + 1
    <3>1. CASE index[cur] \in old[cur]
      <4>1. num[cur] <= Cardinality(old[cur])
        BY <1>1, <3>1 DEF IInv, Room
      <4>2. old'[cur] = old[cur]
        BY <2>2, <3>1
      <4> QED
        BY <1>1, <2>1, <2>5, <4>1, <4>2
    <3>2. CASE index[cur] \notin old[cur]
      <4> DEFINE S == old[cur]
                 x == index[cur]
      <4>1. IsFiniteSet(S) /\ x \notin S
        BY <2>5, <3>2
      <4> HIDE DEF S, x
      <4>2. Cardinality(S \cup {x}) = Cardinality(S) + 1
        BY <4>1, FS_AddElement
      <4>3. Cardinality(old'[cur]) = Cardinality(old[cur]) + 1
        BY <2>2, <4>2 DEF S, x
      <4> QED
        BY <1>1, <2>1, <2>5, <4>3
    <3> QED
      BY <3>1, <3>2
  <2>7. CountedExist'
    BY <1>1, <2>1, <2>2, <2>6 DEF IInv, TypeOK, CountedExist
  <2>8. Where' /\ Room' /\ NoFdLost'
    BY <1>1, <1>3 DEF IInv, Where, Room, NoFdLost
  <2>9. Total'
    BY <1>1, <1>3, Constants DEF Total
  <2> QED
    BY <2>1, <2>4, <2>7, <2>8, <2>9 DEF IInv
<1>4. CASE Failed
  <2>1. at' = "idle" /\ cur' = NoLog /\ UNCHANGED <<disk, struct, total, opened>>
    BY <1>4 DEF Failed
  <2>2. TypeOK' /\ Room' /\ CountedExist' /\ NoFdLost' /\ Added'
    BY <1>1, <2>1 DEF IInv, TypeOK, Room, CountedExist, NoFdLost, Added, disk, struct
  <2>3. Where' /\ Total'
    BY <1>1, <2>1, Constants DEF IInv, Where, Total, disk, struct
  <2> QED
    BY <2>2, <2>3 DEF IInv
<1> QED
  BY <1>2, <1>3, <1>4 DEF Rename

\* There are more descriptors than logs: when the one of the log that new_file()
\* runs for is closed, there is one to open its file at.
LEMMA SomeFdClosed ==
  ASSUME IInv, at = "open"
  PROVE  \E f \in Fds : opened[f] = "closed"
<1> SUFFICES ASSUME \A f \in Fds : opened[f] # "closed" PROVE FALSE
  OBVIOUS
<1>1. /\ cur \in Logs /\ \A f \in Fds : opened[f] # cur
      /\ \A f \in Fds : opened[f] = "other" => f = 0
      /\ \A f \in Fds : opened[f] \in Logs => fd[opened[f]] = f
      /\ \A f \in Fds : opened[f] \in Logs \cup {"other", "closed"}
  BY DEF IInv, TypeOK, Where, NoFdLost
\* The daemon's own descriptor takes the place of the log that has none.
<1> DEFINE g == [f \in Fds |-> IF opened[f] = "other" THEN cur ELSE opened[f]]
<1>2. g \in [Fds -> Logs]
  BY <1>1
<1>3. \A a, b \in Fds : g[a] = g[b] => a = b
  <2> TAKE a, b \in Fds
  <2> HAVE g[a] = g[b]
  <2>1. CASE opened[a] = "other"
    <3>1. g[a] = cur
      BY <2>1
    <3>2. opened[b] = "other"
      BY <1>1, <3>1
    <3> QED
      BY <1>1, <2>1, <3>2
  <2>2. CASE opened[a] # "other"
    <3>1. g[a] = opened[a] /\ opened[a] \in Logs /\ g[a] # cur
      BY <1>1, <2>2
    <3>2. opened[b] # "other"
      BY <3>1
    <3>3. g[b] = opened[b] /\ opened[b] \in Logs
      BY <1>1, <3>2
    <3> QED
      BY <1>1, <3>1, <3>3
  <2> QED
    BY <2>1, <2>2
<1>4. g \in Injection(Fds, Logs)
  BY <1>2, <1>3 DEF Injection, IsInjective
<1>5. IsFiniteSet(Fds) /\ Cardinality(Fds) = Cardinality(Logs) + 1
  <2> DEFINE n == Cardinality(Logs)
  <2>1. n \in Nat /\ Fds = 0..n
    BY Constants
  <2> HIDE DEF n
  <2>2. IsFiniteSet(0..n) /\ Cardinality(0..n) = IF 0 > n THEN 0 ELSE n - 0 + 1
    BY <2>1, FS_Interval
  <2>3. Cardinality(0..n) = n + 1
    BY <2>1, <2>2
  <2> QED
    BY <2>1, <2>2, <2>3 DEF n
<1> HIDE DEF g
<1>6. Cardinality(Fds) <= Cardinality(Logs)
  BY <1>4, Constants, FS_Injection
<1> QED
  BY <1>5, <1>6, Constants

LEMMA ReopenIInv == ASSUME IInv, Reopen PROVE IInv'
<1>1. /\ at = "open" /\ at' = "idle" /\ cur' = NoLog /\ cur \in known /\ cur \in Logs /\ up
      /\ \A f \in Fds : opened[f] # cur
      /\ UNCHANGED <<old, up, scan, known, num, total, times>>
  BY DEF Reopen, IInv, TypeOK, Where
<1>2. Room' /\ Total' /\ CountedExist' /\ Added'
  BY <1>1 DEF IInv, Room, Total, CountedExist, Added
<1>3. CASE UNCHANGED <<main, index, size, fd, opened>>
  <2>1. TypeOK' /\ Where' /\ NoFdLost'
    BY <1>1, <1>3 DEF IInv, TypeOK, Where, NoFdLost
  <2> QED
    BY <1>2, <2>1 DEF IInv
<1>4. CASE ~UNCHANGED <<main, index, size, fd, opened>>
  <2> DEFINE S == {g \in Fds : opened[g] = "closed"}
             f == Min(S)
             s == IF main[cur] = NoFile THEN 0 ELSE main[cur]
  <2>1. /\ main' = [main EXCEPT ![cur] = s]
        /\ opened' = [opened EXCEPT ![f] = cur]
        /\ fd' = [fd EXCEPT ![cur] = f]
        /\ index' = [index EXCEPT ![cur] = (index[cur] + 1) % (MaxLogs + 1)]
    BY <1>4 DEF Reopen
  <2>2. f \in S
    <3>1. S # {} /\ S \in SUBSET Nat
      BY <1>1, SomeFdClosed, Constants
    <3> HIDE DEF S
    <3> QED
      BY <3>1, MinNat
  <2>3. f \in Fds /\ opened[f] = "closed"
    BY <2>2
  <2>4. s \in Int
    BY <1>1 DEF IInv, TypeOK
  <2>5. (index[cur] + 1) % (MaxLogs + 1) \in Slots
    <3> DEFINE c == MaxLogs + 1
               t == index[cur]
    <3>1. c \in Nat /\ c > 0 /\ t \in 0..(c - 1)
      BY <1>1, Constants DEF IInv, TypeOK
    <3>2. Slots = 0..(c - 1)
      BY Constants
    <3> HIDE DEF c, t
    <3>3. (t + 1) % c = IF t + 1 < c THEN t + 1 ELSE 0
      BY <3>1, StepOfTimes
    <3>4. (t + 1) % c \in 0..(c - 1)
      BY <3>1, <3>3
    <3> QED
      BY <3>2, <3>4 DEF c, t
  <2> HIDE DEF f, s
  <2>6. TypeOK'
    <3>1. main' \in [Logs -> Int] /\ index' \in [Logs -> Slots] /\ fd' \in [Logs -> Fds]
      BY <2>1, <2>3, <2>4, <2>5 DEF IInv, TypeOK
    <3>2. opened' \in [Fds -> Logs \cup {"other", "closed"}]
      BY <1>1, <2>1, <2>3 DEF IInv, TypeOK
    <3> QED
      BY <1>1, <3>1, <3>2 DEF IInv, TypeOK
  <2>7. opened'[f] = cur /\ fd'[cur] = f /\ \A g \in Fds \ {f} : opened'[g] = opened[g]
    BY <1>1, <2>1, <2>3 DEF IInv, TypeOK
  <2>8. \A l \in Logs \ {cur} : fd'[l] = fd[l]
    BY <2>1 DEF IInv, TypeOK
  <2>9. NoFdLost'
    BY <1>1, <2>7, <2>8 DEF IInv, NoFdLost
  <2>10. Where'
    BY <1>1, <2>7, Constants DEF IInv, Where
  <2> QED
    BY <1>2, <2>6, <2>9, <2>10 DEF IInv
<1> QED
  BY <1>3, <1>4

LEMMA WriteIInv == ASSUME IInv, Write PROVE IInv'
<1>1. PICK l \in known :
        LET o == opened[fd[l]]
            s == Smaller(size[l] + 1, MaxSize)
        IN  /\ o # "closed"
            /\ main' = IF o = "other" THEN main
                       ELSE [main EXCEPT ![o] = Smaller(@ + 1, MaxSize)]
            /\ IF s >= MaxSize
               THEN /\ opened' = [opened EXCEPT ![fd[l]] = "closed"]
                    /\ cur' = l /\ at' = "clean" /\ times' = 0
               ELSE UNCHANGED <<opened, job>>
  BY DEF Write
<1>2. /\ up /\ at = "idle" /\ l \in Logs /\ fd[l] \in Fds
      /\ opened[fd[l]] \in Logs \cup {"other"}
      /\ UNCHANGED <<old, up, scan, known, num, index, fd, total>>
  BY <1>1 DEF Write, IInv, TypeOK
<1>3. main' \in [Logs -> Int]
  <2> DEFINE o == opened[fd[l]]
  <2>1. CASE o = "other"
    BY <1>1, <2>1 DEF IInv, TypeOK
  <2>2. CASE o # "other"
    <3>1. o \in Logs /\ main[o] + 1 \in Int /\ MaxSize \in Int
      BY <1>2, <2>2, LogFileAssumption DEF IInv, TypeOK
    <3>2. Smaller(main[o] + 1, MaxSize) \in Int
      BY <3>1 DEF Smaller
    <3>3. main' = [main EXCEPT ![o] = Smaller(main[o] + 1, MaxSize)]
      BY <1>1, <2>2
    <3> QED
      BY <3>2, <3>3 DEF IInv, TypeOK
  <2> QED
    BY <2>1, <2>2
<1>4. CountedExist' /\ Added'
  BY <1>2 DEF IInv, CountedExist, Added
<1>5. CASE UNCHANGED <<opened, job>>
  BY <1>2, <1>3, <1>4, <1>5 DEF IInv, TypeOK, Where, Room, Total, NoFdLost, job
<1>6. CASE /\ opened' = [opened EXCEPT ![fd[l]] = "closed"]
           /\ cur' = l /\ at' = "clean" /\ times' = 0
  <2>1. opened'[fd[l]] = "closed" /\ \A f \in Fds \ {fd[l]} : opened'[f] = opened[f]
    BY <1>2, <1>6 DEF IInv, TypeOK
  <2>2. opened' \in [Fds -> Logs \cup {"other", "closed"}]
    BY <1>6 DEF IInv, TypeOK
  <2>3. TypeOK'
    <3>1. 0 \in 0..(CleanStep - 1)
      BY Constants
    <3>2. /\ cur' \in Logs \cup {NoLog} /\ times' \in 0..(CleanStep - 1)
          /\ at' \in {"idle", "clean", "replace", "rename", "open"}
      BY <1>2, <1>6, <3>1
    <3>3. /\ old' \in [Logs -> SUBSET Slots] /\ up' \in BOOLEAN /\ scan' \subseteq Logs
          /\ known' \subseteq Logs /\ num' \in [Logs -> Int] /\ index' \in [Logs -> Slots]
          /\ fd' \in [Logs -> Fds] /\ total' \in Int
      BY <1>2 DEF IInv, TypeOK
    <3> QED
      BY <1>3, <2>2, <3>2, <3>3 DEF TypeOK
  \* The descriptor that was closed is the only one of l.
  <2>4. \A f \in Fds : opened'[f] # l
    BY <1>2, <2>1, Constants DEF IInv, NoFdLost
  <2>5. Where'
    BY <1>1, <1>2, <1>6, <2>1, <2>4 DEF IInv, Where
  <2>6. NoFdLost'
    BY <1>2, <2>1, Constants DEF IInv, NoFdLost
  <2>7. Room' /\ Total'
    BY <1>6 DEF Room, Total
  <2> QED
    BY <1>4, <2>3, <2>5, <2>6, <2>7 DEF IInv
<1> QED
  BY <1>1, <1>5, <1>6

LEMMA NextIInv == IInv /\ [Next]_vars => IInv'
<1> SUFFICES ASSUME IInv, [Next]_vars PROVE IInv'
  OBVIOUS
<1>1. CASE Scan
  <2>1. PICK l \in scan : NewLog(l) /\ scan' = scan \ {l}
    BY <1>1 DEF Scan
  <2>2. l \in Logs \ known /\ up /\ at = "idle" /\ scan' \subseteq scan \ {l}
    BY <1>1, <2>1 DEF Scan, IInv, TypeOK, Where
  <2> QED
    BY <2>1, <2>2, NewLogIInv
<1>2. CASE Open
  <2>1. PICK l \in Logs \ known : NewLog(l) /\ UNCHANGED scan
    BY <1>2 DEF Open
  <2>2. up /\ at = "idle" /\ scan' \subseteq scan \ {l}
    BY <1>2, <2>1 DEF Open
  <2> QED
    BY <2>1, <2>2, NewLogIInv
<1>3. CASE UNCHANGED vars
  BY <1>3 DEF IInv, TypeOK, Where, Room, Total, Added, CountedExist, NoFdLost,
              vars, disk, struct, job
<1> QED
  BY <1>1, <1>2, <1>3, StartIInv, CrashIInv, WriteIInv, CleanIInv, CleanedIInv, ReplaceIInv,
     RenameIInv, ReopenIInv DEF Next, NewFile

\* The invariant of every behaviour: where a rotation has got to, what the total
\* is there, and what it is the sum of.
THEOREM Invariance == Spec => []IInv
<1>1. Init => IInv
  BY InitIInv
<1>2. IInv /\ [Next]_vars => IInv'
  BY NextIInv
<1> QED
  BY <1>1, <1>2, PTL DEF Spec

-----------------------------------------------------------------------------
(* The properties *)

LEMMA SumIs == TypeOK => Sum = SumOf(known, num)
<1> SUFFICES ASSUME TypeOK PROVE Sum = SumOf(known, num)
  OBVIOUS
<1>1. num \in [Logs -> Int]
  BY DEF TypeOK
<1>2. Negated(num) \in [Logs -> Int] /\ Negated(num) = [l \in Logs |-> -num[l]]
  BY <1>1 DEF Negated
<1>3. Pairs(num) = PairsOf(known, num) /\ Pairs(Negated(num)) = PairsOf(known, Negated(num))
  BY <1>1, <1>2, PairsArePairsOf
<1> QED
  BY <1>2, <1>3 DEF Sum, SumOf

\* After every call that failed, every death and in the middle of every rotation
\* lfctx.num is the sum of the logs' counts, no log counts a file that is not
\* there and no descriptor is lost (new_file(), new_log()).
THEOREM BooksStayRight == Spec => []BooksRight
<1>1. IInv => BooksRight
  BY SumIs DEF IInv, Added, BooksRight
<1> QED
  BY <1>1, Invariance, PTL

\* The clean-up is called for with more than two files per log; then the largest
\* log has an archive from 1 on.
LEMMA ArchiveThere ==
  ASSUME IInv, total > 2 * Cardinality(Logs)
  PROVE  Largest # {} /\ \A l \in Largest : Archives(l) # {}
<1>1. /\ IsFiniteSet(known) /\ known \subseteq Logs /\ num \in [Logs -> Int]
      /\ total = SumOf(known, num) /\ total \in Int
  BY KnownFinite DEF IInv, TypeOK, Added
<1>2. PICK m \in known : num[m] >= 3
  <2> SUFFICES ASSUME \A l \in known : ~(num[l] >= 3) PROVE FALSE
    OBVIOUS
  <2> DEFINE P == PairsOf(known, num)
             Q == PairsOf(known, Negated(num))
  <2>1. Negated(num) \in [Logs -> Int]
    BY <1>1 DEF Negated
  <2>2. Cardinality(P) \in Nat /\ Cardinality(Q) \in Nat
    BY <1>1, <2>1, PairsFinite
  <2>3. P \subseteq Logs \X (1..2)
    <3>1. ASSUME NEW p \in P PROVE p \in Logs \X (1..2)
      <4>1. p[1] \in known /\ p = <<p[1], p[2]>> /\ p[2] \in 1..num[p[1]]
        BY DEF PairsOf
      <4>2. num[p[1]] \in Int /\ ~(num[p[1]] >= 3)
        BY <1>1, <4>1
      <4>3. p[2] \in 1..2
        BY <4>1, <4>2
      <4> QED
        BY <1>1, <4>1, <4>3
    <3> QED
      BY <3>1
  <2>4. IsFiniteSet(Logs \X (1..2)) /\ Cardinality(Logs \X (1..2)) = Cardinality(Logs) * 2
    <3>1. IsFiniteSet(1..2) /\ Cardinality(1..2) = 2
      <4> DEFINE n == 2
      <4>1. n \in Nat /\ 1 \in Int
        OBVIOUS
      <4> HIDE DEF n
      <4>2. IsFiniteSet(1..n) /\ Cardinality(1..n) = IF 1 > n THEN 0 ELSE n - 1 + 1
        BY <4>1, FS_Interval
      <4> QED
        BY <4>2 DEF n
    <3> QED
      BY <3>1, Constants, FS_Product
  <2> HIDE DEF P, Q
  <2>5. Cardinality(P) <= Cardinality(Logs) * 2
    BY <2>3, <2>4, FS_Subset
  <2>6. total = Cardinality(P) - Cardinality(Q)
    BY <1>1 DEF SumOf, P, Q
  <2> QED
    BY <2>2, <2>5, <2>6, Constants
<1>3. \A l \in known : num[l] <= MaxLogs + 2
  <2> TAKE l \in known
  <2> DEFINE n == MaxLogs
  <2>1. l \in Logs /\ num[l] <= Cardinality(old[l]) + 1 /\ num[l] \in Int
    BY <1>1 DEF IInv, CountedExist
  <2>2. old[l] \subseteq 0..n /\ Cardinality(old[l]) \in Nat /\ n \in Nat
    BY <2>1, OldFinite, Constants DEF IInv
  <2> HIDE DEF n
  <2>3. IsFiniteSet(0..n) /\ Cardinality(0..n) = n + 1
    <3>1. IsFiniteSet(0..n) /\ Cardinality(0..n) = IF 0 > n THEN 0 ELSE n - 0 + 1
      BY <2>2, FS_Interval, SMTT(30)
    <3> QED
      BY <2>2, <3>1
  <2>4. Cardinality(old[l]) <= n + 1
    BY <2>2, <2>3, FS_Subset
  <2> QED
    BY <2>1, <2>2, <2>4 DEF n
<1>4. PICK l \in known : \A k \in known : num[k] <= num[l]
  <2> DEFINE S == {num[k] : k \in known}
             b == MaxLogs + 2
  <2>1. S \in SUBSET Int /\ S # {} /\ b \in Int /\ \A x \in S : x <= b
    BY <1>1, <1>2, <1>3, Constants
  <2>2. \E x \in S : \A y \in S : y <= x
    <3> HIDE DEF S, b
    <3> QED
      BY <2>1, LargestInt
  <2> QED
    BY <2>2
<1>5. Largest # {}
  <2>1. num[l] > 0
    BY <1>1, <1>2, <1>4
  <2> QED
    BY <1>4, <2>1 DEF Largest
<1>6. ASSUME NEW k \in Largest, Archives(k) = {} PROVE FALSE
  <2>1. k \in known /\ k \in Logs /\ num[k] \in Int /\ num[m] <= num[k] /\ num[m] \in Int
    BY <1>1 DEF Largest
  <2>2. num[k] >= 3
    BY <1>2, <2>1
  <2>3. num[k] <= Cardinality(old[k]) + 1 /\ Cardinality(old[k]) \in Nat /\ old[k] \subseteq Slots
    BY <2>1, OldFinite DEF IInv, CountedExist
  <2>4. old[k] \subseteq {0}
    BY <1>6, <2>3, Constants DEF Archives
  <2>5. Cardinality(old[k]) <= 1
    <3> DEFINE S == {0}
    <3>1. IsFiniteSet(S) /\ Cardinality(S) = 1 /\ old[k] \in SUBSET S
      BY <2>4, FS_Singleton
    <3> HIDE DEF S
    <3> QED
      BY <3>1, FS_Subset
  <2> QED
    BY <2>1, <2>2, <2>3, <2>5
<1> QED
  BY <1>5, <1>6

\* As long as there is room for two files per log, the clean-up of new_file()
\* always finds an archive to remove, and after it, whatever a start has found on
\* disk, the total is within MAX_LOGFILES.
THEOREM CleanupAlwaysWorks ==
  ASSUME 2 * Cardinality(Logs) <= MaxFiles - CleanStep
  PROVE  Spec => []CleanupWorks
<1>1. ASSUME IInv, Cleaning PROVE total > 2 * Cardinality(Logs)
  <2>1. total \in Int /\ times \in 0..(CleanStep - 1)
    BY <1>1 DEF IInv, TypeOK
  <2>2. total >= MaxFiles - times
    BY <1>1, <2>1, Constants DEF IInv, Total, Cleaning
  <2> QED
    BY <2>1, <2>2, Constants
<1>2. IInv => CleanupWorks
  BY <1>1, ArchiveThere DEF IInv, Total, CleanupWorks
<1> QED
  BY <1>2, Invariance, PTL
=============================================================================

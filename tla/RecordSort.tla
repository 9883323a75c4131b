----------------------------- MODULE RecordSort -----------------------------
(***************************************************************************)
(* quick_sort() of src/record/record.c: an array of records is partitioned *)
(* down to short segments, with a stack of its own for the segments to do, *)
(* and an insertion sort over the whole array finishes it.  One step is    *)
(* one exchange of the partition or one insertion.                         *)
(***************************************************************************)
EXTENDS Integers, Sequences, FiniteSets, FiniteSetsExt

CONSTANTS
  Ids,      \* the records
  M         \* segments no longer than M + 1 are left to the insertion sort, 9

VARIABLES
  date,     \* the key of every record
  arr,      \* records[0..n-1]
  l, r,     \* the segment that is partitioned
  i, j, k,  \* the locals of the scans; k is the pivot
  stack,    \* segments to do, the last pushed first
  pc        \* "segment", "scan", "insert", or a step of the caller

sortVars == <<arr, l, r, i, j, k, stack, pc>>

n == Cardinality(DOMAIN arr)
Mid == (l + r) \div 2

\* Line 607.
BeginSort(a) ==
  /\ arr' = a
  /\ l' = 0 /\ r' = Cardinality(DOMAIN a) - 1
  /\ stack' = <<>>
  /\ pc' = "segment"
  /\ UNCHANGED <<i, j, k>>

BeginScan(first, last) ==
  /\ l' = first /\ r' = last
  /\ k' = arr[(first + last) \div 2]
  /\ i' = first - 1 /\ j' = last + 1
  /\ pc' = "scan"

BeginInsert == j' = 1 /\ pc' = "insert" /\ UNCHANGED <<l, r, i, k>>

\* Lines 608-611: a short segment is dropped for the next one on the stack.
Segment ==
  /\ pc = "segment"
  /\ \/ r - l >= M /\ BeginScan(l, r) /\ UNCHANGED stack
     \/ r - l < M /\ stack # <<>>
        /\ BeginScan(stack[1][1], stack[1][2]) /\ stack' = Tail(stack)
     \/ r - l < M /\ stack = <<>> /\ BeginInsert /\ UNCHANGED stack
  /\ UNCHANGED arr

\* Lines 613-614: where the two scans stop.
ScanUp == Min({x \in (i + 1)..r : x = r \/ date[arr[x]] >= date[k]})
ScanDown == Max({x \in l..(j - 1) : x = l \/ date[arr[x]] <= date[k]})

Swapped(x, y) == [arr EXCEPT ![x] = arr[y], ![y] = arr[x]]

Exchange ==
  /\ pc = "scan"
  /\ ScanUp < ScanDown
  /\ i' = ScanUp /\ j' = ScanDown
  /\ arr' = Swapped(ScanUp, ScanDown)
  /\ UNCHANGED <<l, r, k, stack, pc>>

Push(first, last) == IF first < last THEN <<<<first, last>>>> \o stack ELSE stack

\* Lines 622-641: the pivot's place is exchanged, long parts are partitioned.
Split ==
  /\ pc = "scan"
  /\ ScanUp >= ScanDown
  /\ arr' = Swapped(ScanDown, Mid)
  /\ LET m == ScanDown
         long(x) == x > M
     IN  \/ /\ long(r - m) /\ long(m - l)
            /\ stack' = Push(m + 1, r) /\ r' = m - 1 /\ UNCHANGED l
         \/ /\ long(r - m) /\ ~long(m - l)
            /\ l' = m + 1 /\ UNCHANGED <<r, stack>>
         \/ /\ ~long(r - m) /\ long(m - l)
            /\ stack' = Push(l, m - 1) /\ l' = m + 1 /\ UNCHANGED r
         \/ /\ ~long(r - m) /\ ~long(m - l) /\ stack # <<>>
            /\ l' = stack[1][1] /\ r' = stack[1][2] /\ stack' = Tail(stack)
  /\ pc' = "segment"
  /\ i' = ScanUp /\ j' = ScanDown /\ UNCHANGED k

SplitLast ==
  /\ pc = "scan"
  /\ ScanUp >= ScanDown
  /\ ~(r - ScanDown > M) /\ ~(ScanDown - l > M) /\ stack = <<>>
  /\ arr' = Swapped(ScanDown, Mid)
  /\ BeginInsert /\ UNCHANGED stack

\* Lines 645-653: records[j] moves down behind the last one that is not greater.
InsertNext ==
  /\ pc = "insert" /\ j < n
  /\ LET x == Min({y \in 0..j : \A z \in y..(j - 1) : date[arr[z]] > date[arr[j]]})
     IN  arr' = [y \in DOMAIN arr |-> IF y \in (x + 1)..j THEN arr[y - 1]
                                      ELSE IF y = x THEN arr[j] ELSE arr[y]]
  /\ j' = j + 1
  /\ UNCHANGED <<l, r, i, k, stack, pc>>

\* Mutant: the loop of the insertion sort ends one record early.
EndSortEarly ==
  /\ pc = "insert" /\ j >= n - 1
  /\ pc' = "sorted"
  /\ l' = 0 /\ r' = 0 /\ i' = 0 /\ j' = 0
  /\ UNCHANGED <<arr, k, stack>>

EndSort ==
  /\ pc = "insert" /\ j >= n
  /\ pc' = "sorted"
  /\ l' = 0 /\ r' = 0 /\ i' = 0 /\ j' = 0
  /\ UNCHANGED <<arr, k, stack>>

SortStep == Segment \/ Exchange \/ Split \/ SplitLast \/ InsertNext \/ EndSort
=============================================================================

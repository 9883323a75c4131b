------------------------------- MODULE Record -------------------------------
(***************************************************************************)
(* The record viewer of src/record/record.c: it reads the rows of an SQL   *)
(* dump into a list, sorts the list by date, throws out what is no         *)
(* heartbeat, hashes the rest by uid and then answers questions: all the   *)
(* records of a uid, by date.  Any call of malloc() may fail, and the      *)
(* column the list is sorted by may be missing.                            *)
(***************************************************************************)
EXTENDS RecordSort, SequencesExt

CONSTANTS
  Uids,     \* the uids of the devices
  Dates,    \* seconds
  Hash,     \* hashfn(): two characters of the uid, 0..H-1
  H,        \* RECORD_HASH_SIZE, 128
  None,     \* no record, no uid
  MaxAsk,   \* bound: questions asked
  Faults    \* "open", "title", "row", "memory", "column"

VARIABLES
  uid,      \* what the dump says of every row: its uid,
  heartbeat,\* and whether exclude_none_HBP() accepts it
  file,     \* rows not read yet
  read,     \* rows that became records
  records,  \* rctx->records
  table,    \* rctx->uid: the records of every bucket
  asked,    \* the uid that is searched for, None while the file is loaded
  answer,   \* head: what the search found; at the end, what is dumped
  asks,     \* questions so far
  unsorted  \* a sort failed: the order of the list is not to be relied on

dataVars == <<uid, date, heartbeat>>
vars == <<dataVars, sortVars, file, read, records, table, asked, answer, asks, unsorted>>

Buckets == 0..(2 * H - 1)

Init ==
  /\ uid \in [Ids -> Uids] /\ heartbeat \in [Ids -> BOOLEAN] /\ date \in [Ids -> Dates]
  /\ file = SetToSeq(Ids)
  /\ read = {} /\ records = <<>> /\ table = [b \in Buckets |-> <<>>]
  /\ asked = None /\ answer = <<>> /\ asks = 0 /\ unsorted = FALSE
  /\ arr = <<>> /\ l = 0 /\ r = 0 /\ i = 0 /\ j = 0 /\ k = None /\ stack = <<>>
  /\ pc = "open"

Rest == <<dataVars, arr, l, r, i, j, k, stack>>

\* init_io_context() maps the file; without it there is nothing to do.
OpenFile ==
  /\ pc = "open"
  /\ \/ pc' = "title"
     \/ Faults \cap {"open", "memory"} # {} /\ pc' = "end"
  /\ UNCHANGED <<Rest, file, read, records, table, asked, answer, asks, unsorted>>

\* read_talbe_title(): no table or no column ends the program.
ReadTitle ==
  /\ pc = "title"
  /\ \/ pc' = "read"
     \/ "title" \in Faults /\ pc' = "end"
  /\ UNCHANGED <<Rest, file, read, records, table, asked, answer, asks, unsorted>>

NewRecord(x) == read' = read \cup {x} /\ records' = Append(records, x)

\* One row of an INSERT; one whose uid cannot be read is thrown out.
ReadRow ==
  /\ pc = "read" /\ file # <<>>
  /\ file' = Tail(file)
  /\ \/ NewRecord(Head(file))
     \/ "row" \in Faults /\ UNCHANGED <<read, records>>
  /\ UNCHANGED <<Rest, pc, table, asked, answer, asks, unsorted>>

\* The end of the file, or no memory for a record, which main() does not look at.
ReadEnds ==
  /\ pc = "read"
  /\ file = <<>> \/ "memory" \in Faults
  /\ file' = <<>>
  /\ pc' = "sort"
  /\ UNCHANGED <<Rest, read, records, table, asked, answer, asks, unsorted>>

\* sort_record_by() works on the list of the file, then on those of the answers.
List == IF asked = None THEN records ELSE answer
Done == IF asked = None THEN "filter" ELSE "dump"

StartSort ==
  /\ pc = "sort" /\ List # <<>>
  /\ BeginSort([x \in 0..(Len(List) - 1) |-> List[x + 1]])
  /\ UNCHANGED <<dataVars, file, read, records, table, asked, answer, asks, unsorted>>

\* Nothing to sort, no such column, no memory: the list stays as it is.
NoSort ==
  /\ pc = "sort"
  /\ List = <<>> \/ Faults \cap {"column", "memory"} # {}
  /\ unsorted' = (unsorted \/ List # <<>>)
  /\ pc' = Done
  /\ UNCHANGED <<Rest, file, read, records, table, asked, answer, asks>>

WriteBack ==
  /\ pc = "sorted"
  /\ LET list == [x \in 1..n |-> arr[x - 1]]
     IN  IF asked = None THEN records' = list /\ UNCHANGED answer
                         ELSE answer' = list /\ UNCHANGED records
  /\ arr' = <<>> /\ k' = None
  /\ pc' = Done
  /\ UNCHANGED <<dataVars, l, r, i, j, stack, file, read, table, asked, asks, unsorted>>

Sort ==
  SortStep /\ UNCHANGED <<dataVars, file, read, records, table, asked, answer, asks, unsorted>>

\* The records of a list that are in a set, in their order.
Kept(list, set) ==
  LET places == {x \in DOMAIN list : list[x] \in set}
      Rank(x) == Cardinality({y \in places : y <= x})
  IN  [m \in 1..Cardinality(places) |-> list[CHOOSE x \in places : Rank(x) = m]]

\* filter_record(exclude_none_HBP) frees the others.
Filter ==
  /\ pc = "filter"
  /\ records' = Kept(records, {x \in Ids : heartbeat[x]})
  /\ file' = records'
  /\ pc' = "hash"
  /\ UNCHANGED <<Rest, read, table, asked, answer, asks, unsorted>>

\* is_same_uid(head, uid, empty)
SameUid(b, u, empty) == IF table[b] = <<>> THEN empty ELSE uid[table[b][1]] = u

\* The order in which the buckets are tried for a uid.
Probes(u) ==
  <<Hash[u], Hash[u] + H>> \o [x \in 1..H |-> H + x - 1] \o [x \in 1..H |-> x - 1]

\* make_uid_hashtable(), the record at pos; the second bound of the code is not
\* that of its loop: a record that found no bucket stays in the list, unhashed.
HashNext ==
  /\ pc = "hash" /\ file # <<>>
  /\ LET x == Head(file)
         u == uid[x]
         free == {p \in DOMAIN Probes(u) : SameUid(Probes(u)[p], u, TRUE)}
     IN  IF free = {} THEN UNCHANGED table
         ELSE table' = [table EXCEPT ![Probes(u)[Min(free)]] = <<x>> \o @]
  /\ file' = Tail(file)
  /\ UNCHANGED <<Rest, pc, read, records, asked, answer, asks, unsorted>>

HashEnds ==
  /\ pc = "hash" /\ file = <<>>
  /\ pc' = "ask"
  /\ UNCHANGED <<Rest, file, read, records, table, asked, answer, asks, unsorted>>

\* Mutant: only the two buckets of the hash are searched.
SearchTwo(u) == <<Hash[u], Hash[u] + H>>

\* search_uid(): the records of the first bucket of that uid move to the answer.
SearchOrder(u) == <<Hash[u], Hash[u] + H>> \o [x \in 1..(2 * H) |-> x - 1]

Search(u) ==
  /\ pc = "ask" /\ asks < MaxAsk
  /\ LET hits == {p \in DOMAIN SearchOrder(u) : SameUid(SearchOrder(u)[p], u, FALSE)}
     IN  answer' = IF hits = {} THEN <<>> ELSE table[SearchOrder(u)[Min(hits)]]
  /\ records' = Kept(records, Ids \ ToSet(answer'))
  /\ asked' = u /\ asks' = asks + 1
  /\ unsorted' = FALSE
  /\ pc' = IF answer' = <<>> THEN "dump" ELSE "sort"
  /\ UNCHANGED <<Rest, file, read, table>>

\* dump_records(), then the records go back to the list.
Dump ==
  /\ pc = "dump"
  /\ records' = records \o answer
  /\ pc' = "ask"
  /\ answer' = <<>>
  /\ UNCHANGED <<Rest, file, read, table, asked, asks, unsorted>>

\* free_record_context() goes through the table; a record without a bucket is lost.
FreeContext ==
  /\ table' = [b \in Buckets |-> <<>>]
  /\ records' = Kept(records, Ids \ UNION {ToSet(table[b]) : b \in Buckets})

Exit ==
  /\ pc = "ask"
  /\ FreeContext
  /\ pc' = "end"
  /\ UNCHANGED <<Rest, file, read, asked, answer, asks, unsorted>>

Next ==
  \/ OpenFile \/ ReadTitle \/ ReadRow \/ ReadEnds
  \/ StartSort \/ Sort \/ NoSort \/ WriteBack
  \/ Filter \/ HashNext \/ HashEnds
  \/ (\E u \in Uids : Search(u)) \/ Dump \/ Exit

Spec == Init /\ [][Next]_vars

-----------------------------------------------------------------------------
(* Properties *)

\* quick_sort(): when it is done the array holds the same records in the order
\* of their dates, whatever its partition did, and the stack of segments, which
\* has room for n of them, never needs more.
Sorted ==
  /\ pc \in {"segment", "scan", "insert"} => Len(stack) <= n
  /\ pc = "sorted" =>
       /\ {arr[x] : x \in DOMAIN arr} = ToSet(List) /\ n = Len(List)
       /\ \A x, y \in DOMAIN arr : x < y => date[arr[x]] <= date[arr[y]]

\* What is dumped for a uid is every heartbeat of that uid that was read, once,
\* by date unless a sort failed, as long as the table has a bucket for every uid.
AnswersAll ==
  LET kept == {x \in read : heartbeat[x]}
  IN  pc = "dump" /\ Cardinality({uid[x] : x \in kept}) <= 2 * H =>
        /\ ToSet(answer) = {x \in kept : uid[x] = asked}
        /\ IsInjective(answer)
        /\ unsorted \/ \A x, y \in DOMAIN answer : x < y => date[answer[x]] <= date[answer[y]]
=============================================================================

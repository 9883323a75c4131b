------------------------------- MODULE Track -------------------------------
(***************************************************************************)
(* src/track: counts the connections of the devices of one type in a dump  *)
(* of the table of connections, and writes them as a csv file.             *)
(*                                                                         *)
(* A column is one of the kinds read_element() (sql.cpp) tells apart:      *)
(* "char" and "varchar" as "char", the integer types as "int", "text",     *)
(* "binary", or a type that element_types[] has not ("other").  The uid is *)
(* in the first column, the type of the connection in column TypeCol.      *)
(***************************************************************************)
EXTENDS Integers, Sequences, FiniteSets

CONSTANTS
  TypeCol,  \* 12 in the code: elist[11]
  Go,       \* TRACK_DEVICE_TYPE_GO
  Types,    \* what the type of a connection can be read as
  Faults    \* "devices", "log", "title", "create", "write"

VARIABLES
  lines,    \* device_type_lib.json: the uid and the type of each line
  columns,  \* the kinds of the columns of the table
  rows,     \* its rows: uid, type, and whether the texts are empty
  near,     \* of them at the end of the file, nearer than a declared size
  step,     \* "devices", "title", "rows", "create", "output", "done", "failed"
  lmap,     \* devices to be counted
  elist,    \* the columns that were recognised
  at,       \* rows behind buf
  result,   \* of the uids met: the connections of each type, and the others
  csv,      \* uids written
  total     \* success[] and fails of output_conn_status_csv()

file == <<lines, columns, rows, near>>
vars == <<file, step, lmap, elist, at, result, csv, total>>

Zero == [success |-> [t \in 0..2 |-> 0], failed |-> 0]

\* Nothing is said of the files here.
Init ==
  /\ step = "devices"
  /\ lmap = {} /\ elist = {} /\ at = 0
  /\ result = [u \in {} |-> Zero] /\ csv = {} /\ total = Zero

Fail == step' = "failed" /\ UNCHANGED <<file, lmap, elist, at, result, csv, total>>

\* parse_device_type(); a type above 10 is none.
Devices ==
  /\ step = "devices"
  /\ lmap' = {lines[i].uid : i \in {j \in DOMAIN lines : lines[j].type = Go}}
  /\ step' = "title"
  /\ UNCHANGED <<file, elist, at, result, csv, total>>

\* sql_read_talbe_title() and sql_preinit_record(): a column of another type
\* is left out, as if the rows had no such field.
Title ==
  /\ step = "title"
  /\ elist' = {k \in DOMAIN columns : columns[k] # "other"}
  /\ step' = IF elist' = {} THEN "failed" ELSE "rows"
  /\ UNCHANGED <<file, lmap, at, result, csv, total>>

-----------------------------------------------------------------------------
(* parse_conn_log() *)

\* The fields of the row are read where they are up to column n: all columns
\* are known, and no text has a character (with the buffer of preinit its
\* length is taken for 0, lines 199-214 of sql.cpp, and ptr stops in it).
InStep(r, n) ==
  \A i \in 1..n : i \in DOMAIN columns =>
    /\ columns[i] # "other"
    /\ columns[i] = "text" => r.empty

\* read_element() gives -1: near the end of the file or at a binary column.
Unreadable(i) ==
  \/ i > Len(rows) - near
  \/ \E k \in elist : columns[k] = "binary"

\* elist[11]: 0 if there are not as many columns, anything once out of step.
TypeRead(r) ==
  IF Cardinality(elist) < TypeCol THEN {0}
  ELSE IF InStep(r, TypeCol) THEN {r.type} ELSE Types

\* Mutant: the status of a uid seen before is set, not counted up.
CountOnce(status, type) ==
  IF type \in 0..2 THEN [status EXCEPT !.success[type] = 1]
  ELSE [status EXCEPT !.failed = @ + 1]

\* Lines 123-127 and 133-137.  success[3] is failed: the array ends before it.
Count(status, type) ==
  IF type \in 0..2 THEN [status EXCEPT !.success[type] = @ + 1]
  ELSE [status EXCEPT !.failed = @ + 1]

StatusOf(u) == IF u \in DOMAIN result THEN result[u] ELSE Zero
WithStatus(u, s) ==
  [v \in DOMAIN result \cup {u} |-> IF v = u THEN s ELSE result[v]]

\* One round of lines 105-140.  Out of step, the end of the row may be missed
\* and later rows with it.
Row ==
  /\ step = "rows"
  /\ at < Len(rows) /\ ~Unreadable(at + 1)
  /\ LET r == rows[at + 1]
     IN  /\ IF InStep(r, Len(columns)) THEN at' = at + 1
            ELSE at' \in (at + 1)..Len(rows)
         /\ \E type \in TypeRead(r) :
              result' = IF r.uid \in lmap
                        THEN WithStatus(r.uid, Count(StatusOf(r.uid), type))
                        ELSE result
  /\ UNCHANGED <<file, step, lmap, elist, csv, total>>

\* Line 109: the first row that cannot be read ends it.
EndOfRows ==
  /\ step = "rows"
  /\ at < Len(rows) => Unreadable(at + 1)
  /\ step' = "create"
  /\ UNCHANGED <<file, lmap, elist, at, result, csv, total>>

-----------------------------------------------------------------------------
(* output_conn_status_csv() *)

Create ==
  /\ step = "create"
  /\ step' = "output"
  /\ UNCHANGED <<file, lmap, elist, at, result, csv, total>>

Add(a, b) == [success |-> [t \in 0..2 |-> a.success[t] + b.success[t]],
              failed |-> a.failed + b.failed]

\* The line of a uid, in any order.
Output(u) ==
  /\ step = "output"
  /\ u \in DOMAIN result \ csv
  /\ csv' = csv \cup {u}
  /\ total' = Add(total, result[u])
  /\ UNCHANGED <<file, step, lmap, elist, at, result>>

OutputTotal ==
  /\ step = "output"
  /\ csv = DOMAIN result
  /\ step' = "done"
  /\ UNCHANGED <<file, lmap, elist, at, result, csv, total>>

\* A call that fails where the program is.
Fault(where, calls) == step = where /\ calls \cap Faults # {} /\ Fail

Next ==
  \/ Devices \/ Title \/ Row \/ EndOfRows \/ Create
  \/ (\E u \in DOMAIN result : Output(u)) \/ OutputTotal
  \/ Fault("devices", {"devices"}) \/ Fault("title", {"log", "title"})
  \/ Fault("create", {"create"}) \/ Fault("output", {"write"})

-----------------------------------------------------------------------------
(* properties *)

\* What conn_log.h says the counts are, of the first n rows.
RowsOf(u, n) == {i \in 1..n : rows[i].uid = u}
Expected(u, n) ==
  [success |-> [t \in 0..2 |-> Cardinality({i \in RowsOf(u, n) : rows[i].type = t})],
   failed |-> Cardinality({i \in RowsOf(u, n) : rows[i].type \notin 0..2})]
Sums(us, n) ==
  LET theirs == {i \in 1..n : rows[i].uid \in us}
  IN  [success |-> [t \in 0..2 |-> Cardinality({i \in theirs : rows[i].type = t})],
       failed |-> Cardinality({i \in theirs : rows[i].type \notin 0..2})]

\* A table as the program expects it: the columns it can read, the type in its
\* place, texts empty.
Expectable ==
  /\ Len(columns) >= TypeCol
  /\ columns[TypeCol] = "int"
  /\ \A i \in DOMAIN columns : columns[i] \in {"char", "int", "text"}
  /\ \A i \in DOMAIN rows : rows[i].empty

(***************************************************************************)
(* For a table the program can read, every device of the type asked for is *)
(* counted right from its first row on (lines 119-138): local, p2p, relay, *)
(* and all others as failed, type 3 among them, which is written past the  *)
(* array; devices of other types never.  The csv file has each uid once    *)
(* and the sums; only rows near the end of the file may be missing.        *)
(***************************************************************************)
CountsRight == Expectable /\ step \notin {"devices", "title", "failed"} =>
  /\ DOMAIN result = {u \in lmap : RowsOf(u, at) # {}}
  /\ \A u \in DOMAIN result : result[u] = Expected(u, at)
  /\ step = "done" =>
       /\ at = Len(rows) - near
       /\ csv = DOMAIN result
       /\ total = Sums(csv, at)
=============================================================================

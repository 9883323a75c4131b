------------------------------ MODULE FromBin ------------------------------
(***************************************************************************)
(* src/tools/frombin.c: writes the bytes of a file as a C array.  A file   *)
(* is a sequence of units: "\n", ",", "{" of one character each, the rest  *)
(* of the first line, a byte in hex, or "};".                              *)
(***************************************************************************)
EXTENDS Integers, Sequences, FiniteSets

CONSTANTS
  LineSize,  \* LINE_SIZE
  BufSize    \* sizeof(bin_buf)

VARIABLES
  input,   \* the bytes of the input file
  taken,   \* how many read() has taken
  chunk,   \* unread part of bin_buf: ptr .. ptr + ret
  todo,    \* write_all(): buf .. buf + left
  out,     \* the output file
  step,    \* "read", "end" (behind the loop), "done", "failed"
  cut      \* read() has failed: the program ends the array there

vars == <<input, taken, chunk, todo, out, step, cut>>

Opening == <<"static unsigned char chinese_font[] = ", "{">>
Title == Opening \o <<"\n">>

\* Nothing is said of the input here.
Init == /\ taken = 0 /\ chunk = <<>> /\ todo = Title /\ out = <<>>
        /\ step = "read" /\ cut = FALSE

Least(a, b) == IF a < b THEN a ELSE b

Read(n) ==
  /\ step = "read" /\ todo = <<>> /\ chunk = <<>>
  /\ n <= Len(input) - taken
  /\ chunk' = SubSeq(input, taken + 1, taken + n)
  /\ taken' = taken + n
  /\ UNCHANGED <<input, todo, out, step, cut>>

\* The end of the file, or an error (line 68).
ReadEnds ==
  /\ step = "read" /\ todo = <<>> /\ chunk = <<>>
  /\ \/ taken = Len(input) /\ UNCHANGED cut
     \/ cut' = TRUE
  /\ step' = "end"
  /\ UNCHANGED <<input, taken, chunk, todo, out>>

\* Bytes each with its comma.
Listed(bytes) == [i \in 1..(2 * Len(bytes)) |->
                    IF i % 2 = 1 THEN bytes[(i + 1) \div 2] ELSE ","]

\* Mutant: ptr stays where it is when a line has been written.
LineAgain ==
  /\ step = "read" /\ todo = <<>> /\ chunk # <<>>
  /\ LET size == Least(Len(chunk), LineSize)
     IN  /\ todo' = Listed(SubSeq(chunk, 1, size)) \o <<"\n">>
         /\ chunk' = SubSeq(chunk, 1, Len(chunk) - size)
  /\ UNCHANGED <<input, taken, out, step, cut>>

\* Lines 75-88.
Line ==
  /\ step = "read" /\ todo = <<>> /\ chunk # <<>>
  /\ LET size == Least(Len(chunk), LineSize)
     IN  /\ todo' = Listed(SubSeq(chunk, 1, size)) \o <<"\n">>
         /\ chunk' = SubSeq(chunk, size + 1, Len(chunk))
  /\ UNCHANGED <<input, taken, out, step, cut>>

\* One write() takes the first n units.
Write(n) ==
  /\ todo # <<>>
  /\ out' = out \o SubSeq(todo, 1, n)
  /\ todo' = SubSeq(todo, n + 1, Len(todo))
  /\ step' = IF step = "end" /\ todo' = <<>> THEN "done" ELSE step
  /\ UNCHANGED <<input, taken, chunk, cut>>

WriteFails ==
  /\ todo # <<>>
  /\ step' = "failed" /\ todo' = <<>>
  /\ UNCHANGED <<input, taken, chunk, out, cut>>

\* Lines 93-98: the last two characters are written over.
Close ==
  /\ step = "end" /\ todo = <<>>
  /\ out' = SubSeq(out, 1, Len(out) - 2)
  /\ todo' = <<"\n", "};", "\n">>
  /\ UNCHANGED <<input, taken, chunk, step, cut>>

Next == \/ (\E n \in 1..BufSize : Read(n)) \/ ReadEnds
        \/ Line \/ (\E n \in 1..Len(todo) : Write(n)) \/ WriteFails \/ Close

-----------------------------------------------------------------------------
(* properties *)

\* t is s without its line ends: each other unit has as many before it in t.
WithoutLineEnds(s, t) ==
  LET places == {x \in DOMAIN s : s[x] # "\n"}
  IN  /\ Len(t) = Cardinality(places)
      /\ \A x \in places : t[Cardinality({y \in places : y <= x})] = s[x]

Array(bytes) ==
  Opening \o SubSeq(Listed(bytes), 1, 2 * Len(bytes) - 1) \o <<"};">>

(***************************************************************************)
(* However read() and write() cut the data, the array has the bytes of the *)
(* input that were read, each once, in order, with a comma between two of  *)
(* them and none behind the last; it has all of them unless read() failed, *)
(* which the program does not tell its caller (line 68).                   *)
(***************************************************************************)
ArrayRight == step = "done" /\ taken > 0 =>
  /\ cut \/ taken = Len(input)
  /\ WithoutLineEnds(out, Array(SubSeq(input, 1, taken)))
=============================================================================

-------------------------------- MODULE Har --------------------------------
(***************************************************************************)
(* src/tools/har.c: takes the first video out of a recorded session (HAR), *)
(* whose bodies are in base64.  A character is its ASCII code.             *)
(***************************************************************************)
EXTENDS Integers, Sequences, FiniteSetsExt

CONSTANT MaxSize   \* HAR_BUFFER_SIZE

VARIABLES
  entries,  \* of the session: is it a video with all fields, and its text
  at,       \* the entry of the loop
  i,        \* base64_decode(): characters behind it
  prefix,   \* bits the next code leaves open in *output
  output,   \* the bytes up to *output
  file,     \* what is in the output file
  step      \* "entry", "decode", "done", "failed"

vars == <<entries, at, i, prefix, output, file, step>>

Header == <<0, 0, 1, 186>>

\* A byte of the buffer that this text has not written yet.
Old == -1

\* Nothing is said of the session here.
Init == /\ at = 1 /\ i = 0 /\ prefix = 0 /\ output = <<Old>>
        /\ file = <<>> /\ step = "entry"

Text == entries[at].text

\* Lines 67-103.
Code(c) ==
  CASE c \in 65..90 -> c - 65         \* 'A'..'Z'
    [] c \in 97..122 -> c - 97 + 26   \* 'a'..'z'
    [] c \in 48..57 -> c - 48 + 52    \* '0'..'9'
    [] c \in {43, 95} -> 62           \* '+' '_'
    [] c \in {47, 45} -> 63           \* '/' '-'
    [] c = 61 -> 0                    \* '='
Skip == {0, 9, 10, 13}
Coded == (65..90) \cup (97..122) \cup (48..57) \cup {43, 95, 47, 45, 61}

\* Mutant: the bits are put into the byte as they are.
PutUnshifted(c, out) ==
  LET last == out[Len(out)]
      front == SubSeq(out, 1, Len(out) - 1)
  IN  CASE prefix = 0 -> front \o <<c * 4>>
        [] prefix = 6 -> front \o <<last + c \div 16, (c % 16) * 16>>
        [] prefix = 4 -> front \o <<last + c \div 4, (c % 4) * 16>>
        [] prefix = 2 -> front \o <<last + c, Old>>

\* Lines 118-144: the high bits of the code c go to *output, the others to the
\* byte behind it.
Put(c, out) ==
  LET last == out[Len(out)]
      front == SubSeq(out, 1, Len(out) - 1)
  IN  CASE prefix = 0 -> front \o <<c * 4>>
        [] prefix = 6 -> front \o <<last + c \div 16, (c % 16) * 16>>
        [] prefix = 4 -> front \o <<last + c \div 4, (c % 4) * 64>>
        [] prefix = 2 -> front \o <<last + c, Old>>

NextEntry == /\ at' = at + 1 /\ step' = "entry"
             /\ UNCHANGED <<entries, i, prefix, output, file>>

\* Lines 211-243: an entry without one of the fields is passed over.
OtherEntry ==
  /\ step = "entry" /\ at <= Len(entries)
  /\ ~entries[at].video
  /\ NextEntry

Video ==
  /\ step = "entry" /\ at <= Len(entries)
  /\ entries[at].video
  /\ step' = "decode" /\ i' = 0 /\ prefix' = 0 /\ output' = <<Old>>
  /\ UNCHANGED <<entries, at, file>>

NoMore ==
  /\ step = "entry" /\ at > Len(entries)
  /\ step' = "done"
  /\ UNCHANGED <<entries, at, i, prefix, output, file>>

Skipped ==
  /\ step = "decode" /\ i < Len(Text) /\ Text[i + 1] \in Skip
  /\ i' = i + 1
  /\ UNCHANGED <<entries, at, prefix, output, file, step>>

\* Lines 112-144; prefix goes 0, 6, 4, 2, 0.
Decode ==
  /\ step = "decode" /\ i < Len(Text) /\ Text[i + 1] \in Coded
  /\ Len(output) <= MaxSize
  /\ output' = Put(Code(Text[i + 1]), output)
  /\ prefix' = (prefix + 6) % 8
  /\ i' = i + 1
  /\ UNCHANGED <<entries, at, file, step>>

\* Lines 103 and 115: -1, the next entry may still do.
DecodeFails ==
  /\ step = "decode" /\ i < Len(Text) /\ Text[i + 1] \notin Skip
  /\ Text[i + 1] \notin Coded \/ Len(output) > MaxSize
  /\ NextEntry

\* Lines 147-150 and 245-256: always one byte more than there are; an fwrite()
\* may fail.  This is the last entry looked at.
Extract ==
  /\ step = "decode" /\ i = Len(Text)
  /\ \/ file' = Header \o output /\ step' = "done"
     \/ file' \in {<<>>, Header} /\ step' = "failed"
  /\ UNCHANGED <<entries, at, i, prefix, output>>

Next == OtherEntry \/ Video \/ NoMore
        \/ Skipped \/ Decode \/ DecodeFails \/ Extract

-----------------------------------------------------------------------------
(* properties *)

\* The places of a text that the decoder takes for a code, and the whole bytes
\* they make.
Places(text) == {x \in DOMAIN text : text[x] \in Coded}
Size(text) == (6 * Cardinality(Places(text))) \div 8

\* In base64 '=' stands for nothing: it fills up the last group.
Data(text) == {x \in DOMAIN text : text[x] \in Coded \ {61}}
Base64(text) == \A x \in Data(text), y \in Places(text) \ Data(text) : x < y
Rank(text, x) == Cardinality({y \in Data(text) : y <= x})
VideoSize(text) == (6 * Cardinality(Data(text))) \div 8

Weights == <<128, 64, 32, 16, 8, 4, 2, 1>>
Bit(byte, b) == (byte \div Weights[b + 1]) % 2

\* The bits of the data, one character behind the other, are those of the bytes.
Decoded(text, bytes) ==
  /\ Len(bytes) = VideoSize(text)
  /\ \A k \in DOMAIN bytes : bytes[k] \in 0..255
  /\ \A x \in Data(text), b \in 0..5 :
       LET p == 6 * (Rank(text, x) - 1) + b
       IN  p < 8 * VideoSize(text) =>
             Bit(bytes[(p \div 8) + 1], p % 8) = Bit(Code(text[x]), b + 2)

Decodable(e) == /\ e.video
                /\ \A k \in DOMAIN e.text : e.text[k] \in Coded \cup Skip
                /\ (6 * (Cardinality(Places(e.text)) - 1)) \div 8 < MaxSize

(***************************************************************************)
(* The file is the pack header and, when its text is proper base64, the    *)
(* bytes of the first video whose text can be decoded, wherever line ends  *)
(* stand in it and whichever of its entries before could not.  They are    *)
(* not the end of the file: each '=' of the padding is decoded like six    *)
(* zero bits (line 93), and one byte more is always written (line 147), so *)
(* one to three bytes that are not of the video follow.  Without a video   *)
(* that can be decoded the file is empty.                                  *)
(***************************************************************************)
FirstVideo == step = "done" =>
  LET good == {k \in DOMAIN entries : Decodable(entries[k])}
  IN  IF good = {} THEN file = <<>>
      ELSE LET text == entries[Min(good)].text
           IN  /\ Len(file) = 4 + Size(text) + 1
               /\ SubSeq(file, 1, 4) = Header
               /\ Base64(text) => Decoded(text, SubSeq(file, 5, 4 + VideoSize(text)))
=============================================================================

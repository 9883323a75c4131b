----------------------------- MODULE ByteStream -----------------------------
(***************************************************************************)
(* The bytes one peer writes on one connection, as a constant.  A byte is  *)
(* named by its position 1..StreamLen, so that a buffer that duplicates,   *)
(* drops or reorders bytes is told from one that does not.                 *)
(*                                                                         *)
(* Text gives the value of a byte as far as the receiver looks at it: '@', *)
(* '$' or anything else.  Header is the set of positions at which an       *)
(* acceptable packet header starts: HeadLen bytes that begin with "@$" and *)
(* whose two crc bytes agree with the ten bytes before them (for the ten   *)
(* bytes and a crc8 this is a property of the bytes alone, whether the     *)
(* peer meant them as a header or not).  PayLen is the length field of     *)
(* such a header, two bytes that may say anything: more than a packet's    *)
(* payload can hold, too.                                                  *)
(***************************************************************************)
EXTENDS Integers, Sequences

CONSTANTS
  StreamLen,   \* bytes the peer ever writes
  HeadLen,     \* RCPACKET_HEAD_LEN (12 in the code)
  MaxPayload,  \* RCPACKET_MAXPAYLOADSIZE (1280 in the code)
  MaxLen,      \* largest value of the length field (65535 in the code)
  Text,        \* value class of every byte
  Header,      \* positions of the headers that pass the crc check
  PayLen       \* their length fields

ASSUME SizeAssumption ==
  /\ StreamLen \in Nat
  /\ HeadLen \in Nat /\ HeadLen >= 4      \* "@$" and two crc bytes
  /\ MaxPayload \in Nat /\ MaxLen \in Nat

ASSUME TextAssumption == Text \in [1..StreamLen -> {"@", "$", "x"}]

ASSUME HeaderAssumption ==
  /\ Header \subseteq 1..StreamLen
  /\ PayLen \in [Header -> 0..MaxLen]
  /\ \A h \in Header : /\ h + HeadLen - 1 <= StreamLen
                       /\ Text[h] = "@" /\ Text[h + 1] = "$"

\* Length on the wire of the packet whose header starts at h.
Size(h) == HeadLen + PayLen[h]

\* A receiver has HeadLen + MaxPayload bytes for it.
Fits(h) == PayLen[h] <= MaxPayload

\* The bytes of that packet, by position.
Bytes(h) == [i \in 1..Size(h) |-> h + i - 1]

\* First stream position after the packets delivered so far.
Cursor(packets) ==
  IF packets = <<>> THEN 1
  ELSE LET last == packets[Len(packets)] IN last[Len(last)] + 1

\* The header the receiver has to accept next, given that it looks at the
\* stream from position c on.
IsNextHeader(h, c) ==
  /\ h \in Header
  /\ h >= c
  /\ \A g \in Header : g >= c => h <= g
=============================================================================

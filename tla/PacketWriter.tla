---------------------------- MODULE PacketWriter ----------------------------
(***************************************************************************)
(* dw_write_command_data() of src/packet.c on a non-blocking socket        *)
(* (write_socket() of src/io.c), and the peer that reads what it writes.   *)
(* The peer is the abstract receiver, PacketFifo, which src/packet.c       *)
(* implements (module Packet): it takes the next header it can find and as *)
(* many bytes behind it as the header says, whatever they are.             *)
(***************************************************************************)
EXTENDS Integers, Sequences

CONSTANTS
  HeadLen,     \* RCPACKET_HEAD_LEN
  MaxPayload,  \* sizeof(dp->payload)
  Lens,        \* the lengths callers ask for, too long ones among them
  Buffer,      \* bytes the socket can hold
  MaxFrames    \* bound: calls that get as far as the socket

VARIABLES
  frames,   \* payload length of each frame begun, oldest first
  result,   \* and what became of it: "sending", "ok", "error"
  left,     \* write_socket(): left
  wire,     \* the bytes the socket took, each <<frame, offset>>
  taken,    \* how many of them the peer has taken out
  received  \* the packets the peer handed to proc_cmd(), by position

vars == <<frames, result, left, wire, taken, received>>

Init == /\ frames = <<>> /\ result = <<>> /\ left = 0
        /\ wire = <<>> /\ taken = 0 /\ received = <<>>

Current == Len(frames)
FrameLen(f) == HeadLen + frames[f]
Idle == \A f \in DOMAIN result : result[f] # "sending"
Free == Buffer - (Len(wire) - taken)

-----------------------------------------------------------------------------
(* the bytes on the wire as a ByteStream *)

\* A header whose crc agrees: HeadLen bytes of one frame, none missing.
Heads == {p \in DOMAIN wire :
             /\ p + HeadLen - 1 <= Len(wire)
             /\ \A i \in 0..(HeadLen - 1) : wire[p + i] = <<wire[p][1], i>>}

Values == [p \in DOMAIN wire |->
           CASE wire[p][2] = 0 -> "@" [] wire[p][2] = 1 -> "$" [] OTHER -> "x"]

Stream == INSTANCE ByteStream WITH
  StreamLen <- Len(wire), MaxLen <- MaxPayload, Text <- Values, Header <- Heads,
  PayLen <- [h \in Heads |-> frames[wire[h][1]]]

-----------------------------------------------------------------------------
(* the writer *)

\* A payload that does not fit is refused (line 145).
Call(len) ==
  /\ Idle /\ Current < MaxFrames
  /\ len <= MaxPayload
  /\ frames' = Append(frames, len)
  /\ result' = Append(result, "sending")
  /\ left' = HeadLen + len
  /\ UNCHANGED <<wire, taken, received>>

\* Mutant: send() gets buf, not buf + len - left.
ChunkFromStart(n) == [i \in 1..n |-> <<Current, i - 1>>]

\* The first n bytes at buf + len - left.
Chunk(n) == [i \in 1..n |-> <<Current, FrameLen(Current) - left + i - 1>>]

\* Mutant: what send() took is taken for all.
SendOnce(n) ==
  /\ ~Idle
  /\ wire' = wire \o Chunk(n)
  /\ left' = 0
  /\ result' = [result EXCEPT ![Current] = "ok"]
  /\ UNCHANGED <<frames, taken, received>>

\* send() takes n bytes.
Send(n) ==
  /\ ~Idle
  /\ wire' = wire \o Chunk(n)
  /\ left' = left - n
  /\ result' = [result EXCEPT ![Current] = IF n = left THEN "ok" ELSE @]
  /\ UNCHANGED <<frames, taken, received>>

\* The socket is full: EAGAIN, -1 for the caller, what was sent stays sent.
SendFails ==
  /\ ~Idle
  /\ Free = 0
  /\ left' = 0
  /\ result' = [result EXCEPT ![Current] = "error"]
  /\ UNCHANGED <<frames, wire, taken, received>>

Smaller(a, b) == IF a < b THEN a ELSE b

Writer == \/ \E len \in Lens : Call(len)
          \/ \E n \in 1..Smaller(left, Free) : Send(n)
          \/ SendFails

-----------------------------------------------------------------------------
(* the peer *)

Take(n) ==
  /\ taken + n <= Len(wire)
  /\ taken' = taken + n
  /\ UNCHANGED <<frames, result, left, wire, received>>

Deliver(h) ==
  /\ Stream!IsNextHeader(h, Stream!Cursor(received))
  /\ h + Stream!Size(h) - 1 <= taken
  /\ received' = Append(received, Stream!Bytes(h))
  /\ UNCHANGED <<frames, result, left, wire, taken>>

Peer == \/ \E n \in 1..Buffer : Take(n)
        \/ \E h \in Heads : Deliver(h)

Next == Writer \/ Peer

\* The peer's loop goes on reading; nobody has to write.
Spec == Init /\ [][Next]_vars /\ WF_vars(Peer)

-----------------------------------------------------------------------------
(* properties *)

\* The packet p is the frame f, every byte of it and nothing else.
IsFrame(p, f) == /\ f \in DOMAIN frames
                 /\ Len(p) = FrameLen(f)
                 /\ \A i \in DOMAIN p : wire[p[i]] = <<f, i - 1>>

(***************************************************************************)
(* As long as write_socket() has not failed, the peer gets the frames      *)
(* whole, each once, in the order they were written, however send() cuts   *)
(* them (line 35 of io.c); and no header that any call leaves on the wire, *)
(* a failed one included, asks the peer for more than its buffer holds     *)
(* (line 145 of packet.c).                                                 *)
(***************************************************************************)
WholeUntilError ==
  /\ \A h \in Heads : frames[wire[h][1]] <= MaxPayload
  /\ (\A f \in DOMAIN result : result[f] # "error") =>
       /\ Len(received) <= Len(frames)
       /\ \A f \in DOMAIN received : IsFrame(received[f], f)

\* The header of f is on the wire, but not all of its payload: the peer takes
\* the bytes up to Hole(f) for it, be they of other frames.
Start(f) == CHOOSE p \in DOMAIN wire : wire[p] = <<f, 0>>
Broken(f) == result[f] = "error" /\ \E h \in Heads : wire[h][1] = f
Hole(f) == Start(f) + FrameLen(f) - 1

\* f went out whole, outside the hole of every frame before it.
Clear(f) == /\ f \in DOMAIN result
            /\ result[f] = "ok"
            /\ \A g \in 1..(f - 1) : Broken(g) => Start(f) > Hole(g)

(***************************************************************************)
(* After a frame was cut off by a full socket (io.c:40) the stream heals:  *)
(* the cut frame costs the peer no more than the bytes its header asked    *)
(* for.  Every later frame that starts behind them is delivered whole,     *)
(* although no error ever reaches the peer and nothing is sent again.      *)
(***************************************************************************)
Heals == \A f \in 1..MaxFrames :
           Clear(f) ~> (\E k \in DOMAIN received : IsFrame(received[k], f))
=============================================================================

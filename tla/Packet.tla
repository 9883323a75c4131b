------------------------------- MODULE Packet -------------------------------
(***************************************************************************)
(* The packet receiver of src/packet.c under the read loop of              *)
(* handle_data() (src/client/client.c) and handle_client()                 *)
(* (src/server/server.c).                                                  *)
(*                                                                         *)
(* A byte is its position in the stream (module ByteStream); 0 is memory   *)
(* never written.  One action is the code between two points where the     *)
(* receiver looks at the socket or goes round a retry loop:                *)
(*   wait   the event loop: epoll_wait() has not reported this socket yet  *)
(*   get    the top of dw_get_packet() (label retry, line 90)              *)
(*   fill   the top of read_cached()   (label retry, line 56)              *)
(*   parse  dw_get_packet() behind the read (line 98)                      *)
(*   closed disconnect_server() / disconnect_client() has run              *)
(*   overrun a memcpy() has written behind *ctx->dp: the length field of a *)
(*          header is compared with nothing (lines 91, 126, 132).  What    *)
(*          the program does from there on is undefined, and not modelled. *)
(***************************************************************************)
EXTENDS ByteStream

CONSTANT CacheSize   \* bytes in ctx->buf: sizeof(struct DwPacket) * 16

ASSUME CacheAssumption == CacheSize \in Nat \ {0}

VARIABLES
  arrived,     \* bytes that reached the local socket
  shut,        \* the peer has closed the connection
  rd,          \* bytes recv() has taken out of the socket
  mem,         \* the cache, ctx->start .. ctx->end
  buf, pos,    \* ctx->buf and ctx->pos, as offsets from ctx->start
  dp,          \* *ctx->dp, byte by byte
  ctxlen,      \* ctx->len: bytes of the packet under assembly
  want, left,  \* read_cached(): the parameter len and the local left
  pc,
  delivered    \* packets handed to proc_cmd()

vars == <<arrived, shut, rd, mem, buf, pos, dp, ctxlen, want, left, pc, delivered>>
netVars == <<arrived, shut>>
cacheVars == <<rd, mem, buf, pos>>

DpIndex == 0..(HeadLen + MaxPayload - 1)
MemIndex == 0..(CacheSize - 1)
PC == {"wait", "get", "fill", "parse", "closed", "overrun"}

Init ==
  /\ arrived = 0 /\ shut = FALSE /\ rd = 0
  /\ mem = [i \in MemIndex |-> 0]
  /\ buf = 0 /\ pos = 0
  /\ dp = [i \in DpIndex |-> 0]
  /\ ctxlen = 0 /\ want = 0 /\ left = 0
  /\ pc = "wait"
  /\ delivered = <<>>

-----------------------------------------------------------------------------
(* memory operations *)

\* memcpy(to + at, from + off, n)
MemCpy(to, at, from, off, n) ==
  [i \in DOMAIN to |-> IF at <= i /\ i < at + n THEN from[off + i - at] ELSE to[i]]

\* Mutant: a memcpy() that copies from the last byte to the first.
MoveDownBackward(b, k, n) ==
  [i \in DOMAIN b |-> IF i < n THEN b[i + k * (((n - 1 - i) \div k) + 1)] ELSE b[i]]

\* memcpy(b, b + k, n) towards the front (lines 114, 121).  The areas may
\* overlap, for which C defines nothing; the copies of up to eleven bytes that
\* a build makes, all loaded first or byte by byte from the first, do this.
MoveDown(b, k, n) == MemCpy(b, 0, b, k, n)

\* recv(fd, m + at, n): the next n bytes of the stream.
RecvInto(m, at, n) ==
  [i \in DOMAIN m |-> IF at <= i /\ i < at + n THEN rd + 1 + i - at ELSE m[i]]

-----------------------------------------------------------------------------
(* what dw_get_packet() reads out of the packet under assembly *)

\* buf[i] == '@' && buf[i + 1] == '$'
Mark(i) == /\ dp[i] \in 1..StreamLen /\ dp[i + 1] \in 1..StreamLen
           /\ Text[dp[i]] = "@" /\ Text[dp[i + 1]] = "$"

\* The two crc bytes agree with the ten header bytes before them (line 119,
\* with a char that is signed: without, its second test would always fail).
CrcOk == /\ dp[0] \in Header
         /\ \A i \in 0..(HeadLen - 1) : dp[i] = dp[0] + i

\* dp->len; it is looked at only when CrcOk has held for these bytes.
DpLen == IF dp[0] \in Header THEN PayLen[dp[0]] ELSE 0

\* Lines 107-112: how many leading bytes cannot start a header.
Skipped(k) ==
  /\ k \in 1..(HeadLen - 1)
  /\ \A j \in 1..(k - 1) : ~Mark(j)
  /\ k <= HeadLen - 2 => Mark(k)

-----------------------------------------------------------------------------
(* the network *)

Arrive(n) ==
  /\ ~shut
  /\ arrived' = n
  /\ UNCHANGED <<shut, cacheVars, dp, ctxlen, want, left, pc, delivered>>

Shut ==
  /\ ~shut
  /\ shut' = TRUE
  /\ UNCHANGED <<arrived, cacheVars, dp, ctxlen, want, left, pc, delivered>>

-----------------------------------------------------------------------------
(* the receiver *)

\* epoll reports EPOLLIN (level triggered): data or the peer's close is
\* pending in the socket.  What sits in the cache does not count.
Wake ==
  /\ pc = "wait"
  /\ rd < arrived \/ shut
  /\ pc' = "get"
  /\ UNCHANGED <<netVars, cacheVars, dp, ctxlen, want, left, delivered>>

\* Bytes dw_get_packet() asks for: the rest of the header, or of the packet.
Need == IF ctxlen >= HeadLen THEN DpLen + HeadLen - ctxlen ELSE HeadLen - ctxlen

\* Lines 91-92.
GetPacket ==
  /\ pc = "get"
  /\ want' = Need /\ left' = Need
  /\ pc' = "fill"
  /\ UNCHANGED <<netVars, cacheVars, dp, ctxlen, delivered>>

\* read_cached() returns n >= 0 to lines 93-98.
Return(n) ==
  /\ ctxlen' = ctxlen + n
  /\ pc' = IF n = 0 THEN "wait" ELSE "parse"

\* Bytes already copied into dp, the return of read_cached() not counted yet.
Have == IF pc = "fill" THEN ctxlen + want - left ELSE ctxlen

\* Bytes the next memcpy() of read_cached() takes out of the cache.
Copy == IF pos - buf >= left THEN left ELSE pos - buf

\* They have room behind those in dp.
CopyFits == Have + Copy <= HeadLen + MaxPayload

\* Lines 60 and 67 with more bytes than *ctx->dp has room for.
Overrun ==
  /\ pc = "fill"
  /\ ~CopyFits
  /\ pc' = "overrun"
  /\ UNCHANGED <<netVars, cacheVars, dp, ctxlen, want, left, delivered>>

\* Lines 59-63: the cache has all that is asked for.
CacheHit ==
  /\ pc = "fill"
  /\ pos - buf >= left /\ CopyFits
  /\ dp' = MemCpy(dp, ctxlen + want - left, mem, buf, left)
  /\ buf' = buf + left
  /\ Return(want)
  /\ UNCHANGED <<netVars, rd, mem, pos, want, left, delivered>>

\* Lines 64-69: take what the cache has.
CacheMiss ==
  /\ pc = "fill"
  /\ pos - buf < left /\ CopyFits
  /\ dp' = MemCpy(dp, ctxlen + want - left, mem, buf, pos - buf)
  /\ left' = left - (pos - buf)

\* Lines 71-72: ctx->pos (and ctx->buf) when recv() is called.
RecvAt == IF pos = CacheSize THEN 0 ELSE pos

\* Room recv() is offered.
Room == CacheSize - RecvAt

\* Line 73, recv() takes n bytes; line 79 goes round again.
Recv(n) ==
  /\ CacheMiss
  /\ rd + n <= arrived
  /\ mem' = RecvInto(mem, RecvAt, n)
  /\ buf' = RecvAt /\ pos' = RecvAt + n
  /\ rd' = rd + n
  /\ UNCHANGED <<netVars, ctxlen, want, pc, delivered>>

\* recv() has EAGAIN or EINTR: read_socket() gives 0.
RecvNothing ==
  /\ CacheMiss
  /\ rd = arrived /\ ~shut
  /\ buf' = RecvAt /\ pos' = RecvAt
  /\ Return(want - left')
  /\ UNCHANGED <<netVars, rd, mem, want, delivered>>

\* recv() has 0 or an error: read_socket() gives -1, the caller disconnects.
\* TCP hands out what it has queued first.
RecvEnd ==
  /\ CacheMiss
  /\ rd = arrived /\ shut
  /\ buf' = RecvAt /\ pos' = RecvAt
  /\ pc' = "closed"
  /\ UNCHANGED <<netVars, rd, mem, ctxlen, want, delivered>>

\* Line 101: not even a header yet.
Short ==
  /\ pc = "parse"
  /\ ctxlen < HeadLen
  /\ pc' = "wait"
  /\ UNCHANGED <<netVars, cacheVars, dp, ctxlen, want, left, delivered>>

\* Lines 106-116: the bytes do not start with "@$".
Resync(k) ==
  /\ pc = "parse"
  /\ ctxlen = HeadLen
  /\ ~Mark(0)
  /\ Skipped(k)
  /\ ctxlen' = HeadLen - k
  /\ dp' = MoveDown(dp, k, HeadLen - k)
  /\ pc' = "get"
  /\ UNCHANGED <<netVars, cacheVars, want, left, delivered>>

\* Mutant: the whole header is dropped when its crc is wrong.
BadCrcDropAll ==
  /\ pc = "parse"
  /\ ctxlen = HeadLen
  /\ Mark(0) /\ ~CrcOk
  /\ ctxlen' = 0
  /\ pc' = "get"
  /\ UNCHANGED <<netVars, cacheVars, dp, want, left, delivered>>

\* Lines 118-124.
BadCrc ==
  /\ pc = "parse"
  /\ ctxlen = HeadLen
  /\ Mark(0) /\ ~CrcOk
  /\ dp' = MoveDown(dp, 2, HeadLen - 2)
  /\ ctxlen' = ctxlen - 2
  /\ pc' = "get"
  /\ UNCHANGED <<netVars, cacheVars, want, left, delivered>>

\* The bytes under assembly are a whole packet (lines 126 and 132).
Whole == \/ ctxlen = HeadLen /\ Mark(0) /\ CrcOk /\ DpLen = 0
         \/ ctxlen > HeadLen /\ ctxlen >= HeadLen + DpLen

\* Lines 129 and 133: a good header, the payload is not complete.
GetPayload ==
  /\ pc = "parse"
  /\ \/ ctxlen = HeadLen /\ Mark(0) /\ CrcOk
     \/ ctxlen > HeadLen
  /\ ~Whole
  /\ pc' = "get"
  /\ UNCHANGED <<netVars, cacheVars, dp, ctxlen, want, left, delivered>>

\* Mutant: the caller handles one packet for each event.
DeliverOne ==
  /\ pc = "parse"
  /\ Whole
  /\ delivered' = Append(delivered, [i \in 1..ctxlen |-> dp[i - 1]])
  /\ ctxlen' = 0
  /\ pc' = "wait"
  /\ UNCHANGED <<netVars, cacheVars, dp, want, left>>

\* Lines 135-138; the caller runs proc_cmd() and calls again.
Deliver ==
  /\ pc = "parse"
  /\ Whole
  /\ delivered' = Append(delivered, [i \in 1..ctxlen |-> dp[i - 1]])
  /\ ctxlen' = 0
  /\ pc' = "get"
  /\ UNCHANGED <<netVars, cacheVars, dp, want, left>>

Receiver ==
  \/ Wake \/ GetPacket \/ CacheHit \/ Overrun
  \/ \E n \in 1..Room : Recv(n)
  \/ RecvNothing \/ RecvEnd
  \/ Short
  \/ \E k \in 1..(HeadLen - 1) : Resync(k)
  \/ BadCrc \/ GetPayload \/ Deliver

Next ==
  \/ \E n \in (arrived + 1)..StreamLen : Arrive(n)
  \/ Shut
  \/ Receiver

\* The receiver runs whenever its socket is ready; the network owes nothing.
Spec == Init /\ [][Next]_vars
FairSpec == Spec /\ WF_vars(Receiver)

-----------------------------------------------------------------------------
(* properties *)

TypeOK ==
  /\ arrived \in 0..StreamLen
  /\ shut \in BOOLEAN
  /\ rd \in 0..StreamLen
  /\ mem \in [MemIndex -> 0..StreamLen]
  /\ buf \in 0..CacheSize
  /\ pos \in 0..CacheSize
  /\ dp \in [DpIndex -> 0..StreamLen]
  /\ ctxlen \in 0..(HeadLen + MaxPayload)
  /\ want \in 0..(HeadLen + MaxLen)
  /\ left \in 0..(HeadLen + MaxLen)
  /\ pc \in PC
  /\ delivered \in Seq(Seq(Nat) \ {<<>>})

\* The receiver is at work: nothing is promised behind a write out of bounds.
Open == pc \notin {"closed", "overrun"}

\* Stream position in front of the packet under assembly.
Base == rd - (pos - buf) - Have

(***************************************************************************)
(* Nothing is lost, doubled or reordered between recv() and dp: the packet *)
(* under assembly and behind it the unread cache are the last bytes taken  *)
(* from the socket, whatever the retries of read_cached() (lines 56-80)    *)
(* and the two memcpy()s of the resync (lines 114, 121) did to them.       *)
(***************************************************************************)
Window == Open =>
  /\ Base >= Cursor(delivered) - 1
  /\ \A i \in 0..(Have - 1) : dp[i] = Base + 1 + i
  /\ \A j \in buf..(pos - 1) : mem[j] = rd - pos + j + 1

(***************************************************************************)
(* The resync of lines 106-124 never throws away the start of an           *)
(* acceptable header, however garbage, a "@$" in a payload or a header     *)
(* with a bad crc lie in front of it.                                      *)
(***************************************************************************)
NoHeaderSkipped == Open =>
  \A h \in Header : h >= Cursor(delivered) => h > Base

(***************************************************************************)
(* dp->len is used (lines 91, 126, 132) only when it belongs to a header   *)
(* that passed the crc check, and then some of the payload is missing: a   *)
(* read of 0 bytes would be taken for "no data" (line 95).                 *)
(***************************************************************************)
LenTrusted ==
  /\ ctxlen > HeadLen \/ (ctxlen = HeadLen /\ pc # "parse") => CrcOk
  /\ pc \in {"wait", "get"} => Need > 0
  /\ pc = "fill" => want = Need /\ want > 0

(***************************************************************************)
(* read_cached() writes behind *ctx->dp only when the header in front of   *)
(* the packet passed the crc check and says a length that does not fit.    *)
(***************************************************************************)
OverrunByLength == pc = "overrun" => CrcOk /\ DpLen > MaxPayload

(***************************************************************************)
(* recv() is never called with a length of 0 (line 73): its 0 would be     *)
(* read as the peer's close and the connection dropped.                    *)
(***************************************************************************)
RecvHasRoom == pc = "fill" /\ pos - buf < left => Room > 0

(***************************************************************************)
(* The receiver implements the abstract packet queue: handle_data() sees   *)
(* every acceptable packet of the stream once, whole and in order, and     *)
(* disconnects only when the peer closed and none is left; up to a header  *)
(* with a length that does not fit, and it overruns *ctx->dp only there.   *)
(***************************************************************************)
Fifo == INSTANCE PacketFifo WITH status <- IF Open THEN "open" ELSE pc
FifoSafe == Fifo!SafeSpec

(***************************************************************************)
(* The same with the fairness of the abstract queue: a packet that arrived *)
(* complete is handed out eventually without another byte arriving (the    *)
(* cache of read_cached() is invisible to epoll), and the connection of a  *)
(* peer that closed is given up eventually, as long as no length is too    *)
(* large for *ctx->dp.                                                     *)
(***************************************************************************)
FifoLive == Fifo!Spec
=============================================================================

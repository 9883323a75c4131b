---------------------------- MODULE PacketProofs ----------------------------
(***************************************************************************)
(* Theorems about packet framing: the receiver for every stream, every way *)
(* the network cuts it, every header length, payload limit and cache size, *)
(* up to the write behind *ctx->dp that a length field larger than the     *)
(* payload limit leads to; the writer for frames of any length and a       *)
(* socket of any size.                                                     *)
(***************************************************************************)
EXTENDS MCPacket, SequenceTheorems, TLAPS

-----------------------------------------------------------------------------
(* The receiver *)

\* What the properties need to be inductive: the order of the cursors, the
\* bounds of read_cached()'s locals, the room in *ctx->dp, and a packet that is
\* never longer than its checked length field says.
Bounds ==
  /\ rd <= arrived
  /\ buf <= pos
  /\ pc = "fill" => left <= want /\ Have <= HeadLen + MaxPayload
  /\ ctxlen > HeadLen => ctxlen <= HeadLen + DpLen

IInv == /\ TypeOK /\ Bounds /\ OverrunByLength
        /\ Window /\ NoHeaderSkipped /\ LenTrusted

-----------------------------------------------------------------------------
(* the stream and the cursor *)

\* The constants have their types and a header starts with a mark.
LEMMA ConstantTypes ==
  /\ StreamLen \in Nat /\ HeadLen \in Nat /\ HeadLen >= 4
  /\ MaxPayload \in Nat /\ MaxLen \in Nat /\ CacheSize \in Nat /\ CacheSize > 0
  /\ \A h \in Header : /\ h \in 1..StreamLen /\ PayLen[h] \in 0..MaxLen
                       /\ h + HeadLen - 1 <= StreamLen
                       /\ Text[h] = "@" /\ Text[h + 1] = "$"
BY SizeAssumption, HeaderAssumption, CacheAssumption

\* A header cannot start in the second byte of "@$": dropping both is safe.
LEMMA NoOverlap == \A h \in 1..StreamLen : Text[h] = "$" => h \notin Header
<1>1. "$" # "@" OBVIOUS
<1> QED BY <1>1, ConstantTypes

\* The cursor is a stream position.
LEMMA CursorType ==
  ASSUME NEW d \in Seq(Seq(Nat) \ {<<>>}) PROVE Cursor(d) \in Nat /\ Cursor(d) >= 1
<1>1. CASE d = <<>> BY <1>1 DEF Cursor
<1>2. CASE d # <<>>
  <2>1. Len(d) \in 1..Len(d) BY <1>2
  <2> DEFINE last == d[Len(d)]
  <2>2. last \in Seq(Nat) /\ last # <<>> BY <2>1
  <2>3. Len(last) \in 1..Len(last) BY <2>2
  <2>4. last[Len(last)] \in Nat BY <2>2, <2>3
  <2> QED BY <1>2, <2>4 DEF Cursor
<1> QED BY <1>1, <1>2

\* Delivering a packet of n bytes moves the cursor behind its last byte.
LEMMA CursorAppend ==
  ASSUME NEW d \in Seq(Seq(Nat) \ {<<>>}), NEW n \in Nat, n > 0,
         NEW f \in [1..n -> Nat]
  PROVE  /\ Append(d, f) \in Seq(Seq(Nat) \ {<<>>})
         /\ Cursor(Append(d, f)) = f[n] + 1
<1>1. f \in Seq(Nat) BY SeqDef
<1>2. Len(f) = n BY <1>1, LenProperties
<1>3. f # <<>> BY <1>2
<1>4. Append(d, f) \in Seq(Seq(Nat) \ {<<>>}) BY <1>1, <1>3
<1>5. Len(Append(d, f)) = Len(d) + 1 /\ Append(d, f)[Len(d) + 1] = f BY <1>1, <1>3
<1>6. Len(d) + 1 # 0 OBVIOUS
<1>7. Append(d, f) # <<>> BY <1>5, <1>6
<1> QED BY <1>2, <1>4, <1>5, <1>7 DEF Cursor

-----------------------------------------------------------------------------
(* memory *)

\* A copy that stays inside both buffers keeps their type.
LEMMA MemCpyType ==
  ASSUME NEW I, NEW J, NEW to \in [I -> 0..StreamLen], NEW from \in [J -> 0..StreamLen],
         NEW at \in Int, NEW off \in Int, NEW n \in Int, I \subseteq Int,
         \A k \in Int : off <= k /\ k < off + n => k \in J
  PROVE  MemCpy(to, at, from, off, n) \in [I -> 0..StreamLen]
<1>1. DOMAIN to = I OBVIOUS
<1>2. \A i \in I : at <= i /\ i < at + n => from[off + i - at] \in 0..StreamLen OBVIOUS
<1> QED BY <1>1, <1>2 DEF MemCpy

-----------------------------------------------------------------------------
(* the invariant holds initially and every step preserves it *)

LEMMA InitIInv == Init => IInv
<1> SUFFICES ASSUME Init PROVE IInv OBVIOUS
<1> USE ConstantTypes
<1>1. Cursor(delivered) = 1 BY DEF Init, Cursor
<1>2. delivered \in Seq(Seq(Nat) \ {<<>>}) BY DEF Init
<1>3. TypeOK BY <1>2 DEF Init, TypeOK, MemIndex, DpIndex, PC
<1>4. Bounds /\ OverrunByLength BY DEF Init, Bounds, OverrunByLength
<1>5. Window BY <1>1 DEF Init, Window, Base, Have, Open
<1>6. NoHeaderSkipped BY <1>1 DEF Init, NoHeaderSkipped, Base, Have
<1>7. LenTrusted BY DEF Init, LenTrusted, Need
<1> QED BY <1>3, <1>4, <1>5, <1>6, <1>7 DEF IInv

\* Steps that leave the receiver's memory alone: the network's.
LEMMA NetworkStep ==
  ASSUME IInv, arrived' \in arrived..StreamLen, shut' \in BOOLEAN,
         UNCHANGED <<cacheVars, dp, ctxlen, want, left, pc, delivered>>
  PROVE  IInv'
<1> USE ConstantTypes DEF cacheVars
<1>1. TypeOK' BY DEF IInv, TypeOK
<1>2. Bounds' /\ OverrunByLength'
  BY DEF IInv, TypeOK, Bounds, Have, OverrunByLength, DpLen, CrcOk
<1>3. Window' BY DEF IInv, Window, Base, Have, Open
<1>4. NoHeaderSkipped' BY DEF IInv, NoHeaderSkipped, Base, Have, Open
<1>5. LenTrusted' BY DEF IInv, LenTrusted, Need, DpLen, CrcOk
<1> QED BY <1>1, <1>2, <1>3, <1>4, <1>5 DEF IInv

LEMMA WakeStep == ASSUME IInv, Wake PROVE IInv'
<1> USE ConstantTypes DEF Wake, netVars, cacheVars
<1>1. TypeOK' BY DEF IInv, TypeOK, PC
<1>2. Bounds' /\ OverrunByLength' BY DEF IInv, Bounds, DpLen, OverrunByLength
<1>3. Window' BY DEF IInv, Window, Base, Have, Open
<1>4. NoHeaderSkipped' BY DEF IInv, NoHeaderSkipped, Base, Have, Open
<1>5. LenTrusted' BY DEF IInv, LenTrusted, Need, DpLen, CrcOk
<1> QED BY <1>1, <1>2, <1>3, <1>4, <1>5 DEF IInv

\* The length read_cached() is called with is positive.
LEMMA NeedBounds == ASSUME IInv, pc = "get" PROVE Need \in 1..(HeadLen + MaxLen)
<1> USE ConstantTypes
<1>1. DpLen \in 0..MaxLen BY DEF DpLen
<1>2. ctxlen \in Nat BY DEF IInv, TypeOK
<1>3. Need > 0 BY DEF IInv, LenTrusted
<1> QED BY <1>1, <1>2, <1>3 DEF Need

LEMMA GetPacketStep == ASSUME IInv, GetPacket PROVE IInv'
<1> USE ConstantTypes DEF GetPacket, netVars, cacheVars
<1>0. Need \in 1..(HeadLen + MaxLen) BY NeedBounds
<1>1. TypeOK' BY <1>0 DEF IInv, TypeOK, PC
<1>2. Bounds' /\ OverrunByLength'
  BY <1>0 DEF IInv, Bounds, Have, DpLen, TypeOK, OverrunByLength
<1>3. Window' BY <1>0 DEF IInv, Window, Base, Have, Open, TypeOK
<1>4. NoHeaderSkipped' BY <1>0 DEF IInv, NoHeaderSkipped, Base, Have, Open, TypeOK
<1>5. LenTrusted' BY <1>0 DEF IInv, LenTrusted, Need, DpLen, CrcOk
<1> QED BY <1>1, <1>2, <1>3, <1>4, <1>5 DEF IInv

LEMMA ShortStep == ASSUME IInv, Short PROVE IInv'
<1> USE ConstantTypes DEF Short, netVars, cacheVars
<1>1. TypeOK' BY DEF IInv, TypeOK, PC
<1>2. Bounds' /\ OverrunByLength' BY DEF IInv, Bounds, DpLen, OverrunByLength
<1>3. Window' BY DEF IInv, Window, Base, Have, Open
<1>4. NoHeaderSkipped' BY DEF IInv, NoHeaderSkipped, Base, Have, Open
<1>5. LenTrusted' BY DEF IInv, LenTrusted, Need, DpLen, CrcOk, TypeOK
<1> QED BY <1>1, <1>2, <1>3, <1>4, <1>5 DEF IInv

LEMMA GetPayloadStep == ASSUME IInv, GetPayload PROVE IInv'
<1> USE ConstantTypes DEF GetPayload, netVars, cacheVars
<1>0. DpLen \in 0..MaxLen BY DEF DpLen
<1>1. TypeOK' BY DEF IInv, TypeOK, PC
<1>2. Bounds' /\ OverrunByLength' BY DEF IInv, Bounds, DpLen, OverrunByLength
<1>3. Window' BY DEF IInv, Window, Base, Have, Open
<1>4. NoHeaderSkipped' BY DEF IInv, NoHeaderSkipped, Base, Have, Open
<1>5. LenTrusted'
  <2>1. CrcOk BY DEF IInv, LenTrusted
  <2>2. ctxlen \in Nat /\ ctxlen < HeadLen + DpLen
    BY <1>0 DEF Whole, IInv, TypeOK
  <2>3. Need > 0 BY <1>0, <2>2 DEF Need
  <2> QED BY <2>1, <2>3 DEF LenTrusted, Need, DpLen, CrcOk
<1> QED BY <1>1, <1>2, <1>3, <1>4, <1>5 DEF IInv

\* Copying n cached bytes behind those already in dp continues the window,
\* and a checked header in front of them stays as it is.
LEMMA CopyFromCache ==
  ASSUME IInv, pc = "fill", NEW n \in 0..(pos - buf), n <= left,
         Have + n <= HeadLen + MaxPayload,
         NEW d, d = MemCpy(dp, ctxlen + want - left, mem, buf, n)
  PROVE  /\ d \in [DpIndex -> 0..StreamLen]
         /\ \A i \in 0..(Have + n - 1) : d[i] = Base + 1 + i
         /\ ctxlen >= HeadLen => \A i \in 0..(HeadLen - 1) : d[i] = dp[i]
<1> USE ConstantTypes
<1>1. /\ dp \in [DpIndex -> 0..StreamLen] /\ mem \in [MemIndex -> 0..StreamLen]
      /\ ctxlen \in Nat /\ want \in Nat /\ left \in Nat /\ left <= want
      /\ buf \in 0..CacheSize /\ pos \in 0..CacheSize /\ buf <= pos /\ rd \in Nat
  BY DEF IInv, TypeOK, Bounds
<1>2. Have = ctxlen + want - left /\ Have \in Nat BY <1>1 DEF Have
<1>3. \A k \in Int : buf <= k /\ k < buf + n => k \in MemIndex BY <1>1 DEF MemIndex
<1>4. d \in [DpIndex -> 0..StreamLen]
  <2>1. DpIndex \subseteq Int BY DEF DpIndex
  <2>2. Have \in Int /\ buf \in Int /\ n \in Int BY <1>1, <1>2
  <2>3. MemCpy(dp, Have, mem, buf, n) \in [DpIndex -> 0..StreamLen]
    BY <1>1, <1>3, <2>1, <2>2, MemCpyType
  <2> QED BY <1>2, <2>3
<1>5. \A i \in DpIndex : d[i] = IF Have <= i /\ i < Have + n THEN mem[buf + i - Have] ELSE dp[i]
  BY <1>1, <1>2 DEF MemCpy
<1>6. \A i \in 0..(Have - 1) : dp[i] = Base + 1 + i BY DEF IInv, Window, Open
<1>7. \A j \in buf..(pos - 1) : mem[j] = rd - pos + j + 1 BY DEF IInv, Window, Open
<1>8. ASSUME NEW i \in 0..(Have + n - 1) PROVE d[i] = Base + 1 + i
  <2>1. i \in DpIndex BY <1>1, <1>2 DEF DpIndex
  <2>2. CASE i < Have BY <1>2, <1>5, <1>6, <2>1, <2>2
  <2>3. CASE i >= Have
    <3>1. buf + i - Have \in buf..(pos - 1) BY <1>1, <1>2, <2>3
    <3>2. d[i] = rd - pos + (buf + i - Have) + 1 BY <1>1, <1>2, <1>5, <1>7, <2>1, <2>3, <3>1
    <3> QED BY <1>1, <1>2, <3>2 DEF Base
  <2> QED BY <1>2, <2>2, <2>3
<1>9. ASSUME ctxlen >= HeadLen, NEW i \in 0..(HeadLen - 1) PROVE d[i] = dp[i]
  <2>1. i \in DpIndex /\ i < Have BY <1>1, <1>2, <1>9 DEF DpIndex
  <2> QED BY <1>2, <1>5, <2>1
<1> QED BY <1>4, <1>8, <1>9

LEMMA CacheHitStep == ASSUME IInv, CacheHit PROVE IInv'
<1> USE ConstantTypes
<1>1. /\ dp \in [DpIndex -> 0..StreamLen] /\ mem \in [MemIndex -> 0..StreamLen]
      /\ ctxlen \in Nat /\ want \in Nat /\ left \in Nat /\ left <= want
      /\ buf \in 0..CacheSize /\ pos \in 0..CacheSize /\ buf <= pos
      /\ rd \in Nat /\ left <= pos - buf
      /\ Have = ctxlen + want - left /\ Have + left <= HeadLen + MaxPayload
  BY DEF IInv, TypeOK, Bounds, CacheHit, CopyFits, Copy, Have
<1>2. want > 0 /\ want = Need /\ pc = "fill" BY DEF IInv, LenTrusted, CacheHit
<1>3. /\ dp' = MemCpy(dp, ctxlen + want - left, mem, buf, left)
      /\ buf' = buf + left /\ ctxlen' = ctxlen + want /\ pc' = "parse"
      /\ UNCHANGED <<arrived, shut, rd, mem, pos, want, left, delivered>>
  BY <1>2 DEF CacheHit, Return, netVars
<1>4. /\ dp' \in [DpIndex -> 0..StreamLen]
      /\ \A i \in 0..(Have + left - 1) : dp'[i] = Base + 1 + i
      /\ ctxlen >= HeadLen => \A i \in 0..(HeadLen - 1) : dp'[i] = dp[i]
  BY <1>1, <1>2, <1>3, CopyFromCache
<1>5. Have + left = ctxlen' /\ Have' = ctxlen' /\ Have \in Nat BY <1>1, <1>2, <1>3 DEF Have
<1>6. Base' = Base BY <1>1, <1>2, <1>3, <1>5 DEF Base, Have
<1>7. TypeOK' BY <1>1, <1>3, <1>4, <1>5 DEF IInv, TypeOK, PC
<1>8. ctxlen >= HeadLen => CrcOk /\ CrcOk' /\ DpLen' = DpLen
  <2> SUFFICES ASSUME ctxlen >= HeadLen PROVE CrcOk /\ CrcOk' /\ DpLen' = DpLen OBVIOUS
  <2>1. CrcOk BY <1>1, <1>2 DEF IInv, LenTrusted
  <2>2. dp'[0] = dp[0] BY <1>4
  <2>3. CrcOk' BY <1>4, <2>1, <2>2 DEF CrcOk
  <2> QED BY <2>1, <2>2, <2>3 DEF DpLen
<1>9. Bounds'
  <2>1. DpLen \in 0..MaxLen BY DEF DpLen
  <2>2. ctxlen' > HeadLen => ctxlen >= HeadLen BY <1>1, <1>2, <1>3 DEF Need
  <2>3. ctxlen' > HeadLen => ctxlen' <= HeadLen + DpLen'
    BY <1>1, <1>2, <1>3, <1>8, <2>1, <2>2 DEF Need
  <2> QED BY <1>1, <1>3, <2>3 DEF IInv, Bounds
<1>13. OverrunByLength' BY <1>3 DEF OverrunByLength
<1>10. Window'
  <2>1. Base' >= Cursor(delivered') - 1 BY <1>2, <1>3, <1>6 DEF IInv, Window, Open
  <2>2. ASSUME NEW i \in 0..(Have' - 1) PROVE dp'[i] = Base' + 1 + i
    <3>1. i \in 0..(Have + left - 1) BY <1>1, <1>5
    <3> QED BY <1>4, <1>6, <3>1
  <2>3. \A j \in buf'..(pos' - 1) : j \in buf..(pos - 1) BY <1>1, <1>3
  <2>4. \A j \in buf'..(pos' - 1) : mem'[j] = rd' - pos' + j + 1
    BY <1>2, <1>3, <2>3 DEF IInv, Window, Open
  <2> QED BY <2>1, <2>2, <2>4 DEF Window
<1>11. NoHeaderSkipped' BY <1>2, <1>3, <1>6 DEF IInv, NoHeaderSkipped, Open
<1>12. LenTrusted'
  <2>1. ctxlen' > HeadLen => ctxlen >= HeadLen BY <1>1, <1>2, <1>3 DEF Need
  <2> QED BY <1>3, <1>8, <2>1 DEF LenTrusted
<1> QED BY <1>7, <1>9, <1>10, <1>11, <1>12, <1>13 DEF IInv

\* After the cache is drained the window has grown by what was in it.
LEMMA MissFacts ==
  ASSUME IInv, CacheMiss
  PROVE  /\ dp' \in [DpIndex -> 0..StreamLen]
         /\ \A i \in 0..(Have + (pos - buf) - 1) : dp'[i] = Base + 1 + i
         /\ left' = left - (pos - buf) /\ left' \in 1..left
         /\ ctxlen >= HeadLen => CrcOk /\ CrcOk' /\ DpLen' = DpLen
         /\ Have \in Nat /\ Base \in Int
         /\ Have + (pos - buf) <= HeadLen + MaxPayload
         /\ Have + (pos - buf) = ctxlen + want - left'
         /\ want = Need /\ want > 0
         /\ DpLen \in 0..MaxLen /\ DpLen' \in 0..MaxLen
         /\ RecvAt \in 0..(CacheSize - 1)
<1> USE ConstantTypes
<1>1. /\ ctxlen \in Nat /\ want \in Nat /\ left \in Nat /\ left <= want
      /\ buf \in 0..CacheSize /\ pos \in 0..CacheSize /\ buf <= pos
      /\ rd \in Nat /\ pos - buf < left /\ pc = "fill"
      /\ Have + (pos - buf) <= HeadLen + MaxPayload
  BY DEF IInv, TypeOK, Bounds, CacheMiss, CopyFits, Copy
<1>2. /\ dp' = MemCpy(dp, ctxlen + want - left, mem, buf, pos - buf)
      /\ left' = left - (pos - buf)
  BY DEF CacheMiss
<1>3. pos - buf \in 0..(pos - buf) /\ pos - buf <= left BY <1>1
<1>4. /\ dp' \in [DpIndex -> 0..StreamLen]
      /\ \A i \in 0..(Have + (pos - buf) - 1) : dp'[i] = Base + 1 + i
      /\ ctxlen >= HeadLen => \A i \in 0..(HeadLen - 1) : dp'[i] = dp[i]
  BY <1>1, <1>2, <1>3, CopyFromCache
<1>5. ctxlen >= HeadLen => CrcOk /\ CrcOk' /\ DpLen' = DpLen
  <2> SUFFICES ASSUME ctxlen >= HeadLen PROVE CrcOk /\ CrcOk' /\ DpLen' = DpLen OBVIOUS
  <2>1. CrcOk BY <1>1 DEF IInv, LenTrusted
  <2>2. dp'[0] = dp[0] BY <1>4
  <2>3. CrcOk' BY <1>4, <2>1, <2>2 DEF CrcOk
  <2> QED BY <2>1, <2>2, <2>3 DEF DpLen
<1>6. Have \in Nat /\ Have = ctxlen + want - left BY <1>1 DEF Have
<1>7. Base \in Int BY <1>1, <1>6 DEF Base
<1>8. want = Need /\ want > 0 BY <1>1 DEF IInv, LenTrusted
<1>9. DpLen \in 0..MaxLen /\ DpLen' \in 0..MaxLen BY DEF DpLen
<1>10. RecvAt \in 0..(CacheSize - 1) BY <1>1 DEF RecvAt
<1> QED BY <1>1, <1>2, <1>4, <1>5, <1>6, <1>7, <1>8, <1>9, <1>10

\* The facts of the invariant the read steps start from.
LEMMA FillTypes ==
  ASSUME IInv, pc = "fill"
  PROVE  /\ arrived \in 0..StreamLen /\ rd \in 0..StreamLen /\ rd <= arrived
         /\ ctxlen \in Nat /\ want \in Nat /\ left \in Nat /\ left <= want
         /\ want <= HeadLen + MaxLen
         /\ buf \in 0..CacheSize /\ pos \in 0..CacheSize /\ buf <= pos
         /\ mem \in [MemIndex -> 0..StreamLen]
BY DEF IInv, TypeOK, Bounds

LEMMA RecvStep == ASSUME IInv, NEW n \in 1..Room, Recv(n) PROVE IInv'
<1> USE ConstantTypes
<1>1. CacheMiss /\ pc = "fill" BY DEF Recv, CacheMiss
<1>2. /\ mem' = RecvInto(mem, RecvAt, n) /\ buf' = RecvAt /\ pos' = RecvAt + n
      /\ rd' = rd + n /\ rd + n <= arrived
      /\ UNCHANGED <<arrived, shut, ctxlen, want, pc, delivered>>
  BY DEF Recv, netVars
<1>3. /\ n \in Nat /\ n >= 1 /\ RecvAt \in Nat /\ RecvAt + n <= CacheSize
      /\ rd \in Nat /\ arrived \in Nat /\ arrived <= StreamLen
  BY <1>1, MissFacts, FillTypes DEF Room
<1>4. mem' \in [MemIndex -> 0..StreamLen]
  <2>1. \A i \in MemIndex : RecvAt <= i /\ i < RecvAt + n => rd + 1 + i - RecvAt \in 0..StreamLen
    BY <1>2, <1>3 DEF MemIndex
  <2> QED BY <1>1, <1>2, <2>1, FillTypes DEF RecvInto
<1>5. Have' = Have + (pos - buf) BY <1>1, <1>2, MissFacts DEF Have
<1>6. Base' = Base BY <1>1, <1>2, <1>3, <1>5, FillTypes, MissFacts DEF Base
<1>7. TypeOK'
  <2>1. /\ rd' \in 0..StreamLen /\ buf' \in 0..CacheSize /\ pos' \in 0..CacheSize
        /\ left' \in 0..(HeadLen + MaxLen)
    BY <1>1, <1>2, <1>3, FillTypes, MissFacts
  <2> QED BY <1>1, <1>2, <1>4, <2>1, MissFacts DEF IInv, TypeOK
<1>8. Bounds' /\ OverrunByLength'
  BY <1>1, <1>2, <1>3, <1>5, FillTypes, MissFacts DEF IInv, Bounds, OverrunByLength
<1>9. Window'
  <2>1. Base' >= Cursor(delivered') - 1 BY <1>1, <1>2, <1>6 DEF IInv, Window, Open
  <2>2. ASSUME NEW i \in 0..(Have' - 1) PROVE dp'[i] = Base' + 1 + i
    <3>1. i \in 0..(Have + (pos - buf) - 1) BY <1>1, <1>5, FillTypes, MissFacts
    <3> QED BY <1>1, <1>6, <3>1, MissFacts
  <2>3. ASSUME NEW j \in buf'..(pos' - 1) PROVE mem'[j] = rd' - pos' + j + 1
    <3>1. RecvAt <= j /\ j < RecvAt + n /\ j \in MemIndex
      BY <1>1, <1>2, <1>3, MissFacts DEF MemIndex
    <3>2. mem'[j] = rd + 1 + j - RecvAt BY <1>1, <1>2, <3>1, FillTypes DEF RecvInto
    <3>3. j \in Int BY <3>1 DEF MemIndex
    <3> QED BY <1>2, <1>3, <3>2, <3>3
  <2> QED BY <2>1, <2>2, <2>3 DEF Window
<1>10. NoHeaderSkipped' BY <1>1, <1>2, <1>6 DEF IInv, NoHeaderSkipped, Open
<1>11. LenTrusted' BY <1>1, <1>2, MissFacts, FillTypes DEF LenTrusted, Need
<1> QED BY <1>7, <1>8, <1>9, <1>10, <1>11 DEF IInv

LEMMA RecvNothingStep == ASSUME IInv, RecvNothing PROVE IInv'
<1> USE ConstantTypes
<1>1. CacheMiss /\ pc = "fill" BY DEF RecvNothing, CacheMiss
<1>2. /\ buf' = RecvAt /\ pos' = RecvAt
      /\ ctxlen' = ctxlen + (want - left')
      /\ pc' = IF want - left' = 0 THEN "wait" ELSE "parse"
      /\ UNCHANGED <<arrived, shut, rd, mem, want, delivered>>
  BY DEF RecvNothing, Return, netVars
<1>3. /\ ctxlen' \in Nat /\ ctxlen' = Have + (pos - buf) /\ ctxlen' < ctxlen + want
      /\ ctxlen' <= HeadLen + MaxPayload
  BY <1>1, <1>2, FillTypes, MissFacts
<1>4. Have' = ctxlen' BY <1>2 DEF Have
<1>5. Base' = Base BY <1>1, <1>2, <1>3, <1>4, FillTypes, MissFacts DEF Base
<1>6. ctxlen' >= HeadLen => ctxlen >= HeadLen
  BY <1>1, <1>3, FillTypes, MissFacts DEF Need
<1>7. TypeOK'
  <2>1. /\ buf' \in 0..CacheSize /\ pos' \in 0..CacheSize
        /\ ctxlen' \in 0..(HeadLen + MaxPayload) /\ left' \in 0..(HeadLen + MaxLen)
        /\ pc' \in PC
    BY <1>1, <1>2, <1>3, FillTypes, MissFacts DEF PC
  <2> QED BY <1>1, <1>2, <2>1, MissFacts DEF IInv, TypeOK
<1>8. Bounds'
  <2>1. ctxlen' > HeadLen => ctxlen' <= HeadLen + DpLen'
    BY <1>1, <1>3, <1>6, FillTypes, MissFacts DEF Need
  <2> QED BY <1>1, <1>2, <2>1, FillTypes, MissFacts DEF Bounds
<1>12. OverrunByLength' BY <1>2 DEF OverrunByLength
<1>9. Window'
  <2>1. Base' >= Cursor(delivered') - 1 BY <1>1, <1>2, <1>5 DEF IInv, Window, Open
  <2>2. ASSUME NEW i \in 0..(Have' - 1) PROVE dp'[i] = Base' + 1 + i
    <3>1. i \in 0..(Have + (pos - buf) - 1) BY <1>1, <1>3, <1>4, FillTypes, MissFacts
    <3> QED BY <1>1, <1>5, <3>1, MissFacts
  <2>3. \A j \in buf'..(pos' - 1) : FALSE BY <1>1, <1>2, MissFacts
  <2> QED BY <2>1, <2>2, <2>3 DEF Window
<1>10. NoHeaderSkipped' BY <1>1, <1>2, <1>5 DEF IInv, NoHeaderSkipped, Open
<1>11. LenTrusted'
  <2>1. ctxlen' >= HeadLen => CrcOk' BY <1>1, <1>6, MissFacts
  <2>2. ASSUME pc' = "wait" PROVE Need' > 0
    <3>0. want \in Int /\ ctxlen \in Int /\ left' \in Int BY <1>1, FillTypes, MissFacts
    <3>1. want - left' = 0 BY <1>2, <2>2
    <3>2. ctxlen' = ctxlen + 0 BY <1>2, <3>1
    <3>5. ctxlen' = ctxlen BY <3>0, <3>2
    <3>3. ctxlen >= HeadLen => DpLen' = DpLen BY <1>1, MissFacts
    <3>4. Need' = Need BY <3>3, <3>5 DEF Need
    <3> QED BY <1>1, <3>4, MissFacts
  <2> QED BY <1>2, <1>3, <2>1, <2>2 DEF LenTrusted
<1> QED BY <1>7, <1>8, <1>9, <1>10, <1>11, <1>12 DEF IInv

LEMMA RecvEndStep == ASSUME IInv, RecvEnd PROVE IInv'
<1> USE ConstantTypes
<1>1. CacheMiss /\ pc = "fill" BY DEF RecvEnd, CacheMiss
<1>2. /\ buf' = RecvAt /\ pos' = RecvAt /\ pc' = "closed"
      /\ UNCHANGED <<arrived, shut, rd, mem, ctxlen, want, delivered>>
  BY DEF RecvEnd, netVars
<1>3. TypeOK'
  <2>1. /\ buf' \in 0..CacheSize /\ pos' \in 0..CacheSize
        /\ left' \in 0..(HeadLen + MaxLen) /\ pc' \in PC
    BY <1>1, <1>2, FillTypes, MissFacts DEF PC
  <2> QED BY <1>1, <1>2, <2>1, MissFacts DEF IInv, TypeOK
<1>4. Bounds' /\ OverrunByLength'
  BY <1>1, <1>2, FillTypes, MissFacts DEF IInv, Bounds, OverrunByLength
<1>5. LenTrusted' BY <1>1, <1>2, FillTypes, MissFacts DEF LenTrusted
<1> QED BY <1>2, <1>3, <1>4, <1>5 DEF IInv, Window, NoHeaderSkipped, Open

\* A copy that does not fit is one of a packet whose header says too much.
LEMMA OverrunStep == ASSUME IInv, Overrun PROVE IInv'
<1> USE ConstantTypes
<1>1. /\ pc = "fill" /\ ~CopyFits /\ pc' = "overrun"
      /\ UNCHANGED <<arrived, shut, rd, mem, buf, pos, dp, ctxlen, want, left, delivered>>
  BY DEF Overrun, netVars, cacheVars
<1>2. Copy <= left /\ left \in Nat BY <1>1, FillTypes DEF Copy
<1>3. Have = ctxlen + want - left /\ Copy \in Int BY <1>1, FillTypes DEF Have, Copy
<1>4. ctxlen + want > HeadLen + MaxPayload BY <1>1, <1>2, <1>3, FillTypes DEF CopyFits
<1>5. want = Need BY <1>1 DEF IInv, LenTrusted
<1>6. ctxlen >= HeadLen BY <1>1, <1>4, <1>5, FillTypes DEF Need
<1>7. CrcOk BY <1>1, <1>6, FillTypes DEF IInv, LenTrusted
<1>8. DpLen > MaxPayload
  <2>1. DpLen \in 0..MaxLen BY DEF DpLen
  <2> QED BY <1>1, <1>4, <1>5, <1>6, <2>1, FillTypes DEF Need
<1>9. TypeOK' BY <1>1 DEF IInv, TypeOK, PC
<1>10. Bounds' BY <1>1 DEF IInv, Bounds, DpLen
<1>11. OverrunByLength' BY <1>1, <1>7, <1>8 DEF OverrunByLength, CrcOk, DpLen
<1>12. LenTrusted' BY <1>1 DEF IInv, LenTrusted, CrcOk
<1> QED BY <1>1, <1>9, <1>10, <1>11, <1>12 DEF IInv, Window, NoHeaderSkipped, Open

-----------------------------------------------------------------------------
(* the resync *)

\* The facts of the invariant the steps behind the read start from.
LEMMA ParseFacts ==
  ASSUME IInv, pc = "parse"
  PROVE  /\ dp \in [DpIndex -> 0..StreamLen] /\ ctxlen \in Nat
         /\ ctxlen <= HeadLen + MaxPayload
         /\ arrived \in 0..StreamLen /\ rd \in 0..StreamLen /\ rd <= arrived
         /\ buf \in 0..CacheSize /\ pos \in 0..CacheSize /\ buf <= pos
         /\ Have = ctxlen /\ Base = rd - (pos - buf) - ctxlen /\ Base \in Nat
         /\ Cursor(delivered) \in Nat /\ Base >= Cursor(delivered) - 1
         /\ Base + ctxlen <= arrived
         /\ \A i \in 0..(ctxlen - 1) : dp[i] = Base + 1 + i /\ dp[i] \in 1..StreamLen
<1> USE ConstantTypes
<1>1. /\ dp \in [DpIndex -> 0..StreamLen] /\ ctxlen \in Nat
      /\ ctxlen <= HeadLen + MaxPayload
      /\ arrived \in 0..StreamLen /\ rd \in 0..StreamLen /\ rd <= arrived
      /\ buf \in 0..CacheSize /\ pos \in 0..CacheSize /\ buf <= pos
      /\ delivered \in Seq(Seq(Nat) \ {<<>>})
  BY DEF IInv, TypeOK, Bounds
<1>2. Have = ctxlen /\ Base = rd - (pos - buf) - ctxlen BY DEF Have, Base
<1>3. Cursor(delivered) \in Nat /\ Cursor(delivered) >= 1 BY <1>1, CursorType
<1>4. Base >= Cursor(delivered) - 1 /\ \A i \in 0..(Have - 1) : dp[i] = Base + 1 + i
  BY DEF IInv, Window, Open
<1>5. Base \in Nat /\ Base + ctxlen <= arrived BY <1>1, <1>2, <1>3, <1>4
<1>6. \A i \in 0..(ctxlen - 1) : dp[i] = Base + 1 + i /\ dp[i] \in 1..StreamLen
  BY <1>1, <1>2, <1>4, <1>5
<1> QED BY <1>1, <1>2, <1>3, <1>4, <1>5, <1>6

\* A header under assembly shows its mark.
LEMMA HeaderHasMark ==
  ASSUME IInv, pc = "parse", NEW j \in 0..(HeadLen - 2), j + 1 < ctxlen,
         Base + 1 + j \in Header
  PROVE  Mark(j)
<1> USE ConstantTypes
<1>1. /\ dp[j] = Base + 1 + j /\ dp[j] \in 1..StreamLen
      /\ dp[j + 1] = Base + 1 + j + 1 /\ dp[j + 1] \in 1..StreamLen
  BY ParseFacts
<1>2. Text[Base + 1 + j] = "@" /\ Text[Base + 1 + j + 1] = "$" OBVIOUS
<1> QED BY <1>1, <1>2 DEF Mark

\* Dropping k bytes none of which starts a header keeps the invariant.
LEMMA DropStep ==
  ASSUME IInv, pc = "parse", ctxlen = HeadLen, NEW k \in 1..(HeadLen - 1),
         \A i \in 1..k : Base + i \notin Header,
         ctxlen' = HeadLen - k, dp' = MoveDown(dp, k, HeadLen - k), pc' = "get",
         UNCHANGED <<netVars, cacheVars, want, left, delivered>>
  PROVE  IInv'
<1> USE ConstantTypes DEF netVars, cacheVars
<1>1. dp' \in [DpIndex -> 0..StreamLen]
  <2>1. DpIndex \subseteq Int BY DEF DpIndex
  <2>2. \A m \in Int : k <= m /\ m < k + (HeadLen - k) => m \in DpIndex BY DEF DpIndex
  <2>3. dp' = MemCpy(dp, 0, dp, k, HeadLen - k) BY DEF MoveDown
  <2>4. MemCpy(dp, 0, dp, k, HeadLen - k) \in [DpIndex -> 0..StreamLen]
    <3>1. dp \in [DpIndex -> 0..StreamLen] BY ParseFacts
    <3>2. 0 \in Int /\ k \in Int /\ HeadLen - k \in Int OBVIOUS
    <3> QED BY <2>1, <2>2, <3>1, <3>2, MemCpyType
  <2> QED BY <2>3, <2>4
<1>2. ASSUME NEW i \in 0..(HeadLen - k - 1) PROVE dp'[i] = Base + k + 1 + i
  <2>1. i \in DpIndex /\ i + k \in 0..(ctxlen - 1) BY DEF DpIndex
  <2>2. dp'[i] = dp[k + i - 0] BY <2>1, ParseFacts DEF MoveDown, MemCpy
  <2> QED BY <2>1, <2>2, ParseFacts
<1>3. Have' = HeadLen - k /\ Base' = Base + k BY ParseFacts DEF Have, Base
<1>4. TypeOK'
  <2>1. ctxlen' \in 0..(HeadLen + MaxPayload) /\ pc' \in PC BY DEF PC
  <2> QED BY <1>1, <2>1 DEF IInv, TypeOK
<1>5. Bounds' /\ OverrunByLength' BY ParseFacts DEF IInv, Bounds, OverrunByLength
<1>6. Window'
  <2>1. Base' >= Cursor(delivered') - 1 BY <1>3, ParseFacts
  <2>2. \A i \in 0..(Have' - 1) : dp'[i] = Base' + 1 + i BY <1>2, <1>3, ParseFacts
  <2>3. \A j \in buf'..(pos' - 1) : mem'[j] = rd' - pos' + j + 1 BY DEF IInv, Window, Open
  <2> QED BY <2>1, <2>2, <2>3 DEF Window
<1>7. NoHeaderSkipped'
  <2> SUFFICES ASSUME NEW h \in Header, h >= Cursor(delivered) PROVE h > Base + k
    BY <1>3 DEF NoHeaderSkipped
  <2>1. h > Base /\ h \in Int BY DEF IInv, NoHeaderSkipped, Open
  <2>2. h - Base \notin 1..k BY <2>1, ParseFacts
  <2> QED BY <2>1, <2>2, ParseFacts
<1>8. LenTrusted' BY DEF LenTrusted, Need
<1> QED BY <1>4, <1>5, <1>6, <1>7, <1>8 DEF IInv

LEMMA ResyncStep == ASSUME IInv, NEW k \in 1..(HeadLen - 1), Resync(k) PROVE IInv'
<1> USE ConstantTypes
<1>1. pc = "parse" /\ ctxlen = HeadLen /\ ~Mark(0) /\ Skipped(k) BY DEF Resync
<1>2. ASSUME NEW i \in 1..k PROVE Base + i \notin Header
  <2> SUFFICES ASSUME Base + i \in Header PROVE FALSE OBVIOUS
  <2> DEFINE j == i - 1
  <2>1. j \in 0..(HeadLen - 2) /\ j + 1 < ctxlen /\ Base + 1 + j = Base + i
    BY <1>1, ParseFacts
  <2>2. Mark(j) BY <1>1, <2>1, HeaderHasMark
  <2>3. CASE j = 0 BY <1>1, <2>2, <2>3
  <2>4. CASE j # 0 BY <1>1, <2>1, <2>2, <2>4 DEF Skipped
  <2> QED BY <2>3, <2>4
<1>3. /\ ctxlen' = HeadLen - k /\ dp' = MoveDown(dp, k, HeadLen - k) /\ pc' = "get"
      /\ UNCHANGED <<netVars, cacheVars, want, left, delivered>>
  BY DEF Resync
<1> QED BY <1>1, <1>2, <1>3, DropStep

LEMMA BadCrcStep == ASSUME IInv, BadCrc PROVE IInv'
<1> USE ConstantTypes
<1>1. pc = "parse" /\ ctxlen = HeadLen /\ Mark(0) /\ ~CrcOk BY DEF BadCrc
<1>2. \A i \in 0..(HeadLen - 1) : dp[i] = Base + 1 + i /\ dp[i] \in 1..StreamLen
  BY <1>1, ParseFacts
<1>3. Base + 1 \notin Header
  <2>1. dp[0] = Base + 1 BY <1>1, <1>2, ParseFacts
  <2>2. \A i \in 0..(HeadLen - 1) : dp[i] = dp[0] + i BY <1>1, <1>2, <2>1, ParseFacts
  <2> QED BY <1>1, <2>1, <2>2 DEF CrcOk
<1>4. Base + 2 \notin Header
  <2>1. dp[0 + 1] = Base + 2 /\ dp[0 + 1] \in 1..StreamLen BY <1>1, <1>2, ParseFacts
  <2>2. Text[dp[0 + 1]] = "$" BY <1>1 DEF Mark
  <2> QED BY <2>1, <2>2, NoOverlap
<1>5. \A i \in 1..2 : Base + i \notin Header
  <2>1. \A i \in 1..2 : i = 1 \/ i = 2 OBVIOUS
  <2> QED BY <1>3, <1>4, <2>1
<1>6. /\ ctxlen' = HeadLen - 2 /\ dp' = MoveDown(dp, 2, HeadLen - 2) /\ pc' = "get"
      /\ UNCHANGED <<netVars, cacheVars, want, left, delivered>>
  BY DEF BadCrc
<1>7. 2 \in 1..(HeadLen - 1) OBVIOUS
<1> QED BY <1>1, <1>5, <1>6, <1>7, DropStep

-----------------------------------------------------------------------------
(* delivery *)

\* A packet that is handed out is exactly the next one of the stream.
LEMMA DeliverFacts ==
  ASSUME IInv, Deliver
  PROVE  /\ pc = "parse" /\ Base + 1 \in Header
         /\ Fits(Base + 1)
         /\ ctxlen = Size(Base + 1) /\ ctxlen \in Nat /\ ctxlen > 0
         /\ IsNextHeader(Base + 1, Cursor(delivered))
         /\ [i \in 1..ctxlen |-> dp[i - 1]] = Bytes(Base + 1)
         /\ Bytes(Base + 1) \in [1..ctxlen -> Nat]
         /\ Base + ctxlen <= arrived
<1> USE ConstantTypes
<1>1. pc = "parse" /\ Whole BY DEF Deliver
<1>2. CrcOk BY <1>1 DEF Whole, IInv, LenTrusted
<1>3. DpLen \in 0..MaxLen BY DEF DpLen
<1>4. ctxlen = HeadLen + DpLen
  BY <1>1, <1>3, ParseFacts DEF Whole, IInv, Bounds
<1>5. ctxlen >= HeadLen /\ ctxlen > 0 BY <1>3, <1>4
<1>6. dp[0] = Base + 1 BY <1>1, <1>5, ParseFacts
<1>7. Base + 1 \in Header /\ ctxlen = Size(Base + 1)
  BY <1>2, <1>4, <1>6 DEF CrcOk, DpLen, Size
<1>12. Fits(Base + 1)
  <2>1. DpLen <= MaxPayload BY <1>1, <1>3, <1>4, ParseFacts
  <2> QED BY <1>2, <1>6, <2>1 DEF CrcOk, DpLen, Fits
<1>8. IsNextHeader(Base + 1, Cursor(delivered))
  <2>1. \A g \in Header : g >= Cursor(delivered) => g >= Base + 1
    BY <1>1, ParseFacts DEF IInv, NoHeaderSkipped, Open
  <2> QED BY <1>1, <1>7, <2>1, ParseFacts DEF IsNextHeader
<1>9. \A i \in 1..ctxlen : dp[i - 1] = Base + 1 + i - 1 /\ Base + 1 + i - 1 \in Nat
  BY <1>1, ParseFacts
<1>10. [i \in 1..ctxlen |-> dp[i - 1]] = Bytes(Base + 1)
  BY <1>7, <1>9 DEF Bytes
<1>11. Bytes(Base + 1) \in [1..ctxlen -> Nat] BY <1>7, <1>9 DEF Bytes
<1> QED BY <1>1, <1>5, <1>7, <1>8, <1>10, <1>11, <1>12, ParseFacts

LEMMA DeliverStep == ASSUME IInv, Deliver PROVE IInv'
<1> USE ConstantTypes
<1>1. /\ pc = "parse" /\ ctxlen' = 0 /\ pc' = "get"
      /\ delivered' = Append(delivered, Bytes(Base + 1))
      /\ UNCHANGED <<arrived, shut, rd, mem, buf, pos, dp, want, left>>
  BY DeliverFacts DEF Deliver, netVars, cacheVars
<1>2. delivered \in Seq(Seq(Nat) \ {<<>>}) BY DEF IInv, TypeOK
<1>3. /\ delivered' \in Seq(Seq(Nat) \ {<<>>})
      /\ Cursor(delivered') = Bytes(Base + 1)[ctxlen] + 1
  <2>1. ctxlen \in Nat /\ ctxlen > 0 /\ Bytes(Base + 1) \in [1..ctxlen -> Nat]
    BY DeliverFacts
  <2> QED BY <1>1, <1>2, <2>1, CursorAppend
<1>4. Bytes(Base + 1)[ctxlen] = Base + ctxlen /\ Base \in Nat /\ ctxlen \in Nat
  <2>1. Base \in Nat BY <1>1, ParseFacts
  <2>2. ctxlen \in Nat /\ ctxlen > 0 /\ ctxlen = Size(Base + 1) BY DeliverFacts
  <2>3. ctxlen \in 1..Size(Base + 1) BY <2>2
  <2> QED BY <2>1, <2>2, <2>3 DEF Bytes
<1>5. Have' = 0 /\ Base' = Base + ctxlen BY <1>1, ParseFacts, SMTT(30) DEF Have, Base
<1>6. TypeOK'
  <2>1. ctxlen' \in 0..(HeadLen + MaxPayload) /\ pc' \in PC BY <1>1 DEF PC
  <2> QED BY <1>1, <1>3, <2>1 DEF IInv, TypeOK
<1>7. Bounds' /\ OverrunByLength' BY <1>1 DEF IInv, Bounds, OverrunByLength
<1>8. Window'
  <2>1. Base' >= Cursor(delivered') - 1 BY <1>3, <1>4, <1>5
  <2>2. \A i \in 0..(Have' - 1) : FALSE BY <1>5
  <2>3. \A j \in buf'..(pos' - 1) : mem'[j] = rd' - pos' + j + 1
    BY <1>1 DEF IInv, Window, Open
  <2> QED BY <2>1, <2>2, <2>3 DEF Window
<1>9. NoHeaderSkipped'
  <2>1. \A h \in Header : h >= Base + ctxlen + 1 => h > Base + ctxlen BY <1>4
  <2> QED BY <1>3, <1>4, <1>5, <2>1 DEF NoHeaderSkipped
<1>10. LenTrusted' BY <1>1 DEF LenTrusted, Need
<1> QED BY <1>6, <1>7, <1>8, <1>9, <1>10 DEF IInv

LEMMA StepIInv == IInv /\ [Next]_vars => IInv'
<1> SUFFICES ASSUME IInv, [Next]_vars PROVE IInv' OBVIOUS
<1>1. ASSUME NEW n \in (arrived + 1)..StreamLen, Arrive(n) PROVE IInv'
  <2>1. arrived' \in arrived..StreamLen /\ shut' \in BOOLEAN
    BY <1>1, ConstantTypes DEF Arrive, IInv, TypeOK
  <2> QED BY <1>1, <2>1, NetworkStep DEF Arrive
<1>2. CASE Shut
  <2>1. arrived' \in arrived..StreamLen /\ shut' \in BOOLEAN
    BY <1>2, ConstantTypes DEF Shut, IInv, TypeOK
  <2> QED BY <1>2, <2>1, NetworkStep DEF Shut
<1>3. CASE Wake BY <1>3, WakeStep
<1>4. CASE GetPacket BY <1>4, GetPacketStep
<1>5. CASE CacheHit BY <1>5, CacheHitStep
<1>6. ASSUME NEW n \in 1..Room, Recv(n) PROVE IInv' BY <1>6, RecvStep
<1>7. CASE RecvNothing BY <1>7, RecvNothingStep
<1>8. CASE RecvEnd BY <1>8, RecvEndStep
<1>9. CASE Short BY <1>9, ShortStep
<1>10. ASSUME NEW k \in 1..(HeadLen - 1), Resync(k) PROVE IInv' BY <1>10, ResyncStep
<1>11. CASE BadCrc BY <1>11, BadCrcStep
<1>12. CASE GetPayload BY <1>12, GetPayloadStep
<1>13. CASE Deliver BY <1>13, DeliverStep
<1>15. CASE Overrun BY <1>15, OverrunStep
<1>14. CASE UNCHANGED vars
  <2>1. arrived' \in arrived..StreamLen /\ shut' \in BOOLEAN
    BY <1>14, ConstantTypes DEF vars, IInv, TypeOK
  <2> QED BY <1>14, <2>1, NetworkStep DEF vars, cacheVars
<1> QED BY <1>1, <1>2, <1>3, <1>4, <1>5, <1>6, <1>7, <1>8, <1>9, <1>10, <1>11,
           <1>12, <1>13, <1>14, <1>15 DEF Next, Receiver

(***************************************************************************)
(* The inductive invariant holds in every reachable state, for every       *)
(* stream, length field, header length, payload limit and cache size: the  *)
(* byte window of read_cached(), the resync and the trusted length field   *)
(* together, all of them up to a write behind *ctx->dp, and that such a    *)
(* write needs a length field that passed the crc check and is larger than *)
(* the payload limit.                                                      *)
(***************************************************************************)
THEOREM Invariance == Spec => []IInv
BY InitIInv, StepIInv, PTL DEF Spec

(***************************************************************************)
(* The variables of the receiver keep their types and bounds; what would   *)
(* be a write out of bounds is the step to "overrun".                      *)
(***************************************************************************)
THEOREM TypeCorrect == Spec => []TypeOK
<1>1. IInv => TypeOK BY DEF IInv
<1> QED BY <1>1, Invariance, PTL

(***************************************************************************)
(* read_cached() writes behind *ctx->dp (lines 60, 67) only for a header   *)
(* that passed the crc check and whose length field is larger than the     *)
(* payload limit: the missing comparison of dp->len is the only way.       *)
(***************************************************************************)
THEOREM OverrunOnlyByLength == Spec => []OverrunByLength
<1>1. IInv => OverrunByLength BY DEF IInv
<1> QED BY <1>1, Invariance, PTL

(***************************************************************************)
(* On a stream all of whose acceptable headers, those in garbage and       *)
(* damage included, say at most the payload limit, every memcpy() of the   *)
(* receiver stays inside *ctx->dp.                                         *)
(***************************************************************************)
THEOREM StaysInBuffer ==
  ASSUME \A h \in Header : Fits(h) PROVE Spec => [](pc # "overrun")
<1>1. IInv => pc # "overrun"
  <2> SUFFICES ASSUME IInv, pc = "overrun" PROVE FALSE OBVIOUS
  <2>1. CrcOk /\ DpLen > MaxPayload BY DEF IInv, OverrunByLength
  <2>2. PayLen[dp[0]] > MaxPayload /\ dp[0] \in Header BY <2>1 DEF CrcOk, DpLen
  <2> QED BY <2>2, ConstantTypes DEF Fits
<1> QED BY <1>1, Invariance, PTL

(***************************************************************************)
(* Nothing is lost, doubled or reordered between recv() and *ctx->dp, as   *)
(* long as the receiver has not written behind *ctx->dp.                   *)
(***************************************************************************)
THEOREM WindowHolds == Spec => []Window
<1>1. IInv => Window BY DEF IInv
<1> QED BY <1>1, Invariance, PTL

(***************************************************************************)
(* The resync of dw_get_packet() never throws an acceptable header away,   *)
(* as long as the receiver has not written behind *ctx->dp.                *)
(***************************************************************************)
THEOREM NoHeaderLost == Spec => []NoHeaderSkipped
<1>1. IInv => NoHeaderSkipped BY DEF IInv
<1> QED BY <1>1, Invariance, PTL

(***************************************************************************)
(* dp->len is read only behind a checked header, and never asks for an     *)
(* empty read.                                                             *)
(***************************************************************************)
THEOREM LenIsTrusted == Spec => []LenTrusted
<1>1. IInv => LenTrusted BY DEF IInv
<1> QED BY <1>1, Invariance, PTL

(***************************************************************************)
(* recv() is never called with a length of 0.                              *)
(***************************************************************************)
THEOREM RecvAlwaysHasRoom == Spec => []RecvHasRoom
<1>1. IInv => RecvHasRoom
  <2> SUFFICES ASSUME IInv, pc = "fill", pos - buf < left PROVE Room > 0
    BY DEF RecvHasRoom
  <2>1. pos \in 0..CacheSize BY DEF IInv, TypeOK
  <2> QED BY <2>1, ConstantTypes DEF Room, RecvAt
<1> QED BY <1>1, Invariance, PTL

-----------------------------------------------------------------------------
(* refinement of the abstract queue *)

\* The abstract queue's operators on the stream are the receiver's.
LEMMA SameStream ==
  /\ \A h, c : Fifo!IsNextHeader(h, c) <=> IsNextHeader(h, c)
  /\ \A d : Fifo!Cursor(d) = Cursor(d)
  /\ \A h : Fifo!Size(h) = Size(h) /\ Fifo!Bytes(h) = Bytes(h) /\ (Fifo!Fits(h) <=> Fits(h))
BY DEF Fifo!IsNextHeader, Fifo!Cursor, Fifo!Size, Fifo!Bytes, Fifo!Fits,
       IsNextHeader, Cursor, Size, Bytes, Fits

\* At the end of the stream the bytes left over are not more than the buffer
\* has room for.
LEMMA NoOverrunAtEnd ==
  ASSUME IInv, RecvEnd PROVE \A h \in Header : ~Fifo!TooLong(h)
<1> USE ConstantTypes
<1>1. CacheMiss /\ pc = "fill" /\ rd = arrived BY DEF RecvEnd, CacheMiss
<1> SUFFICES ASSUME NEW h \in Header, IsNextHeader(h, Cursor(delivered)),
                    h + HeadLen + MaxPayload <= arrived
             PROVE  FALSE
  BY SameStream DEF Fifo!TooLong
<1>2. h \in Nat /\ h > Base BY <1>1 DEF IInv, NoHeaderSkipped, IsNextHeader, Open
<1>3. Base + (Have + (pos - buf)) = rd /\ Have + (pos - buf) <= HeadLen + MaxPayload
      /\ Base \in Int /\ rd \in Nat /\ Have \in Nat /\ pos - buf \in Int
  BY <1>1, MissFacts, FillTypes DEF Base
<1> QED BY <1>1, <1>2, <1>3

\* At the end of the stream the bytes left over are not a whole packet.
LEMMA NothingLeftAtEnd ==
  ASSUME IInv, RecvEnd PROVE \A h \in Header : ~Fifo!Complete(h)
<1> USE ConstantTypes
<1>1. CacheMiss /\ pc = "fill" /\ rd = arrived BY DEF RecvEnd, CacheMiss
<1> SUFFICES ASSUME NEW h \in Header, IsNextHeader(h, Cursor(delivered)),
                    h + Size(h) - 1 <= arrived
             PROVE  FALSE
  BY SameStream DEF Fifo!Complete
<1>2. /\ h \in Nat /\ h > Base /\ PayLen[h] \in Nat
      /\ \A g \in Header : g >= Cursor(delivered) => h <= g
  BY <1>1 DEF IInv, NoHeaderSkipped, IsNextHeader, Open
\* everything read is under assembly now, and it is less than was asked for
<1>3. /\ Base + (Have + (pos - buf)) = rd
      /\ Have + (pos - buf) \in Nat
      /\ Have + (pos - buf) < ctxlen + Need /\ ctxlen \in Nat /\ Base \in Int
      /\ Need \in Nat /\ rd \in Nat
  BY <1>1, MissFacts, FillTypes DEF Base
<1>4. CASE ctxlen < HeadLen
  <2>1. ctxlen + Need = HeadLen BY <1>3, <1>4 DEF Need
  <2> QED BY <1>1, <1>2, <1>3, <2>1 DEF Size
<1>5. CASE ctxlen >= HeadLen
  <2>1. CrcOk BY <1>1, <1>5, MissFacts
  <2>2. dp[0] = Base + 1
    <3>1. 0 \in 0..(Have - 1) BY <1>1, <1>5, FillTypes DEF Have
    <3> QED BY <1>1, <1>3, <3>1 DEF IInv, Window, Open
  <2>3. Base + 1 \in Header /\ ctxlen + Need = Size(Base + 1)
    <3>1. DpLen \in Nat BY DEF DpLen
    <3> QED BY <1>3, <1>5, <2>1, <2>2, <3>1 DEF CrcOk, Need, DpLen, Size
  <2>4. Base + 1 >= Cursor(delivered)
    <3>1. Cursor(delivered) \in Nat BY CursorType DEF IInv, TypeOK
    <3> QED BY <1>1, <1>3, <3>1 DEF IInv, Window, Open
  <2>5. h = Base + 1 BY <1>2, <1>3, <2>3, <2>4
  <2> QED BY <1>1, <1>2, <1>3, <2>3, <2>5 DEF Size
<1> QED BY <1>3, <1>4, <1>5

LEMMA StepRefines == IInv /\ [Next]_vars => [Fifo!Next]_(Fifo!vars)
<1> SUFFICES ASSUME IInv, [Next]_vars PROVE [Fifo!Next]_(Fifo!vars) OBVIOUS
<1> USE DEF netVars, cacheVars
<1>1. ASSUME NEW n \in (arrived + 1)..StreamLen, Arrive(n) PROVE Fifo!Next
  BY <1>1 DEF Arrive, Fifo!Next, Fifo!Arrive, Open
<1>2. CASE Shut BY <1>2 DEF Shut, Fifo!Next, Fifo!Shut, Open
<1>3. ASSUME UNCHANGED <<arrived, shut, delivered>>, Open, Open'
      PROVE  UNCHANGED Fifo!vars
  BY <1>3 DEF Fifo!vars
<1>4. CASE Wake BY <1>3, <1>4 DEF Wake, Open
<1>5. CASE GetPacket BY <1>3, <1>5 DEF GetPacket, Open
<1>6. CASE CacheHit BY <1>3, <1>6 DEF CacheHit, Return, Open
<1>7. ASSUME NEW n \in 1..Room, Recv(n) PROVE UNCHANGED Fifo!vars
  BY <1>3, <1>7 DEF Recv, CacheMiss, Open
<1>8. CASE RecvNothing BY <1>3, <1>8 DEF RecvNothing, CacheMiss, Return, Open
<1>9. CASE RecvEnd
  <2>1. \A h \in Header : ~Fifo!Complete(h) /\ ~Fifo!TooLong(h)
    BY <1>9, NothingLeftAtEnd, NoOverrunAtEnd
  <2>2. Open /\ pc' = "closed" /\ ~Open' /\ shut /\ UNCHANGED <<arrived, shut, delivered>>
    BY <1>9 DEF RecvEnd, CacheMiss, Open
  <2> QED BY <2>1, <2>2 DEF Fifo!Next, Fifo!Close
<1>10. CASE Short BY <1>3, <1>10 DEF Short, Open
<1>11. ASSUME NEW k \in 1..(HeadLen - 1), Resync(k) PROVE UNCHANGED Fifo!vars
  BY <1>3, <1>11 DEF Resync, Open
<1>12. CASE BadCrc BY <1>3, <1>12 DEF BadCrc, Open
<1>13. CASE GetPayload BY <1>3, <1>13 DEF GetPayload, Open
<1>14. CASE Deliver
  <2> DEFINE h == Base + 1
  <2>1. /\ pc = "parse" /\ pc' = "get" /\ UNCHANGED <<arrived, shut>>
        /\ h \in Header /\ delivered' = Append(delivered, Bytes(h))
        /\ IsNextHeader(h, Cursor(delivered)) /\ Fits(h) /\ Open /\ Open'
    BY <1>14, DeliverFacts DEF Deliver, Open
  <2>2. h + Size(h) - 1 <= arrived
    <3>1. Base + ctxlen <= arrived /\ ctxlen = Size(h) /\ ctxlen \in Nat
      BY <1>14, DeliverFacts
    <3>2. Base \in Nat /\ arrived \in Int BY <2>1, ParseFacts
    <3> QED BY <3>1, <3>2
  <2>3. Fifo!Complete(h) /\ Fifo!Bytes(h) = Bytes(h)
    BY <2>1, <2>2, SameStream DEF Fifo!Complete
  <2>4. Fifo!Deliver(h) BY <2>1, <2>3 DEF Fifo!Deliver
  <2> QED BY <2>1, <2>4 DEF Fifo!Next
<1>16. CASE Overrun
  <2> DEFINE h == Base + 1
  <2>1. /\ pc = "fill" /\ pc' = "overrun" /\ Open /\ ~Open' /\ IInv'
        /\ UNCHANGED <<arrived, shut, rd, buf, pos, dp, ctxlen, want, left, delivered>>
    BY <1>16, OverrunStep DEF Overrun, Open
  <2>2. CrcOk /\ DpLen > MaxPayload
    BY <2>1 DEF IInv, OverrunByLength, CrcOk, DpLen
  <2>3. /\ Have \in Nat /\ Base \in Int /\ Copy <= pos - buf /\ Copy \in Nat
        /\ pos - buf \in Nat
        /\ Base + Have + (pos - buf) = rd /\ rd <= arrived /\ arrived \in Nat
        /\ Have + Copy > HeadLen + MaxPayload /\ Have <= HeadLen + MaxPayload
    BY <1>16, <2>1, FillTypes, ConstantTypes
       DEF Overrun, CopyFits, Copy, Have, Base, IInv, Bounds
  <2>4. Have > 0
    <3>1. ctxlen >= HeadLen
      BY <2>1, <2>3, FillTypes, ConstantTypes DEF IInv, LenTrusted, Need, Have, Copy
    <3> QED BY <2>1, <3>1, FillTypes, ConstantTypes DEF Have
  <2>5. dp[0] = h
    <3>1. 0 \in 0..(Have - 1) BY <2>3, <2>4
    <3> QED BY <2>1, <2>3, <3>1 DEF IInv, Window
  <2>6. h \in Header /\ ~Fits(h)
    BY <2>2, <2>5, ConstantTypes DEF CrcOk, DpLen, Fits
  <2>7. IsNextHeader(h, Cursor(delivered))
    <3>1. Cursor(delivered) \in Nat BY CursorType DEF IInv, TypeOK
    <3>2. h >= Cursor(delivered) BY <2>1, <2>3, <3>1 DEF IInv, Window
    <3>3. \A g \in Header : g >= Cursor(delivered) => h <= g
      BY <2>1, <2>3, ConstantTypes DEF IInv, NoHeaderSkipped
    <3> QED BY <2>6, <3>2, <3>3 DEF IsNextHeader
  <2>8. h + HeadLen + MaxPayload <= arrived BY <2>3, ConstantTypes
  <2>9. Fifo!Overrun(h)
    <3>1. Fifo!TooLong(h)
      <4> HIDE DEF h
      <4>1. Fifo!IsNextHeader(h, Fifo!Cursor(delivered)) BY <2>7, SameStream
      <4>2. ~Fifo!Fits(h) BY <2>6, SameStream
      <4> QED BY <2>8, <4>1, <4>2 DEF Fifo!TooLong
    <3> QED BY <2>1, <3>1 DEF Fifo!Overrun
  <2> QED BY <2>6, <2>9 DEF Fifo!Next
<1>15. CASE UNCHANGED vars BY <1>15 DEF vars, Fifo!vars, Open
<1> QED BY <1>1, <1>2, <1>4, <1>5, <1>6, <1>7, <1>8, <1>9, <1>10, <1>11, <1>12,
           <1>13, <1>14, <1>15, <1>16 DEF Next, Receiver

(***************************************************************************)
(* The receiver implements the abstract packet queue (its safety part):    *)
(* whatever the stream and however it is cut, proc_cmd() gets the stream's *)
(* packets whole, in order and once, and the connection is given up only   *)
(* when the peer closed it and no whole packet is left.  The promise ends  *)
(* at the first acceptable header with a length that does not fit, at the  *)
(* byte that does not, and the receiver overruns its buffer nowhere else.  *)
(***************************************************************************)
THEOREM ImplementsFifo == Spec => FifoSafe
<1>1. Init => Fifo!Init BY DEF Init, Fifo!Init, Open
<1> QED BY <1>1, StepRefines, Invariance, PTL DEF Spec, FifoSafe, Fifo!SafeSpec

-----------------------------------------------------------------------------
(* The writer and its peer *)

\* What the theorems take for granted of the constants.
Sizes == /\ HeadLen \in Nat \ {0} /\ MaxPayload \in Nat /\ Buffer \in Nat
         /\ Lens \subseteq Nat

OutType ==
  /\ frames \in Seq(0..MaxPayload)
  /\ result \in Seq({"sending", "ok", "error"}) /\ Len(result) = Len(frames)
  /\ \A f \in 1..(Len(frames) - 1) : result[f] # "sending"
  /\ unsent \in Nat /\ (Len(frames) > 0 => unsent <= Out!FrameLen(Len(frames)))
  /\ Out!Idle <=> unsent = 0
  /\ taken \in Nat /\ taken <= Len(wire)
  /\ wire \in Seq((1..Len(frames)) \X Nat)

NoError == \A f \in DOMAIN result : result[f] # "error"

\* S gives every frame of fr, and the next one, the place of its first byte.
FrameSize(fr, f) == HeadLen + fr[f]
Places(S, fr) ==
  /\ S \in [1..(Len(fr) + 1) -> Nat \ {0}]
  /\ S[1] = 1
  /\ \A f \in 1..Len(fr) : S[f + 1] = S[f] + FrameSize(fr, f)
  /\ \A f \in 1..Len(fr), g \in 1..(Len(fr) + 1) : f < g => S[f] + FrameSize(fr, f) <= S[g]

\* The bytes w are the frames one behind the other, up to the n that are left.
Written(S, fr, w, n) ==
  /\ Len(w) + n + 1 = S[Len(fr) + 1]
  /\ \A p \in 1..Len(w) : \E f \in 1..Len(fr) :
       /\ S[f] <= p /\ p < S[f] + FrameSize(fr, f)
       /\ w[p] = <<f, p - S[f]>>

\* The packets rc are the first frames, of the first n bytes.
Delivered(S, fr, rc, n) ==
  /\ rc \in Seq(Seq(Nat)) /\ Len(rc) <= Len(fr)
  /\ S[Len(rc) + 1] <= n + 1
  /\ \A f \in 1..Len(rc) : rc[f] = [i \in 1..FrameSize(fr, f) |-> S[f] + i - 1]

Good(S) ==
  Places(S, frames) /\ Written(S, frames, wire, unsent) /\ Delivered(S, frames, received, Len(wire))

OutInv == OutType /\ (NoError => \E S : Good(S))

-----------------------------------------------------------------------------

LEMMA Basics ==
  ASSUME Sizes, OutType
  PROVE  /\ Len(frames) \in Nat /\ Len(wire) \in Nat /\ HeadLen \in Nat /\ HeadLen > 0
         /\ DOMAIN wire = 1..Len(wire) /\ DOMAIN frames = 1..Len(frames)
         /\ DOMAIN result = 1..Len(frames)
         /\ \A f \in 1..Len(frames) : frames[f] \in Nat /\ frames[f] <= MaxPayload
                                      /\ FrameSize(frames, f) \in Nat /\ FrameSize(frames, f) > 0
<1>1. Len(frames) \in Nat /\ DOMAIN frames = 1..Len(frames)
  BY LenProperties DEF OutType
<1>2. Len(wire) \in Nat /\ DOMAIN wire = 1..Len(wire)
  BY LenProperties DEF OutType
<1>3. DOMAIN result = 1..Len(frames)
  BY LenProperties DEF OutType
<1>4. \A f \in 1..Len(frames) : frames[f] \in 0..MaxPayload
  BY ElementOfSeq DEF OutType
<1> QED
  BY <1>1, <1>2, <1>3, <1>4 DEF Sizes, FrameSize

LEMMA PlacesType ==
  ASSUME NEW S, Good(S) PROVE \A f \in 1..(Len(frames) + 1) : S[f] \in Nat /\ S[f] > 0
  BY DEF Good, Places

\* A byte of a frame that is on the wire.
LEMMA ByteAt ==
  ASSUME Sizes, OutType, NEW S, Good(S),
         NEW f \in 1..Len(frames), NEW i \in 0..(FrameSize(frames, f) - 1),
         S[f] + i <= Len(wire)
  PROVE  wire[S[f] + i] = <<f, i>>
<1> DEFINE p == S[f] + i
<1>1. /\ Len(frames) \in Nat /\ Len(wire) \in Nat
      /\ FrameSize(frames, f) \in Nat /\ S[f] \in Nat /\ S[f] > 0
  BY Basics, PlacesType
<1>2. i \in Nat /\ i < FrameSize(frames, f) /\ p \in 1..Len(wire)
  BY <1>1
<1>3. PICK g \in 1..Len(frames) : S[g] <= p /\ p < S[g] + FrameSize(frames, g) /\ wire[p] = <<g, p - S[g]>>
  BY <1>2 DEF Good, Written
<1>4. S[g] \in Nat /\ FrameSize(frames, g) \in Nat
  BY <1>1, Basics, PlacesType
<1>5. (f < g => S[f] + FrameSize(frames, f) <= S[g]) /\ (g < f => S[g] + FrameSize(frames, g) <= S[f])
  BY <1>1 DEF Good, Places
<1>6. g = f
  <2>1. ~(f < g)
    BY <1>1, <1>2, <1>3, <1>4, <1>5, SMTT(30)
  <2>2. ~(g < f)
    BY <1>1, <1>2, <1>3, <1>4, <1>5, SMTT(30)
  <2> QED
    BY <1>1, <2>1, <2>2
<1> QED
  BY <1>1, <1>2, <1>3, <1>6

\* A header on the wire is the start of a frame.
LEMMA HeadIsStart ==
  ASSUME Sizes, OutType, NEW S, Good(S), NEW h \in Out!Heads
  PROVE  h \in 1..Len(wire) /\ \E f \in 1..Len(frames) : h = S[f] /\ wire[h] = <<f, 0>>
<1>1. h \in 1..Len(wire) /\ h \in Nat
  BY Basics DEF Out!Heads
<1>2. 0 \in 0..(HeadLen - 1)
  BY Basics
<1>3. wire[h + 0] = <<wire[h][1], 0>>
  BY <1>2 DEF Out!Heads
<1>4. PICK f \in 1..Len(frames) : S[f] <= h /\ wire[h] = <<f, h - S[f]>>
  BY <1>1 DEF Good, Written
<1>5. S[f] \in Nat
  BY <1>4, Basics, PlacesType
<1>6. h - S[f] = 0
  BY <1>1, <1>3, <1>4, <1>5
<1> QED
  BY <1>1, <1>4, <1>5, <1>6

\* The next header behind the packets received is the one of the next frame.
LEMMA NextIsNext ==
  ASSUME Sizes, OutType, NEW S, Good(S), NEW h \in Out!Heads,
         Out!Stream!IsNextHeader(h, Out!Stream!Cursor(received))
  PROVE  /\ Len(received) + 1 \in 1..Len(frames) /\ h = S[Len(received) + 1]
         /\ Out!Stream!Size(h) = FrameSize(frames, Len(received) + 1)
         /\ Out!Stream!Bytes(h) = [i \in 1..FrameSize(frames, Len(received) + 1) |-> S[Len(received) + 1] + i - 1]
<1> DEFINE k == Len(received)
<1>1. k \in Nat /\ k <= Len(frames) /\ Len(frames) \in Nat /\ Len(wire) \in Nat
  BY Basics DEF Good, Delivered
<1>2. Out!Stream!Cursor(received) = S[k + 1]
  <2>1. CASE received = <<>>
    BY <2>1 DEF Good, Out!Stream!Cursor, Places
  <2>2. CASE received # <<>>
    <3>1. k \in 1..Len(frames) /\ k \in 1..Len(received)
      BY <1>1, <2>2 DEF Good, Delivered
    <3>2. received[k] = [i \in 1..FrameSize(frames, k) |-> S[k] + i - 1]
      BY <3>1 DEF Good, Delivered
    <3>3. FrameSize(frames, k) \in Nat /\ FrameSize(frames, k) > 0 /\ S[k] \in Nat /\ S[k + 1] = S[k] + FrameSize(frames, k)
      BY <1>1, <3>1, Basics, PlacesType DEF Good, Places
    <3>4. Len(received[k]) = FrameSize(frames, k) /\ received[k][FrameSize(frames, k)] = S[k] + FrameSize(frames, k) - 1
      BY <3>2, <3>3
    <3>5. Out!Stream!Cursor(received) = received[k][Len(received[k])] + 1
      BY <2>2 DEF Out!Stream!Cursor
    <3> QED
      BY <3>3, <3>4, <3>5
  <2> QED
    BY <2>1, <2>2
<1>3. h >= S[k + 1] /\ \A g \in Out!Heads : g >= S[k + 1] => h <= g
  BY <1>2 DEF Out!Stream!IsNextHeader
<1>4. PICK f \in 1..Len(frames) : h = S[f] /\ wire[h] = <<f, 0>>
  BY HeadIsStart
<1>5. h \in 1..Len(wire)
  BY HeadIsStart
<1>6. S[f] \in Nat /\ S[k + 1] \in Nat /\ FrameSize(frames, f) \in Nat /\ FrameSize(frames, f) > 0
  BY <1>1, Basics, PlacesType
<1>7. f >= k + 1
  <2> SUFFICES ASSUME f < k + 1 PROVE FALSE
    BY <1>1
  <2>1. S[f] + FrameSize(frames, f) <= S[k + 1]
    BY <1>1 DEF Good, Places
  <2> QED
    BY <2>1, <1>3, <1>4, <1>6
<1>8. k + 1 \in 1..Len(frames)
  BY <1>1, <1>7
<1>9. f = k + 1
  <2> SUFFICES ASSUME f > k + 1 PROVE FALSE
    BY <1>1, <1>7
  <2>1. S[k + 1] + FrameSize(frames, k + 1) <= S[f] /\ FrameSize(frames, k + 1) = HeadLen + frames[k + 1]
    BY <1>1, <1>8 DEF Good, Places, FrameSize
  <2>2. HeadLen \in Nat /\ frames[k + 1] \in Nat /\ HeadLen > 0
    BY <1>8, Basics
  <2>3. S[k + 1] \in 1..Len(wire) /\ S[k + 1] + HeadLen - 1 <= Len(wire)
    <3>1. S[k + 1] > 0 /\ S[f] <= Len(wire) /\ S[f] \in Nat
      BY <1>1, <1>4, <1>5, <1>6, PlacesType
    <3> QED
      BY <3>1, <1>1, <1>6, <2>1, <2>2
  <2>4. \A i \in 0..(HeadLen - 1) : wire[S[k + 1] + i] = <<k + 1, i>>
    <3> TAKE i \in 0..(HeadLen - 1)
    <3>1. i \in 0..(FrameSize(frames, k + 1) - 1) /\ S[k + 1] + i <= Len(wire)
      BY <1>1, <1>6, <2>1, <2>2, <2>3, SMTT(30)
    <3> QED
      BY <3>1, <1>8, ByteAt
  <2>5. wire[S[k + 1] + 0] = <<k + 1, 0>>
    BY <2>2, <2>4
  <2>6. wire[S[k + 1]][1] = k + 1
    BY <1>6, <2>5
  <2>7. S[k + 1] \in Out!Heads
    BY <2>3, <2>4, <2>6, Basics DEF Out!Heads
  <2> QED
    BY <2>1, <2>2, <2>7, <1>3, <1>4, <1>6
<1>10. Out!Stream!Size(h) = FrameSize(frames, k + 1)
  BY <1>4, <1>9 DEF Out!Stream!Size, FrameSize
<1> QED
  BY <1>4, <1>8, <1>9, <1>10 DEF Out!Stream!Bytes

-----------------------------------------------------------------------------
(* The steps. *)

LEMMA InitOut == Out!Init => OutInv
<1> SUFFICES ASSUME Out!Init PROVE OutInv
  OBVIOUS
<1>1. Len(frames) = 0 /\ Len(wire) = 0 /\ Len(result) = 0 /\ Len(received) = 0
  BY DEF Out!Init
<1>2. OutType
  <2>1. frames \in Seq(0..MaxPayload) /\ result \in Seq({"sending", "ok", "error"})
    BY EmptySeq DEF Out!Init
  <2>2. wire \in Seq((1..Len(frames)) \X Nat)
    BY EmptySeq DEF Out!Init
  <2>3. Out!Idle /\ unsent = 0 /\ taken = 0
    BY DEF Out!Init, Out!Idle
  <2>4. \A f \in 1..(Len(frames) - 1) : result[f] # "sending"
    BY <1>1
  <2> QED
    BY <1>1, <2>1, <2>2, <2>3, <2>4 DEF OutType
<1> DEFINE S == [f \in 1..1 |-> 1]
<1>3. Places(S, frames)
  BY <1>1 DEF Places
<1>4. Written(S, frames, wire, unsent)
  BY <1>1 DEF Out!Init, Written
<1>5. Delivered(S, frames, received, Len(wire))
  BY <1>1 DEF Out!Init, Delivered
<1> QED
  BY <1>2, <1>3, <1>4, <1>5 DEF OutInv, Good

\* A frame that is sent is the last one.
LEMMA SendingIsLast ==
  ASSUME Sizes, OutType, ~Out!Idle
  PROVE  Len(frames) \in 1..Len(frames) /\ result[Len(frames)] = "sending"
<1>1. PICK f \in 1..Len(frames) : result[f] = "sending"
  BY Basics DEF Out!Idle
<1>2. f \notin 1..(Len(frames) - 1)
  BY <1>1 DEF OutType
<1> QED
  BY <1>1, <1>2, Basics

\* The next frame gets the place behind all the others.
LEMMA CallOut ==
  ASSUME Sizes, OutInv, NEW len \in Lens, Out!Call(len) PROVE OutInv'
<1> DEFINE N == Len(frames)
<1>1. /\ OutType /\ N \in Nat /\ len \in Nat /\ len <= MaxPayload /\ HeadLen \in Nat /\ HeadLen > 0
      /\ Out!Idle /\ unsent = 0 /\ unsent' = HeadLen + len
      /\ frames' = Append(frames, len) /\ result' = Append(result, "sending")
      /\ wire' = wire /\ taken' = taken /\ received' = received
  BY Basics DEF OutInv, Out!Call, OutType, Sizes
<1>2. /\ frames' \in Seq(0..MaxPayload) /\ Len(frames') = N + 1 /\ frames'[N + 1] = len
      /\ \A f \in 1..N : frames'[f] = frames[f]
  <2>1. frames \in Seq(0..MaxPayload) /\ len \in 0..MaxPayload
    BY <1>1 DEF OutType, Sizes
  <2> QED
    BY <2>1, <1>1, AppendProperties
<1>3. /\ result' \in Seq({"sending", "ok", "error"}) /\ Len(result') = N + 1
      /\ result'[N + 1] = "sending" /\ \A f \in 1..N : result'[f] = result[f]
  <2>1. result \in Seq({"sending", "ok", "error"}) /\ Len(result) = N
    BY <1>1 DEF OutType
  <2> QED
    BY <2>1, <1>1, AppendProperties
<1>4. OutType'
  <2>1. \A f \in 1..N : result[f] # "sending"
    BY <1>1, Basics DEF Out!Idle
  <2>2. \A f \in 1..(Len(frames') - 1) : result'[f] # "sending"
    BY <1>1, <1>2, <1>3, <2>1
  <2>3. ~Out!Idle'
    <3>1. DOMAIN result' = 1..(N + 1)
      BY <1>3, LenProperties
    <3> QED
      BY <1>1, <1>3, <3>1 DEF Out!Idle
  <2>4. unsent' \in Nat /\ unsent' # 0 /\ unsent' <= Out!FrameLen(Len(frames))'
    BY <1>1, <1>2 DEF Out!FrameLen
  <2>5. wire' \in Seq((1..Len(frames')) \X Nat)
    <3>1. wire \in Seq((1..N) \X Nat)
      BY <1>1 DEF OutType
    <3>2. (1..N) \X Nat \subseteq (1..Len(frames')) \X Nat
      BY <1>1, <1>2
    <3>3. \A i \in 1..Len(wire) : wire[i] \in (1..Len(frames')) \X Nat
      BY <3>1, <3>2, ElementOfSeq
    <3>4. Len(wire) \in Nat /\ wire = [i \in 1..Len(wire) |-> wire[i]]
      BY <3>1, LenProperties
    <3> QED
      BY <1>1, <3>3, <3>4, IsASeq
  <2>6. taken' \in Nat /\ taken' <= Len(wire')
    BY <1>1 DEF OutType
  <2> QED
    BY <1>2, <1>3, <2>2, <2>3, <2>4, <2>5, <2>6 DEF OutType
<1>5. ASSUME NoError' PROVE \E S : Good(S)'
  <2>1. NoError
    <3>1. DOMAIN result' = 1..(N + 1) /\ DOMAIN result = 1..N
      BY <1>1, <1>3, Basics, LenProperties
    <3> QED
      BY <1>1, <1>3, <1>5, <3>1 DEF NoError
  <2>2. PICK S : Good(S)
    BY <2>1 DEF OutInv
  <2> DEFINE T == [f \in 1..(N + 2) |-> IF f = N + 2 THEN S[N + 1] + (HeadLen + len) ELSE S[f]]
  <2>3. /\ \A f \in 1..(N + 1) : S[f] \in Nat /\ S[f] > 0 /\ T[f] = S[f]
        /\ T[N + 2] = S[N + 1] + (HeadLen + len)
    BY <1>1, <2>2, PlacesType
  <2>4. /\ \A f \in 1..N : FrameSize(frames', f) = FrameSize(frames, f) /\ FrameSize(frames, f) \in Nat
        /\ FrameSize(frames', N + 1) = HeadLen + len
    BY <1>1, <1>2, Basics DEF FrameSize
  <2>5. Places(T, frames')
    <3>1. T \in [1..(N + 2) -> Nat \ {0}]
      <4>1. \A f \in 1..(N + 2) : (IF f = N + 2 THEN S[N + 1] + (HeadLen + len) ELSE S[f]) \in Nat \ {0}
        <5> TAKE f \in 1..(N + 2)
        <5>1. N + 1 \in 1..(N + 1) /\ (f # N + 2 => f \in 1..(N + 1)) /\ HeadLen + len \in Nat
          BY <1>1
        <5>2. S[N + 1] \in Nat /\ S[N + 1] > 0
          BY <5>1, <2>3
        <5>3. f # N + 2 => S[f] \in Nat /\ S[f] > 0
          BY <5>1, <2>3
        <5> QED
          BY <5>1, <5>2, <5>3
      <4> QED
        BY <4>1
    <3>2. T[1] = 1
      BY <1>1, <2>2, <2>3 DEF Good, Places
    <3>3. \A f \in 1..(N + 1) : T[f + 1] = T[f] + FrameSize(frames', f)
      <4> TAKE f \in 1..(N + 1)
      <4>1. CASE f = N + 1
        BY <4>1, <1>1, <2>3, <2>4
      <4>2. CASE f # N + 1
        <5>1. f \in 1..N /\ f \in 1..(N + 1) /\ f + 1 \in 1..(N + 1)
          BY <4>2, <1>1
        <5>2. S[f + 1] = S[f] + FrameSize(frames, f)
          BY <5>1, <2>2 DEF Good, Places
        <5> QED
          BY <5>1, <5>2, <2>3, <2>4
      <4> QED
        BY <4>1, <4>2
    <3>4. \A f \in 1..(N + 1), g \in 1..(N + 2) : f < g => T[f] + FrameSize(frames', f) <= T[g]
      <4> SUFFICES ASSUME NEW f \in 1..(N + 1), NEW g \in 1..(N + 2), f < g
                   PROVE  T[f] + FrameSize(frames', f) <= T[g]
        OBVIOUS
      <4>1. CASE f = N + 1
        <5>1. g = N + 2
          BY <4>1, <1>1
        <5>2. N + 1 \in 1..(N + 1) /\ HeadLen + len \in Nat
          BY <1>1
        <5>3. FrameSize(frames', f) = HeadLen + len
          BY <4>1, <2>4
        <5> HIDE DEF T
        <5>4. T[f] = S[N + 1] /\ T[g] = S[N + 1] + (HeadLen + len) /\ S[N + 1] \in Nat
          BY <4>1, <5>1, <5>2, <2>3
        <5> QED
          BY <5>2, <5>3, <5>4
      <4>2. CASE f # N + 1 /\ g # N + 2
        <5>1. f \in 1..N /\ g \in 1..(N + 1)
          BY <4>2, <1>1
        <5>2. S[f] + FrameSize(frames, f) <= S[g]
          BY <5>1, <2>2 DEF Good, Places
        <5> QED
          BY <5>1, <5>2, <2>3, <2>4
      <4>3. CASE f # N + 1 /\ g = N + 2
        <5>1. f \in 1..N /\ N + 1 \in 1..(N + 1) /\ f < N + 1
          BY <4>3, <1>1
        <5>2. S[f] + FrameSize(frames, f) <= S[N + 1]
          BY <5>1, <2>2 DEF Good, Places
        <5>3. S[f] \in Nat /\ S[N + 1] \in Nat /\ T[f] = S[f] /\ T[g] = S[N + 1] + (HeadLen + len)
          BY <4>3, <5>1, <1>1, <2>3
        <5>4. FrameSize(frames', f) = FrameSize(frames, f) /\ FrameSize(frames, f) \in Nat
          BY <5>1, <2>4
        <5> QED
          BY <5>2, <5>3, <5>4, <1>1
      <4> QED
        BY <4>1, <4>2, <4>3
    <3>5. Len(frames') = N + 1
      BY <1>2
    <3>6. N + 1 + 1 = N + 2
      BY <1>1
    <3> HIDE DEF T
    <3> QED
      BY <3>1, <3>2, <3>3, <3>4, <3>5, <3>6 DEF Places
  <2>6. Written(T, frames', wire', unsent')
    <3>1. Len(wire) + 0 + 1 = S[N + 1] /\ Len(wire) \in Nat
      BY <1>1, <2>2, Basics DEF Good, Written
    <3>2. Len(wire') + unsent' + 1 = T[Len(frames') + 1]
      BY <3>1, <1>1, <1>2, <2>3
    <3>3. ASSUME NEW p \in 1..Len(wire')
          PROVE  \E f \in 1..Len(frames') : /\ T[f] <= p /\ p < T[f] + FrameSize(frames', f)
                                            /\ wire'[p] = <<f, p - T[f]>>
      <4>1. PICK f \in 1..N : S[f] <= p /\ p < S[f] + FrameSize(frames, f) /\ wire[p] = <<f, p - S[f]>>
        BY <1>1, <2>2 DEF Good, Written
      <4>2. f \in 1..Len(frames') /\ T[f] = S[f] /\ FrameSize(frames', f) = FrameSize(frames, f)
        BY <1>1, <1>2, <2>3, <2>4
      <4> HIDE DEF T
      <4> QED
        BY <1>1, <4>1, <4>2
    <3> HIDE DEF T
    <3> QED
      BY <3>2, <3>3 DEF Written
  <2>7. Delivered(T, frames', received', Len(wire'))
    <3>1. /\ received \in Seq(Seq(Nat)) /\ Len(received) <= N /\ S[Len(received) + 1] <= Len(wire) + 1
          /\ \A f \in 1..Len(received) : received[f] = [i \in 1..FrameSize(frames, f) |-> S[f] + i - 1]
      BY <2>2 DEF Good, Delivered
    <3>2. Len(received) \in Nat
      BY <3>1, LenProperties
    <3>3. T[Len(received) + 1] = S[Len(received) + 1]
      BY <1>1, <2>3, <3>1, <3>2
    <3>4. \A f \in 1..Len(received) : T[f] = S[f] /\ FrameSize(frames', f) = FrameSize(frames, f)
      BY <1>1, <2>3, <2>4, <3>1, <3>2
    <3> HIDE DEF T
    <3> QED
      BY <1>1, <1>2, <3>1, <3>2, <3>3, <3>4 DEF Delivered
  <2> HIDE DEF T
  <2> QED
    BY <2>5, <2>6, <2>7 DEF Good
<1> QED
  BY <1>4, <1>5 DEF OutInv

\* The socket takes the next n bytes of the last frame.
LEMMA SendOut ==
  ASSUME Sizes, OutInv, NEW n \in 1..Out!Smaller(unsent, Out!Free), Out!Send(n) PROVE OutInv'
<1> DEFINE N == Len(frames)
           W == Len(wire)
<1>1. /\ OutType /\ ~Out!Idle /\ N \in 1..N /\ N \in Nat /\ result[N] = "sending"
      /\ W \in Nat /\ unsent \in Nat /\ n \in Nat /\ n > 0 /\ n <= unsent
      /\ frames' = frames /\ taken' = taken /\ received' = received
      /\ unsent' = unsent - n /\ wire' = wire \o Out!Chunk(n)
      /\ result' = [result EXCEPT ![N] = IF n = unsent THEN "ok" ELSE @]
  <2>1. OutType /\ ~Out!Idle
    BY DEF OutInv, Out!Send
  <2>2. unsent \in Nat /\ Len(wire) \in Nat /\ taken \in Nat /\ Buffer \in Nat
    BY <2>1, Basics DEF OutType, Sizes
  <2>3. n \in Nat /\ n > 0 /\ n <= unsent
    BY <2>2 DEF Out!Smaller, Out!Free
  <2> QED
    BY <2>1, <2>2, <2>3, SendingIsLast, Basics DEF Out!Send, Out!Current
<1>2. Out!FrameLen(N) = FrameSize(frames, N) /\ Out!FrameLen(N) \in Nat /\ unsent <= Out!FrameLen(N)
  BY <1>1, Basics DEF OutType, Out!FrameLen, FrameSize
<1>3. Out!Chunk(n) = [i \in 1..n |-> <<N, Out!FrameLen(N) - unsent + i - 1>>]
  BY DEF Out!Chunk, Out!Current
<1>4. Out!Chunk(n) \in Seq((1..N) \X Nat) /\ Len(Out!Chunk(n)) = n
  <2>1. \A i \in 1..n : <<N, Out!FrameLen(N) - unsent + i - 1>> \in (1..N) \X Nat
    BY <1>1, <1>2
  <2> QED
    BY <2>1, <1>1, <1>3, IsASeq
<1>5. /\ wire' \in Seq((1..N) \X Nat) /\ Len(wire') = W + n
      /\ \A p \in 1..W : wire'[p] = wire[p]
      /\ \A p \in (W + 1)..(W + n) : wire'[p] = <<N, Out!FrameLen(N) - unsent + (p - W) - 1>>
  <2>1. wire \in Seq((1..N) \X Nat)
    BY <1>1 DEF OutType
  <2>2. /\ wire' \in Seq((1..N) \X Nat) /\ Len(wire') = W + n
        /\ \A p \in 1..(W + n) : wire'[p] = IF p <= W THEN wire[p] ELSE Out!Chunk(n)[p - W]
    BY <1>1, <1>4, <2>1, ConcatProperties
  <2>3. \A p \in 1..W : wire'[p] = wire[p]
    BY <1>1, <2>2
  <2>4. \A p \in (W + 1)..(W + n) : wire'[p] = <<N, Out!FrameLen(N) - unsent + (p - W) - 1>>
    <3> TAKE p \in (W + 1)..(W + n)
    <3>1. p \in 1..(W + n) /\ ~(p <= W) /\ p - W \in 1..n
      BY <1>1
    <3> QED
      BY <3>1, <2>2, <1>3
  <2> QED
    BY <2>2, <2>3, <2>4
<1>6. /\ result' \in Seq({"sending", "ok", "error"}) /\ Len(result') = N
      /\ DOMAIN result = 1..N /\ DOMAIN result' = 1..N
      /\ \A f \in 1..N : f # N => result'[f] = result[f]
      /\ result'[N] = IF n = unsent THEN "ok" ELSE "sending"
  <2>1. result \in Seq({"sending", "ok", "error"}) /\ Len(result) = N
    BY <1>1 DEF OutType
  <2>2. /\ DOMAIN result = 1..N /\ result = [f \in 1..N |-> result[f]]
        /\ \A f \in 1..N : result[f] \in {"sending", "ok", "error"}
    BY <2>1, <1>1, LenProperties, ElementOfSeq
  <2>3. result' = [f \in 1..N |-> IF f = N THEN (IF n = unsent THEN "ok" ELSE "sending") ELSE result[f]]
    BY <1>1, <2>2
  <2>4. result' \in Seq({"sending", "ok", "error"}) /\ Len(result') = N
    BY <1>1, <2>2, <2>3, IsASeq
  <2> QED
    BY <1>1, <2>2, <2>3, <2>4, Zenon
<1>7. OutType'
  <2>1. \A f \in 1..(N - 1) : result'[f] # "sending"
    <3>1. \A f \in 1..(N - 1) : result[f] # "sending"
      BY <1>1 DEF OutType
    <3>2. \A f \in 1..(N - 1) : f \in 1..N /\ f # N
      BY <1>1
    <3> QED
      BY <1>6, <3>1, <3>2
  <2>2. Out!Idle' <=> unsent' = 0
    <3>1. \A f \in 1..N : f = N \/ f \in 1..(N - 1)
      BY <1>1
    <3>2. N \in 1..N /\ DOMAIN result' = 1..N
      BY <1>1, <1>6, Zenon
    <3>3. Out!Idle' <=> result'[N] # "sending"
      BY <2>1, <3>1, <3>2 DEF Out!Idle
    <3>4. unsent' = 0 <=> n = unsent
      BY <1>1
    <3>5. result'[N] # "sending" <=> n = unsent
      BY <1>6
    <3> QED
      BY <3>3, <3>4, <3>5
  <2>3. unsent' \in Nat /\ unsent' <= Out!FrameLen(Len(frames))'
    BY <1>1, <1>2 DEF Out!FrameLen
  <2>4. taken' \in Nat /\ taken' <= Len(wire')
    BY <1>1, <1>5 DEF OutType
  <2>5. frames' \in Seq(0..MaxPayload)
    BY <1>1 DEF OutType
  <2> QED
    BY <1>1, <1>5, <1>6, <2>1, <2>2, <2>3, <2>4, <2>5, Zenon DEF OutType
<1>8. ASSUME NoError' PROVE \E S : Good(S)'
  <2>1. NoError
    BY <1>1, <1>6, <1>8 DEF NoError
  <2>2. PICK S : Good(S)
    BY <2>1 DEF OutInv
  <2>3. /\ S[N] \in Nat /\ S[N + 1] \in Nat /\ S[N] > 0 /\ S[N + 1] = S[N] + Out!FrameLen(N)
        /\ W + unsent + 1 = S[N + 1]
    <3>1. N \in 1..(N + 1) /\ N + 1 \in 1..(N + 1) /\ N \in 1..N
      BY <1>1
    <3>2. S[N] \in Nat /\ S[N + 1] \in Nat /\ S[N] > 0
      BY <2>2, <3>1, PlacesType
    <3>3. S[N + 1] = S[N] + Out!FrameLen(N)
      BY <1>2, <2>2, <3>1 DEF Good, Places
    <3>4. W + unsent + 1 = S[N + 1]
      BY <2>2 DEF Good, Written
    <3> QED
      BY <3>2, <3>3, <3>4
  <2>4. Written(S, frames', wire', unsent')
    <3>1. Len(wire') + unsent' + 1 = S[Len(frames') + 1]
      BY <1>1, <1>5, <2>3
    <3>2. ASSUME NEW p \in 1..Len(wire')
          PROVE  \E f \in 1..Len(frames') : /\ S[f] <= p /\ p < S[f] + FrameSize(frames', f)
                                            /\ wire'[p] = <<f, p - S[f]>>
      <4>1. CASE p <= W
        <5>1. p \in 1..W
          BY <4>1, <1>1, <1>5
        <5> QED
          BY <5>1, <1>1, <1>5, <2>2 DEF Good, Written
      <4>2. CASE ~(p <= W)
        <5>1. p \in (W + 1)..(W + n)
          BY <4>2, <1>1, <1>5
        <5>4. p \in Nat /\ unsent \in Nat /\ W \in Nat /\ Out!FrameLen(N) \in Nat /\ S[N] \in Nat
              /\ W + unsent + 1 = S[N] + Out!FrameLen(N)
          BY <5>1, <1>1, <1>2, <2>3
        <5>2. Out!FrameLen(N) - unsent + (p - W) - 1 = p - S[N]
          BY <5>4
        <5>5. n \in Nat /\ n <= unsent /\ unsent <= Out!FrameLen(N)
          BY <1>1, <1>2
        <5>6. p > W /\ p <= W + n
          BY <5>1, <5>4, <5>5
        <5>3. S[N] <= p /\ p < S[N] + Out!FrameLen(N)
          <6> DEFINE a == S[N]
                     l == Out!FrameLen(N)
                     w == W
          <6>1. /\ a \in Nat /\ l \in Nat /\ w \in Nat /\ n \in Nat /\ p \in Nat /\ unsent \in Nat
                /\ w + unsent + 1 = a + l /\ n <= unsent /\ unsent <= l /\ p > w /\ p <= w + n
            BY <5>4, <5>5, <5>6
          <6> HIDE DEF a, l, w
          <6>2. a <= p /\ p < a + l
            BY <6>1
          <6> QED
            BY <6>2 DEF a, l
        <5> QED
          BY <5>1, <5>2, <5>3, <1>1, <1>2, <1>5
      <4> QED
        BY <4>1, <4>2
    <3> QED
      BY <3>1, <3>2 DEF Written
  <2>5. Delivered(S, frames', received', Len(wire'))
    <3>1. /\ received \in Seq(Seq(Nat)) /\ Len(received) <= N /\ S[Len(received) + 1] <= W + 1
          /\ \A f \in 1..Len(received) : received[f] = [i \in 1..FrameSize(frames, f) |-> S[f] + i - 1]
      BY <2>2 DEF Good, Delivered
    <3>2. Len(received) \in Nat
      BY <3>1, LenProperties
    <3>3. S[Len(received) + 1] \in Nat
      BY <1>1, <2>2, <3>1, <3>2, PlacesType
    <3> QED
      BY <1>1, <1>5, <3>1, <3>3, SMTT(30) DEF Delivered
  <2>6. Places(S, frames')
    BY <1>1, <2>2 DEF Good
  <2> QED
    BY <2>4, <2>5, <2>6 DEF Good
<1> QED
  BY <1>7, <1>8 DEF OutInv

\* A frame that is cut off ends the promise.
LEMMA SendFailsOut ==
  ASSUME Sizes, OutInv, Out!SendFails PROVE OutInv'
<1> DEFINE N == Len(frames)
<1>1. /\ OutType /\ N \in 1..N /\ N \in Nat
      /\ frames' = frames /\ taken' = taken /\ wire' = wire /\ unsent' = 0
      /\ result' = [result EXCEPT ![N] = "error"]
  BY SendingIsLast, Basics DEF OutInv, Out!SendFails, Out!Current
<1>2. result \in Seq({"sending", "ok", "error"}) /\ Len(result) = N
  BY <1>1 DEF OutType
<1>3. /\ DOMAIN result = 1..N /\ result = [f \in 1..N |-> result[f]]
      /\ \A f \in 1..N : result[f] \in {"sending", "ok", "error"}
  BY <1>1, <1>2, LenProperties, ElementOfSeq
<1>4. result' = [f \in 1..N |-> IF f = N THEN "error" ELSE result[f]]
  BY <1>1, <1>3
<1>5. result' \in Seq({"sending", "ok", "error"}) /\ Len(result') = N
  BY <1>1, <1>3, <1>4, IsASeq
<1>6. \A f \in 1..N : result'[f] # "sending"
  <2>1. \A f \in 1..(N - 1) : result[f] # "sending"
    BY <1>1 DEF OutType
  <2>2. \A f \in 1..N : f = N \/ f \in 1..(N - 1)
    BY <1>1
  <2> QED
    BY <1>4, <2>1, <2>2
<1>7. Out!Idle'
  BY <1>4, <1>6 DEF Out!Idle
<1>8. ~NoError'
  BY <1>1, <1>4 DEF NoError
<1>9. 0 <= Out!FrameLen(Len(frames))'
  BY <1>1, Basics DEF Out!FrameLen
<1>10. OutType'
  BY <1>1, <1>5, <1>6, <1>7, <1>9 DEF OutType
<1> QED
  BY <1>8, <1>10 DEF OutInv

LEMMA TakeOut ==
  ASSUME Sizes, OutInv, NEW n \in 1..Buffer, Out!Take(n) PROVE OutInv'
<1>1. /\ OutType /\ frames' = frames /\ result' = result /\ unsent' = unsent /\ wire' = wire
      /\ received' = received /\ taken' = taken + n /\ taken + n <= Len(wire)
  BY DEF OutInv, Out!Take
<1>2. taken' \in Nat /\ taken' <= Len(wire')
  BY <1>1 DEF OutType, Sizes
<1>3. OutType'
  BY <1>1, <1>2 DEF OutType, Out!FrameLen, Out!Idle
<1>4. NoError' => \E S : Good(S)'
  BY <1>1 DEF OutInv, NoError, Good
<1> QED
  BY <1>3, <1>4 DEF OutInv

\* The peer gets the frame that is next.
LEMMA DeliverOut ==
  ASSUME Sizes, OutInv, NEW h \in Out!Heads, Out!Deliver(h) PROVE OutInv'
<1>1. /\ OutType /\ frames' = frames /\ result' = result /\ unsent' = unsent /\ wire' = wire
      /\ taken' = taken /\ received' = Append(received, Out!Stream!Bytes(h))
      /\ Out!Stream!IsNextHeader(h, Out!Stream!Cursor(received))
      /\ h + Out!Stream!Size(h) - 1 <= taken /\ taken <= Len(wire) /\ taken \in Nat
  BY DEF OutInv, Out!Deliver, OutType
<1>2. OutType'
  BY <1>1 DEF OutType, Out!FrameLen, Out!Idle
<1>3. ASSUME NoError' PROVE \E S : Good(S)'
  <2>1. PICK S : Good(S)
    BY <1>1, <1>3 DEF OutInv, NoError
  <2> DEFINE k == Len(received) + 1
             N == Len(frames)
  <2>2. /\ k \in 1..N /\ h = S[k] /\ Out!Stream!Size(h) = FrameSize(frames, k)
        /\ Out!Stream!Bytes(h) = [i \in 1..FrameSize(frames, k) |-> S[k] + i - 1]
    BY <1>1, <2>1, NextIsNext
  <2>3. N \in Nat /\ Len(wire) \in Nat /\ FrameSize(frames, k) \in Nat /\ S[k] \in Nat /\ S[k] > 0
    BY <1>1, <2>1, <2>2, Basics, PlacesType
  <2>4. S[k + 1] = S[k] + FrameSize(frames, k)
    BY <2>1, <2>2 DEF Good, Places
  <2>5. Out!Stream!Bytes(h) \in Seq(Nat)
    <3>1. \A i \in 1..FrameSize(frames, k) : S[k] + i - 1 \in Nat
      BY <2>3
    <3> QED
      BY <2>2, <2>3, <3>1, IsASeq
  <2>6. received \in Seq(Seq(Nat))
    BY <2>1 DEF Good, Delivered
  <2>7. /\ received' \in Seq(Seq(Nat)) /\ Len(received') = k
        /\ received'[k] = Out!Stream!Bytes(h) /\ \A f \in 1..Len(received) : received'[f] = received[f]
    BY <1>1, <2>5, <2>6, AppendProperties
  <2>8. Len(received) \in Nat
    BY <2>6, LenProperties
  <2>9. \A f \in 1..k : received'[f] = [i \in 1..FrameSize(frames, f) |-> S[f] + i - 1]
    <3> TAKE f \in 1..k
    <3>1. CASE f = k
      BY <3>1, <2>2, <2>7
    <3>2. CASE f # k
      <4>1. f \in 1..Len(received)
        BY <3>2, <2>8
      <4> QED
        BY <4>1, <2>1, <2>7 DEF Good, Delivered
    <3> QED
      BY <3>1, <3>2
  <2>10. S[k + 1] <= Len(wire) + 1
    BY <1>1, <2>2, <2>3, <2>4
  <2>11. Delivered(S, frames', received', Len(wire'))
    <3>1. frames' = frames /\ Len(wire') = Len(wire) /\ k <= N
      BY <1>1, <2>2, <2>3
    <3>2. \A f \in 1..Len(received') : received'[f] = [i \in 1..FrameSize(frames', f) |-> S[f] + i - 1]
      BY <2>7, <2>9, <3>1
    <3> HIDE DEF k
    <3> QED
      BY <2>7, <2>10, <3>1, <3>2 DEF Delivered
  <2> QED
    BY <1>1, <2>1, <2>11 DEF Good
<1> QED
  BY <1>2, <1>3 DEF OutInv

LEMMA NextOut ==
  ASSUME Sizes, OutInv, [Out!Next]_(Out!vars) PROVE OutInv'
<1>1. ASSUME NEW len \in Lens, Out!Call(len) PROVE OutInv'
  BY <1>1, CallOut
<1>2. ASSUME NEW n \in 1..Out!Smaller(unsent, Out!Free), Out!Send(n) PROVE OutInv'
  BY <1>2, SendOut
<1>3. CASE Out!SendFails
  BY <1>3, SendFailsOut
<1>4. ASSUME NEW n \in 1..Buffer, Out!Take(n) PROVE OutInv'
  BY <1>4, TakeOut
<1>5. ASSUME NEW h \in Out!Heads, Out!Deliver(h) PROVE OutInv'
  BY <1>5, DeliverOut
<1>6. CASE UNCHANGED Out!vars
  BY <1>6 DEF Out!vars, OutInv, OutType, Out!FrameLen, Out!Idle, NoError, Good
<1> QED
  BY <1>1, <1>2, <1>3, <1>4, <1>5, <1>6 DEF Out!Next, Out!Writer, Out!Peer

\* In every state the bytes on the wire are the frames, one behind the other
\* and none interrupted, as long as no call has failed; and the packets the
\* peer has are the first of them (dw_write_command_data(), write_socket()).
THEOREM OutInvariance == ASSUME Sizes PROVE Out!Spec => []OutInv
<1>1. Out!Init => OutInv
  BY InitOut
<1>2. OutInv /\ [Out!Next]_(Out!vars) => OutInv'
  BY NextOut
<1> QED
  BY <1>1, <1>2, PTL DEF Out!Spec

LEMMA OutInvWhole ==
  ASSUME Sizes, OutInv PROVE WholeUntilError
<1>1. OutType
  BY DEF OutInv
<1>2. \A h \in Out!Heads : frames[wire[h][1]] <= MaxPayload
  <2> TAKE h \in Out!Heads
  <2>1. h \in 1..Len(wire)
    BY <1>1, Basics DEF Out!Heads
  <2>2. wire[h] \in (1..Len(frames)) \X Nat
    BY <1>1, <2>1, ElementOfSeq DEF OutType
  <2>3. wire[h][1] \in 1..Len(frames)
    BY <2>2
  <2> QED
    BY <1>1, <2>3, Basics
<1>3. ASSUME NoError
      PROVE  /\ Len(received) <= Len(frames)
             /\ \A f \in DOMAIN received : Out!IsFrame(received[f], f)
  <2>1. PICK S : Good(S)
    BY <1>3 DEF OutInv
  <2>2. received \in Seq(Seq(Nat)) /\ Len(received) <= Len(frames)
    BY <2>1 DEF Good, Delivered
  <2>3. Len(received) \in Nat /\ DOMAIN received = 1..Len(received)
    BY <2>2, LenProperties
  <2>4. ASSUME NEW f \in 1..Len(received) PROVE Out!IsFrame(received[f], f)
    <3>1. f \in 1..Len(frames) /\ f + 1 \in 1..(Len(frames) + 1) /\ Len(received) + 1 \in 1..(Len(frames) + 1)
      BY <1>1, <2>2, <2>3, Basics
    <3>2. received[f] = [i \in 1..FrameSize(frames, f) |-> S[f] + i - 1]
      BY <2>1 DEF Good, Delivered
    <3>3. FrameSize(frames, f) \in Nat /\ FrameSize(frames, f) = Out!FrameLen(f) /\ S[f] \in Nat /\ Len(wire) \in Nat
      BY <1>1, <2>1, <3>1, Basics, PlacesType DEF FrameSize, Out!FrameLen
    <3>4. S[f] + FrameSize(frames, f) <= Len(wire) + 1
      <4>1. S[f] + FrameSize(frames, f) <= S[Len(received) + 1]
        BY <2>1, <2>3, <3>1 DEF Good, Places
      <4>2. S[Len(received) + 1] <= Len(wire) + 1
        BY <2>1 DEF Good, Delivered
      <4>3. S[Len(received) + 1] \in Nat
        BY <2>1, <3>1, PlacesType
      <4> QED
        BY <3>3, <4>1, <4>2, <4>3
    <3>5. Len(received[f]) = Out!FrameLen(f) /\ DOMAIN received[f] = 1..FrameSize(frames, f)
      BY <3>2, <3>3
    <3>6. ASSUME NEW i \in 1..FrameSize(frames, f) PROVE wire[received[f][i]] = <<f, i - 1>>
      <4>1. i - 1 \in 0..(FrameSize(frames, f) - 1) /\ S[f] + (i - 1) <= Len(wire)
        BY <3>3, <3>4
      <4>2. wire[S[f] + (i - 1)] = <<f, i - 1>>
        BY <1>1, <2>1, <3>1, <4>1, ByteAt
      <4>3. received[f][i] = S[f] + (i - 1)
        BY <3>2, <3>3
      <4> QED
        BY <4>2, <4>3
    <3> QED
      BY <1>1, <3>1, <3>5, <3>6, Basics DEF Out!IsFrame
  <2> QED
    BY <2>2, <2>3, <2>4
<1> QED
  BY <1>2, <1>3 DEF WholeUntilError, Out!WholeUntilError, NoError

\* As long as write_socket() has not failed, the peer gets the frames whole,
\* each once, in the order they were written, however send() cuts them (line
\* 35 of io.c); no header asks for more than the peer's buffer holds.
THEOREM FramesArriveWhole == MCSpec => []WholeUntilError
<1>1. Sizes
  BY ConstantTypes, SocketAssumption DEF Sizes
<1>2. MCInit => OutInv
  BY <1>1, InitOut DEF MCInit
<1>3. OutInv /\ [MCNext]_MCvars => OutInv'
  <2>1. [MCNext]_MCvars => [Out!Next]_(Out!vars)
    BY DEF MCNext, MCvars, outVars, Out!vars
  <2> QED
    BY <1>1, <2>1, NextOut
<1>4. OutInv => WholeUntilError
  BY <1>1, OutInvWhole
<1> QED
  BY <1>2, <1>3, <1>4, PTL DEF MCSpec
=============================================================================

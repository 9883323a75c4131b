------------------------------ MODULE GpioI2c ------------------------------
(***************************************************************************)
(* The I2C master of src/hw/gpio_i2c.c, which moves two pins one at a time,*)
(* and a slave that follows the two lines.  The master is at a pin step of *)
(* a turn: what a function does once for a bit, for a byte or in all; a    *)
(* byte is a tuple of W bits.                                              *)
(***************************************************************************)
EXTENDS Integers, Sequences, SequencesExt

CONSTANTS
  W,        \* bits of a byte; 8 in the code
  MaxRead,  \* bound: bytes of a read
  None

VARIABLES
  call,     \* the function called, with its bytes; None before that
  place,    \* where the master is: function, byte, bit and pin step of the turn
  sda, scl, \* what the master does with the pins: "hi", "lo", "in"
  dat, buf, \* the bits it has read of a byte, the bytes it has read
  ret,      \* what the function will return
  slave,    \* see SlaveAt
  forced    \* SCL was driven high while the slave held it

vars == <<call, place, sda, scl, dat, buf, ret, slave, forced>>

Byte == [1..W -> {0, 1}]

\* The slave: where it is in a byte, and whether in the first of a transfer; the
\* bits it has taken or still sends; whether it pulls a line low; the bytes it
\* took and sent; the conditions it saw.
SlaveAt(st, bits, pulls) ==
  [st |-> st, first |-> FALSE, bits |-> bits, sda |-> pulls, scl |-> FALSE,
   got |-> <<>>, sent |-> <<>>, starts |-> 0, stops |-> 0]

Level(pin, pulled) == IF pin = "lo" \/ pulled THEN 0 ELSE 1
Sda == Level(sda, slave.sda)
Scl == Level(scl, slave.scl)

-----------------------------------------------------------------------------
(* The turns of the master *)

SetSda(v) == <<"sda", v>>
SetScl(v) == <<"scl", v>>
Pin(b) == IF b = 1 THEN "hi" ELSE "lo"

Start == <<SetScl("hi"), SetSda("hi"), SetSda("lo"), SetScl("lo")>>
Stop == <<SetSda("lo"), SetScl("hi"), SetSda("hi")>>
SendAck(b) == <<SetSda(Pin(b)), SetScl("hi"), SetScl("lo")>>

\* SCL is let go until the slave lets it go too, then driven.
SendBit(b) == <<SetSda(Pin(b)), SetScl("in"), <<"wait">>, SetScl("hi"), SetScl("lo")>>
Answer == <<SetSda("in"), SetScl("in"), <<"wait">>, SetScl("hi"), <<"ack">>, SetScl("lo")>>

\* Mutant: the line is read after the clock has fallen.
RecvBitLate == <<SetScl("in"), <<"wait">>, SetScl("hi"), SetScl("lo"), <<"bit">>>>

RecvBit == <<SetScl("in"), <<"wait">>, SetScl("hi"), <<"bit">>, SetScl("lo")>>

Toggle == <<SetScl("lo"), SetSda("lo"), SetScl("hi"), SetSda("hi")>>

\* dev_address | 0x01
Reading(dev) == [dev EXCEPT ![W] = 1]

\* The bytes to send: a read begins again with the third.
Outgoing(c) == IF c.op = "read" THEN Append(c.bytes, Reading(c.bytes[1])) ELSE c.bytes

\* The turn the master is in.
Turn ==
  CASE place.fn = "start" -> Start
    [] place.fn = "send" -> SendBit(Outgoing(call)[place.byte][place.bit])
    [] place.fn = "answer" -> Answer
    [] place.fn = "recv" -> <<SetSda("in")>>
    [] place.fn = "take" -> RecvBit
    [] place.fn = "sendack" -> SendAck(IF place.byte < call.size THEN 0 ELSE 1)
    [] place.fn = "stop" -> Stop
    [] place.fn = "toggle" -> Toggle
    [] place.fn = "check" -> <<SetSda("in"), <<"check">>>>
    [] OTHER -> <<>>

At(fn, byte, bit) == [fn |-> fn, byte |-> byte, bit |-> bit, step |-> 1]

\* What follows a byte: without an acknowledge, the end of the function.
AfterByte ==
  IF ret = -1 THEN At("stop", 1, 1)
  ELSE CASE place.byte = 1 -> At("send", 2, 1)
         [] place.byte = 2 -> At(IF call.op = "read" THEN "start" ELSE "send", 3, 1)
         [] place.byte = 3 -> At(IF call.op = "read" THEN "recv" ELSE "stop", 1, 1)

\* The turn that follows it.
NextTurn ==
  CASE place.fn = "start" -> At("send", place.byte, 1)
    [] place.fn = "send" -> IF place.bit < W THEN At("send", place.byte, place.bit + 1)
                                             ELSE At("answer", place.byte, 1)
    [] place.fn = "answer" -> AfterByte
    [] place.fn = "recv" -> At("take", place.byte, 1)
    [] place.fn = "take" -> IF place.bit < W THEN At("take", place.byte, place.bit + 1)
                                             ELSE At("sendack", place.byte, 1)
    [] place.fn = "sendack" -> IF place.byte < call.size THEN At("recv", place.byte + 1, 1)
                                                         ELSE At("stop", 1, 1)
    [] place.fn = "toggle" -> IF place.byte <= W THEN At("toggle", place.byte + 1, 1)
                                                 ELSE At("check", 1, 1)
    [] place.fn \in {"stop", "check"} -> At("done", 1, 1)

\* The next pin step is of that kind; it is done.
Doing(kind) == Turn # <<>> /\ Turn[place.step][1] = kind
Step ==
  place' = (IF place.step < Len(Turn) THEN [place EXCEPT !.step = @ + 1] ELSE NextTurn)

-----------------------------------------------------------------------------
(* The slave *)

\* It takes a byte and answers, or not; goes on to the next byte; sends one, the
\* first bit at once; sends its next bit; waits for the answer; is done.
Answers(s) == {[s EXCEPT !.st = "ack", !.sda = a, !.got = Append(@, s.bits)] : a \in BOOLEAN}
Receives(s) == {[s EXCEPT !.st = "recv", !.first = FALSE, !.bits = <<>>, !.sda = FALSE]}
Sends(s) ==
  {[s EXCEPT !.st = "send", !.bits = Tail(v), !.sda = (Head(v) = 0), !.sent = Append(@, v)] :
     v \in Byte}
Shifts(s) == {[s EXCEPT !.bits = Tail(@), !.sda = (Head(s.bits) = 0)]}
Listens(s) == {[s EXCEPT !.st = "acked", !.sda = FALSE]}
Rests(s) == {[s EXCEPT !.st = "idle"]}

\* SCL falls: the slave moves on, with its own bit or answer on the line.
Falls(s) ==
  CASE s.st = "recv" -> IF Len(s.bits) = W THEN Answers(s) ELSE {s}
    [] s.st = "ack" -> IF ~s.sda THEN Rests(s)
                       ELSE IF s.first /\ s.bits[W] = 1 THEN Sends(s) ELSE Receives(s)
    [] s.st = "send" -> IF s.bits # <<>> THEN Shifts(s) ELSE Listens(s)
    [] s.st = "acked" -> IF s.bits = <<0>> THEN Sends(s) ELSE Rests(s)
    [] s.st = "idle" -> {s}

\* It may hold the clock then, to gain time.
Stretches(s) == {s} \cup (IF s.st = "idle" THEN {} ELSE {[s EXCEPT !.scl = TRUE]})

\* SCL rises: a bit is taken.
Rises(s, bit) == IF s.st \in {"recv", "acked"} THEN [s EXCEPT !.bits = Append(@, bit)] ELSE s

\* What the slave does when the lines go from SCL c0 and SDA d0 to c1 and d1.
Reactions(s, c0, d0, c1, d1) ==
  CASE c0 = 1 /\ c1 = 0 -> UNION {Stretches(t) : t \in Falls(s)}
    [] c0 = 0 /\ c1 = 1 -> {Rises(s, d1)}
    [] c0 = 1 /\ c1 = 1 /\ d0 = 1 /\ d1 = 0 ->
         {[s EXCEPT !.st = "recv", !.first = TRUE, !.bits = <<>>, !.starts = @ + 1]}
    [] c0 = 1 /\ c1 = 1 /\ d0 = 0 /\ d1 = 1 -> {[s EXCEPT !.st = "idle", !.stops = @ + 1]}
    [] OTHER -> {s}

LetGo ==
  /\ slave.scl
  /\ LET s == [slave EXCEPT !.scl = FALSE]
     IN  slave' \in Reactions(s, Scl, Sda, Level(scl, FALSE), Sda)
  /\ UNCHANGED <<call, place, sda, scl, dat, buf, ret, forced>>

-----------------------------------------------------------------------------
(* The master *)

\* Before a call both lines are let go.  A slave that was left in the middle of
\* a transfer pulls SDA low: test_i2c() restores the bus then.
Init ==
  /\ call = None /\ place = At("none", 1, 1) /\ sda = "in" /\ scl = "in"
  /\ dat = <<>> /\ buf = <<>> /\ ret = 0 /\ forced = FALSE
  /\ \/ slave = SlaveAt("idle", <<>>, FALSE)
     \/ \E v \in Byte : slave = SlaveAt("ack", v, TRUE)
     \/ \E v \in Byte : slave = [SlaveAt("ack", v, TRUE) EXCEPT !.first = TRUE]
     \/ \E v \in Byte, x \in 2..(W + 1) : slave = SlaveAt("send", SubSeq(v, x, W), TRUE)

Calls ==
  IF Sda = 0 THEN {[op |-> "restore"]}
  ELSE [op : {"write"}, bytes : {<<dev, reg, data>> : dev \in {v \in Byte : v[W] = 0},
                                                       reg \in Byte, data \in Byte}]
       \cup [op : {"read"}, bytes : {<<dev, reg>> : dev \in {v \in Byte : v[W] = 0}, reg \in Byte},
             size : 1..MaxRead]

Call ==
  /\ place.fn = "none"
  /\ call' \in Calls
  /\ place' = (IF call'.op = "restore" THEN At("toggle", 1, 1) ELSE At("start", 1, 1))
  /\ UNCHANGED <<sda, scl, dat, buf, ret, slave, forced>>

\* SET_HIGH, SET_LOW, GPIO_DIRECTION_INPUT: one pin changes.
SetPin ==
  /\ \/ Doing("sda") /\ sda' = Turn[place.step][2] /\ UNCHANGED scl
     \/ Doing("scl") /\ scl' = Turn[place.step][2] /\ UNCHANGED sda
  /\ slave' \in Reactions(slave, Scl, Sda, Level(scl', slave.scl), Level(sda', slave.sda))
  /\ forced' = (forced \/ (Turn[place.step] = SetScl("hi") /\ slave.scl))
  /\ Step
  /\ UNCHANGED <<call, dat, buf, ret>>

\* The slave has let the clock go, or the time is over, which nobody is told.
Wait ==
  /\ Doing("wait") /\ Step
  /\ UNCHANGED <<call, sda, scl, dat, buf, ret, slave, forced>>

\* The ninth bit: without an acknowledge the function stops.
ReadAck ==
  /\ Doing("ack") /\ Step
  /\ ret' = (IF Sda = 0 THEN 0 ELSE -1)
  /\ UNCHANGED <<call, sda, scl, dat, buf, slave, forced>>

\* The last bit makes the byte.
ReadBit ==
  /\ Doing("bit") /\ Step
  /\ LET bits == Append(dat, Sda)
     IN  IF place.bit < W THEN dat' = bits /\ UNCHANGED buf
                          ELSE dat' = <<>> /\ buf' = Append(buf, bits)
  /\ UNCHANGED <<call, sda, scl, ret, slave, forced>>

\* The end of restore_i2c()
Check ==
  /\ Doing("check") /\ Step
  /\ ret' = (IF Sda = 0 THEN -1 ELSE 0)
  /\ UNCHANGED <<call, sda, scl, dat, buf, slave, forced>>

Master == SetPin \/ Wait \/ ReadAck \/ ReadBit \/ Check

Next == Call \/ Master \/ LetGo

Spec == Init /\ [][Next]_vars

-----------------------------------------------------------------------------
(* Properties *)

Returned == place.fn = "done" /\ ~forced

\* What the slave took is what was to be sent, all of it if the function
\* succeeds, and what the master read is what the slave sent.
Transferred ==
  /\ IsPrefix(slave.got, Outgoing(call))
  /\ ret = 0 => slave.got = Outgoing(call)
  /\ dat = <<>> /\ buf = slave.sent

\* Bit by bit, with the slave stretching the clock as it likes where the master
\* waits for it: the bytes arrive, no data bit looks like a start or a stop,
\* every transfer ends with one stop, and a slave stuck in any bit of a transfer
\* is idle after restore_i2c().
BusProtocol ==
  Returned =>
    /\ call.op \in {"write", "read"} => Transferred
    /\ slave.st = "idle" /\ ~slave.sda
    /\ call.op = "restore" => ret = 0
    /\ call.op = "write" => slave.starts = 1 /\ slave.stops = 1
    /\ call.op = "read" => slave.starts \in 1..2 /\ (ret = 0 => slave.starts = 2) /\ slave.stops = 1
=============================================================================

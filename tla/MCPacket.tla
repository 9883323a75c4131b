------------------------------ MODULE MCPacket ------------------------------
(***************************************************************************)
(* The receiver on a stream of garbage and packets, and the writer with a  *)
(* receiver of its own: a behaviour is of one of them.  A header has four  *)
(* bytes: "@", "$", and two that stand for everything the crc is about.    *)
(***************************************************************************)
EXTENDS Packet

CONSTANTS Lens, Buffer, MaxFrames

ASSUME SocketAssumption == Lens \subseteq Nat /\ Buffer \in Nat

VARIABLES side, frames, result, unsent, wire, taken, received

Out == INSTANCE PacketWriter WITH left <- unsent
outVars == <<frames, result, unsent, wire, taken, received>>
MCvars == <<vars, outVars, side>>

\* x@ | @$xx len 2: @$ | @$x bad | @$xx len 1: x | @$xx len 0 | @$xx len 4: xxxx
\*    a stray '@' before "@$", a payload that looks like a header, a damaged
\*    header whose bytes reach into the packet behind it, two packets back to
\*    back, a header that asks for more than fits; the peer may close anywhere,
\*    in the middle of a header too
GarbageText ==
  <<"x", "@",  "@", "$", "x", "x", "@", "$",  "@", "$", "x",
    "@", "$", "x", "x", "x",  "@", "$", "x", "x",
    "@", "$", "x", "x", "x", "x", "x", "x">>
GarbageLen == Len(GarbageText)
GarbageHeader == {3, 12, 17, 21}
GarbagePayLen == [h \in GarbageHeader |->
                    CASE h = 3 -> 2 [] h = 12 -> 1 [] h = 17 -> 0 [] h = 21 -> 4]

Only(s) == side = s /\ UNCHANGED side

MCInit == Init /\ Out!Init /\ side \in {"in", "out"}

MCNext == \/ Only("in") /\ Next /\ UNCHANGED outVars
          \/ Only("out") /\ Out!Next /\ UNCHANGED vars

MCSpec == /\ MCInit /\ [][MCNext]_MCvars
          /\ WF_MCvars(Only("in") /\ Receiver /\ UNCHANGED outVars)
          /\ WF_MCvars(Only("out") /\ Out!Peer /\ UNCHANGED vars)

WholeUntilError == Out!WholeUntilError
Heals == Out!Heals
=============================================================================

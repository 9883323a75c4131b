----------------------------- MODULE PacketFifo -----------------------------
(***************************************************************************)
(* What the packet receiver of src/packet.c promises to handle_data() and  *)
(* handle_client(): the packets of the stream, whole, each once, in stream *)
(* order, independent of how the network cuts the stream and of garbage    *)
(* between packets; and the connection is given up only after the peer     *)
(* closed it and nothing that arrived complete is left undelivered.        *)
(*                                                                         *)
(* All this up to the first acceptable header whose length field says more *)
(* than fits: the code does not look, so the promise ends there.           *)
(***************************************************************************)
EXTENDS ByteStream

VARIABLES
  arrived,    \* number of bytes that reached the local socket
  shut,       \* the peer has closed the connection
  delivered,  \* packets handed to proc_cmd(), oldest first
  status      \* "open"; "closed": the receiver has given the connection up;
              \* "overrun": it writes behind its buffer

vars == <<arrived, shut, delivered, status>>

Init == arrived = 0 /\ shut = FALSE /\ delivered = <<>> /\ status = "open"

\* The network makes some more bytes readable.
Arrive(n) ==
  /\ ~shut
  /\ arrived' = n
  /\ UNCHANGED <<shut, delivered, status>>

\* The peer closes, possibly in the middle of a packet.
Shut ==
  /\ ~shut
  /\ shut' = TRUE
  /\ UNCHANGED <<arrived, delivered, status>>

\* The next packet has arrived whole.
Complete(h) == /\ IsNextHeader(h, Cursor(delivered)) /\ Fits(h)
               /\ h + Size(h) - 1 <= arrived

\* The next packet does not fit, and the first byte too many has arrived.
TooLong(h) == /\ IsNextHeader(h, Cursor(delivered)) /\ ~Fits(h)
              /\ h + HeadLen + MaxPayload <= arrived

Deliver(h) ==
  /\ status = "open"
  /\ Complete(h)
  /\ delivered' = Append(delivered, Bytes(h))
  /\ UNCHANGED <<arrived, shut, status>>

Overrun(h) ==
  /\ status = "open"
  /\ TooLong(h)
  /\ status' = "overrun"
  /\ UNCHANGED <<arrived, shut, delivered>>

Close ==
  /\ shut
  /\ status = "open"
  /\ \A h \in Header : ~Complete(h) /\ ~TooLong(h)
  /\ status' = "closed"
  /\ UNCHANGED <<arrived, shut, delivered>>

Next ==
  \/ \E n \in (arrived + 1)..StreamLen : Arrive(n)
  \/ Shut
  \/ \E h \in Header : Deliver(h) \/ Overrun(h)
  \/ Close

Fairness == WF_vars(\E h \in Header : Deliver(h)) /\ WF_vars(Close)

Spec == Init /\ [][Next]_vars /\ Fairness
SafeSpec == Init /\ [][Next]_vars
=============================================================================

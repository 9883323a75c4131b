--------------------------- MODULE DaemonsProofs ---------------------------
(***************************************************************************)
(* Theorems about the log daemon, for any senders and watchers, sockets of *)
(* any size and any failing calls, and about the server, for any number of *)
(* structs, descriptors and events in a batch, and any failing calls.      *)
(***************************************************************************)
EXTENDS MCDaemons, SequenceTheorems, TLAPS

-----------------------------------------------------------------------------
(* The log daemon *)

Packet == [op : {"L"}, from : Senders]
            \cup [op : {"R"}, from : Watchers, wants : SUBSET Senders]
            \cup [op : {"?"}]

\* The sockets never hold more than they have room for, and a registration in
\* the list is one of a watcher.
TypeOK ==
  /\ queue \in Seq(Packet) /\ Len(queue) <= QueueLen
  /\ heads \subseteq Senders
  /\ uhead \in Seq(Watchers \X SUBSET Senders)
  /\ alive \subseteq Watchers
  /\ waiting \in [Watchers -> 0..Room]
  /\ cur \in Senders \cup {NoAddr}
  /\ pos \in Nat \ {0}

\* Between two turns of the loop over the watchers the next one is in the list,
\* or the loop is over, whatever was closed on the way.
WalkInList == pos <= Len(uhead) + 1

IInv == TypeOK /\ WalkInList /\ WriterHasFile

USE LogdAssumption

LEMMA RemoveAtProperties ==
  ASSUME NEW S, NEW s \in Seq(S), NEW x \in 1..Len(s)
  PROVE  RemoveAt(s, x) \in Seq(S) /\ Len(RemoveAt(s, x)) = Len(s) - 1
<1>1. Len(s) \in Nat /\ \A y \in 1..Len(s) : s[y] \in S
  BY LenProperties, ElementOfSeq
<1>2. /\ SubSeq(s, 1, x - 1) \in Seq(S) /\ Len(SubSeq(s, 1, x - 1)) = x - 1
      /\ SubSeq(s, x + 1, Len(s)) \in Seq(S) /\ Len(SubSeq(s, x + 1, Len(s))) = Len(s) - x
  <2>1. \A y \in 1..(x - 1) : s[y] \in S
    BY <1>1
  <2>2. \A y \in (x + 1)..Len(s) : s[y] \in S
    BY <1>1
  <2> QED
    BY <1>1, <2>1, <2>2, SubSeqProperties
<1>3. /\ RemoveAt(s, x) \in Seq(S)
      /\ Len(RemoveAt(s, x)) = Len(SubSeq(s, 1, x - 1)) + Len(SubSeq(s, x + 1, Len(s)))
  BY <1>2, ConcatProperties DEF RemoveAt
<1>4. Len(s) \in Int /\ x \in Int
  BY <1>1
<1>5. (x - 1) + (Len(s) - x) = Len(s) - 1
  BY <1>4
<1> QED
  BY <1>2, <1>3, <1>5, Zenon

LEMMA InitIInv == Init => IInv
<1> SUFFICES ASSUME Init PROVE IInv
  OBVIOUS
<1>1. queue \in Seq(Packet) /\ uhead \in Seq(Watchers \X SUBSET Senders)
      /\ Len(queue) = 0 /\ Len(uhead) = 0
  BY EmptySeq DEF Init
<1> QED
  BY <1>1 DEF Init, IInv, TypeOK, WalkInList, WriterHasFile

\* What the others send finds room in the socket of logd.
LEMMA QueuedIInv ==
  ASSUME IInv, NEW p \in Packet, Len(queue) < QueueLen, queue' = Append(queue, p),
         UNCHANGED <<heads, uhead, cur, pos>>,
         alive' \subseteq Watchers, waiting' \in [Watchers -> 0..Room]
  PROVE  IInv'
<1>1. queue' \in Seq(Packet) /\ Len(queue') = Len(queue) + 1 /\ Len(queue) \in Nat
  BY AppendProperties, LenProperties DEF IInv, TypeOK
<1>2. TypeOK'
  BY <1>1 DEF IInv, TypeOK
<1> QED
  BY <1>2 DEF IInv, WalkInList, WriterHasFile

LEMMA OthersIInv ==
  ASSUME IInv,
         \/ \E s \in Senders : Log(s)
         \/ Stray
         \/ \E w \in Watchers : Register(w) \/ Die(w) \/ Read(w)
  PROVE  IInv'
<1>1. ASSUME NEW s \in Senders, Log(s) PROVE IInv'
  <2>1. [op |-> "L", from |-> s] \in Packet
    BY DEF Packet
  <2> QED
    BY <1>1, <2>1, QueuedIInv DEF Log, peers, IInv, TypeOK
<1>2. CASE Stray
  <2>1. [op |-> "?"] \in Packet
    BY DEF Packet
  <2> QED
    BY <1>2, <2>1, QueuedIInv DEF Stray, peers, IInv, TypeOK
<1>3. ASSUME NEW w \in Watchers, Register(w) PROVE IInv'
  <2>1. PICK wants \in SUBSET Senders :
          queue' = Append(queue, [op |-> "R", from |-> w, wants |-> wants])
    BY <1>3 DEF Register
  <2>2. [op |-> "R", from |-> w, wants |-> wants] \in Packet
    BY DEF Packet
  <2>3. /\ Len(queue) < QueueLen /\ alive' = alive \cup {w}
        /\ waiting' = [waiting EXCEPT ![w] = 0] /\ UNCHANGED <<heads, uhead, cur, pos>>
    BY <1>3, Zenon DEF Register
  <2>4. alive' \subseteq Watchers /\ waiting' \in [Watchers -> 0..Room]
    BY <2>3 DEF IInv, TypeOK
  <2> QED
    BY <2>1, <2>2, <2>3, <2>4, QueuedIInv
<1>4. ASSUME NEW w \in Watchers, Die(w) \/ Read(w) PROVE IInv'
  <2>1. /\ UNCHANGED <<queue, heads, uhead, cur, pos>> /\ alive' \subseteq Watchers
        /\ waiting' \in [Watchers -> 0..Room]
    BY <1>4 DEF Die, Read, IInv, TypeOK
  <2> QED
    BY <2>1 DEF IInv, TypeOK, WalkInList, WriterHasFile
<1> QED
  BY <1>1, <1>2, <1>3, <1>4

\* One datagram: the sender of a message that is sent on has its file.
LEMMA ReceiveIInv == ASSUME IInv, Receive PROVE IInv'
<1> DEFINE p == Head(queue)
<1>1. /\ queue' \in Seq(Packet) /\ Len(queue') <= QueueLen /\ p \in Packet
      /\ alive' = alive /\ waiting' = waiting /\ cur = NoAddr /\ ParsePacket(p)
  <2>1. queue \in Seq(Packet) /\ queue # <<>> /\ Len(queue) \in Nat /\ queue' = Tail(queue)
    BY LenProperties DEF Receive, IInv, TypeOK
  <2> QED
    BY <2>1, HeadTailProperties DEF Receive, peers, IInv, TypeOK
<1>2. CASE Watch(p)
  <2>1. p.from \in Watchers /\ p.wants \in SUBSET Senders
    BY <1>1, <1>2 DEF Watch, Packet
  <2>2. uhead' \in Seq(Watchers \X SUBSET Senders) /\ Len(uhead') >= Len(uhead)
    <3>1. CASE uhead' = uhead
      BY <3>1, LenProperties DEF IInv, TypeOK
    <3>2. ASSUME NEW wants \in SUBSET Senders, uhead' = <<<<p.from, wants>>>> \o uhead
          PROVE  uhead' \in Seq(Watchers \X SUBSET Senders) /\ Len(uhead') >= Len(uhead)
      <4>1. /\ uhead \in Seq(Watchers \X SUBSET Senders) /\ Len(uhead) \in Nat
            /\ <<<<p.from, wants>>>> \in Seq(Watchers \X SUBSET Senders)
            /\ Len(<<<<p.from, wants>>>>) = 1
        BY <2>1, LenProperties DEF IInv, TypeOK
      <4> QED
        BY <3>2, <4>1, ConcatProperties
    <3> QED
      BY <1>2, <2>1, <3>1, <3>2 DEF Watch
  <2>3. UNCHANGED <<heads, cur, pos>> /\ Len(uhead) \in Nat
    BY <1>2, LenProperties DEF Watch, IInv, TypeOK
  <2>4. TypeOK'
    BY <1>1, <2>2, <2>3 DEF IInv, TypeOK
  <2>5. WalkInList'
    <3>1. Len(uhead') \in Nat
      BY <2>2, LenProperties
    <3> QED
      BY <2>2, <2>3, <3>1 DEF IInv, TypeOK, WalkInList
  <2> QED
    BY <2>3, <2>4, <2>5 DEF IInv, WriterHasFile
<1>3. CASE Message(p)
  <2>1. p.from \in Senders
    BY <1>1, <1>3 DEF Message, Packet
  <2>2. uhead' = uhead /\ Len(uhead) \in Nat
    BY <1>3, LenProperties DEF Message, IInv, TypeOK
  <2>3. \/ heads' = heads \cup {p.from} /\ cur' = p.from /\ pos' = 1
        \/ UNCHANGED <<heads, cur, pos>>
    BY <1>3 DEF Message
  <2> QED
    BY <1>1, <2>1, <2>2, <2>3 DEF IInv, TypeOK, WalkInList, WriterHasFile
<1>4. CASE Illegal(p)
  BY <1>1, <1>4 DEF Illegal, IInv, TypeOK, WalkInList, WriterHasFile
<1> QED
  BY <1>1, <1>2, <1>3, <1>4 DEF ParsePacket

\* The loop: a watcher that is closed leaves the one behind it at its place, and
\* no client goes, although a client may have the address of the watcher.
LEMMA ForwardIInv == ASSUME IInv, Forward PROVE IInv'
<1>1. /\ UNCHANGED <<queue, heads, alive, cur>> /\ Len(uhead) \in Nat /\ pos \in 1..Len(uhead)
      /\ uhead \in Seq(Watchers \X SUBSET Senders)
  BY LenProperties DEF Forward, IInv, TypeOK
<1>2. CASE CloseWatcher /\ UNCHANGED <<waiting, pos>>
  <2>1. uhead' \in Seq(Watchers \X SUBSET Senders) /\ Len(uhead') = Len(uhead) - 1
    BY <1>1, <1>2, RemoveAtProperties DEF CloseWatcher
  <2> QED
    BY <1>1, <1>2, <2>1 DEF IInv, TypeOK, WalkInList, WriterHasFile
<1>3. CASE pos' = pos + 1 /\ UNCHANGED uhead
  <2>1. waiting' \in [Watchers -> 0..Room]
    <3>1. uhead[pos][1] \in Watchers
      <4>1. uhead[pos] \in Watchers \X SUBSET Senders
        BY <1>1, ElementOfSeq
      <4> QED
        BY <4>1
    <3>2. /\ waiting \in [Watchers -> 0..Room]
          /\ \/ /\ waiting[uhead[pos][1]] < Room
                /\ waiting' = [waiting EXCEPT ![uhead[pos][1]] = @ + 1]
             \/ waiting' = waiting
      BY DEF Forward, IInv, TypeOK
    <3>3. waiting[uhead[pos][1]] \in 0..Room
      BY <3>1, <3>2
    <3>4. waiting[uhead[pos][1]] < Room => waiting[uhead[pos][1]] + 1 \in 0..Room
      BY <3>3
    <3> QED
      BY <3>1, <3>2, <3>4
  <2> QED
    BY <1>1, <1>3, <2>1 DEF IInv, TypeOK, WalkInList, WriterHasFile
<1> QED
  BY <1>2, <1>3 DEF Forward

LEMMA WriteIInv == ASSUME IInv, Write PROVE IInv'
<1>1. Len(uhead) \in Nat
  BY LenProperties DEF IInv, TypeOK
<1> QED
  BY <1>1 DEF Write, peers, IInv, TypeOK, WalkInList, WriterHasFile

LEMMA NextIInv == IInv /\ [Next]_vars => IInv'
<1>1. IInv /\ UNCHANGED vars => IInv'
  BY DEF vars, peers, IInv, TypeOK, WalkInList, WriterHasFile
<1> QED
  BY <1>1, OthersIInv, ReceiveIInv, ForwardIInv, WriteIInv DEF Next, Work

-----------------------------------------------------------------------------
(* The server.  The invariant needs one fact more than the properties say:   *)
(* the events of a batch come from different descriptors, so the handler of  *)
(* one frees nothing that another points to.                                 *)

Event == (Fds \cup {NoFd}) \X (Structs \cup {Listener}) \X SUBSET {"IN", "ERR"}

Distinct == \A i, j \in 1..Len(events) : i # j => events[i][1] # events[j][1]

SrvInv == Srv!TypeOK /\ Srv!BatchFresh /\ Srv!ViewsAgree /\ Distinct

LEMMA ConstantsAre ==
  /\ Listener \notin Structs /\ NoPtr \notin Structs \cup {Listener} /\ NoFd \notin Fds
  /\ Batch \in Nat \ {0} /\ Backlog \in Nat /\ MaxPeers \in Nat
  BY ServerConstants DEF Srv!ServerAssumption

\* What one event points to, in memory m with descriptors d and epoll set w.
FreshIn(e, m, d, w) == e[2] # Listener =>
              /\ e[1] \in Fds /\ m[e[2]] = "live"
              /\ d[e[2]] = e[1] /\ w[e[1]] = e[2]
Fresh(e) == FreshIn(e, mem, fdOf, watch)

LEMMA BatchFreshIs ==
  ASSUME events \in Seq(Event)
  PROVE  Srv!BatchFresh <=> \A i \in 1..Len(events) : Fresh(events[i])
<1>1. DOMAIN events = 1..Len(events)
  BY LenProperties
<1> QED BY <1>1, Zenon DEF Srv!BatchFresh, Fresh, FreshIn

LEMMA BatchFreshIsNext ==
  ASSUME events' \in Seq(Event)
  PROVE  Srv!BatchFresh' <=> \A i \in 1..Len(events') : FreshIn(events'[i], mem', fdOf', watch')
<1>1. DOMAIN events' = 1..Len(events')
  BY LenProperties
<1> QED BY <1>1, Zenon DEF Srv!BatchFresh, Fresh, FreshIn

LEMMA InitSrvInv == Srv!Init => SrvInv
<1> SUFFICES ASSUME Srv!Init PROVE SrvInv
  OBVIOUS
<1>1. events = <<>> /\ Len(events) = 0 /\ DOMAIN events = {}
  BY DEF Srv!Init
<1>2. Srv!BatchFresh /\ Distinct
  BY <1>1 DEF Srv!BatchFresh, Distinct
<1> QED BY <1>1, <1>2, ConstantsAre DEF Srv!Init, SrvInv, Srv!TypeOK, Srv!ViewsAgree

\* The steps that leave the batch alone and keep what its events point to.
LEMMA BatchKept ==
  ASSUME SrvInv, events' = events,
         mem' = mem, fdOf' = fdOf, watch' = watch
  PROVE  Srv!BatchFresh' /\ Distinct'
BY DEF SrvInv, Srv!BatchFresh, Distinct

LEMMA WaitKeeps == SrvInv /\ Srv!Wait => SrvInv'
<1> SUFFICES ASSUME SrvInv, Srv!Wait PROVE SrvInv'
  OBVIOUS
<1>1. PICK n \in 1..Batch : \E b \in [1..n -> Srv!Ready] :
        /\ \A i, j \in 1..n : i # j => b[i][1] # b[j][1]
        /\ events' = b
  BY DEF Srv!Wait
<1>2. PICK b \in [1..n -> Srv!Ready] :
        /\ \A i, j \in 1..n : i # j => b[i][1] # b[j][1]
        /\ events' = b
  BY <1>1
<1>3. /\ mem' = mem /\ fdOf' = fdOf /\ list' = list /\ sock' = sock
      /\ watch' = watch /\ backlog' = backlog
  BY DEF Srv!Wait
<1>4. ASSUME NEW e \in Srv!Ready
      PROVE  e \in Event /\ Fresh(e)
  <2>1. CASE e = <<NoFd, Listener, {"IN"}>>
    BY <2>1, ConstantsAre DEF Event, Fresh, FreshIn
  <2>2. ASSUME NEW f \in Fds, NEW fl \in SUBSET {"IN", "ERR"},
               watch[f] # NoPtr, sock[f] # "free", e = <<f, watch[f], fl>>
        PROVE  e \in Event /\ Fresh(e)
    <3>1. watch[f] \in list /\ fdOf[watch[f]] = f /\ watch[f] \in Structs /\ mem[watch[f]] = "live"
      BY <2>2 DEF SrvInv, Srv!TypeOK, Srv!ViewsAgree
    <3>2. e[1] = f /\ e[2] = watch[f] /\ e[3] = fl
      BY <2>2
    <3> QED BY <2>2, <3>1, <3>2 DEF Event, Fresh, FreshIn
  <2>3. \/ e = <<NoFd, Listener, {"IN"}>>
        \/ \E f \in Fds, fl \in SUBSET {"IN", "ERR"} :
             watch[f] # NoPtr /\ sock[f] # "free" /\ e = <<f, watch[f], fl>>
    BY DEF Srv!Ready
  <2> QED BY <2>1, <2>2, <2>3
<1>5. n \in Nat /\ n <= Batch /\ Batch \in Nat
  BY ConstantsAre
<1>6. b \in [1..n -> Event]
  BY <1>4
<1>7. b \in Seq(Event) /\ Len(b) = n
  <2>1. b \in Seq(Event) BY <1>5, <1>6, SeqDef
  <2>2. DOMAIN b = 1..n BY <1>6
  <2> QED BY <1>5, <2>1, <2>2, LenProperties
<1>8. events' \in Seq(Event) /\ Len(events') = n /\ events' = b
  BY <1>2, <1>7
<1>9. Srv!TypeOK' /\ Srv!ViewsAgree'
  BY <1>3, <1>5, <1>8 DEF SrvInv, Srv!TypeOK, Srv!ViewsAgree, Event
<1>10. Distinct'
  BY <1>2, <1>8 DEF Distinct
<1>11. Srv!BatchFresh'
  <2>1. ASSUME NEW i \in 1..Len(events') PROVE FreshIn(events'[i], mem', fdOf', watch')
    <3>1. i \in 1..n /\ events'[i] = b[i] /\ b[i] \in Srv!Ready BY <1>2, <1>8
    <3>2. Fresh(b[i]) BY <3>1, <1>4
    <3> QED BY <3>1, <3>2, <1>3 DEF Fresh, FreshIn
  <2> QED BY <2>1, <1>8, BatchFreshIsNext
<1> QED BY <1>9, <1>10, <1>11 DEF SrvInv

\* The rest of the batch, and where its events were.
LEMMA TailOfBatch ==
  ASSUME SrvInv, events # <<>>, events' = Tail(events)
  PROVE  /\ events' \in Seq(Event) /\ Len(events') <= Batch
         /\ Distinct'
         /\ Head(events) \in Event /\ Head(events) = events[1] /\ Fresh(Head(events))
         /\ \A i \in 1..Len(events') :
              \E e \in Event : /\ events'[i] = e /\ Fresh(e)
                               /\ e[1] # Head(events)[1]
<1>1. events \in Seq(Event) /\ Len(events) \in Nat /\ Len(events) <= Batch /\ Batch \in Nat
  BY LenProperties, ConstantsAre DEF SrvInv, Srv!TypeOK, Event
<1>2. 1 \in 1..Len(events)
  BY <1>1, EmptySeq
<1>3. /\ events' \in Seq(Event) /\ Len(events') = Len(events) - 1
      /\ \A i \in 1..Len(events') : events'[i] = events[i + 1]
  BY <1>1, HeadTailProperties
<1>4. \A i \in 1..Len(events) : Fresh(events[i]) /\ events[i] \in Event
  BY <1>1, BatchFreshIs, ElementOfSeq DEF SrvInv
<1>5. \A i, j \in 1..Len(events) : i # j => events[i][1] # events[j][1]
  BY DEF SrvInv, Distinct
<1>6. Head(events) = events[1] /\ Head(events) \in Event
  BY <1>1, <1>2, <1>4
<1>7. ASSUME NEW i \in 1..Len(events')
      PROVE  /\ i + 1 \in 1..Len(events) /\ i + 1 # 1
             /\ events'[i] = events[i + 1]
  BY <1>1, <1>3
<1>8. Distinct'
  <2>1. ASSUME NEW i \in 1..Len(events'), NEW j \in 1..Len(events'), i # j
        PROVE  events'[i][1] # events'[j][1]
    <3>1. i + 1 # j + 1 BY <2>1
    <3> QED BY <3>1, <1>5, <1>7
  <2> QED BY <2>1 DEF Distinct
<1>9. ASSUME NEW i \in 1..Len(events')
      PROVE  \E e \in Event : /\ events'[i] = e /\ Fresh(e)
                              /\ e[1] # Head(events)[1]
  BY <1>2, <1>4, <1>5, <1>6, <1>7
<1>10. Len(events') <= Batch
  BY <1>1, <1>3
<1>11. Fresh(Head(events))
  BY <1>2, <1>4, <1>6
<1> QED BY <1>3, <1>6, <1>8, <1>9, <1>10, <1>11

\* disconnect_client() on the client of the event under way.
LEMMA DisconnectKeeps ==
  ASSUME SrvInv, NEW e \in Event, e[2] # Listener, Fresh(e), Srv!Disconnect(e[2]), backlog' = backlog
  PROVE  /\ mem' \in [Structs -> {"free", "live", "leaked"}]
         /\ fdOf' \in [Structs -> Fds \cup {NoFd}]
         /\ list' \subseteq Structs
         /\ sock' \in [Fds -> {"free", "up", "eof", "reset"}]
         /\ watch' \in [Fds -> Structs \cup {NoPtr}]
         /\ backlog' \in 0..Backlog
         /\ Srv!ViewsAgree'
         /\ \A g \in Event : Fresh(g) /\ g[1] # e[1] => FreshIn(g, mem', fdOf', watch')
<1>1. /\ e[1] \in Fds /\ e[2] \in Structs /\ fdOf[e[2]] = e[1] /\ watch[e[1]] = e[2]
      /\ mem[e[2]] = "live"
  BY DEF Event, Fresh, FreshIn
<1>2. /\ mem' = [mem EXCEPT ![e[2]] = "free"]
      /\ fdOf' = [fdOf EXCEPT ![e[2]] = NoFd]
      /\ list' = list \ {e[2]}
      /\ sock' = [sock EXCEPT ![e[1]] = "free"]
      /\ watch' = [watch EXCEPT ![e[1]] = NoPtr]
  BY <1>1 DEF Srv!Disconnect
<1>3. Srv!ViewsAgree'
  BY <1>1, <1>2, ConstantsAre DEF SrvInv, Srv!TypeOK, Srv!ViewsAgree
<1>4. ASSUME NEW g \in Event, Fresh(g), g[1] # e[1] PROVE FreshIn(g, mem', fdOf', watch')
  <2>1. CASE g[2] = Listener
    BY <2>1 DEF Fresh, FreshIn
  <2>2. CASE g[2] # Listener
    <3>1. g[2] \in Structs /\ g[1] \in Fds /\ fdOf[g[2]] = g[1] /\ mem[g[2]] = "live" /\ watch[g[1]] = g[2]
      BY <2>2, <1>4 DEF Event, Fresh, FreshIn
    <3>2. g[2] # e[2]
      BY <3>1, <1>1, <1>4
    <3> QED BY <3>1, <3>2, <1>1, <1>2, <1>4 DEF Fresh, FreshIn, SrvInv, Srv!TypeOK
  <2> QED BY <2>1, <2>2
<1> QED BY <1>1, <1>2, <1>3, <1>4 DEF SrvInv, Srv!TypeOK

\* new_client(): only an address and a descriptor that are free are used.
LEMMA ServerKeeps ==
  ASSUME SrvInv, Srv!HandleServer
  PROVE  /\ mem' \in [Structs -> {"free", "live", "leaked"}]
         /\ fdOf' \in [Structs -> Fds \cup {NoFd}]
         /\ list' \subseteq Structs
         /\ sock' \in [Fds -> {"free", "up", "eof", "reset"}]
         /\ watch' \in [Fds -> Structs \cup {NoPtr}]
         /\ backlog' \in 0..Backlog
         /\ Srv!ViewsAgree'
         /\ \A g \in Event : Fresh(g) => FreshIn(g, mem', fdOf', watch')
<1>0. backlog \in 0..Backlog /\ Backlog \in Nat
  BY ConstantsAre DEF SrvInv, Srv!TypeOK
<1> DEFINE Goal ==
         /\ mem' \in [Structs -> {"free", "live", "leaked"}]
         /\ fdOf' \in [Structs -> Fds \cup {NoFd}]
         /\ list' \subseteq Structs
         /\ sock' \in [Fds -> {"free", "up", "eof", "reset"}]
         /\ watch' \in [Fds -> Structs \cup {NoPtr}]
         /\ backlog' \in 0..Backlog
         /\ Srv!ViewsAgree'
         /\ \A g \in Event : Fresh(g) => FreshIn(g, mem', fdOf', watch')
<1>1. CASE UNCHANGED <<mem, fdOf, list, sock, watch>> /\ backlog' \in 0..Backlog
  BY <1>1 DEF SrvInv, Srv!TypeOK, Srv!ViewsAgree, Fresh, FreshIn
<1>2. ASSUME NEW c \in Structs, mem[c] = "free", mem' = [mem EXCEPT ![c] = "leaked"],
             UNCHANGED <<fdOf, list, sock, watch>>, backlog' \in 0..Backlog
      PROVE  Goal
  <2>1. Srv!ViewsAgree'
    BY <1>2 DEF SrvInv, Srv!TypeOK, Srv!ViewsAgree
  <2>2. \A g \in Event : Fresh(g) => FreshIn(g, mem', fdOf', watch')
    BY <1>2 DEF SrvInv, Srv!TypeOK, Fresh, FreshIn, Event
  <2> QED BY <1>2, <2>1, <2>2 DEF SrvInv, Srv!TypeOK
<1>3. ASSUME NEW c \in Structs, NEW f \in Fds, mem[c] = "free", sock[f] = "free", Srv!Accepted(c, f)
      PROVE  Goal
  <2>1. /\ backlog' \in 0..Backlog
        /\ mem' = [mem EXCEPT ![c] = "live"] /\ fdOf' = [fdOf EXCEPT ![c] = f]
        /\ list' = list \cup {c} /\ watch' = [watch EXCEPT ![f] = c]
    BY <1>0, <1>3 DEF Srv!Accepted
  <2>2. PICK s \in {"up", "eof", "reset"} : sock' = [sock EXCEPT ![f] = s]
    BY <1>3 DEF Srv!Accepted
  <2>3. watch[f] = NoPtr /\ fdOf[c] = NoFd /\ c \notin list
    BY <1>3 DEF SrvInv, Srv!ViewsAgree
  <2>4. Srv!ViewsAgree'
    BY <1>3, <2>1, <2>2, <2>3, ConstantsAre DEF SrvInv, Srv!TypeOK, Srv!ViewsAgree
  <2>5. ASSUME NEW g \in Event, Fresh(g) PROVE FreshIn(g, mem', fdOf', watch')
    <3>1. CASE g[2] = Listener
      BY <3>1 DEF Fresh, FreshIn
    <3>2. CASE g[2] # Listener
      <4>1. g[2] \in Structs /\ g[1] \in Fds /\ fdOf[g[2]] = g[1] /\ mem[g[2]] = "live" /\ watch[g[1]] = g[2]
        BY <3>2, <2>5 DEF Event, Fresh, FreshIn
      <4>2. g[2] # c /\ g[1] # f
        BY <4>1, <1>3, <2>3, ConstantsAre
      <4> QED BY <4>1, <4>2, <2>1 DEF Fresh, FreshIn, SrvInv, Srv!TypeOK
    <3> QED BY <3>1, <3>2
  <2> QED BY <1>3, <2>1, <2>2, <2>4, <2>5 DEF SrvInv, Srv!TypeOK
<1>4. CASE Srv!NoMemory
  BY <1>0, <1>1, <1>4 DEF Srv!NoMemory
<1>5. ASSUME NEW c \in Structs, mem[c] = "free", Srv!AcceptFails(c) \/ Srv!NoContext(c)
      PROVE  Goal
  <2>1. backlog' \in 0..Backlog
    BY <1>0, <1>5 DEF Srv!AcceptFails, Srv!NoContext
  <2> QED BY <1>2, <1>5, <2>1 DEF Srv!AcceptFails, Srv!NoContext
<1>6. CASE Srv!AddFails
  <2>1. backlog' \in 0..Backlog
    BY <1>0, <1>6 DEF Srv!AddFails
  <2> QED BY <1>1, <1>6, <2>1 DEF Srv!AddFails
<1> QED BY <1>3, <1>4, <1>5, <1>6 DEF Srv!HandleServer

LEMMA HandleKeeps == SrvInv /\ Srv!Handle => SrvInv'
<1> SUFFICES ASSUME SrvInv, Srv!Handle PROVE SrvInv'
  OBVIOUS
<1> DEFINE e == Head(events)
<1>1. events # <<>> /\ events' = Tail(events)
  BY DEF Srv!Handle
<1>2. /\ events' \in Seq(Event) /\ Len(events') <= Batch /\ Distinct'
      /\ e \in Event /\ Fresh(e)
      /\ \A i \in 1..Len(events') :
           \E g \in Event : /\ events'[i] = g /\ Fresh(g) /\ g[1] # e[1]
  BY <1>1, TailOfBatch
<1>3. IF e[2] = Listener THEN Srv!HandleServer ELSE Srv!HandleClient(e[2], e[3]) /\ UNCHANGED backlog
  BY DEF Srv!Handle
<1> HIDE DEF e
<1>4. /\ mem' \in [Structs -> {"free", "live", "leaked"}]
      /\ fdOf' \in [Structs -> Fds \cup {NoFd}]
      /\ list' \subseteq Structs
      /\ sock' \in [Fds -> {"free", "up", "eof", "reset"}]
      /\ watch' \in [Fds -> Structs \cup {NoPtr}]
      /\ backlog' \in 0..Backlog
      /\ Srv!ViewsAgree'
      /\ \A g \in Event : Fresh(g) /\ g[1] # e[1] => FreshIn(g, mem', fdOf', watch')
  <2>1. CASE e[2] = Listener
    BY <1>3, <2>1, ServerKeeps
  <2>2. CASE e[2] # Listener /\ Srv!Disconnect(e[2]) /\ backlog' = backlog
    BY <1>2, <2>2, DisconnectKeeps
  <2>3. CASE UNCHANGED <<mem, fdOf, list, sock, watch, backlog>>
    BY <2>3 DEF SrvInv, Srv!TypeOK, Srv!ViewsAgree, Fresh, FreshIn
  <2> QED BY <1>3, <2>1, <2>2, <2>3 DEF Srv!HandleClient
<1>5. Srv!BatchFresh'
  <2>1. ASSUME NEW i \in 1..Len(events') PROVE FreshIn(events'[i], mem', fdOf', watch')
    <3>1. PICK g \in Event : events'[i] = g /\ Fresh(g) /\ g[1] # e[1]
      BY <1>2
    <3>2. FreshIn(g, mem', fdOf', watch')
      BY <3>1, <1>4
    <3> QED BY <3>1, <3>2 DEF Fresh, FreshIn
  <2> QED BY <2>1, <1>2, BatchFreshIsNext
<1> QED BY <1>2, <1>4, <1>5 DEF SrvInv, Srv!TypeOK, Event

LEMMA NextSrvInv == SrvInv /\ [Srv!Next]_(Srv!vars) => SrvInv'
<1> SUFFICES ASSUME SrvInv, [Srv!Next]_(Srv!vars) PROVE SrvInv'
  OBVIOUS
<1>1. CASE Srv!Connect
  <2>1. Srv!BatchFresh' /\ Distinct' BY <1>1, BatchKept DEF Srv!Connect
  <2> QED BY <2>1, <1>1, ConstantsAre DEF Srv!Connect, SrvInv, Srv!TypeOK, Srv!ViewsAgree
<1>2. ASSUME NEW f \in Fds, Srv!Leave(f) PROVE SrvInv'
  <2>1. Srv!BatchFresh' /\ Distinct' BY <1>2, BatchKept DEF Srv!Leave
  <2> QED BY <2>1, <1>2 DEF Srv!Leave, SrvInv, Srv!TypeOK, Srv!ViewsAgree
<1>3. CASE Srv!Wait
  BY <1>3, WaitKeeps
<1>4. CASE Srv!Handle
  BY <1>4, HandleKeeps
<1>5. CASE UNCHANGED Srv!vars
  <2>1. Srv!BatchFresh' /\ Distinct' BY <1>5, BatchKept DEF Srv!vars
  <2> QED BY <2>1, <1>5 DEF Srv!vars, SrvInv, Srv!TypeOK, Srv!ViewsAgree
<1> QED BY <1>1, <1>2, <1>3, <1>4, <1>5 DEF Srv!Next

-----------------------------------------------------------------------------
(* Each of the two beside the other, which does nothing *)

LEMMA LogdIsLogd ==
  ASSUME IInv
  PROVE  [LogdNext]_MCvars => IInv'
BY NextIInv DEF LogdNext, MCvars, vars

LEMMA ServerIsServer ==
  ASSUME SrvInv
  PROVE  [ServerNext]_MCvars => SrvInv'
BY NextSrvInv DEF ServerNext, MCvars, srvVars, Srv!vars

(***************************************************************************)
(* The walk of logd over the watchers stays in the list, and no socket     *)
(* holds more than its room, whoever dies or registers in the middle.      *)
(***************************************************************************)
THEOREM Invariance == LogdSpec => []IInv
<1>1. MCInit => IInv
  BY InitIInv DEF MCInit
<1>2. IInv /\ [LogdNext]_MCvars => IInv'
  BY LogdIsLogd
<1> QED
  BY <1>1, <1>2, PTL DEF LogdSpec

(***************************************************************************)
(* The client whose message is written exists and has its file.            *)
(***************************************************************************)
THEOREM WriterKeepsFile == LogdSpec => []WriterHasFile
<1>1. IInv => WriterHasFile
  BY DEF IInv
<1> QED
  BY <1>1, Invariance, PTL

(***************************************************************************)
(* The server's invariant holds whatever the peers and failing calls do.   *)
(***************************************************************************)
THEOREM ServerInvariance == ServerSpec => []SrvInv
<1>1. MCInit => SrvInv
  BY InitSrvInv DEF MCInit
<1>2. SrvInv /\ [ServerNext]_MCvars => SrvInv'
  BY ServerIsServer
<1> QED
  BY <1>1, <1>2, PTL DEF ServerSpec

(***************************************************************************)
(* Type correctness; a batch is never longer than main()'s array.          *)
(***************************************************************************)
THEOREM ServerTypeCorrect == ServerSpec => []Srv!TypeOK
<1>1. SrvInv => Srv!TypeOK
  BY DEF SrvInv
<1> QED
  BY <1>1, ServerInvariance, PTL

(***************************************************************************)
(* No event of a batch points into a struct that has been freed.           *)
(***************************************************************************)
THEOREM BatchStaysFresh == ServerSpec => []BatchFresh
<1>1. SrvInv => BatchFresh
  BY DEF SrvInv, BatchFresh
<1> QED
  BY <1>1, ServerInvariance, PTL

(***************************************************************************)
(* List, epoll set, descriptors and structs always agree.                  *)
(***************************************************************************)
THEOREM ViewsAlwaysAgree == ServerSpec => []ViewsAgree
<1>1. SrvInv => ViewsAgree
  BY DEF SrvInv, ViewsAgree
<1> QED
  BY <1>1, ServerInvariance, PTL
=============================================================================

-------------------------------- MODULE Logd --------------------------------
(***************************************************************************)
(* logd, src/log/logd.c: one datagram socket on which programs log and     *)
(* watchers register.  A message is sent on to the watchers one by one,    *)
(* then written to the file of its sender; meanwhile watchers die, come    *)
(* back at the same address and read what they were sent.  LogFile models  *)
(* the files, LogFilter what a watcher wants.                              *)
(***************************************************************************)
EXTENDS Integers, Sequences, SequencesExt

CONSTANTS
  Senders, Watchers,  \* addresses /tmp/logd_client/program/group; may overlap
  NoAddr,
  QueueLen,           \* datagrams the socket of logd holds
  Room,               \* datagrams the socket of a watcher holds
  MaxEntries,         \* bound: registrations in the list and on their way
  Faults              \* "open": a log file cannot be opened; "write"; "memory"

ASSUME LogdAssumption ==
  /\ NoAddr \notin Senders \cup Watchers
  /\ QueueLen \in Nat \ {0} /\ Room \in Nat \ {0} /\ MaxEntries \in Nat
  /\ Faults \subseteq {"open", "write", "memory"}

VARIABLES
  queue,    \* packets that wait in logd's socket
  heads,    \* server->heads: addresses with a log_client, which has a file
  uhead,    \* server->uhead: the watchers, <<address, senders it wants>>
  alive,    \* watchers whose socket is bound
  waiting,  \* datagrams that wait in every watcher's socket
  cur,      \* parse_packet(): sender of the message that is sent on, or NoAddr
  pos       \* ... and the watcher that is next

peers == <<alive, waiting>>
vars == <<queue, heads, uhead, peers, cur, pos>>

Init ==
  /\ queue = <<>> /\ heads = {} /\ uhead = <<>>
  /\ alive = {} /\ waiting = [w \in Watchers |-> 0]
  /\ cur = NoAddr /\ pos = 1

-----------------------------------------------------------------------------
(* the others *)

Log(s) ==
  /\ Len(queue) < QueueLen
  /\ queue' = Append(queue, [op |-> "L", from |-> s])
  /\ UNCHANGED <<heads, uhead, peers, cur, pos>>

\* A datagram that comes from no address of the two kinds, or has another magic.
Stray ==
  /\ Len(queue) < QueueLen
  /\ queue' = Append(queue, [op |-> "?"])
  /\ UNCHANGED <<heads, uhead, peers, cur, pos>>

\* get_log_runtime(): a new process binds the address, which takes it from one
\* that lives, and registers.
Register(w) ==
  /\ Len(queue) < QueueLen
  /\ Len(uhead) + Len(SelectSeq(queue, LAMBDA p : p.op = "R")) < MaxEntries
  /\ \E wants \in SUBSET Senders :
       queue' = Append(queue, [op |-> "R", from |-> w, wants |-> wants])
  /\ alive' = alive \cup {w}
  /\ waiting' = [waiting EXCEPT ![w] = 0]
  /\ UNCHANGED <<heads, uhead, cur, pos>>

Die(w) ==
  /\ w \in alive /\ alive' = alive \ {w}
  /\ waiting' = [waiting EXCEPT ![w] = 0]
  /\ UNCHANGED <<queue, heads, uhead, cur, pos>>

Read(w) ==
  /\ waiting[w] > 0 /\ waiting' = [waiting EXCEPT ![w] = @ - 1]
  /\ UNCHANGED <<queue, heads, uhead, alive, cur, pos>>

-----------------------------------------------------------------------------
(* serverfn() and parse_packet() *)

\* A registration; without memory for its filter the watcher wants nothing.
Watch(p) ==
  /\ p.op = "R"
  /\ \/ p.from \in heads /\ UNCHANGED uhead
     \/ /\ p.from \notin heads
        /\ \E wants \in {p.wants} \cup (IF "memory" \in Faults THEN {{}} ELSE {}) :
             uhead' = <<<<p.from, wants>>>> \o uhead
     \/ p.from \notin heads /\ "memory" \in Faults /\ UNCHANGED uhead
  /\ UNCHANGED <<heads, cur, pos>>

\* A message; the first one of a sender opens its file.
Message(p) ==
  /\ p.op = "L"
  /\ \/ /\ heads' = heads \cup {p.from} /\ cur' = p.from /\ pos' = 1
     \/ /\ p.from \notin heads /\ Faults \cap {"open", "memory"} # {}
        /\ UNCHANGED <<heads, cur, pos>>
  /\ UNCHANGED uhead

Illegal(p) == p.op = "?" /\ UNCHANGED <<heads, uhead, cur, pos>>

\* The start of parse_packet(); Forward and Write are the rest of it.
ParsePacket(p) == Illegal(p) \/ Watch(p) \/ Message(p)

\* serverfn()
Receive ==
  /\ cur = NoAddr /\ queue # <<>>
  /\ queue' = Tail(queue)
  /\ ParsePacket(Head(queue))
  /\ UNCHANGED peers

\* Mutant: the successor is looked up after the watcher is gone.
ForwardSkip ==
  /\ cur # NoAddr /\ pos <= Len(uhead)
  /\ LET w == uhead[pos][1]
     IN  IF cur \in uhead[pos][2] /\ w \notin alive
         THEN uhead' = RemoveAt(uhead, pos) /\ pos' = pos + 1 /\ UNCHANGED waiting
         ELSE /\ IF cur \in uhead[pos][2] /\ waiting[w] < Room
                 THEN waiting' = [waiting EXCEPT ![w] = @ + 1]
                 ELSE UNCHANGED waiting
              /\ pos' = pos + 1 /\ UNCHANGED uhead
  /\ UNCHANGED <<queue, heads, alive, cur>>

\* Mutant: an error is taken for a full socket.
ForwardKeepDead ==
  /\ cur # NoAddr /\ pos <= Len(uhead)
  /\ LET w == uhead[pos][1]
     IN  IF cur \in uhead[pos][2] /\ w \in alive /\ waiting[w] < Room
         THEN waiting' = [waiting EXCEPT ![w] = @ + 1]
         ELSE UNCHANGED waiting
  /\ pos' = pos + 1
  /\ UNCHANGED <<queue, heads, uhead, alive, cur>>

\* Mutant: everything that has the address of the watcher is closed.
ForwardCloseAll ==
  /\ cur # NoAddr /\ pos <= Len(uhead)
  /\ LET w == uhead[pos][1]
     IN  IF cur \in uhead[pos][2] /\ w \notin alive
         THEN /\ uhead' = RemoveAt(uhead, pos) /\ heads' = heads \ {w}
              /\ UNCHANGED <<waiting, pos>>
         ELSE pos' = pos + 1 /\ UNCHANGED <<uhead, heads, waiting>>
  /\ UNCHANGED <<queue, alive, cur>>

\* close_client() of the watcher at pos, with its filter
CloseWatcher == uhead' = RemoveAt(uhead, pos)

\* sendto() one watcher: a full socket drops the message, a dead one is closed.
Forward ==
  /\ cur # NoAddr /\ pos <= Len(uhead)
  /\ LET w == uhead[pos][1]
     IN  IF cur \in uhead[pos][2] /\ w \notin alive
         THEN CloseWatcher /\ UNCHANGED <<waiting, pos>>
         ELSE /\ IF cur \in uhead[pos][2] /\ waiting[w] < Room
                 THEN waiting' = [waiting EXCEPT ![w] = @ + 1]
                 ELSE UNCHANGED waiting
              /\ pos' = pos + 1 /\ UNCHANGED uhead
  /\ UNCHANGED <<queue, heads, alive, cur>>

\* client->file->write(); a client whose file fails is closed.
Write ==
  /\ cur # NoAddr /\ pos > Len(uhead)
  /\ \/ UNCHANGED heads
     \/ "write" \in Faults /\ heads' = heads \ {cur}
  /\ cur' = NoAddr /\ pos' = 1
  /\ UNCHANGED <<queue, uhead, peers>>

Work == Receive \/ Forward \/ Write

Next ==
  \/ \E s \in Senders : Log(s)
  \/ Stray
  \/ \E w \in Watchers : Register(w) \/ Die(w) \/ Read(w)
  \/ Work

Spec == Init /\ [][Next]_vars

\* logd is one thread whose calls do not block; a watcher reads what it gets.
Fairness == WF_vars(Work) /\ \A w \in Watchers : WF_vars(Read(w))

-----------------------------------------------------------------------------
(* properties *)

(***************************************************************************)
(* The client whose message is written still exists and has a file,        *)
(* although clients were closed while the message was sent on, and some    *)
(* may have its address.                                                   *)
(***************************************************************************)
WriterHasFile == cur # NoAddr => cur \in heads

Wanted(w, s) == \E i \in DOMAIN uhead : uhead[i][1] = w /\ s \in uhead[i][2]

(***************************************************************************)
(* A watcher that lives and stays registered gets messages as long as      *)
(* there are any, however often others die in the middle of the loop.      *)
(***************************************************************************)
Served ==
  \A w \in Watchers, s \in Senders :
    /\ <>[](w \in alive /\ Wanted(w, s))
    /\ []<><<Write /\ cur = s>>_vars
    => []<>(waiting[w] > 0)

(***************************************************************************)
(* A watcher that stays dead is forgotten, if anything it wanted is still  *)
(* logged.                                                                 *)
(***************************************************************************)
DeadForgotten ==
  \A w \in Watchers, s \in Senders :
    <>[](w \notin alive) /\ []<><<Write /\ cur = s>>_vars => <>[](~Wanted(w, s))
=============================================================================

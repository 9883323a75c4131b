-------------------------------- MODULE Rclog --------------------------------
(***************************************************************************)
(* The logging library, src/log/socket.c: rclog() keeps one connected      *)
(* datagram socket for each group in a hash table, opens it at the first   *)
(* message and closes and replaces it when send() fails.  logd stops and   *)
(* starts; other threads of the program open and close descriptors.        *)
(***************************************************************************)
EXTENDS Integers, Sequences, FiniteSets, SequencesExt

CONSTANTS
  Threads,    \* threads that log
  Groups,
  Fds,        \* descriptors the kernel has
  NoFd,       \* what connect_logd() returns when it fails, -1
  Faults      \* calls that may fail: "socket", "dir", "bind", "full", "memory"

VARIABLES
  loggers,    \* the lists of lhead, newest first: <<group, fd>>
  desc,       \* of every descriptor: "free", "other", "leaked", or the state
              \* of a socket of ours: "up", "stale" (its logd is gone)
  logd,       \* logd runs
  pc, group, fd,  \* of every thread: where it is in send_log(), and its locals
  nomem       \* of every thread: errno is ENOMEM

locals == <<pc, group, fd, nomem>>
vars == <<loggers, desc, logd, locals>>

Ours == {"up", "stale"}

Init ==
  /\ loggers = <<>>
  /\ desc = [f \in Fds |-> "free"]
  /\ logd \in BOOLEAN
  /\ pc = [t \in Threads |-> "idle"]
  /\ group \in [Threads -> Groups]
  /\ fd = [t \in Threads |-> NoFd]
  /\ nomem = [t \in Threads |-> FALSE]

Goto(t, l) == pc' = [pc EXCEPT ![t] = l]

-----------------------------------------------------------------------------
(* the others *)

LogdStarts == ~logd /\ logd' = TRUE /\ UNCHANGED <<loggers, desc, locals>>

LogdStops ==
  /\ logd /\ logd' = FALSE
  /\ desc' = [f \in Fds |-> IF desc[f] = "up" THEN "stale" ELSE desc[f]]
  /\ UNCHANGED <<loggers, locals>>

\* They leave one descriptor for every group; "socket" in Faults is the case
\* that not.
OtherThread(f) ==
  /\ \/ /\ desc[f] = "free" /\ desc' = [desc EXCEPT ![f] = "other"]
        /\ Cardinality({h \in Fds : desc'[h] # "other"}) >= Cardinality(Groups)
     \/ desc[f] = "other" /\ desc' = [desc EXCEPT ![f] = "free"]
  /\ UNCHANGED <<loggers, logd, locals>>

-----------------------------------------------------------------------------
(* send_log() *)

\* The newest entry of a group, 0 when there is none.
Entry(g) == SelectInSeq(loggers, LAMBDA e : e[1] = g)

\* get_logd_connection(): an entry may have no descriptor.
Lookup(t, g) ==
  /\ pc[t] = "idle"
  /\ group' = [group EXCEPT ![t] = g]
  /\ LET e == Entry(g)
     IN  IF e = 0 THEN Goto(t, "create") /\ UNCHANGED fd
         ELSE /\ fd' = [fd EXCEPT ![t] = loggers[e][2]]
              /\ Goto(t, IF loggers[e][2] = NoFd THEN "failed" ELSE "send")
  /\ UNCHANGED <<loggers, desc, logd, nomem>>

\* malloc() fails: -ENOMEM is returned and send_log() gives up.
NoMemory(t) ==
  /\ pc[t] = "create" /\ "memory" \in Faults
  /\ nomem' = [nomem EXCEPT ![t] = TRUE]
  /\ Goto(t, "idle")
  /\ UNCHANGED <<loggers, desc, logd, group, fd>>

\* connect_logd()
Connected(t) ==
  /\ pc[t] \in {"create", "reconnect"} /\ logd
  /\ \E f \in Fds :
       /\ desc[f] = "free" /\ desc' = [desc EXCEPT ![f] = "up"]
       /\ fd' = [fd EXCEPT ![t] = f]
  /\ Goto(t, IF pc[t] = "create" THEN "insert" ELSE "assign")
  /\ UNCHANGED <<loggers, logd, group, nomem>>

\* After check_dir() failed the socket stays open.
NotConnected(t) ==
  /\ pc[t] \in {"create", "reconnect"}
  /\ \/ (~logd \/ Faults \cap {"socket", "bind"} # {}) /\ UNCHANGED desc
     \/ /\ "dir" \in Faults
        /\ \E f \in Fds : desc[f] = "free" /\ desc' = [desc EXCEPT ![f] = "leaked"]
  /\ fd' = [fd EXCEPT ![t] = NoFd]
  /\ nomem' = [nomem EXCEPT ![t] = FALSE]
  /\ Goto(t, IF pc[t] = "create" THEN "failed" ELSE "assign")
  /\ UNCHANGED <<loggers, logd, group>>

Insert(t) ==
  /\ pc[t] = "insert" /\ Goto(t, "send")
  /\ loggers' = <<<<group[t], fd[t]>>>> \o loggers
  /\ UNCHANGED <<desc, logd, group, fd, nomem>>

\* send() takes a datagram whole; what another thread has there may take it too.
Sent(t) ==
  /\ pc[t] = "send" /\ desc[fd[t]] \in {"up", "other"}
  /\ Goto(t, "idle")
  /\ UNCHANGED <<loggers, desc, logd, group, fd, nomem>>

\* ECONNREFUSED, EAGAIN from a socket that is full, EBADF, ENOTSOCK
NotSent(t) ==
  /\ pc[t] = "send"
  /\ desc[fd[t]] = "up" => "full" \in Faults
  /\ nomem' = [nomem EXCEPT ![t] = FALSE]
  /\ Goto(t, "failed")
  /\ UNCHANGED <<loggers, desc, logd, group, fd>>

\* Mutant: the socket stays open.
FailedNoClose(t) ==
  /\ pc[t] = "failed" /\ ~nomem[t]
  /\ Goto(t, IF Entry(group[t]) = 0 THEN "idle" ELSE "reconnect")
  /\ UNCHANGED <<loggers, desc, logd, group, fd, nomem>>

\* Label failed.  The errno that is tested may be an old one.
Failed(t) ==
  /\ pc[t] = "failed" /\ ~nomem[t]
  /\ desc' = IF fd[t] = NoFd THEN desc ELSE [desc EXCEPT ![fd[t]] = "free"]
  /\ Goto(t, IF Entry(group[t]) = 0 THEN "idle" ELSE "reconnect")
  /\ UNCHANGED <<loggers, logd, group, fd, nomem>>

FailedNoMemory(t) ==
  /\ pc[t] = "failed" /\ nomem[t] /\ Goto(t, "idle")
  /\ UNCHANGED <<loggers, desc, logd, group, fd, nomem>>

\* Mutant: the entry keeps its descriptor until there is a new one.
AssignNewOnly(t) ==
  /\ pc[t] = "assign" /\ Goto(t, "idle")
  /\ loggers' = IF fd[t] = NoFd THEN loggers
                ELSE [loggers EXCEPT ![Entry(group[t])][2] = fd[t]]
  /\ UNCHANGED <<desc, logd, group, fd, nomem>>

\* Line 185: the message itself is lost.
Assign(t) ==
  /\ pc[t] = "assign" /\ Goto(t, "idle")
  /\ loggers' = [loggers EXCEPT ![Entry(group[t])][2] = fd[t]]
  /\ UNCHANGED <<desc, logd, group, fd, nomem>>

SendLog(t) ==
  \/ NoMemory(t) \/ Connected(t) \/ NotConnected(t) \/ Insert(t)
  \/ Sent(t) \/ NotSent(t) \/ Failed(t) \/ FailedNoMemory(t) \/ Assign(t)

Next ==
  \/ LogdStarts \/ LogdStops
  \/ \E f \in Fds : OtherThread(f)
  \/ \E t \in Threads : SendLog(t) \/ \E g \in Groups : Lookup(t, g)

Spec == Init /\ [][Next]_vars

\* send_log() returns; connecting and sending do not fail for ever.
Fairness ==
  /\ \A t \in Threads : WF_vars(SendLog(t))
  /\ \A t \in Threads, g \in Groups : SF_vars(Connected(t) /\ group[t] = g)
                                      /\ SF_vars(Sent(t) /\ group[t] = g)

-----------------------------------------------------------------------------
(* properties *)

(***************************************************************************)
(* Although a descriptor is closed and given to another thread between two *)
(* messages, and the table keeps one for every group, send_log() never     *)
(* closes or writes to a descriptor of another thread.  Needs a single     *)
(* thread that logs: two that meet the same broken socket close it twice.  *)
(***************************************************************************)
OthersLeftAlone ==
  [][\A t \in Threads : SendLog(t) =>
       /\ pc[t] = "send" => desc[fd[t]] # "other"
       /\ \A f \in Fds : desc[f] = "other" => desc'[f] = "other"]_vars

(***************************************************************************)
(* No socket is lost when one is replaced, whichever call fails under way: *)
(* each is in the table or in the hands of the thread that opened it, and  *)
(* every group has one entry.                                              *)
(***************************************************************************)
NoSocketLost ==
  /\ \A f \in Fds : desc[f] \in Ours =>
       \/ \E i \in DOMAIN loggers : loggers[i][2] = f /\ Entry(loggers[i][1]) = i
       \/ \E t \in Threads : pc[t] \in {"insert", "assign"} /\ fd[t] = f
  /\ \A i, j \in DOMAIN loggers : loggers[i][1] = loggers[j][1] => i = j

(***************************************************************************)
(* However often logd was restarted while descriptors were reused: once it *)
(* stays up, messages of every group that goes on logging arrive again.    *)
(* There are two ways to lose them for good: check_dir() fails and each    *)
(* attempt costs a descriptor (line 60), or malloc() failed for another    *)
(* group and its errno keeps line 160 from connecting.                     *)
(***************************************************************************)
GetsThrough ==
  \A g \in Groups :
    /\ <>[]logd
    /\ <>[](\A t \in Threads : ~nomem[t])
    /\ [](\A f \in Fds : desc[f] # "leaked")
    /\ []<><<\E t \in Threads : Lookup(t, g)>>_vars
    => []<><<\E t \in Threads : Sent(t) /\ group[t] = g /\ desc[fd[t]] = "up">>_vars
=============================================================================

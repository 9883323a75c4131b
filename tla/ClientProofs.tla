---------------------------- MODULE ClientProofs ----------------------------
(***************************************************************************)
(* Theorems about the programs that keep a connection open: Client and     *)
(* Rclog for any set of descriptors and of failing calls, LowPower for any *)
(* number of addresses and of timer threads at a time.                     *)
(***************************************************************************)
EXTENDS MCClient, Integers, Sequences, TLAPS

-----------------------------------------------------------------------------
(* The client of src/client.  Its four invariants are inductive together:  *)
(* what an event may meet follows from what is watched, and what the timer *)
(* may overwrite from what is open.                                        *)

IInv == TypeOK /\ CallbackFits /\ OneSocket /\ RetryOnlyWhenDown

USE DEF Open

LEMMA InvariantHoldsInitially == Init => IInv
BY ClientAssumption DEF Init, IInv, TypeOK, CallbackFits, OneSocket, RetryOnlyWhenDown

\* connected_server() leaves the descriptor watched and read, or closed.
LEMMA ConnectedKeeps ==
  ASSUME NEW f \in Fds, TypeOK, Connected(f), dpctx = NoFd, event' = <<>>,
         fd' = f, timer' = "inactive",
         \A g \in Fds : g # f => sock[g] \notin Open /\ watch[g] = "none",
         watch[f] # "none" => sock[f] \in Open
  PROVE  IInv'
<1>1. CASE /\ callback' = "handle_data"
           /\ watch' = [watch EXCEPT ![f] = "in"] /\ dpctx' = f /\ sock' = sock
           /\ watch[f] # "none"
  BY <1>1, ClientAssumption DEF IInv, TypeOK, CallbackFits, OneSocket, RetryOnlyWhenDown
<1>2. CASE Closed(f) /\ dpctx' = dpctx /\ callback' \in {callback, "handle_data"}
  BY <1>2, ClientAssumption DEF IInv, TypeOK, CallbackFits, OneSocket, RetryOnlyWhenDown, Closed
<1> QED BY <1>1, <1>2 DEF Connected

\* The retry label and disconnect_server() leave nothing open.
LEMMA DownKeeps ==
  ASSUME TypeOK, NEW f \in Fds, Closed(f), timer' = "enqueued", event' = <<>>,
         fd' \in Fds \cup {NoFd}, dpctx' = NoFd, callback' = callback,
         \A g \in Fds : g # f => sock[g] \notin Open /\ watch[g] = "none"
  PROVE  IInv'
BY ClientAssumption DEF IInv, TypeOK, CallbackFits, OneSocket, RetryOnlyWhenDown, Closed

LEMMA InvariantIsInductive == IInv /\ [Next]_vars => IInv'
<1> SUFFICES ASSUME IInv, [Next]_vars PROVE IInv'
  OBVIOUS
<1> USE ClientAssumption
<1>1. ASSUME NEW f \in Fds, Peer(f) PROVE IInv'
  BY <1>1 DEF IInv, TypeOK, CallbackFits, OneSocket, RetryOnlyWhenDown, Peer, Turn
<1>2. ASSUME NEW f \in Fds, OtherThread(f) PROVE IInv'
  BY <1>2 DEF IInv, TypeOK, CallbackFits, OneSocket, RetryOnlyWhenDown, OtherThread, Turn
<1>3. ASSUME NEW f \in Fds, Wait(f) PROVE IInv'
  <2>1. PICK flags \in Reported(f) : event' = <<f, flags>>
    BY <1>3 DEF Wait
  <2>2. watch[f] # "none" /\ flags \in SUBSET {"OUT", "IN", "ERR"}
    BY <2>1 DEF Reported
  <2> QED BY <1>3, <2>1, <2>2 DEF IInv, TypeOK, CallbackFits, OneSocket, RetryOnlyWhenDown, Wait
<1>4. CASE Handle
  \* the event came from client->fd, the one descriptor that is open
  <2>1. /\ event # <<>> /\ event[1] \in Fds /\ event[1] = fd /\ watch[fd] # "none"
        /\ fd \in Fds /\ timer = "inactive" /\ event' = <<>>
        /\ \A g \in Fds : g # fd => sock[g] \notin Open /\ watch[g] = "none"
    BY <1>4 DEF Handle, IInv, TypeOK, CallbackFits, OneSocket, RetryOnlyWhenDown
  <2>2. CASE Connecting
    <3>1. callback = "connecting_server" /\ dpctx = NoFd /\ sock[fd] \in Open
      BY <2>1, <2>2 DEF Connecting, IInv, TypeOK, CallbackFits
    <3>2. CASE Connected(fd) /\ fd' = fd /\ timer' = timer
      BY <2>1, <3>1, <3>2, ConnectedKeeps DEF IInv
    <3>3. CASE Retry
      BY <2>1, <3>1, <3>3, DownKeeps DEF Retry, IInv
    <3> QED BY <2>2, <3>2, <3>3 DEF Connecting
  <2>3. CASE HandleData
    <3>1. dpctx = fd
      BY <2>1, <2>3 DEF HandleData, IInv, TypeOK, CallbackFits
    <3>2. CASE Disconnect
      BY <2>1, <3>1, <3>2, DownKeeps DEF Disconnect, IInv
    <3>3. CASE UNCHANGED <<fd, dpctx, callback, timer, sock, watch>>
      BY <2>1, <3>3 DEF IInv, TypeOK, CallbackFits, OneSocket, RetryOnlyWhenDown
    <3> QED BY <2>3, <3>2, <3>3 DEF HandleData
  <2> QED BY <1>4, <2>2, <2>3 DEF Handle
<1>5. CASE TryConnect
  <2>1. /\ timer' = "inactive" /\ event' = <<>> /\ dpctx = NoFd
        /\ \A g \in Fds : sock[g] \notin Open /\ watch[g] = "none"
    BY <1>5 DEF TryConnect, IInv, RetryOnlyWhenDown
  <2>2. CASE NoSocket
    BY <2>1, <2>2 DEF NoSocket, IInv, TypeOK, CallbackFits, OneSocket, RetryOnlyWhenDown
  <2>3. ASSUME NEW f \in Fds, sock[f] = "free", Pending(f) PROVE IInv'
    BY <2>1, <2>3 DEF Pending, IInv, TypeOK, CallbackFits, OneSocket, RetryOnlyWhenDown
  <2>4. ASSUME NEW f \in Fds, sock[f] = "free", ConnectError(f) PROVE IInv'
    BY <2>1, <2>4 DEF ConnectError, IInv, TypeOK, CallbackFits, OneSocket, RetryOnlyWhenDown
  <2>5. ASSUME NEW f \in Fds, sock[f] = "free", Immediate(f) PROVE IInv'
    BY <2>1, <2>5, ConnectedKeeps DEF Immediate, IInv
  <2> QED BY <1>5, <2>2, <2>3, <2>4, <2>5 DEF TryConnect
<1>6. CASE UNCHANGED vars
  BY <1>6 DEF vars, IInv, TypeOK, CallbackFits, OneSocket, RetryOnlyWhenDown
<1> QED BY <1>1, <1>2, <1>3, <1>4, <1>5, <1>6 DEF Next

-----------------------------------------------------------------------------
(***************************************************************************)
(* The invariant holds whatever the peer, the other threads and the        *)
(* failing calls do.                                                       *)
(***************************************************************************)
THEOREM Invariance == Spec => []IInv
BY InvariantHoldsInitially, InvariantIsInductive, PTL DEF Spec

(***************************************************************************)
(* Type correctness; client->dpctx is never a freed context.               *)
(***************************************************************************)
THEOREM TypeCorrect == Spec => []TypeOK
<1>1. IInv => TypeOK BY DEF IInv
<1> QED BY <1>1, Invariance, PTL

(***************************************************************************)
(* main() calls the callback that fits the descriptor of the event.        *)
(***************************************************************************)
THEOREM CallbackAlwaysFits == Spec => []CallbackFits
<1>1. IInv => CallbackFits BY DEF IInv
<1> QED BY <1>1, Invariance, PTL

(***************************************************************************)
(* No reconnect loses a socket.                                            *)
(***************************************************************************)
THEOREM OneSocketOnly == Spec => []OneSocket
<1>1. IInv => OneSocket BY DEF IInv
<1> QED BY <1>1, Invariance, PTL

(***************************************************************************)
(* The retry timer and a connection exclude each other.                    *)
(***************************************************************************)
THEOREM RetryWhenDown == Spec => []RetryOnlyWhenDown
<1>1. IInv => RetryOnlyWhenDown BY DEF IInv
<1> QED BY <1>1, Invariance, PTL

(***************************************************************************)
(* No handler of the client closes a descriptor of another thread.         *)
(***************************************************************************)
THEOREM OthersStayUntouched == Spec => OthersUntouched
<1> DEFINE Left == Handle \/ TryConnect => \A f \in Fds : sock[f] = "other" => sock'[f] = "other"
<1>1. IInv /\ [Next]_vars => [Left]_vars
  <2> SUFFICES ASSUME IInv, Handle \/ TryConnect, NEW f \in Fds, sock[f] = "other"
               PROVE  sock'[f] = "other"
    OBVIOUS
  <2>1. CASE Handle
    <3>1. sock[fd] \in Open /\ (callback = "handle_data" => dpctx = fd)
          /\ f # fd
      BY <2>1 DEF Handle, IInv, TypeOK, CallbackFits
    <3> QED BY <2>1, <3>1 DEF Handle, Connecting, Connected, Retry, HandleData, Disconnect,
                              Closed, IInv, TypeOK
  <2>2. CASE TryConnect
    BY <2>2 DEF TryConnect, NoSocket, Pending, ConnectError, Immediate, Connected, Closed,
                IInv, TypeOK
  <2> QED BY <2>1, <2>2
<1> QED BY <1>1, Invariance, PTL DEF Spec, OthersUntouched

-----------------------------------------------------------------------------
(* The low power client *)

BoolType == /\ asleep \in BOOLEAN /\ autosleep \in BOOLEAN
            /\ sockLock \in BOOLEAN /\ timerLock \in BOOLEAN /\ overlap \in BOOLEAN
            /\ mainBare \in BOOLEAN

ThreadType == thread \in [Threads -> {"none", "start", "locked", "sent", "set"}]

PcType ==
  pc \in {"connect", "pending", "lock", "autosleep", "hello", "timer", "save",
                 "poll", "woken", "recv", "exit"}

\* main() has not come to line 306 yet.
Starting == pc \in {"connect", "pending", "lock", "autosleep"}

\* Before line 306 the system does not suspend; behind it main() has its lock
\* wherever it is at work, or goes on although it did not get it.
MainLocked ==
  /\ asleep => autosleep
  /\ autosleep => ~Starting
  /\ pc \in {"autosleep", "hello", "timer", "save", "recv"} => sockLock \/ mainBare

\* As long as no two threads have been at work at a time, the one that is has
\* the lock of the threads, or goes on although it did not get it.
ThreadLocked ==
  ~overlap => /\ \A s, t \in Power!Working : s = t
              /\ Power!Working \ bare # {} => timerLock

PowerInv == PcType /\ BoolType /\ ThreadType /\ MainLocked /\ ThreadLocked /\ AwakeAtWork

-----------------------------------------------------------------------------

LEMMA InitPower == Power!Init => PowerInv
  BY DEF Power!Init, PowerInv, PcType, BoolType, ThreadType, Starting, MainLocked, ThreadLocked, AwakeAtWork, Power!AwakeAtWork, Power!Working

\* A step of main() that is not an exit leaves the threads as they are.
LEMMA MainPower == PowerInv /\ Power!Main => PowerInv'
<1> SUFFICES ASSUME PowerInv, Power!Main PROVE PowerInv'
  OBVIOUS
<1>1. asleep = FALSE /\ asleep' = FALSE
  BY DEF Power!Main, Power!MainStep, Power!Connect, Power!Connecting, Power!Lock, Power!Autosleep, Power!Hello, Power!StartTimer,
         Power!PowerSave, Power!Poll, Power!Woken, Power!Recv, PowerInv, BoolType
<1>2. PcType' /\ BoolType' /\ MainLocked'
  <2> USE <1>1 DEF Power!Exit, Power!threadVars, Power!sockVars, Power!WakeMain, PowerInv, PcType, BoolType, MainLocked, Starting
  <2>1. CASE Power!Connect   BY <2>1 DEF Power!Connect
  <2>2. CASE Power!Connecting BY <2>2 DEF Power!Connecting
  <2>3. CASE Power!Lock BY <2>3 DEF Power!Lock
  <2>8. CASE Power!Autosleep BY <2>8 DEF Power!Autosleep
  <2>9. CASE Power!Woken BY <2>9 DEF Power!Woken
  <2>4. CASE Power!Hello BY <2>4 DEF Power!Hello
  <2>5. CASE Power!StartTimer BY <2>5 DEF Power!StartTimer
  <2>6. CASE Power!PowerSave \/ Power!Poll BY <2>6 DEF Power!PowerSave, Power!Poll
  <2>7. CASE Power!Recv BY <2>7 DEF Power!Recv
  <2> QED
    BY <2>1, <2>2, <2>3, <2>4, <2>5, <2>6, <2>7, <2>8, <2>9
    DEF Power!Main, Power!MainStep
<1>3. \/ Power!Exit
      \/ UNCHANGED <<thread, timerLock, overlap, bare>>
  BY DEF Power!Main, Power!MainStep, Power!Connect, Power!Connecting, Power!Lock, Power!Autosleep, Power!Hello, Power!StartTimer,
         Power!PowerSave, Power!Poll, Power!Woken, Power!Recv, Power!threadVars
<1>4. ThreadType' /\ ThreadLocked'
  BY <1>3 DEF Power!Exit, PowerInv, ThreadType, ThreadLocked, Power!Working
<1> QED
  BY <1>1, <1>2, <1>4 DEF PowerInv, AwakeAtWork, Power!AwakeAtWork

\* A thread that gets to work is alone, or overlap is set; one that leaves the
\* work was the only one, or overlap was set.  One that cannot set its timer
\* ends the program.
LEMMA ThreadPower == ASSUME NEW t \in Threads PROVE PowerInv /\ Power!Thread(t) => PowerInv'
<1> SUFFICES ASSUME PowerInv, Power!Thread(t) PROVE PowerInv'
  OBVIOUS
<1>1. /\ UNCHANGED <<sockLock, mainBare, autosleep, asleep>> /\ asleep = FALSE
      /\ pc' = pc \/ pc' = "exit"
  BY DEF Power!Thread, Power!ThreadStep, Power!sockVars, Power!ThreadLock, Power!ThreadSend,
         Power!ThreadSet, Power!ThreadUnlock, Power!Exit, PowerInv, BoolType
<1>2. PcType' /\ MainLocked' /\ AwakeAtWork'
  BY <1>1 DEF PowerInv, PcType, MainLocked, Starting, AwakeAtWork, Power!AwakeAtWork
<1>3. CASE thread[t] = "sent" /\ Power!Exit
  <2>1. ThreadType' /\ Power!Working' = {} /\ UNCHANGED <<timerLock, overlap>>
    BY <1>3 DEF Power!Exit, ThreadType, Power!Working
  <2> QED BY <1>1, <1>2, <2>1 DEF PowerInv, BoolType, ThreadLocked
<1>4. CASE Power!ThreadLock(t)
  <2>1. BoolType' /\ ThreadType' /\ Power!Working' = Power!Working \cup {t}
        /\ overlap' = (overlap \/ Power!Working # {})
    BY <1>1, <1>4 DEF Power!ThreadLock, Power!Go, PowerInv, BoolType, ThreadType, Power!Working
  <2>2. timerLock' \/ t \in bare'
    BY <1>4 DEF Power!ThreadLock
  <2>3. ThreadLocked'
    BY <2>1, <2>2 DEF ThreadLocked
  <2> QED BY <1>2, <2>1, <2>3 DEF PowerInv
<1>5. CASE \/ Power!ThreadSend(t)
           \/ Power!Go(t, "sent", "set") /\ UNCHANGED <<pc, alarm, timerLock, overlap, bare>>
  <2>1. ThreadType' /\ Power!Working' = Power!Working /\ UNCHANGED <<overlap, timerLock, bare>>
    BY <1>5 DEF Power!ThreadSend, Power!Go, PowerInv, ThreadType, Power!Working
  <2> QED BY <1>1, <1>2, <2>1 DEF PowerInv, BoolType, ThreadLocked
<1>6. CASE Power!ThreadUnlock(t)
  <2>1. /\ ThreadType' /\ t \in Power!Working /\ Power!Working' = Power!Working \ {t}
        /\ UNCHANGED overlap /\ timerLock' \in BOOLEAN
    BY <1>6 DEF Power!ThreadUnlock, Power!Go, PowerInv, BoolType, ThreadType, Power!Working
  <2>2. ~overlap => Power!Working' = {}
    BY <2>1 DEF PowerInv, ThreadLocked
  <2>3. ThreadLocked'
    BY <2>1, <2>2 DEF ThreadLocked
  <2> QED BY <1>1, <1>2, <2>1, <2>3 DEF PowerInv, BoolType
<1> QED
  BY <1>3, <1>4, <1>5, <1>6 DEF Power!Thread, Power!ThreadStep, Power!ThreadSet

\* An expiry starts a thread, which is not at work yet.
LEMMA ExpirePower == PowerInv /\ Power!Expire => PowerInv'
<1> SUFFICES ASSUME PowerInv, Power!Expire PROVE PowerInv'
  OBVIOUS
<1>1. ThreadType' /\ Power!Working' = Power!Working
  BY DEF Power!Expire, Power!NewThread, Power!Go, PowerInv, ThreadType, Power!Working
<1>2. /\ UNCHANGED <<pc, sockLock, mainBare, timerLock, autosleep, overlap, bare>>
      /\ asleep' = FALSE
  BY DEF Power!Expire, Power!sockVars
<1> QED
  BY <1>1, <1>2
     DEF PowerInv, PcType, BoolType, MainLocked, Starting, ThreadLocked, AwakeAtWork, Power!AwakeAtWork

\* The system suspends while nobody has a lock: then main() is in poll() or
\* behind it, and no thread is at work, but those that did not get theirs.
LEMMA SuspendPower == PowerInv /\ Power!Suspend => PowerInv'
<1> SUFFICES ASSUME PowerInv, Power!Suspend PROVE PowerInv'
  OBVIOUS
<1>1. /\ UNCHANGED <<pc, autosleep, sockLock, mainBare, timerLock, overlap, bare, thread>>
      /\ Power!Working' = Power!Working /\ asleep' = TRUE
  BY DEF Power!Suspend, Power!threadVars, Power!sockVars, Power!Working
<1>2. mainBare \/ pc \in {"poll", "woken", "exit"}
  BY DEF PowerInv, MainLocked, Starting, PcType, Power!Suspend
<1>3. overlap \/ Power!Working \subseteq bare
  BY DEF PowerInv, ThreadLocked, Power!Suspend
<1>4. MainLocked' /\ AwakeAtWork'
  BY <1>1, <1>2, <1>3 DEF PowerInv, MainLocked, Starting, Power!Suspend, AwakeAtWork, Power!AwakeAtWork
<1> QED
  BY <1>1, <1>4 DEF PowerInv, PcType, BoolType, ThreadType, ThreadLocked

\* The network may wake the system, a signal ends the program, its threads and
\* its timer, and leaves the locks.
LEMMA OtherPower == PowerInv /\ (Power!Network \/ Power!Signal \/ UNCHANGED Power!vars) => PowerInv'
<1> SUFFICES ASSUME PowerInv, Power!Network \/ Power!Signal \/ UNCHANGED Power!vars PROVE PowerInv'
  OBVIOUS
<1>1. CASE Power!Network \/ UNCHANGED Power!vars
  <2>1. /\ UNCHANGED <<pc, autosleep, sockLock, mainBare, timerLock, overlap, bare, thread>>
        /\ Power!Working' = Power!Working /\ asleep' \in {asleep, FALSE}
    BY <1>1 DEF Power!Network, Power!threadVars, Power!sockVars, Power!vars, Power!Working
  <2>2. PcType' /\ BoolType' /\ ThreadType' /\ ThreadLocked'
    BY <2>1 DEF PowerInv, PcType, BoolType, ThreadType, ThreadLocked
  <2>3. asleep' => asleep
    BY <2>1, Zenon
  <2>4. MainLocked' /\ AwakeAtWork'
    BY <2>1, <2>3, Zenon DEF PowerInv, MainLocked, Starting, AwakeAtWork, Power!AwakeAtWork
  <2> QED
    BY <2>2, <2>4 DEF PowerInv
<1>2. CASE Power!Signal
  <2>1. /\ pc' = "exit" /\ Power!Working' = {} /\ ThreadType'
        /\ UNCHANGED <<timerLock, overlap, autosleep, mainBare>> /\ asleep' = FALSE
        /\ sockLock' \in BOOLEAN
    BY <1>2 DEF Power!Signal, Power!Exit, Power!Working, PowerInv, BoolType, ThreadType
  <2> QED
    BY <2>1 DEF PowerInv, PcType, BoolType, MainLocked, Starting, ThreadLocked, AwakeAtWork, Power!AwakeAtWork
<1> QED
  BY <1>1, <1>2

LEMMA StepPower == PowerInv /\ [Power!Next]_(Power!vars) => PowerInv'
  BY MainPower, ThreadPower, ExpirePower, SuspendPower, OtherPower DEF Power!Next

(***************************************************************************)
(* After every step, whichever calls for a lock fail: main() at work has   *)
(* its lock or is marked as one that did not get it (lines 42-46), and so  *)
(* has a lone thread.                                                      *)
(***************************************************************************)
THEOREM PowerInvariance == Power!Spec => []PowerInv
  BY InitPower, StepPower, PTL DEF Power!Spec

-----------------------------------------------------------------------------

(***************************************************************************)
(* However many timer threads there are, whenever the network wakes the    *)
(* system and whichever calls for a lock fail: it is never suspended under *)
(* main() or a lone thread at work that got its lock.                      *)
(***************************************************************************)
THEOREM NeverSuspendedAtWork == MCSpec => []AwakeAtWork
<1>1. MCInit => PowerInv
  BY InitPower DEF MCInit
<1>2. PowerInv /\ [MCNext]_MCvars => PowerInv'
  <2>1. [MCNext]_MCvars => [Power!Next]_(Power!vars)
    BY DEF MCNext, Powered, MCvars, powerVars, Power!vars, Power!threadVars, Power!sockVars
  <2> QED
    BY <2>1, StepPower
<1>3. PowerInv => AwakeAtWork
  BY DEF PowerInv
<1> QED
  BY <1>1, <1>2, <1>3, PTL DEF MCSpec

-----------------------------------------------------------------------------
(* The program that logs *)

OneLogger == \A s, t \in Loggers : s = t

SendPlaces ==
  {"idle", "create", "reconnect", "insert", "assign", "send", "failed"}

LogType ==
  /\ loggers \in Seq(Groups \X (Fds \cup {NoFd}))
  /\ desc \in [Fds -> {"free", "other", "leaked", "up", "stale"}]
  /\ logd \in BOOLEAN
  /\ at \in [Loggers -> SendPlaces]
  /\ group \in [Loggers -> Groups]
  /\ lfd \in [Loggers -> Fds \cup {NoFd}]
  /\ nomem \in [Loggers -> BOOLEAN]

\* A group has one entry.
Unique == \A i, j \in DOMAIN loggers : loggers[i][1] = loggers[j][1] => i = j

\* The entry of g still has the descriptor that was closed.
Replaced(g) == \E t \in Loggers : at[t] \in {"reconnect", "assign"} /\ group[t] = g

\* Every other entry has a socket of ours, or none.
EntriesOpen ==
  \A i \in DOMAIN loggers :
    ~Replaced(loggers[i][1]) => loggers[i][2] = NoFd \/ desc[loggers[i][2]] \in Log!Ours

\* ... and no two have the same.
EntriesApart ==
  \A i, j \in DOMAIN loggers :
    /\ ~Replaced(loggers[i][1]) /\ ~Replaced(loggers[j][1])
    /\ loggers[i][2] = loggers[j][2] /\ loggers[i][2] # NoFd
    => i = j

InTable(g) == \E i \in DOMAIN loggers : loggers[i][1] = g
HasEntry(g, f) == \E i \in DOMAIN loggers : loggers[i][1] = g /\ loggers[i][2] = f

\* What the thread that logs knows of the table where it is.
KnowsTable(t) ==
  /\ at[t] \in {"create", "insert"} => ~InTable(group[t])
  /\ at[t] \in {"reconnect", "assign"} => InTable(group[t])
  /\ at[t] = "insert" => lfd[t] # NoFd
  /\ at[t] \in {"insert", "assign"} /\ lfd[t] # NoFd =>
       /\ desc[lfd[t]] \in Log!Ours
       /\ \A i \in DOMAIN loggers : loggers[i][1] # group[t] => loggers[i][2] # lfd[t]
  /\ at[t] = "send" => lfd[t] # NoFd /\ HasEntry(group[t], lfd[t])
  /\ at[t] = "failed" => HasEntry(group[t], lfd[t]) \/ (lfd[t] = NoFd /\ ~InTable(group[t]))

\* Every socket of ours is in an entry, or in the hands of the thread.
SocketsHeld ==
  \A f \in Fds : desc[f] \in Log!Ours =>
    \/ \E i \in DOMAIN loggers : loggers[i][2] = f /\ ~Replaced(loggers[i][1])
    \/ \E t \in Loggers : at[t] \in {"insert", "assign"} /\ lfd[t] = f

LogInv ==
  /\ LogType /\ Unique /\ EntriesOpen /\ EntriesApart /\ SocketsHeld
  /\ \A t \in Loggers : KnowsTable(t)


\* What Entry() finds.
LEMMA EntryFinds ==
  ASSUME LogType, Unique, NEW g
  PROVE  /\ ~InTable(g) => Log!Entry(g) = 0
         /\ \A i \in DOMAIN loggers : loggers[i][1] = g => Log!Entry(g) = i /\ i # 0
<1> DEFINE I == {i \in 1..Len(loggers) : loggers[i][1] = g}
<1>1. Log!Entry(g) = IF I # {} THEN Log!Min(I) ELSE 0
  BY DEF Log!Entry, Log!SelectInSeq
<1>2. DOMAIN loggers = 1..Len(loggers) /\ Len(loggers) \in Nat
  BY DEF LogType
<1>3. ~InTable(g) => I = {}
  BY <1>2 DEF InTable
<1>4. ASSUME NEW i \in DOMAIN loggers, loggers[i][1] = g PROVE Log!Entry(g) = i /\ i # 0
  <2>1. I = {i} /\ i \in Nat /\ i # 0
    BY <1>2, <1>4 DEF Unique
  <2>2. Log!Min({i}) = i
    BY <2>1 DEF Log!Min
  <2> QED
    BY <1>1, <2>1, <2>2
<1> QED
  BY <1>1, <1>3, <1>4

LEMMA LogInit == Log!Init => LogInv
  BY DEF Log!Init, LogInv, LogType, SendPlaces, Unique, EntriesOpen, EntriesApart, SocketsHeld, KnowsTable, Log!Ours

\* logd and the other threads.
LEMMA KernelLog ==
  LogInv /\ (Log!LogdStarts \/ Log!LogdStops \/ \E f \in Fds : Log!OtherThread(f)) => LogInv'
<1> SUFFICES ASSUME LogInv, Log!LogdStarts \/ Log!LogdStops \/ \E f \in Fds : Log!OtherThread(f)
             PROVE  LogInv'
  OBVIOUS
<1>1. /\ UNCHANGED <<loggers, at, group, lfd, nomem>> /\ logd' \in BOOLEAN
      /\ desc' \in [Fds -> {"free", "other", "leaked", "up", "stale"}]
      /\ \A f \in Fds : desc[f] \in Log!Ours <=> desc'[f] \in Log!Ours
  BY DEF Log!LogdStarts, Log!LogdStops, Log!OtherThread, Log!locals, Log!Ours, LogInv, LogType
<1>2. LogType'
  BY <1>1 DEF LogInv, LogType
<1>3. \A i \in DOMAIN loggers : loggers[i][2] \in Fds \cup {NoFd}
  BY DEF LogInv, LogType
<1>4. EntriesOpen' /\ EntriesApart' /\ Unique' /\ SocketsHeld'
  BY <1>1, <1>3 DEF LogInv, EntriesOpen, EntriesApart, Unique, SocketsHeld, Replaced
<1>5. \A t \in Loggers : KnowsTable(t)'
  BY <1>1 DEF LogInv, LogType, KnowsTable, InTable, HasEntry
<1> QED
  BY <1>2, <1>4, <1>5 DEF LogInv

\* The entries and the sockets are what they were, and so is the entry that is
\* replaced: the thread has only learned something.
LEMMA LearnsLog ==
  ASSUME OneLogger, NEW t \in Loggers, LogInv, LogType', UNCHANGED <<loggers, desc>>,
         \A g \in Groups : Replaced(g)' <=> Replaced(g),
         at[t] \notin {"insert", "assign"}, KnowsTable(t)'
  PROVE  LogInv'
<1>1. \A i \in DOMAIN loggers : loggers[i][1] \in Groups
  BY DEF LogInv, LogType
<1>2. EntriesOpen' /\ EntriesApart' /\ Unique'
  BY <1>1 DEF LogInv, EntriesOpen, EntriesApart, Unique
<1>3. SocketsHeld'
  BY <1>1 DEF LogInv, SocketsHeld, OneLogger
<1> QED
  BY <1>2, <1>3 DEF LogInv, OneLogger

LEMMA LookupLog ==
  ASSUME OneLogger, NEW t \in Loggers, NEW g \in Groups, LogInv, Log!Lookup(t, g) PROVE LogInv'
<1>1. /\ at[t] = "idle" /\ group' = [group EXCEPT ![t] = g]
      /\ UNCHANGED <<loggers, desc, logd, nomem>>
  BY DEF Log!Lookup
<1>2. InTable(g) \/ ~InTable(g)
  OBVIOUS
<1>3. CASE ~InTable(g)
  <2>1. Log!Entry(g) = 0
    BY <1>3, EntryFinds DEF LogInv
  <2>2. at' = [at EXCEPT ![t] = "create"] /\ lfd' = lfd
    BY <2>1 DEF Log!Lookup, Log!Goto
  <2>3. LogType'
    BY <1>1, <2>2 DEF LogInv, LogType, SendPlaces
  <2>4. KnowsTable(t)'
    BY <1>1, <1>3, <2>2 DEF LogInv, LogType, KnowsTable, InTable
  <2>5. \A h \in Groups : Replaced(h)' <=> Replaced(h)
    BY <1>1, <2>2 DEF LogInv, LogType, Replaced, OneLogger
  <2> QED
    BY <1>1, <2>3, <2>4, <2>5, LearnsLog
<1>4. CASE InTable(g)
  <2>1. PICK i \in DOMAIN loggers : loggers[i][1] = g
    BY <1>4 DEF InTable
  <2>2. Log!Entry(g) = i /\ i # 0
    BY <2>1, EntryFinds DEF LogInv
  <2>3. /\ at' = [at EXCEPT ![t] = IF loggers[i][2] = NoFd THEN "failed" ELSE "send"]
        /\ lfd' = [lfd EXCEPT ![t] = loggers[i][2]]
    BY <2>2 DEF Log!Lookup, Log!Goto
  <2>4. loggers[i][2] \in Fds \cup {NoFd}
    BY DEF LogInv, LogType
  <2>5. LogType'
    BY <1>1, <2>3, <2>4 DEF LogInv, LogType, SendPlaces
  <2>6. KnowsTable(t)'
    BY <1>1, <2>1, <2>3 DEF LogInv, LogType, KnowsTable, HasEntry
  <2>7. \A h \in Groups : Replaced(h)' <=> Replaced(h)
    BY <1>1, <2>3 DEF LogInv, LogType, Replaced, OneLogger
  <2> QED
    BY <1>1, <2>5, <2>6, <2>7, LearnsLog
<1> QED
  BY <1>3, <1>4

\* The steps that change neither the table nor a descriptor.
LEMMA QuietLog ==
  ASSUME OneLogger, NEW t \in Loggers, LogInv,
         Log!NoMemory(t) \/ Log!Sent(t) \/ Log!NotSent(t) \/ Log!FailedNoMemory(t)
  PROVE  LogInv'
<1>1. /\ UNCHANGED <<loggers, desc, logd, group, lfd>>
      /\ at[t] \in {"create", "send", "failed"}
      /\ \E l \in {"idle", "failed"} : /\ at' = [at EXCEPT ![t] = l]
                                       /\ l = "failed" => at[t] = "send"
      /\ nomem' \in [Loggers -> BOOLEAN]
  BY DEF Log!NoMemory, Log!Sent, Log!NotSent, Log!FailedNoMemory, Log!Goto, LogInv, LogType
<1>2. LogType'
  BY <1>1 DEF LogInv, LogType, SendPlaces
<1>3. KnowsTable(t)'
  BY <1>1 DEF LogInv, LogType, KnowsTable, InTable, HasEntry
<1>4. \A g \in Groups : Replaced(g)' <=> Replaced(g)
  BY <1>1 DEF LogInv, LogType, Replaced, OneLogger
<1> QED
  BY <1>1, <1>2, <1>3, <1>4, LearnsLog

LEMMA ConnectedLog == ASSUME OneLogger, NEW t \in Loggers, LogInv, Log!Connected(t) PROVE LogInv'
<1>1. PICK f \in Fds : /\ desc[f] = "free" /\ desc' = [desc EXCEPT ![f] = "up"]
                       /\ lfd' = [lfd EXCEPT ![t] = f]
  BY DEF Log!Connected
<1>2. /\ UNCHANGED <<loggers, logd, group, nomem>> /\ at[t] \in {"create", "reconnect"}
      /\ at' = [at EXCEPT ![t] = IF at[t] = "create" THEN "insert" ELSE "assign"]
  BY DEF Log!Connected, Log!Goto
<1>3. LogType'
  BY <1>1, <1>2 DEF LogInv, LogType, SendPlaces
<1>4. \A g : Replaced(g)' <=> Replaced(g)
  BY <1>2 DEF LogInv, LogType, Replaced, OneLogger
<1>5. f # NoFd /\ desc[f] \notin Log!Ours /\ desc'[f] \in Log!Ours /\ \A h \in Fds : h # f => desc'[h] = desc[h]
  BY <1>1, ClientAssumption DEF LogInv, LogType, Log!Ours
<1>6. \A i \in DOMAIN loggers : loggers[i][2] \in Fds \cup {NoFd} /\ loggers[i][1] \in Groups
  BY DEF LogInv, LogType
<1>7. EntriesOpen' /\ EntriesApart' /\ Unique'
  BY <1>2, <1>4, <1>5, <1>6 DEF LogInv, EntriesOpen, EntriesApart, Unique
<1>8. SocketsHeld'
  <2>1. at'[t] \in {"insert", "assign"} /\ lfd'[t] = f
    BY <1>1, <1>2 DEF LogInv, LogType
  <2>2. \A h \in Fds : h # f /\ desc'[h] \in Log!Ours =>
          \E i \in DOMAIN loggers : loggers[i][2] = h /\ ~Replaced(loggers[i][1])
    BY <1>2, <1>5 DEF LogInv, SocketsHeld, OneLogger
  <2> QED
    BY <1>2, <1>4, <2>1, <2>2 DEF SocketsHeld
<1>9. KnowsTable(t)'
  <2>1. \A i \in DOMAIN loggers : loggers[i][1] # group[t] => ~Replaced(loggers[i][1])
    BY DEF Replaced, OneLogger
  <2>2. \A i \in DOMAIN loggers : loggers[i][1] # group[t] => loggers[i][2] # f
    BY <1>5, <2>1 DEF LogInv, EntriesOpen
  <2>3. at'[t] \in {"insert", "assign"} /\ lfd'[t] = f /\ group' = group /\ loggers' = loggers
    BY <1>1, <1>2 DEF LogInv, LogType
  <2>4. (at'[t] = "insert" => ~InTable(group[t])) /\ (at'[t] = "assign" => InTable(group[t]))
    BY <1>2 DEF LogInv, LogType, KnowsTable
  <2> QED
    BY <1>5, <2>2, <2>3, <2>4 DEF KnowsTable, InTable
<1> QED
  BY <1>3, <1>7, <1>8, <1>9 DEF LogInv, OneLogger

LEMMA NotConnectedLog ==
  ASSUME OneLogger, NEW t \in Loggers, LogInv, Log!NotConnected(t) PROVE LogInv'
<1>1. /\ UNCHANGED <<loggers, logd, group>> /\ at[t] \in {"create", "reconnect"}
      /\ lfd' = [lfd EXCEPT ![t] = NoFd] /\ nomem' = [nomem EXCEPT ![t] = FALSE]
      /\ at' = [at EXCEPT ![t] = IF at[t] = "create" THEN "failed" ELSE "assign"]
  BY DEF Log!NotConnected, Log!Goto
<1>2. /\ desc' \in [Fds -> {"free", "other", "leaked", "up", "stale"}]
      /\ \A f \in Fds : (desc[f] \in Log!Ours <=> desc'[f] \in Log!Ours)
  BY DEF Log!NotConnected, Log!Ours, LogInv, LogType
<1>3. LogType'
  BY <1>1, <1>2 DEF LogInv, LogType, SendPlaces
<1>4. \A g : Replaced(g)' <=> Replaced(g)
  BY <1>1 DEF LogInv, LogType, Replaced, OneLogger
<1>5. \A i \in DOMAIN loggers : loggers[i][2] \in Fds \cup {NoFd} /\ loggers[i][1] \in Groups
  BY DEF LogInv, LogType
<1>6. EntriesOpen' /\ EntriesApart' /\ Unique'
  BY <1>1, <1>2, <1>4, <1>5 DEF LogInv, EntriesOpen, EntriesApart, Unique
<1>7. SocketsHeld'
  BY <1>1, <1>2, <1>4 DEF LogInv, SocketsHeld, OneLogger
<1>8. KnowsTable(t)'
  BY <1>1 DEF LogInv, LogType, KnowsTable, InTable
<1> QED
  BY <1>3, <1>6, <1>7, <1>8 DEF LogInv, OneLogger

\* Nobody else has the new socket, and the group had no entry.
LEMMA InsertLog == ASSUME OneLogger, NEW t \in Loggers, LogInv, Log!Insert(t) PROVE LogInv'
<1> DEFINE e == <<group[t], lfd[t]>>
<1>1. /\ at[t] = "insert" /\ at' = [at EXCEPT ![t] = "send"] /\ loggers' = <<e>> \o loggers
      /\ UNCHANGED <<desc, logd, group, lfd, nomem>>
  BY DEF Log!Insert, Log!Goto
<1>2. /\ lfd[t] \in Fds /\ desc[lfd[t]] \in Log!Ours /\ lfd[t] # NoFd /\ group[t] \in Groups
      /\ \A i \in DOMAIN loggers : loggers[i][1] # group[t] /\ loggers[i][2] # lfd[t]
  BY <1>1 DEF LogInv, LogType, KnowsTable, InTable
<1>3. /\ loggers' \in Seq(Groups \X (Fds \cup {NoFd}))
      /\ DOMAIN loggers' = 1 .. (Len(loggers) + 1) /\ loggers'[1] = e
      /\ \A i \in DOMAIN loggers : loggers'[i + 1] = loggers[i]
      /\ \A i \in DOMAIN loggers' : i = 1 \/ (i - 1 \in DOMAIN loggers /\ loggers'[i] = loggers[i - 1])
      /\ DOMAIN loggers = 1 .. Len(loggers) /\ Len(loggers) \in Nat
  BY <1>1, <1>2 DEF LogInv, LogType
<1>4. LogType'
  BY <1>1, <1>3 DEF LogInv, LogType, SendPlaces
<1>5. \A g : ~Replaced(g) /\ ~Replaced(g)'
  BY <1>1 DEF LogInv, LogType, Replaced, OneLogger
<1>6. \A i, j \in DOMAIN loggers' : loggers'[i][1] = loggers'[j][1] => i = j
  BY <1>2, <1>3 DEF LogInv, Unique
<1>7. EntriesOpen'
  BY <1>1, <1>2, <1>3, <1>5 DEF LogInv, EntriesOpen
<1>8. EntriesApart'
  BY <1>1, <1>2, <1>3, <1>5 DEF LogInv, EntriesApart
<1>9. SocketsHeld'
  <2> SUFFICES ASSUME NEW f \in Fds, desc[f] \in Log!Ours
               PROVE  \E i \in DOMAIN loggers' : loggers'[i][2] = f
    BY <1>1, <1>5 DEF SocketsHeld
  <2>1. CASE f = lfd[t]
    BY <2>1, <1>3
  <2>2. CASE f # lfd[t]
    <3>1. PICK i \in DOMAIN loggers : loggers[i][2] = f
      BY <2>2, <1>1 DEF LogInv, SocketsHeld, OneLogger
    <3>2. i + 1 \in DOMAIN loggers'
      BY <1>3
    <3> QED
      BY <3>1, <3>2, <1>3
  <2> QED
    BY <2>1, <2>2
<1>10. KnowsTable(t)'
  <2>1. at'[t] = "send" /\ lfd'[t] = lfd[t] /\ group'[t] = group[t]
    BY <1>1 DEF LogInv, LogType
  <2>2. 1 \in DOMAIN loggers' /\ loggers'[1][1] = group[t] /\ loggers'[1][2] = lfd[t]
    BY <1>3
  <2> QED
    BY <1>2, <2>1, <2>2 DEF KnowsTable, HasEntry
<1> QED
  BY <1>4, <1>6, <1>7, <1>8, <1>9, <1>10 DEF LogInv, Unique, OneLogger

\* The descriptor that is closed is the one in the entry of the group, which is
\* replaced from now on.
LEMMA FailedLog == ASSUME OneLogger, NEW t \in Loggers, LogInv, Log!Failed(t) PROVE LogInv'
<1>1. /\ at[t] = "failed" /\ UNCHANGED <<loggers, logd, group, lfd, nomem>>
      /\ at' = [at EXCEPT ![t] = IF Log!Entry(group[t]) = 0 THEN "idle" ELSE "reconnect"]
      /\ desc' = IF lfd[t] = NoFd THEN desc ELSE [desc EXCEPT ![lfd[t]] = "free"]
  BY DEF Log!Failed, Log!Goto
<1>2. LogType'
  BY <1>1 DEF LogInv, LogType, SendPlaces
<1>3. /\ \A g : ~Replaced(g)
      /\ \A g : Replaced(g)' => g = group[t]
  BY <1>1 DEF LogInv, LogType, Replaced, OneLogger
<1>4. \A i \in DOMAIN loggers : loggers[i][2] \in Fds \cup {NoFd} /\ loggers[i][1] \in Groups
  BY DEF LogInv, LogType
<1>5. /\ ~InTable(group[t]) => Log!Entry(group[t]) = 0
      /\ \A i \in DOMAIN loggers : loggers[i][1] = group[t] => Log!Entry(group[t]) = i /\ i # 0
  BY EntryFinds DEF LogInv
<1>6. CASE Log!Entry(group[t]) = 0
  <2>1. ~InTable(group[t]) /\ lfd[t] = NoFd
    BY <1>1, <1>5, <1>6 DEF InTable, LogInv, KnowsTable, HasEntry
  <2>2. at' = [at EXCEPT ![t] = "idle"] /\ desc' = desc
    BY <1>1, <1>6, <2>1
  <2>3. \A g \in Groups : Replaced(g)' <=> Replaced(g)
    BY <1>1, <2>2 DEF LogInv, LogType, Replaced, OneLogger
  <2>4. KnowsTable(t)'
    BY <1>1, <2>2 DEF LogInv, LogType, KnowsTable
  <2> QED
    BY <1>1, <1>2, <2>2, <2>3, <2>4, LearnsLog
<1>7. CASE Log!Entry(group[t]) # 0
  <2>1. at'[t] = "reconnect" /\ InTable(group[t])
    BY <1>1, <1>5, <1>7 DEF LogInv, LogType
  <2>2. Replaced(group[t])'
    BY <1>1, <2>1 DEF Replaced
  <2>3. \A i \in DOMAIN loggers : loggers[i][1] # group[t] /\ loggers[i][2] # NoFd
          => loggers[i][2] # lfd[t] /\ desc'[loggers[i][2]] = desc[loggers[i][2]]
    <3> TAKE i \in DOMAIN loggers
    <3> HAVE loggers[i][1] # group[t] /\ loggers[i][2] # NoFd
    <3>1. loggers[i][2] # lfd[t]
      BY <1>1, <1>3 DEF LogInv, EntriesApart, KnowsTable, HasEntry
    <3> QED
      BY <1>1, <1>4, <3>1 DEF LogInv, LogType
  <2>4. EntriesOpen' /\ EntriesApart' /\ Unique'
    BY <1>1, <1>3, <2>2, <2>3 DEF LogInv, EntriesOpen, EntriesApart, Unique
  <2>5. SocketsHeld'
    <3> SUFFICES ASSUME NEW f \in Fds, desc'[f] \in Log!Ours
                 PROVE  \E i \in DOMAIN loggers : loggers[i][2] = f /\ loggers[i][1] # group[t]
      BY <1>1, <1>3 DEF SocketsHeld
    <3>1. f # lfd[t] /\ desc[f] \in Log!Ours
      BY <1>1, ClientAssumption DEF LogInv, LogType, Log!Ours
    <3>2. PICK i \in DOMAIN loggers : loggers[i][2] = f
      BY <1>1, <3>1 DEF LogInv, SocketsHeld, OneLogger
    <3>3. HasEntry(group[t], lfd[t])
      BY <1>1, <2>1 DEF LogInv, KnowsTable
    <3>4. loggers[i][1] # group[t]
      BY <1>1, <3>1, <3>2, <3>3 DEF LogInv, Unique, HasEntry
    <3> QED
      BY <3>2, <3>4
  <2>6. KnowsTable(t)'
    BY <1>1, <2>1 DEF KnowsTable, InTable
  <2> QED
    BY <1>2, <2>4, <2>5, <2>6 DEF LogInv, OneLogger
<1> QED
  BY <1>6, <1>7

\* The thread puts what it got into the entry of its group.
LEMMA AssignLog == ASSUME OneLogger, NEW t \in Loggers, LogInv, Log!Assign(t) PROVE LogInv'
<1>1. /\ at[t] = "assign" /\ at' = [at EXCEPT ![t] = "idle"]
      /\ loggers' = [loggers EXCEPT ![Log!Entry(group[t])][2] = lfd[t]]
      /\ UNCHANGED <<desc, logd, group, lfd, nomem>>
  BY DEF Log!Assign, Log!Goto
<1>2. PICK e \in DOMAIN loggers : loggers[e][1] = group[t]
  BY <1>1 DEF LogInv, KnowsTable, InTable
<1>3. Log!Entry(group[t]) = e
  BY <1>2, EntryFinds DEF LogInv
<1>4. /\ loggers' \in Seq(Groups \X (Fds \cup {NoFd})) /\ DOMAIN loggers' = DOMAIN loggers
      /\ loggers'[e][1] = group[t] /\ loggers'[e][2] = lfd[t]
      /\ \A i \in DOMAIN loggers : i # e => loggers'[i] = loggers[i]
  BY <1>1, <1>2, <1>3 DEF LogInv, LogType
<1>5. LogType'
  BY <1>1, <1>4 DEF LogInv, LogType, SendPlaces
<1>6. /\ \A g : ~Replaced(g)'
      /\ \A i \in DOMAIN loggers : i # e => ~Replaced(loggers[i][1])
  BY <1>1, <1>2 DEF LogInv, LogType, Unique, Replaced, OneLogger
<1>7. lfd[t] # NoFd => desc[lfd[t]] \in Log!Ours
  BY <1>1 DEF LogInv, KnowsTable
<1>8. \A i \in DOMAIN loggers : i # e /\ lfd[t] # NoFd => loggers[i][2] # lfd[t]
  BY <1>1, <1>2 DEF LogInv, KnowsTable, Unique
<1>9. Unique'
  BY <1>2, <1>4 DEF LogInv, Unique
<1>10. EntriesOpen'
  BY <1>1, <1>4, <1>6, <1>7 DEF LogInv, EntriesOpen
<1>11. EntriesApart'
  BY <1>4, <1>6, <1>8 DEF LogInv, EntriesApart
<1>12. SocketsHeld'
  <2> SUFFICES ASSUME NEW f \in Fds, desc[f] \in Log!Ours
               PROVE  \E i \in DOMAIN loggers : loggers'[i][2] = f
    BY <1>1, <1>4, <1>6 DEF SocketsHeld
  <2>1. CASE f = lfd[t]
    BY <2>1, <1>4
  <2>2. CASE f # lfd[t]
    <3>1. PICK i \in DOMAIN loggers : loggers[i][2] = f /\ ~Replaced(loggers[i][1])
      BY <2>2 DEF LogInv, SocketsHeld, OneLogger
    <3>2. i # e
      BY <1>1, <1>2, <3>1 DEF Replaced
    <3> QED
      BY <1>4, <3>1, <3>2
  <2> QED
    BY <2>1, <2>2
<1>13. KnowsTable(t)'
  BY <1>1 DEF LogInv, LogType, KnowsTable
<1> QED
  BY <1>5, <1>9, <1>10, <1>11, <1>12, <1>13 DEF LogInv, OneLogger

LEMMA LogStep == OneLogger => (LogInv /\ [Log!Next]_(Log!vars) => LogInv')
<1> SUFFICES ASSUME OneLogger, LogInv, [Log!Next]_(Log!vars) PROVE LogInv'
  OBVIOUS
<1>1. CASE UNCHANGED Log!vars
  BY <1>1 DEF Log!vars, Log!locals, LogInv, LogType, Unique, EntriesOpen, EntriesApart, SocketsHeld, KnowsTable,
              InTable, HasEntry, Replaced
<1>2. CASE Log!LogdStarts \/ Log!LogdStops \/ \E f \in Fds : Log!OtherThread(f)
  BY <1>2, KernelLog
<1>3. ASSUME NEW t \in Loggers, NEW g \in Groups, Log!Lookup(t, g) PROVE LogInv'
  BY <1>3, LookupLog
<1>4. ASSUME NEW t \in Loggers, Log!SendLog(t) PROVE LogInv'
  <2>1. CASE Log!NoMemory(t) \/ Log!Sent(t) \/ Log!NotSent(t) \/ Log!FailedNoMemory(t)
    BY <2>1, QuietLog
  <2>2. CASE Log!Connected(t)
    BY <2>2, ConnectedLog
  <2>3. CASE Log!NotConnected(t)
    BY <2>3, NotConnectedLog
  <2>4. CASE Log!Insert(t)
    BY <2>4, InsertLog
  <2>5. CASE Log!Failed(t)
    BY <2>5, FailedLog
  <2>6. CASE Log!Assign(t)
    BY <2>6, AssignLog
  <2> QED
    BY <1>4, <2>1, <2>2, <2>3, <2>4, <2>5, <2>6 DEF Log!SendLog
<1> QED
  BY <1>1, <1>2, <1>3, <1>4 DEF Log!Next

\* The invariant of the table of sockets is inductive with one thread that logs.
THEOREM LogInvariance == ASSUME OneLogger PROVE Log!Spec => []LogInv
<1>1. LogInv /\ [Log!Next]_(Log!vars) => LogInv'
  BY LogStep
<1> QED
  BY LogInit, <1>1, PTL DEF Log!Spec


\* Whichever program runs, the library does what Rclog says or nothing.
LEMMA MCLogs == MCSpec => Log!Spec
<1>1. MCInit => Log!Init
  BY DEF MCInit
<1>2. [MCNext]_MCvars => [Log!Next]_(Log!vars)
  BY DEF MCNext, MCvars, logVars, Powered, Log!vars, Log!locals
<1> QED
  BY <1>1, <1>2, PTL DEF MCSpec, Log!Spec

LEMMA LogInvLost == LogInv => Log!NoSocketLost
<1> SUFFICES ASSUME LogInv PROVE Log!NoSocketLost
  OBVIOUS
<1>1. \A i \in DOMAIN loggers : Log!Entry(loggers[i][1]) = i
  BY EntryFinds DEF LogInv
<1>2. \A f \in Fds : desc[f] \in Log!Ours =>
        \/ \E i \in DOMAIN loggers : loggers[i][2] = f /\ Log!Entry(loggers[i][1]) = i
        \/ \E t \in Loggers : at[t] \in {"insert", "assign"} /\ lfd[t] = f
  BY <1>1 DEF LogInv, SocketsHeld
<1> QED
  BY <1>2 DEF LogInv, Unique, Log!NoSocketLost

\* Whatever fails while a socket is replaced, however often logd comes and goes,
\* no socket is lost and no group gets two entries.
THEOREM SocketsKept == ASSUME OneLogger PROVE MCSpec => []NoSocketLost
<1>1. LogInv => NoSocketLost
  BY LogInvLost DEF NoSocketLost
<1> QED
  BY <1>1, MCLogs, LogInvariance, PTL

LEMMA SendsToOurs ==
  ASSUME OneLogger, LogInv, NEW t \in Loggers, Log!SendLog(t)
  PROVE  /\ at[t] = "send" => desc[lfd[t]] # "other"
         /\ \A f \in Fds : desc[f] = "other" => desc'[f] = "other"
<1>1. ASSUME at[t] \in {"send", "failed"}, lfd[t] # NoFd PROVE desc[lfd[t]] \in Log!Ours
  <2>1. HasEntry(group[t], lfd[t])
    BY <1>1 DEF LogInv, KnowsTable
  <2>2. \A g : ~Replaced(g)
    BY <1>1 DEF Replaced, OneLogger
  <2> QED
    BY <1>1, <2>1, <2>2 DEF LogInv, EntriesOpen, HasEntry
<1>2. at[t] = "send" => lfd[t] # NoFd
  BY DEF LogInv, KnowsTable
<1>3. ASSUME NEW f \in Fds, desc[f] = "other" PROVE desc'[f] = "other"
  <2>1. CASE Log!Failed(t)
    BY <1>1, <1>3, <2>1 DEF Log!Failed, Log!Ours, LogInv, LogType
  <2>2. CASE ~Log!Failed(t)
    BY <1>3, <2>2 DEF Log!SendLog, Log!NoMemory, Log!Connected, Log!NotConnected, Log!Insert, Log!Sent, Log!NotSent,
                      Log!FailedNoMemory, Log!Assign, LogInv, LogType
  <2> QED
    BY <2>1, <2>2
<1> QED
  BY <1>1, <1>2, <1>3 DEF Log!Ours

\* send_log() never writes to and never closes a descriptor of another thread,
\* although a closed one stays in the table until it is replaced.
THEOREM OthersStayAlone == ASSUME OneLogger PROVE MCSpec => OthersLeftAlone
<1>1. LogInv /\ [Log!Next]_(Log!vars) =>
        [\A t \in Loggers : Log!SendLog(t) =>
           /\ at[t] = "send" => desc[lfd[t]] # "other"
           /\ \A f \in Fds : desc[f] = "other" => desc'[f] = "other"]_(Log!vars)
  BY SendsToOurs
<1> QED
  BY <1>1, MCLogs, LogInvariance, PTL DEF Log!Spec, OthersLeftAlone, Log!OthersLeftAlone
=============================================================================

------------------------------ MODULE MCClient ------------------------------
(***************************************************************************)
(* The programs that keep a connection open: a behaviour is one of         *)
(* src/client, of the low power client, or of one that logs.  For the      *)
(* first, failed says whether a local call has failed: each of the Faults  *)
(* ends in a return that neither sets the timer nor leaves a watched       *)
(* descriptor behind, so it may stop for ever.                             *)
(***************************************************************************)
EXTENDS Client

CONSTANTS Addrs, Threads, Loggers, Groups, LogFaults

ASSUME LogAssumption == LogFaults \subseteq {"socket", "dir", "bind", "full", "memory"}

VARIABLES
  program, failed,
  pc, addr, ready, sockLock, timerLock, mainBare, bare, autosleep, asleep, alarm,
  thread, overlap, pending, gone,
  loggers, desc, logd, at, group, lfd, nomem

Power == INSTANCE LowPower
Log == INSTANCE Rclog WITH Threads <- Loggers, Faults <- LogFaults, pc <- at, fd <- lfd

powerVars == <<pc, addr, ready, sockLock, timerLock, mainBare, bare, autosleep,
               asleep, alarm, thread, overlap, pending, gone>>
logVars == <<loggers, desc, logd, at, group, lfd, nomem>>
MCvars == <<vars, powerVars, logVars, program, failed>>

\* Steps in which a local call fails: one of try_connect_server(), or one of
\* connected_server() for a connection that is up.
LocalFailure ==
  \/ timer = "enqueued" /\ timer' = "inactive" /\ \A f \in Fds : watch'[f] = "none"
  \/ /\ event # <<>> /\ event' = <<>>
     /\ callback = "connecting_server" /\ "OUT" \in event[2] /\ sock[fd] \in {"up", "eof"}
     /\ dpctx' = NoFd

Only(p) == program = p /\ UNCHANGED program
Powered(A) == Only("power") /\ A /\ UNCHANGED <<vars, logVars, failed>>

MCInit ==
  /\ Init /\ Power!Init /\ Log!Init
  /\ failed = FALSE /\ program \in {"client", "power", "logger"}
  /\ program # "logger" => logd /\ group = [t \in Loggers |-> CHOOSE g \in Groups : TRUE]

MCNext ==
  \/ /\ Only("client") /\ Next
     /\ failed' = (failed \/ LocalFailure)
     /\ UNCHANGED <<powerVars, logVars>>
  \/ Powered(Power!Next)
  \/ Only("logger") /\ Log!Next /\ UNCHANGED <<vars, powerVars, failed>>

\* LowPower says why its fairness is strong.  While no program logs no step of
\* send_log() is enabled.
MCFairness ==
  /\ program = "client" => Fairness
  /\ WF_MCvars(Powered(Power!Expire)) /\ SF_MCvars(Powered(Power!Main))
  /\ \A t \in Threads : SF_MCvars(Powered(Power!Thread(t)))
  /\ Log!Fairness

MCSpec == MCInit /\ [][MCNext]_MCvars /\ MCFairness

(***************************************************************************)
(* KeepsTrying, as long as no local call fails.                            *)
(***************************************************************************)
KeepsTryingUnlessFailed == [](program = "client" /\ ~failed) => KeepsTrying

AwakeAtWork == Power!AwakeAtWork
Responsive == Power!Responsive
NoSocketLost == Log!NoSocketLost
OthersLeftAlone == Log!OthersLeftAlone
GetsThrough == Log!GetsThrough
=============================================================================

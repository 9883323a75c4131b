------------------------------ MODULE LowPower ------------------------------
(***************************************************************************)
(* src/hardware/low_power_consume_app.c: a client that lets the module     *)
(* suspend while it waits for its server.  Three actors share two wake     *)
(* locks: main() with its poll(), the thread the timer starts at each      *)
(* expiry, and the kernel, which suspends the system whenever no lock is   *)
(* held.  Nothing of the program runs while it is suspended.               *)
(*                                                                         *)
(* wakeup() and power_save() (lines 36-46) print that a lock or an unlock  *)
(* failed and return: the caller goes on as if nothing had happened.  That *)
(* a lock could not be created (lines 299-300) makes each of them fail.    *)
(***************************************************************************)
EXTENDS Integers

CONSTANTS
  Addrs,    \* addresses getaddrinfo() gives
  Threads   \* bound: timer threads alive at a time

VARIABLES
  pc,         \* where main() is
  addr,       \* addresses not tried yet
  ready,      \* poll() has reported the socket
  sockLock, timerLock,   \* the wake locks; an unlock ends all locks before it
  mainBare,   \* main() is at work although its wakeup() failed
  bare,       \* so are these threads
  autosleep,  \* Ql_Autosleep_Enable(1) has been called
  asleep,     \* the system is suspended
  alarm,      \* timerid runs
  thread,     \* where each timer thread is
  overlap,    \* two threads have been between lock and unlock at a time
  pending,    \* the server has sent something
  gone        \* the connection is closed or broken

vars == <<pc, addr, ready, sockLock, timerLock, mainBare, bare, autosleep, asleep,
          alarm, thread, overlap, pending, gone>>
netVars == <<pending, gone>>
sockVars == <<sockLock, mainBare>>
threadVars == <<alarm, thread, timerLock, overlap, bare>>

Init ==
  /\ pc = "connect" /\ addr = Addrs /\ ready = FALSE
  /\ sockLock = FALSE /\ timerLock = FALSE /\ mainBare = FALSE /\ bare = {}
  /\ autosleep = FALSE /\ asleep = FALSE
  /\ alarm = FALSE /\ thread = [t \in Threads |-> "none"] /\ overlap = FALSE
  /\ pending = FALSE /\ gone = FALSE

\* exit(): the threads and the timer go with the process, the locks stay.
Exit ==
  /\ pc' = "exit"
  /\ alarm' = FALSE /\ thread' = [t \in Threads |-> "none"] /\ bare' = {}
  /\ UNCHANGED <<timerLock, overlap>>

\* wakeup(wakelock_sock)
WakeMain == \/ sockLock' = TRUE /\ mainBare' = FALSE
            \/ UNCHANGED sockLock /\ mainBare' = TRUE

-----------------------------------------------------------------------------
(* main(): tcp_client() *)

\* connect() on the next address: at once, in progress, or an error (then the
\* socket is closed); or socket() fails.
Connect ==
  /\ pc = "connect"
  /\ IF addr = 0
     THEN Exit /\ UNCHANGED addr
     ELSE /\ addr' = addr - 1
          /\ pc' \in {"lock", "pending", "connect"}
          /\ UNCHANGED threadVars
  /\ UNCHANGED <<ready, sockVars, autosleep, asleep, netVars>>

\* Lines 203-226, and connect() again when five seconds are over (its EALREADY
\* is an error).
Connecting ==
  /\ pc = "pending"
  /\ pc' \in {"lock", "connect"}
  /\ UNCHANGED <<addr, ready, sockVars, autosleep, asleep, threadVars, netVars>>

-----------------------------------------------------------------------------
(* main() with a connection *)

\* Line 305; tcp_client() has freed the addresses (line 287).
Lock ==
  /\ pc = "lock"
  /\ WakeMain
  /\ addr' = 0
  /\ pc' = "autosleep"
  /\ UNCHANGED <<ready, autosleep, asleep, threadVars, netVars>>

\* Line 306.
Autosleep ==
  /\ pc = "autosleep"
  /\ autosleep' = TRUE
  /\ pc' = "hello"
  /\ UNCHANGED <<addr, ready, sockVars, asleep, threadVars, netVars>>

\* Lines 118-124: as long as it fails main() calls client_rev_process() again.
Hello ==
  /\ pc = "hello"
  /\ pc' \in (IF gone THEN {"hello"} ELSE {"hello", "timer"})
  /\ UNCHANGED <<addr, ready, sockVars, autosleep, asleep, threadVars, netVars>>

\* Lines 127-141: timer_create(), the first expiry in 20 seconds; or exit(-1).
StartTimer ==
  /\ pc = "timer"
  /\ \/ Exit
     \/ /\ pc' = "save" /\ alarm' = TRUE
        /\ UNCHANGED <<thread, timerLock, overlap, bare>>
  /\ UNCHANGED <<addr, ready, sockVars, autosleep, asleep, netVars>>

\* Line 148; when the unlock fails the lock stays.
PowerSave ==
  /\ pc = "save"
  /\ sockLock' \in {FALSE, sockLock} /\ mainBare' = FALSE
  /\ pc' = "poll"
  /\ UNCHANGED <<addr, ready, autosleep, asleep, threadVars, netVars>>

\* poll() returns: something to read, ten seconds are over, or a signal.
Poll ==
  /\ pc = "poll"
  /\ ready' = (pending \/ gone)
  /\ pc' = "woken"
  /\ UNCHANGED <<addr, sockVars, autosleep, asleep, threadVars, netVars>>

\* Mutant: what poll() reported is read without the lock.
WokenNoLock ==
  /\ pc = "woken"
  /\ pc' = IF ready THEN "recv" ELSE "save"
  /\ UNCHANGED <<addr, ready, sockVars, autosleep, asleep, threadVars, netVars>>

\* Lines 150-155.
Woken ==
  /\ pc = "woken"
  /\ WakeMain
  /\ pc' = IF ready THEN "recv" ELSE "save"
  /\ UNCHANGED <<addr, ready, autosleep, asleep, threadVars, netVars>>

\* Lines 157-184: data first, then the end of the connection.
Recv ==
  /\ pc = "recv"
  /\ IF pending
     THEN pending' \in BOOLEAN /\ pc' = "save" /\ UNCHANGED threadVars
     ELSE Exit /\ UNCHANGED pending
  /\ UNCHANGED <<addr, ready, sockVars, autosleep, asleep, gone>>

MainStep ==
  \/ Connect \/ Connecting \/ Lock \/ Autosleep \/ Hello \/ StartTimer
  \/ PowerSave \/ Poll \/ Woken \/ Recv

-----------------------------------------------------------------------------
(* timer_thread() *)

Working == {t \in Threads : thread[t] \in {"locked", "sent", "set"}}

Go(t, from, to) ==
  /\ thread[t] = from
  /\ thread' = [thread EXCEPT ![t] = to]

\* Line 75.
ThreadLock(t) ==
  /\ Go(t, "start", "locked")
  /\ \/ timerLock' = TRUE /\ UNCHANGED bare
     \/ UNCHANGED timerLock /\ bare' = bare \cup {t}
  /\ overlap' = (overlap \/ Working # {})
  /\ UNCHANGED <<pc, alarm>>

\* Line 78; an error is only printed.
ThreadSend(t) ==
  /\ Go(t, "locked", "sent")
  /\ UNCHANGED <<pc, alarm, timerLock, overlap, bare>>

\* Line 87: nine minutes from now, or exit(-1) (line 104).
ThreadSet(t) ==
  \/ Go(t, "sent", "set") /\ UNCHANGED <<pc, alarm, timerLock, overlap, bare>>
  \/ thread[t] = "sent" /\ Exit

\* Line 89; when the unlock fails the lock stays.
ThreadUnlock(t) ==
  /\ Go(t, "set", "none")
  /\ timerLock' \in {FALSE, timerLock} /\ bare' = bare \ {t}
  /\ UNCHANGED <<pc, alarm, overlap>>

ThreadStep(t) ==
  /\ ThreadLock(t) \/ ThreadSend(t) \/ ThreadSet(t) \/ ThreadUnlock(t)
  /\ UNCHANGED <<addr, ready, sockVars, autosleep, asleep, netVars>>

-----------------------------------------------------------------------------
(* the kernel, the server, the user *)

\* A thread for the expiry; beyond the bound none is started.
NewThread ==
  \/ \E t \in Threads : Go(t, "none", "start")
  \/ (\A t \in Threads : thread[t] # "none") /\ UNCHANGED thread

\* Mutant: a clock that stops while the system is suspended.
ExpireAwake ==
  /\ alarm /\ ~asleep
  /\ NewThread
  /\ UNCHANGED <<pc, addr, ready, sockVars, timerLock, autosleep, asleep, alarm,
                 overlap, bare, netVars>>

\* CLOCK_BOOTTIME_ALARM: the expiry ends the suspension.
Expire ==
  /\ alarm
  /\ NewThread
  /\ asleep' = FALSE
  /\ UNCHANGED <<pc, addr, ready, sockVars, timerLock, autosleep, alarm, overlap,
                 bare, netVars>>

Suspend ==
  /\ autosleep /\ ~asleep /\ ~sockLock /\ ~timerLock
  /\ asleep' = TRUE
  /\ UNCHANGED <<pc, addr, ready, sockVars, autosleep, threadVars, netVars>>

\* The server sends or closes; the modem may wake the system for it.
Network ==
  /\ pc \notin {"connect", "pending", "exit"} /\ ~gone
  /\ \/ pending' = TRUE /\ UNCHANGED gone
     \/ gone' = TRUE /\ pending' \in {pending, FALSE}
  /\ asleep' \in {asleep, FALSE}
  /\ UNCHANGED <<pc, addr, ready, sockVars, autosleep, threadVars>>

\* SIGINT takes the lock of the socket, or fails to; SIGTERM leaves it as it is.
Signal ==
  /\ pc # "exit" /\ ~asleep
  /\ Exit
  /\ sockLock' \in {sockLock, TRUE}
  /\ UNCHANGED <<mainBare, addr, ready, autosleep, asleep, netVars>>

Main == ~asleep /\ MainStep
Thread(t) == ~asleep /\ ThreadStep(t)

Next == \/ Main \/ (\E t \in Threads : Thread(t))
        \/ Expire \/ Suspend \/ Network \/ Signal

(***************************************************************************)
(* Time goes on, and who can run whenever the system is awake runs at some *)
(* time.  The system may suspend again before that, so it takes strong     *)
(* fairness; that it suspends or is woken by the network is never assumed. *)
(***************************************************************************)
Fairness == /\ WF_vars(Expire) /\ SF_vars(Main)
            /\ \A t \in Threads : SF_vars(Thread(t))

Spec == Init /\ [][Next]_vars /\ Fairness

-----------------------------------------------------------------------------
(* properties *)

(***************************************************************************)
(* From line 306 on the system is only suspended while main() is in poll() *)
(* or has not got from there to wakeup(), and no timer thread is between   *)
(* its lock and its unlock (lines 75-89); except under one that goes on    *)
(* although its own wakeup() failed.  The lock of the threads does not     *)
(* count: the unlock of one ends the lock of the other, so this part only  *)
(* holds as long as no two of them have been at work at a time.            *)
(***************************************************************************)
AwakeAtWork == asleep =>
  /\ mainBare \/ pc \in {"poll", "woken", "exit"}
  /\ overlap \/ Working \subseteq bare

(***************************************************************************)
(* Once the timer runs, a keepalive is sent again and again, and whatever  *)
(* the server sends is read, however often and wherever the system         *)
(* suspends in between, until the program exits.                           *)
(***************************************************************************)
Responsive ==
  /\ alarm ~> ((\E t \in Threads : thread[t] = "sent") \/ pc = "exit")
  /\ (alarm /\ pending) ~> (pc \in {"recv", "exit"})
=============================================================================

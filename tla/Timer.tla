------------------------------- MODULE Timer -------------------------------
(***************************************************************************)
(* The timers of src/timer.c and include/timer.h under the event loop of   *)
(* src/client/main.c (src/server/main.c is the same): epoll_wait() sleeps  *)
(* at most the delay process_timer() returned, callbacks of the events it  *)
(* reports run, process_timer() runs the timers that are due.              *)
(*                                                                         *)
(*   setup  main() before the loop: the init functions add timers          *)
(*   first  in the first epoll_wait(), with the delay main() starts with   *)
(*   sleep  in epoll_wait() with a delay from process_timer()              *)
(*   batch  the loop over the reported events (lines 64-71)                *)
(*   check  the top of process_timer()'s loop                              *)
(*   fn     in the callback of timer pos                                   *)
(*                                                                         *)
(* get_current_time() is the wall clock in ms; here it only moves forward. *)
(***************************************************************************)
EXTENDS TimerQueue

CONSTANTS
  MaxTime,      \* bound on the times timers are set to, but for "now"
  Timeouts,     \* timeouts the callers use
  FirstDelay,   \* main(): delay = 100
  IdleDelay,    \* process_timer(): 1000 when it had nothing to look at
  Forever       \* epoll_wait() with a negative timeout

ASSUME TimeAssumption ==
  /\ MaxTime \in Nat /\ FirstDelay \in Nat /\ IdleDelay \in Nat
  /\ Timeouts \subseteq Nat
  /\ Forever \notin Int

VARIABLES
  state,    \* timer->state; "free": not allocated
  now,      \* the clock
  pc,
  pos, curr,  \* locals of process_timer()
  wakeAt    \* when epoll_wait() times out

vars == <<queue, next, expires, state, now, pc, pos, curr, wakeAt>>
loopVars == <<now, pc, pos, curr, wakeAt>>

Init ==
  /\ QInit(0)
  /\ state = [t \in Timers |-> "free"]
  /\ now = 0 /\ curr = 0
  /\ pc = "setup"
  /\ pos = NoTimer
  /\ wakeAt = Forever

-----------------------------------------------------------------------------
(* timer.h, called from init functions and callbacks *)

CallerRuns == pc \in {"setup", "batch", "fn"}

\* Mutant: the node is linked without being taken out first.
EnqueueTwice(t, d) ==
  /\ AddTo(queue, next, t, now + d)
  /\ state' = [state EXCEPT ![t] = "enqueued"]

\* start_timer() lines 55-60, update_timer() lines 65-69: an enqueued timer is
\* taken out before its expiry changes.
Enqueue(t, d) ==
  /\ IF state[t] = "enqueued"
     THEN AddTo(Without(queue, t), NextWithout(queue, next, t), t, now + d)
     ELSE AddTo(queue, next, t, now + d)
  /\ state' = [state EXCEPT ![t] = "enqueued"]

\* stop_timer() lines 48-50, with the state the caller leaves behind
Dequeue(t, s) ==
  /\ IF state[t] = "enqueued" THEN Del(t) ELSE UNCHANGED queueVars
  /\ state' = [state EXCEPT ![t] = s]

\* Bound: a time that lies ahead is at most MaxTime.  A timeout of 0 is always
\* possible, so that a callback can set its timer again for ever.
Within(d) == d = 0 \/ now + d <= MaxTime

AddTimer(t, d) ==
  /\ CallerRuns
  /\ state[t] = "free"
  /\ Within(d)
  /\ Enqueue(t, d)
  /\ UNCHANGED loopVars

UpdateTimer(t, d) ==
  /\ CallerRuns
  /\ state[t] # "free"
  /\ Within(d)
  /\ Enqueue(t, d)
  /\ UNCHANGED loopVars

StopTimer(t) ==
  /\ CallerRuns
  /\ state[t] # "free"
  /\ Dequeue(t, "inactive")
  /\ UNCHANGED loopVars

\* del_timer(): not from the timer's own callback, process_timer() still
\* looks at it (line 52)
DelTimer(t) ==
  /\ CallerRuns
  /\ state[t] # "free"
  /\ ~(pc = "fn" /\ t = pos)
  /\ Dequeue(t, "free")
  /\ UNCHANGED loopVars

-----------------------------------------------------------------------------
(* main() and process_timer() *)

EnterLoop ==
  /\ pc = "setup"
  /\ pc' = "first"
  /\ wakeAt' = now + FirstDelay
  /\ UNCHANGED <<queueVars, state, now, pos, curr>>

TimedOut ==
  /\ pc \in {"first", "sleep"}
  /\ wakeAt # Forever /\ now >= wakeAt
  /\ pc' = "check"
  /\ UNCHANGED <<queueVars, state, now, pos, curr, wakeAt>>

Event ==
  /\ pc \in {"first", "sleep"}
  /\ pc' = "batch"
  /\ UNCHANGED <<queueVars, state, now, pos, curr, wakeAt>>

EndBatch ==
  /\ pc = "batch"
  /\ pc' = "check"
  /\ UNCHANGED <<queueVars, state, now, pos, curr, wakeAt>>

\* process_timer() returns ms; a negative epoll timeout has no end.
SleepFor(ms) ==
  /\ pc' = "sleep"
  /\ wakeAt' = IF ms < 0 THEN Forever ELSE now + ms
  /\ pos' = NoTimer
  /\ UNCHANGED <<queueVars, state, now, curr>>

\* Lines 46-49: the timer is due; it is out of the queue before its callback.
Fire ==
  /\ pc = "check"
  /\ next # NoTimer
  /\ expires[next] <= now
  /\ pos' = next /\ curr' = now
  /\ Dequeue(next, "inactive")
  /\ pc' = "fn"
  /\ UNCHANGED <<now, wakeAt>>

EndFn ==
  /\ pc = "fn"
  /\ pc' = "check"
  /\ UNCHANGED <<queueVars, state, now, pos, curr, wakeAt>>

\* Mutant: the delay is that of the timer that fired last.
NotDueStale ==
  /\ pc = "check"
  /\ next # NoTimer
  /\ expires[next] > now
  /\ SleepFor(IF pos # NoTimer THEN expires[pos] - now ELSE expires[next] - now)

\* Lines 43-44 and 52: nothing (more) is due, sleep until the first is.
NotDue ==
  /\ pc = "check"
  /\ next # NoTimer
  /\ expires[next] > now
  /\ SleepFor(expires[next] - now)

\* Line 52 with an empty queue: pos and curr_time are those of the timer that
\* fired last, if one did.
Empty ==
  /\ pc = "check"
  /\ next = NoTimer
  /\ SleepFor(IF pos = NoTimer THEN IdleDelay ELSE expires[pos] - curr)

\* Bound: the clock runs on until the last sleep is over, and stands still then.
LastTick == IF pc = "setup" THEN MaxTime ELSE MaxTime + FirstDelay + IdleDelay

Tick ==
  /\ now < LastTick
  /\ now' = now + 1
  /\ UNCHANGED <<queueVars, state, pc, pos, curr, wakeAt>>

Loop == EnterLoop \/ TimedOut \/ EndBatch \/ Fire \/ EndFn \/ NotDue \/ Empty

Next ==
  \/ \E t \in Timers, d \in Timeouts : AddTimer(t, d) \/ UpdateTimer(t, d)
  \/ \E t \in Timers : StopTimer(t) \/ DelTimer(t)
  \/ Loop
  \/ Event
  \/ Tick

Spec == Init /\ [][Next]_vars

\* The loop is one thread that is never blocked outside epoll_wait(): every
\* callback returns; time passes.  Events need not come.
FairSpec == Spec /\ WF_vars(Loop) /\ WF_vars(Tick)

-----------------------------------------------------------------------------
(* properties *)

TypeOK ==
  /\ queue \in Seq(Timers)
  /\ next \in Timers \cup {NoTimer}
  /\ expires \in [Timers -> Nat]
  /\ state \in [Timers -> {"free", "inactive", "enqueued"}]
  /\ now \in Nat /\ curr \in Nat
  /\ pc \in {"setup", "first", "sleep", "batch", "check", "fn"}
  /\ pos \in Timers \cup {NoTimer}
  /\ wakeAt \in Nat \cup {Forever}

(***************************************************************************)
(* timer->state says exactly which timers are in the queue, each is there  *)
(* once, in order, and head->next is the earliest: whatever sequence of    *)
(* start, update, stop and del the callbacks make, also from the callback  *)
(* of the timer itself.                                                    *)
(***************************************************************************)
QueueConsistent ==
  /\ QueueOrdered
  /\ \A t \in Timers : state[t] = "enqueued" <=> t \in Range(queue)

(***************************************************************************)
(* The loop never sleeps past the first expiry, and for ever only when no  *)
(* timer is set: process_timer() computes the delay from the next timer    *)
(* although pos may be one that has fired (line 52).  Only the first sleep *)
(* is as long as main() says.                                              *)
(***************************************************************************)
NoOversleep ==
  pc = "sleep" =>
    \A t \in Timers : state[t] = "enqueued" =>
      wakeAt # Forever /\ wakeAt <= expires[t]

(***************************************************************************)
(* A callback runs only for a timer that is set, is due, and none that is  *)
(* set expires earlier; in particular never for one stopped, freed or      *)
(* moved to a later time by another callback of the same round.            *)
(***************************************************************************)
FiresInOrder ==
  [][pc = "check" /\ pc' = "fn" =>
       /\ state[pos'] = "enqueued" /\ state'[pos'] # "enqueued"
       /\ expires[pos'] <= now
       /\ \A t \in Timers : state[t] = "enqueued" => expires[pos'] <= expires[t]]_vars

(***************************************************************************)
(* A timer that is set fires or is stopped, unless it is moved again and   *)
(* again; no event has to come for that, and no other timer that is set    *)
(* anew with timeout 0 by its own callback for ever can hold it back, not  *)
(* even when it expires in the same millisecond each time.                 *)
(***************************************************************************)
EveryTimerServed ==
  \A t \in Timers :
    \/ []<>(state[t] # "enqueued")
    \/ []<><<\E d \in Timeouts : UpdateTimer(t, d)>>_vars
=============================================================================

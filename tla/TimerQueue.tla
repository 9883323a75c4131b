----------------------------- MODULE TimerQueue -----------------------------
(***************************************************************************)
(* The timer queue of src/timerqueue.c as its users see it: the timers in  *)
(* the order of their expiry, equal ones in the order of their insertion,  *)
(* and the cached pointer head->next that timerqueue_getnext() returns.    *)
(* Module RbTree is the same queue as the red-black tree it really is.     *)
(***************************************************************************)
EXTENDS Integers, SequencesExt

CONSTANTS Timers, NoTimer

ASSUME TimersAssumption == NoTimer \notin Timers

VARIABLES
  queue,    \* head->head, in order
  next,     \* head->next
  expires   \* node->expires of every timer

queueVars == <<queue, next, expires>>

QInit(e) == queue = <<>> /\ next = NoTimer /\ expires \in [Timers -> {e}]

-----------------------------------------------------------------------------
(* the two operations, on a queue q with cached pointer nx *)

Position(q, t) == CHOOSE i \in DOMAIN q : q[i] = t

\* Where timerqueue_add() links the node: behind all that do not expire later.
Place(q, e) ==
  CHOOSE k \in 1..(Len(q) + 1) : /\ \A i \in 1..(k - 1) : expires[q[i]] <= e
                                 /\ \A i \in k..Len(q) : expires[q[i]] > e

Without(q, t) == RemoveAt(q, Position(q, t))

\* Mutant: the cached pointer is left alone.
NextKept(q, nx, t) == nx

\* Lines 72-77: the cached pointer moves on to rb_next() of the node.
NextWithout(q, nx, t) ==
  IF nx # t THEN nx
  ELSE IF Position(q, t) = Len(q) THEN NoTimer ELSE q[Position(q, t) + 1]

\* Mutant: a node that expires with the first one takes its place.
NextEqual(nx, t, e) == IF nx = NoTimer \/ e <= expires[nx] THEN t ELSE nx

\* Lines 56-57.
NextWith(nx, t, e) == IF nx = NoTimer \/ e < expires[nx] THEN t ELSE nx

\* timerqueue_add(head, t) with t->expires = e, on the queue q.
AddTo(q, nx, t, e) ==
  /\ queue' = InsertAt(q, Place(q, e), t)
  /\ next' = NextWith(nx, t, e)
  /\ expires' = [expires EXCEPT ![t] = e]

\* timerqueue_del(head, t)
Del(t) ==
  /\ queue' = Without(queue, t)
  /\ next' = NextWithout(queue, next, t)
  /\ UNCHANGED expires

-----------------------------------------------------------------------------
(* the queue as a specification of its own, for module RbTree *)

CONSTANT Expiries   \* values of expires.tv64

\* The owner sets node->expires before it adds the node (timer.h, line 58).
SetExpires(t, e) ==
  /\ t \notin Range(queue)
  /\ expires' = [expires EXCEPT ![t] = e]
  /\ UNCHANGED <<queue, next>>

QNext ==
  \/ \E t \in Timers, e \in Expiries : SetExpires(t, e)
  \/ \E t \in Timers : t \notin Range(queue) /\ AddTo(queue, next, t, expires[t])
  \/ \E t \in Range(queue) : Del(t)

QSpec == QInit(0) /\ [][QNext]_queueVars

-----------------------------------------------------------------------------
(***************************************************************************)
(* head->next is the timer that expires first (timerqueue.h, line 31), and *)
(* the queue holds no timer twice and is in order of expiry.               *)
(***************************************************************************)
QueueOrdered ==
  /\ \A i, j \in DOMAIN queue : i < j => /\ queue[i] # queue[j]
                                         /\ expires[queue[i]] <= expires[queue[j]]
  /\ next = IF queue = <<>> THEN NoTimer ELSE queue[1]
=============================================================================

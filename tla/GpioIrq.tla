------------------------------ MODULE GpioIrq ------------------------------
(***************************************************************************)
(* The GPIO interrupts of src/hw/example_gpio.c: one thread requests and   *)
(* frees them, step by step as it changes /sys, the epoll set, the list    *)
(* and the heap; another waits for events and runs the callbacks.  A       *)
(* context and the epoll_context that belongs to it are one thing here.    *)
(***************************************************************************)
EXTENDS Integers, Sequences, FiniteSets, SequencesExt

CONSTANTS
  Gpios,
  Irqs,     \* addresses of contexts; one that is freed may be given out again
  Fds,
  None,     \* no context, no file
  Faults    \* "edge", "value", "read", "memory", "epoll": calls that may fail

VARIABLES
  armed,    \* gpios whose edge file is not "none"
  open,     \* what every descriptor is open for
  watched,  \* the epoll set: the context of every descriptor, d.data.ptr
  irq,      \* every context: its gpio and descriptor
  list,     \* gpio_irq_head
  at, gpio, new, gone,  \* the requesting thread: its step, and its locals
  ready,    \* descriptors with EPOLLPRI
  batch,    \* contexts of the events the interrupt thread has fetched
  stage,    \* where it is with the first of them: "loop", and in gpio_epoll_cb()
            \* "read", "failed" and "called", while the callback runs
  lost      \* an event met a context that is freed: anything may happen

locals == <<at, gpio, new, gone>>
vars == <<armed, open, watched, irq, list, locals, ready, batch, stage, lost>>

Init ==
  /\ armed = {} /\ open = [f \in Fds |-> None] /\ watched = [f \in Fds |-> None]
  /\ irq = [c \in Irqs |-> None] /\ list = <<>>
  /\ at = "idle" /\ gpio = None /\ new = None /\ gone = None
  /\ ready = {} /\ batch = <<>> /\ stage = "loop" /\ lost = FALSE

Return == at' = "idle" /\ gpio' = None /\ new' = None /\ gone' = None

-----------------------------------------------------------------------------
(* request_gpio_irq() *)

\* The edge is written; a gpio that is not exported returns before that.
Request(g) ==
  /\ at = "idle"
  /\ armed' = armed \cup {g}
  /\ at' = "open" /\ gpio' = g
  /\ UNCHANGED <<new, gone, open, watched, irq, list, ready, batch, stage, lost>>

OpenValue ==
  /\ at = "open"
  /\ \/ \E f \in Fds :
          /\ open[f] = None
          /\ open' = [open EXCEPT ![f] = gpio]
          /\ at' = "alloc" /\ new' = f /\ UNCHANGED <<gpio, gone>>
     \/ "value" \in Faults /\ Return /\ UNCHANGED open
  /\ UNCHANGED <<armed, watched, irq, list, ready, batch, stage, lost>>

Closed(f) ==
  /\ open' = [open EXCEPT ![f] = None]
  /\ watched' = [watched EXCEPT ![f] = None]
  /\ ready' = ready \ {f}

\* Mutant: the descriptor is left open when a call fails.
AddNoClose ==
  /\ at = "alloc"
  /\ \/ \E c \in Irqs :
          /\ irq[c] = None
          /\ irq' = [irq EXCEPT ![c] = [gpio |-> gpio, fd |-> new]]
          /\ watched' = [watched EXCEPT ![new] = c]
          /\ at' = "list" /\ gone' = c /\ UNCHANGED <<gpio, new>>
          /\ ready' = ready \ {new} /\ UNCHANGED open
     \/ /\ Faults \cap {"read", "memory", "epoll"} # {}
        /\ Return /\ UNCHANGED <<irq, open, watched, ready>>
  /\ UNCHANGED <<armed, list, batch, stage, lost>>

\* The first read takes the value; then malloc() and EPOLL_CTL_ADD.
Add ==
  /\ at = "alloc"
  /\ \/ \E c \in Irqs :
          /\ irq[c] = None
          /\ irq' = [irq EXCEPT ![c] = [gpio |-> gpio, fd |-> new]]
          /\ watched' = [watched EXCEPT ![new] = c]
          /\ at' = "list" /\ gone' = c /\ UNCHANGED <<gpio, new>>
          /\ ready' = ready \ {new} /\ UNCHANGED open
     \/ /\ Faults \cap {"read", "memory", "epoll"} # {}
        /\ Closed(new) /\ Return /\ UNCHANGED irq
  /\ UNCHANGED <<armed, list, batch, stage, lost>>

List ==
  /\ at = "list"
  /\ list' = <<gone>> \o list
  /\ Return
  /\ UNCHANGED <<armed, open, watched, irq, ready, batch, stage, lost>>

-----------------------------------------------------------------------------
(* free_gpio_irq() *)

\* The first context of that gpio leaves the list; the lock is held so far.
Unlist(g) ==
  /\ at = "idle"
  /\ \E x \in DOMAIN list :
       /\ irq[list[x]].gpio = g
       /\ \A y \in 1..(x - 1) : irq[list[y]].gpio # g
       /\ gone' = list[x] /\ list' = RemoveAt(list, x)
  /\ at' = "unwatch" /\ gpio' = g
  /\ UNCHANGED <<new, armed, open, watched, irq, ready, batch, stage, lost>>

Unwatch ==
  /\ at = "unwatch"
  /\ watched' = [watched EXCEPT ![irq[gone].fd] = None]
  /\ at' = "disarm"
  /\ UNCHANGED <<gpio, new, gone, armed, open, irq, list, ready, batch, stage, lost>>

\* write_str() to the edge file; nobody looks at its result here.
WriteEdge(gpios) == armed' = gpios \/ ("edge" \in Faults /\ UNCHANGED armed)

Disarm ==
  /\ at = "disarm"
  /\ WriteEdge(armed \ {gpio})
  /\ at' = "close"
  /\ UNCHANGED <<gpio, new, gone, open, watched, irq, list, ready, batch, stage, lost>>

CloseAndFree ==
  /\ at = "close"
  /\ Closed(irq[gone].fd)
  /\ irq' = [irq EXCEPT ![gone] = None]
  /\ Return
  /\ UNCHANGED <<armed, list, batch, stage, lost>>

-----------------------------------------------------------------------------
(* the interrupt thread *)

Interrupt(g) ==
  /\ g \in armed
  /\ \E f \in Fds : open[f] = g /\ f \notin ready
  /\ ready' = ready \cup {f \in Fds : open[f] = g}
  /\ UNCHANGED <<armed, open, watched, irq, list, locals, batch, stage, lost>>

\* epoll_wait()
Fetch ==
  /\ batch = <<>> /\ ~lost
  /\ LET events == {watched[f] : f \in {g \in ready : watched[g] # None}}
     IN  events # {} /\ batch' \in SetToSeqs(events)
  /\ UNCHANGED <<armed, open, watched, irq, list, locals, ready, stage, lost>>

\* Mutant: the event is reported once (EPOLLET), a read that failed has no other.
ReadOnce ==
  /\ stage = "loop" /\ batch # <<>> /\ ~lost
  /\ LET c == Head(batch)
     IN  IF irq[c] = None THEN lost' = TRUE /\ UNCHANGED <<ready, stage>>
         ELSE /\ UNCHANGED lost
              /\ ready' = ready \ {irq[c].fd}
              /\ stage' \in (IF "read" \in Faults THEN {"read", "failed"} ELSE {"read"})
  /\ UNCHANGED <<armed, open, watched, irq, list, locals, batch>>

\* gpio_epoll_cb(), lines 170-187: reading the value ends the event; when the
\* read fails the event stays.  The context of an address that was given out
\* again is another one's.
Read ==
  /\ stage = "loop" /\ batch # <<>> /\ ~lost
  /\ LET c == Head(batch)
     IN  IF irq[c] = None THEN lost' = TRUE /\ UNCHANGED <<ready, stage>>
         ELSE /\ UNCHANGED lost
              /\ \/ stage' = "read" /\ ready' = ready \ {irq[c].fd}
                 \/ "read" \in Faults /\ stage' = "failed" /\ UNCHANGED ready
  /\ UNCHANGED <<armed, open, watched, irq, list, locals, batch>>

\* Line 190: what func, gpio and arg are is only read from the context now.
Call ==
  /\ stage = "read" /\ ~lost
  /\ IF irq[Head(batch)] = None THEN lost' = TRUE /\ UNCHANGED stage
     ELSE stage' = "called" /\ UNCHANGED lost
  /\ UNCHANGED <<armed, open, watched, irq, list, locals, ready, batch>>

\* The next event; that the read failed is not looked at (line 359).
NextEvent ==
  /\ stage \in {"called", "failed"}
  /\ stage' = "loop" /\ batch' = Tail(batch)
  /\ UNCHANGED <<armed, open, watched, irq, list, locals, ready, lost>>

IrqThread == Fetch \/ Read \/ Call \/ NextEvent

Next ==
  \/ \E g \in Gpios : Request(g) \/ Unlist(g) \/ Interrupt(g)
  \/ OpenValue \/ Add \/ List \/ Unwatch \/ Disarm \/ CloseAndFree
  \/ IrqThread

Spec == Init /\ [][Next]_vars

\* The interrupt thread does nothing else.
FairSpec == Spec /\ WF_vars(IrqThread)

-----------------------------------------------------------------------------
(* Properties *)

\* Whatever calls failed before, a context in the list is one that exists, with
\* an open descriptor of its gpio that the epoll set gives its events to and that
\* no other context has: free_gpio_irq() and the interrupt thread rely on it.
ListedWatched ==
  /\ \A x \in DOMAIN list :
       LET c == list[x]
       IN  /\ irq[c] # None
           /\ open[irq[c].fd] = irq[c].gpio /\ watched[irq[c].fd] = c
           /\ \A y \in DOMAIN list : y # x => irq[list[y]].fd # irq[c].fd
  /\ \A f \in Fds : open[f] # None => f = new \/ \E c \in Irqs : irq[c] # None /\ irq[c].fd = f

\* For an interrupt of a gpio that stays requested its callback is called, behind
\* any reads that fail as long as they do not fail for ever, and however many
\* others are requested and freed, unless the thread meets a context that was
\* freed.
Delivered ==
  \A c \in Irqs :
    LET Listed == Contains(list, c)
        Pending == irq[c].fd \in ready
        Is(s) == stage = s /\ Head(batch) = c
    IN  \/ []<>Is("failed")
        \/ (Listed /\ Pending) ~> (lost \/ ~Listed \/ Is("called"))
=============================================================================

------------------------------ MODULE I2cDevs ------------------------------
(***************************************************************************)
(* The I2C library of src/hw/example_i2c.c: contexts of any number of      *)
(* threads share one descriptor per bus, counted in a small table under a  *)
(* lock.  The lock makes adding and deleting one step each; between them a *)
(* thread allocates its context, and the rest of the process opens and     *)
(* closes descriptors of its own.                                          *)
(***************************************************************************)
EXTENDS Integers, FiniteSets

CONSTANTS
  Threads, Contexts,
  Buses,    \* device files, "/dev/i2c-0" and so on
  Slots,    \* i2cdevs[], MAX_I2CDEVS of them
  Fds,      \* descriptors of the process
  Other,    \* a file that is no bus
  None      \* an empty slot, a free descriptor, a context that does not exist

ASSUME I2cAssumption ==
  /\ Other \notin Buses
  /\ None \notin Buses \cup {Other} \cup Fds \cup Contexts
  /\ None \notin [bus : Buses, fd : Fds, users : Nat]
  /\ IsFiniteSet(Threads) /\ IsFiniteSet(Contexts)

VARIABLES
  i2cdevs,  \* every slot: None, or the bus, its descriptor and its users
  file,     \* what every descriptor is open for
  context,  \* every context: the descriptor it uses
  bus,      \* and the bus it was made for
  adding,   \* every thread: the descriptor add_i2cdevs() gave it, or
  want,     \* the bus it is making a context for
  written   \* every bus: the context whose transfer it saw last

vars == <<i2cdevs, file, context, bus, adding, want, written>>

Init ==
  /\ i2cdevs = [s \in Slots |-> None]
  /\ file = [f \in Fds |-> None]
  /\ context = [c \in Contexts |-> None] /\ bus = [c \in Contexts |-> None]
  /\ adding = [t \in Threads |-> None] /\ want = [t \in Threads |-> None]
  /\ written = [b \in Buses |-> None]

Used == {s \in Slots : i2cdevs[s] # None}

\* init_i2c_context() is called.
Call(t, b) ==
  /\ want[t] = None
  /\ want' = [want EXCEPT ![t] = b]
  /\ UNCHANGED <<i2cdevs, file, context, bus, adding, written>>

\* add_i2cdevs(): the bus is open already.
Found(t) ==
  /\ want[t] # None /\ adding[t] = None
  /\ \E s \in Used :
       /\ i2cdevs[s].bus = want[t]
       /\ i2cdevs' = [i2cdevs EXCEPT ![s].users = @ + 1]
       /\ adding' = [adding EXCEPT ![t] = i2cdevs[s].fd]
  /\ UNCHANGED <<file, context, bus, want, written>>

\* add_i2cdevs(): a new slot for the bus.
Open(t) ==
  /\ want[t] # None /\ adding[t] = None
  /\ \A s \in Used : i2cdevs[s].bus # want[t]
  /\ \E s \in Slots \ Used, f \in Fds :
       /\ file[f] = None
       /\ file' = [file EXCEPT ![f] = want[t]]
       /\ i2cdevs' = [i2cdevs EXCEPT ![s] = [bus |-> want[t], fd |-> f, users |-> 1]]
       /\ adding' = [adding EXCEPT ![t] = f]
  /\ UNCHANGED <<context, bus, want, written>>

\* No slot, no memory, a name too long, open() fails: init_i2c_context() is NULL.
NotAdded(t) ==
  /\ want[t] # None /\ adding[t] = None
  /\ \A s \in Used : i2cdevs[s].bus # want[t]
  /\ want' = [want EXCEPT ![t] = None]
  /\ UNCHANGED <<i2cdevs, file, context, bus, adding, written>>

\* The context is allocated.
Made(t) ==
  /\ adding[t] # None
  /\ \E c \in Contexts :
       /\ context[c] = None
       /\ context' = [context EXCEPT ![c] = adding[t]]
       /\ bus' = [bus EXCEPT ![c] = want[t]]
  /\ adding' = [adding EXCEPT ![t] = None] /\ want' = [want EXCEPT ![t] = None]
  /\ UNCHANGED <<i2cdevs, file, written>>

\* Mutant: the descriptor is closed with the first user that goes.
DelFirst(fd) ==
  \E s \in Used :
    /\ i2cdevs[s].fd = fd
    /\ i2cdevs' = [i2cdevs EXCEPT ![s] = None]
    /\ file' = [file EXCEPT ![fd] = None]

\* del_i2cdevs(): the last user closes the descriptor and clears the slot.
Del(fd) ==
  \E s \in Used :
    /\ i2cdevs[s].fd = fd
    /\ IF i2cdevs[s].users > 1
       THEN i2cdevs' = [i2cdevs EXCEPT ![s].users = @ - 1] /\ UNCHANGED file
       ELSE /\ i2cdevs' = [i2cdevs EXCEPT ![s] = None]
            /\ file' = [file EXCEPT ![fd] = None]

\* malloc() fails: the descriptor is given back.
NotMade(t) ==
  /\ adding[t] # None
  /\ Del(adding[t])
  /\ adding' = [adding EXCEPT ![t] = None] /\ want' = [want EXCEPT ![t] = None]
  /\ UNCHANGED <<context, bus, written>>

\* The four transfers differ in their messages; an interrupted one is repeated.
Transfer(c) ==
  /\ context[c] # None /\ file[context[c]] \in Buses
  /\ written' = [written EXCEPT ![file[context[c]]] = c]
  /\ UNCHANGED <<i2cdevs, file, context, bus, adding, want>>

\* i2c->destroy()
Free(c) ==
  /\ context[c] # None
  /\ Del(context[c])
  /\ context' = [context EXCEPT ![c] = None] /\ bus' = [bus EXCEPT ![c] = None]
  /\ written' = [b \in Buses |-> IF written[b] = c THEN None ELSE written[b]]
  /\ UNCHANGED <<adding, want>>

\* The rest of the process.
OtherOpens(f) ==
  /\ file[f] = None
  /\ file' = [file EXCEPT ![f] = Other]
  /\ UNCHANGED <<i2cdevs, context, bus, adding, want, written>>

OtherCloses(f) ==
  /\ file[f] = Other
  /\ file' = [file EXCEPT ![f] = None]
  /\ UNCHANGED <<i2cdevs, context, bus, adding, want, written>>

Next ==
  \/ \E t \in Threads :
       \/ \E b \in Buses : Call(t, b)
       \/ Found(t) \/ Open(t) \/ NotAdded(t) \/ Made(t) \/ NotMade(t)
  \/ \E c \in Contexts : Transfer(c) \/ Free(c)
  \/ \E f \in Fds : OtherOpens(f) \/ OtherCloses(f)

Spec == Init /\ [][Next]_vars

-----------------------------------------------------------------------------
(* Properties *)

\* del_i2cdevs() runs with a descriptor some slot still holds, so the count of a
\* slot is the number of contexts, and of threads between adding and allocating,
\* that use it: a bus in use is open exactly once, and one nobody uses is closed.
UsersCounted ==
  /\ \A s \in Used :
       i2cdevs[s].users = Cardinality({c \in Contexts : context[c] = i2cdevs[s].fd})
                            + Cardinality({t \in Threads : adding[t] = i2cdevs[s].fd})
  /\ \A f \in Fds : file[f] \in Buses =>
       \E s \in Used : /\ i2cdevs[s].fd = f /\ i2cdevs[s].bus = file[f]
                       /\ \A q \in Used \ {s} : i2cdevs[q].bus # file[f]

\* A transfer of a context reaches the bus the context was made for, although
\* others free theirs and descriptors are taken again in between: the
\* descriptor it has is counted for it as long as it is open.
BusesRight ==
  /\ UsersCounted
  /\ \A c \in Contexts : context[c] # None => file[context[c]] = bus[c]
  /\ \A b \in Buses : written[b] # None => bus[written[b]] = b
=============================================================================

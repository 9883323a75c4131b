---------------------------- MODULE DriversProofs ----------------------------
(***************************************************************************)
(* Theorems about the hardware drivers: the table of I2C buses, the GPIO   *)
(* interrupts and the GPIO pins, for any number of threads, contexts,      *)
(* buses, slots, gpios and descriptors, whatever calls fail; and the       *)
(* bit-banged I2C, for any width of a byte and any length of a read.       *)
(***************************************************************************)
EXTENDS MCDrivers, SequenceTheorems, FiniteSetTheorems, TLAPS

-----------------------------------------------------------------------------
(* The I2C buses *)

Slot == [bus : Buses, fd : Fds, users : Nat \ {0}]

TypeOK ==
  /\ i2cdevs \in [Slots -> Slot \cup {None}]
  /\ file \in [Fds -> Buses \cup {Other, None}]
  /\ context \in [Contexts -> Fds \cup {None}]
  /\ bus \in [Contexts -> Buses \cup {None}]
  /\ adding \in [Threads -> Fds \cup {None}]
  /\ want \in [Threads -> Buses \cup {None}]
  /\ written \in [Buses -> Contexts \cup {None}]

\* A bus has one slot, and the descriptor in it is open for the bus.
OneSlot == \A s, q \in Used : i2cdevs[s].bus = i2cdevs[q].bus => s = q
SlotOpen == \A s \in Used : file[i2cdevs[s].fd] = i2cdevs[s].bus

\* Who has a descriptor has it from the slot of its bus.
ContextSlot ==
  \A c \in Contexts : context[c] # None =>
    \E s \in Used : i2cdevs[s].fd = context[c] /\ i2cdevs[s].bus = bus[c]
AddingSlot ==
  \A t \in Threads : adding[t] # None =>
    \E s \in Used : i2cdevs[s].fd = adding[t] /\ i2cdevs[s].bus = want[t]

\* The contexts, or the threads, that have descriptor f, and how many both are.
Having(S, h, f) == {x \in S : h[x] = f}
Users(f) == Cardinality(Having(Contexts, context, f)) + Cardinality(Having(Threads, adding, f))
Counted == \A s \in Used : i2cdevs[s].users = Users(i2cdevs[s].fd)

OpenHasSlot == \A f \in Fds : file[f] \in Buses => \E s \in Used : i2cdevs[s].fd = f

Arrived ==
  \A b \in Buses : written[b] # None => context[written[b]] # None /\ bus[written[b]] = b

IInv ==
  /\ TypeOK /\ OneSlot /\ SlotOpen /\ ContextSlot /\ AddingSlot
  /\ Counted /\ OpenHasSlot /\ Arrived

-----------------------------------------------------------------------------
(* What the invariant gives every step. *)

LEMMA UsedSlot == ASSUME TypeOK, NEW s \in Used PROVE i2cdevs[s] \in Slot
  BY DEF TypeOK, Used

LEMMA SlotNotNone == None \notin Slot
  BY I2cAssumption DEF Slot

\* A descriptor is in one slot.
LEMMA FdOnce ==
  ASSUME IInv, NEW s \in Used, NEW q \in Used, i2cdevs[s].fd = i2cdevs[q].fd PROVE s = q
  BY DEF IInv, OneSlot, SlotOpen

\* A descriptor that is not open for a bus has no users.
LEMMA NoUsers ==
  ASSUME IInv, NEW f \in Fds, file[f] \notin Buses
  PROVE  /\ \A s \in Used : i2cdevs[s].fd # f
         /\ \A c \in Contexts : context[c] # f
         /\ \A t \in Threads : adding[t] # f
<1>1. \A s \in Used : i2cdevs[s].fd # f
  BY UsedSlot DEF IInv, SlotOpen, Slot
<1> QED
  BY <1>1, I2cAssumption DEF IInv, ContextSlot, AddingSlot

\* Users of a descriptor can be counted.
LEMMA Countable ==
  ASSUME NEW h, NEW f
  PROVE  /\ IsFiniteSet(Having(Contexts, h, f)) /\ IsFiniteSet(Having(Threads, h, f))
         /\ Cardinality(Having(Contexts, h, f)) \in Nat
         /\ Cardinality(Having(Threads, h, f)) \in Nat
<1>1. Having(Contexts, h, f) \subseteq Contexts /\ Having(Threads, h, f) \subseteq Threads
  BY DEF Having
<1>2. IsFiniteSet(Having(Contexts, h, f)) /\ IsFiniteSet(Having(Threads, h, f))
  BY <1>1, FS_Subset, I2cAssumption
<1> QED
  BY <1>2, FS_CardinalityType

\* A change of one holder from h to g gives the descriptor it takes one user more.
LEMMA Takes ==
  ASSUME NEW S, IsFiniteSet(S), NEW h, NEW g, NEW f, NEW x \in S,
         h[x] # f, g[x] = f, \A z \in S \ {x} : g[z] = h[z]
  PROVE  Cardinality(Having(S, g, f)) = Cardinality(Having(S, h, f)) + 1
<1>1. Having(S, g, f) = Having(S, h, f) \cup {x} /\ x \notin Having(S, h, f)
  BY DEF Having
<1>2. Having(S, h, f) \subseteq S
  BY DEF Having
<1>3. IsFiniteSet(Having(S, h, f))
  BY <1>2, FS_Subset
<1> QED
  BY <1>1, <1>3, FS_AddElement

-----------------------------------------------------------------------------
(* The steps. *)

LEMMA InitIInv == Init => IInv
<1> SUFFICES ASSUME Init PROVE IInv
  OBVIOUS
<1>1. Used = {}
  BY DEF Init, Used
<1>2. TypeOK
  BY DEF Init, TypeOK
<1>3. OpenHasSlot /\ Arrived /\ ContextSlot /\ AddingSlot
  BY I2cAssumption DEF Init, OpenHasSlot, Arrived, ContextSlot, AddingSlot
<1> QED
  BY <1>1, <1>2, <1>3 DEF IInv, OneSlot, SlotOpen, Counted

\* The slots, the descriptors in use and the users are what they were.
LEMMA CallIInv ==
  ASSUME NEW t \in Threads, NEW b \in Buses, IInv, Call(t, b) \/ NotAdded(t) PROVE IInv'
<1>0. want[t] = None => adding[t] = None
  BY UsedSlot, I2cAssumption DEF IInv, AddingSlot, Slot
<1>1. /\ UNCHANGED <<i2cdevs, file, context, bus, adding, written>> /\ adding[t] = None
      /\ \E w \in Buses \cup {None} : want' = [want EXCEPT ![t] = w]
  BY <1>0 DEF Call, NotAdded
<1>2. TypeOK'
  BY <1>1 DEF IInv, TypeOK
<1>3. Used' = Used
  BY <1>1 DEF Used
<1>4. AddingSlot'
  BY <1>1, <1>3 DEF IInv, AddingSlot, TypeOK
<1>5. Counted'
  BY <1>1, <1>3 DEF IInv, Counted, Users
<1> QED
  BY <1>1, <1>2, <1>3, <1>4, <1>5
  DEF IInv, OneSlot, SlotOpen, ContextSlot, OpenHasSlot, Arrived

LEMMA OtherIInv ==
  ASSUME NEW f \in Fds, IInv, OtherOpens(f) \/ OtherCloses(f) PROVE IInv'
<1>1. /\ UNCHANGED <<i2cdevs, context, bus, adding, want, written>>
      /\ file[f] \notin Buses
      /\ \E x \in {None, Other} : file' = [file EXCEPT ![f] = x]
  BY I2cAssumption DEF OtherOpens, OtherCloses
<1>2. TypeOK'
  BY <1>1 DEF IInv, TypeOK
<1>3. Used' = Used
  BY <1>1 DEF Used
<1>4. \A g \in Fds : g # f => file'[g] = file[g]
  BY <1>1 DEF IInv, TypeOK
<1>5. SlotOpen'
  BY <1>1, <1>3, <1>4, NoUsers, UsedSlot DEF IInv, SlotOpen, Slot
<1>6. OpenHasSlot'
  <2>1. file'[f] \notin Buses
    BY <1>1, I2cAssumption DEF IInv, TypeOK
  <2> QED
    BY <1>1, <1>3, <1>4, <2>1 DEF IInv, OpenHasSlot
<1>7. Counted'
  BY <1>1, <1>3 DEF IInv, Counted, Users
<1> QED
  BY <1>1, <1>2, <1>3, <1>5, <1>6, <1>7
  DEF IInv, OneSlot, ContextSlot, AddingSlot, Arrived

LEMMA TransferIInv == ASSUME NEW c \in Contexts, IInv, Transfer(c) PROVE IInv'
<1>1. /\ UNCHANGED <<i2cdevs, file, context, bus, adding, want>>
      /\ file[context[c]] \in Buses /\ context[c] # None
      /\ written' = [written EXCEPT ![file[context[c]]] = c]
  BY DEF Transfer
<1>2. TypeOK'
  BY <1>1 DEF IInv, TypeOK
<1>3. Used' = Used
  BY <1>1 DEF Used
<1>4. file[context[c]] = bus[c]
  BY <1>1 DEF IInv, ContextSlot, SlotOpen
<1>5. Arrived'
  BY <1>1, <1>4 DEF IInv, Arrived, TypeOK
<1>6. Counted'
  BY <1>1, <1>3 DEF IInv, Counted, Users
<1> QED
  BY <1>1, <1>2, <1>3, <1>5, <1>6
  DEF IInv, OneSlot, SlotOpen, ContextSlot, AddingSlot, OpenHasSlot

\* One user more in the slot of the bus.
LEMMA FoundIInv == ASSUME NEW t \in Threads, IInv, Found(t) PROVE IInv'
<1>1. PICK s \in Used :
        /\ i2cdevs[s].bus = want[t]
        /\ i2cdevs' = [i2cdevs EXCEPT ![s].users = @ + 1]
        /\ adding' = [adding EXCEPT ![t] = i2cdevs[s].fd]
  BY DEF Found
<1>2. want[t] # None /\ adding[t] = None /\ UNCHANGED <<file, context, bus, want, written>>
  BY DEF Found
<1>3. i2cdevs[s] \in Slot /\ s \in Slots
  BY UsedSlot DEF IInv, Used
<1>4. /\ i2cdevs'[s] = [i2cdevs[s] EXCEPT !.users = @ + 1]
      /\ \A q \in Slots : q # s => i2cdevs'[q] = i2cdevs[q]
  BY <1>1, <1>3 DEF IInv, TypeOK
<1>5. /\ i2cdevs'[s] \in Slot /\ i2cdevs'[s].bus = i2cdevs[s].bus
      /\ i2cdevs'[s].fd = i2cdevs[s].fd /\ i2cdevs'[s].users = i2cdevs[s].users + 1
  BY <1>3, <1>4 DEF Slot
<1>6. TypeOK'
  BY <1>1, <1>2, <1>3, <1>4, <1>5 DEF IInv, TypeOK, Slot
<1>7. Used' = Used
  BY <1>3, <1>4, <1>5, SlotNotNone DEF Used
<1>8. \A q \in Used : i2cdevs'[q].bus = i2cdevs[q].bus /\ i2cdevs'[q].fd = i2cdevs[q].fd
  BY <1>4, <1>5 DEF Used
<1>9. AddingSlot'
  BY <1>1, <1>2, <1>7, <1>8 DEF IInv, AddingSlot, TypeOK
<1>10. Counted'
  <2> DEFINE f == i2cdevs[s].fd
  <2>1. f # adding[t] /\ f \in Fds
    BY <1>2, <1>3, I2cAssumption DEF Slot
  <2>2. /\ Cardinality(Having(Threads, adding', f)) = Cardinality(Having(Threads, adding, f)) + 1
        /\ \A g : g # f /\ g # None => Having(Threads, adding', g) = Having(Threads, adding, g)
    <3>1. adding'[t] = f /\ adding[t] = None /\ \A r \in Threads \ {t} : adding'[r] = adding[r]
      BY <1>1, <1>2 DEF IInv, TypeOK
    <3>2. Cardinality(Having(Threads, adding', f)) = Cardinality(Having(Threads, adding, f)) + 1
      BY <2>1, <3>1, I2cAssumption, Takes
    <3> QED
      BY <3>1, <3>2 DEF Having
  <2>3. Users(f)' = Users(f) + 1
    BY <1>2, <1>5, <1>4, <2>2, Countable DEF Users
  <2>4. ASSUME NEW q \in Used, q # s PROVE i2cdevs'[q].users = Users(i2cdevs[q].fd)'
    <3>1. i2cdevs[q].fd # f /\ i2cdevs[q].fd # None /\ i2cdevs'[q] = i2cdevs[q]
      BY <2>4, <1>4, FdOnce, UsedSlot, I2cAssumption DEF IInv, Slot, Used
    <3> QED
      BY <3>1, <1>2, <2>2 DEF IInv, Counted, Users
  <2> QED
    BY <1>5, <1>7, <2>3, <2>4 DEF IInv, Counted
<1> QED
  BY <1>2, <1>6, <1>7, <1>8, <1>9, <1>10
  DEF IInv, OneSlot, SlotOpen, ContextSlot, OpenHasSlot, Arrived

\* A slot that was free, a descriptor that was free, one user.
LEMMA OpenIInv == ASSUME NEW t \in Threads, IInv, Open(t) PROVE IInv'
<1>1. PICK s \in Slots \ Used, f \in Fds :
        /\ file[f] = None
        /\ file' = [file EXCEPT ![f] = want[t]]
        /\ i2cdevs' = [i2cdevs EXCEPT ![s] = [bus |-> want[t], fd |-> f, users |-> 1]]
        /\ adding' = [adding EXCEPT ![t] = f]
  BY DEF Open
<1>2. /\ want[t] # None /\ adding[t] = None /\ UNCHANGED <<context, bus, want, written>>
      /\ \A q \in Used : i2cdevs[q].bus # want[t]
  BY DEF Open
<1>3. want[t] \in Buses /\ [bus |-> want[t], fd |-> f, users |-> 1] \in Slot
  BY <1>2 DEF IInv, TypeOK, Slot
<1>4. TypeOK'
  BY <1>1, <1>2, <1>3 DEF IInv, TypeOK
<1>5. /\ i2cdevs'[s] = [bus |-> want[t], fd |-> f, users |-> 1]
      /\ \A q \in Used : i2cdevs'[q] = i2cdevs[q]
      /\ file'[f] = want[t] /\ \A g \in Fds : g # f => file'[g] = file[g]
  BY <1>1 DEF IInv, TypeOK, Used
<1>6. Used' = Used \cup {s} /\ s \notin Used
  BY <1>1, <1>3, SlotNotNone DEF Used, IInv, TypeOK
<1>7. /\ \A q \in Used : i2cdevs[q].fd # f
      /\ \A c \in Contexts : context[c] # f
      /\ \A r \in Threads : adding[r] # f
  BY <1>1, I2cAssumption, NoUsers
<1>8. OneSlot'
  BY <1>2, <1>5, <1>6 DEF IInv, OneSlot
<1>9. SlotOpen' /\ OpenHasSlot'
  BY <1>5, <1>6, <1>7, UsedSlot DEF IInv, SlotOpen, OpenHasSlot, Slot
<1>10. ContextSlot' /\ AddingSlot'
  BY <1>1, <1>2, <1>5, <1>6 DEF IInv, ContextSlot, AddingSlot, TypeOK
<1>11. Counted'
  <2>1. Having(Contexts, context', f) = {} /\ Having(Threads, adding', f) = {t}
    BY <1>1, <1>2, <1>7 DEF Having, IInv, TypeOK
  <2>2. i2cdevs'[s].users = Users(i2cdevs[s].fd)'
    <3>1. i2cdevs'[s].fd = f /\ i2cdevs'[s].users = 1
      BY <1>5
    <3>2. Cardinality(Having(Contexts, context', f)) = 0 /\ Cardinality(Having(Threads, adding', f)) = 1
      BY <2>1, FS_EmptySet, FS_Singleton
    <3> QED
      BY <3>1, <3>2 DEF Users
  <2>3. \A g : g # f /\ g # None => Having(Threads, adding', g) = Having(Threads, adding, g)
    BY <1>1, <1>2 DEF Having, IInv, TypeOK
  <2>4. ASSUME NEW q \in Used PROVE i2cdevs'[q].users = Users(i2cdevs[q].fd)'
    <3>1. i2cdevs[q].fd # f /\ i2cdevs[q].fd # None
      BY <1>7, UsedSlot, I2cAssumption DEF IInv, Slot
    <3> QED
      BY <3>1, <1>2, <1>5, <2>3 DEF IInv, Counted, Users
  <2> QED
    BY <1>6, <2>2, <2>4 DEF Counted
<1>12. Arrived'
  BY <1>2 DEF IInv, Arrived
<1> QED
  BY <1>4, <1>8, <1>9, <1>10, <1>11, <1>12 DEF IInv

\* One user turns from a thread into its context.
LEMMA MadeIInv == ASSUME NEW t \in Threads, IInv, Made(t) PROVE IInv'
<1>1. PICK c \in Contexts :
        /\ context[c] = None
        /\ context' = [context EXCEPT ![c] = adding[t]]
        /\ bus' = [bus EXCEPT ![c] = want[t]]
  BY DEF Made
<1>2. /\ adding[t] # None
      /\ adding' = [adding EXCEPT ![t] = None] /\ want' = [want EXCEPT ![t] = None]
      /\ UNCHANGED <<i2cdevs, file, written>>
  BY DEF Made
<1>3. TypeOK'
  BY <1>1, <1>2 DEF IInv, TypeOK
<1>4. Used' = Used
  BY <1>2 DEF Used
<1>5. ContextSlot' /\ AddingSlot'
  BY <1>1, <1>2, <1>4 DEF IInv, ContextSlot, AddingSlot, TypeOK
<1>6. Arrived'
  <2>1. \A b \in Buses : written[b] # None => written[b] # c /\ written[b] \in Contexts
    BY <1>1 DEF IInv, Arrived, TypeOK
  <2> QED
    BY <1>1, <1>2, <2>1 DEF IInv, Arrived, TypeOK
<1>7. Counted'
  <2> DEFINE a == adding[t]
  <2>1. /\ Cardinality(Having(Threads, adding', a)) = Cardinality(Having(Threads, adding, a)) - 1
        /\ \A g : g # a /\ g # None => Having(Threads, adding', g) = Having(Threads, adding, g)
    <3>1. adding'[t] = None /\ adding[t] # None /\ \A r \in Threads \ {t} : adding'[r] = adding[r]
      BY <1>2 DEF IInv, TypeOK
    <3>2. Cardinality(Having(Threads, adding, a)) = Cardinality(Having(Threads, adding', a)) + 1
      BY <3>1, I2cAssumption, Takes
    <3>3. Cardinality(Having(Threads, adding', a)) = Cardinality(Having(Threads, adding, a)) - 1
      <4> HIDE DEF a
      <4> QED
        BY <3>2, Countable
    <3> QED
      BY <3>1, <3>3 DEF Having
  <2>2. /\ Cardinality(Having(Contexts, context', a)) = Cardinality(Having(Contexts, context, a)) + 1
        /\ \A g : g # a /\ g # None => Having(Contexts, context', g) = Having(Contexts, context, g)
    <3>1. context'[c] = a /\ context[c] = None /\ \A d \in Contexts \ {c} : context'[d] = context[d]
      BY <1>1 DEF IInv, TypeOK
    <3>2. Cardinality(Having(Contexts, context', a)) = Cardinality(Having(Contexts, context, a)) + 1
      BY <1>2, <3>1, I2cAssumption, Takes
    <3> QED
      BY <3>1, <3>2 DEF Having
  <2>3. \A g : g # None => Cardinality(Having(Contexts, context', g)) + Cardinality(Having(Threads, adding', g)) = Users(g)
    BY <2>1, <2>2, Countable DEF Users
  <2>4. ASSUME NEW q \in Used PROVE i2cdevs'[q].users = Users(i2cdevs[q].fd)'
    <3>1. i2cdevs[q].fd # None
      BY UsedSlot, I2cAssumption DEF IInv, Slot
    <3> QED
      BY <3>1, <1>2, <2>3 DEF IInv, Counted, Users
  <2> QED
    BY <1>2, <1>4, <2>4 DEF Counted
<1> QED
  BY <1>2, <1>3, <1>4, <1>5, <1>6, <1>7 DEF IInv, OneSlot, SlotOpen, OpenHasSlot

\* One user of f less: what of the invariant is about the slots holds again,
\* whoever of the two kinds it was.
LEMMA DelSlots ==
  ASSUME IInv, NEW f \in Fds, Del(f),
         Users(f) = Cardinality(Having(Contexts, context', f))
                      + Cardinality(Having(Threads, adding', f)) + 1,
         \A g : g # f /\ g # None =>
           /\ Having(Contexts, context', g) = Having(Contexts, context, g)
           /\ Having(Threads, adding', g) = Having(Threads, adding, g),
         \A c \in Contexts : context'[c] # None =>
           context'[c] = context[c] /\ bus'[c] = bus[c],
         \A t \in Threads : adding'[t] # None =>
           adding'[t] = adding[t] /\ want'[t] = want[t]
  PROVE  /\ i2cdevs' \in [Slots -> Slot \cup {None}]
         /\ file' \in [Fds -> Buses \cup {Other, None}]
         /\ (OneSlot /\ SlotOpen /\ ContextSlot /\ AddingSlot /\ Counted /\ OpenHasSlot)'
<1>1. PICK s \in Used :
        /\ i2cdevs[s].fd = f
        /\ IF i2cdevs[s].users > 1
           THEN i2cdevs' = [i2cdevs EXCEPT ![s].users = @ - 1] /\ UNCHANGED file
           ELSE /\ i2cdevs' = [i2cdevs EXCEPT ![s] = None]
                /\ file' = [file EXCEPT ![f] = None]
  BY DEF Del
<1>2. i2cdevs[s] \in Slot /\ s \in Slots /\ i2cdevs[s].users = Users(f)
  BY <1>1, UsedSlot DEF IInv, Used, Counted
<1>3. \A q \in Used : q # s => i2cdevs[q].fd # f /\ i2cdevs[q].fd \in Fds /\ i2cdevs[q].fd # None
  BY <1>1, FdOnce, UsedSlot, I2cAssumption DEF IInv, Slot
<1>4. \A q \in Slots : q # s => i2cdevs'[q] = i2cdevs[q]
  BY <1>1 DEF IInv, TypeOK
<1>5. \A q \in Used : q # s => i2cdevs'[q] = i2cdevs[q] /\ i2cdevs'[q].users = Users(i2cdevs[q].fd)'
  BY <1>3, <1>4 DEF Users, IInv, Counted, Used
<1>6. CASE i2cdevs[s].users > 1
  <2>1. i2cdevs'[s] = [i2cdevs[s] EXCEPT !.users = @ - 1] /\ file' = file
    BY <1>1, <1>2, <1>6 DEF IInv, TypeOK
  <2>2. /\ i2cdevs'[s] \in Slot /\ i2cdevs'[s].fd = f /\ i2cdevs'[s].bus = i2cdevs[s].bus
        /\ i2cdevs'[s].users = i2cdevs[s].users - 1
    BY <2>1, <1>1, <1>2, <1>6 DEF Slot
  <2>3. Used' = Used
    BY <1>2, <1>4, <2>2, SlotNotNone DEF Used
  <2>4. \A q \in Used : i2cdevs'[q].fd = i2cdevs[q].fd /\ i2cdevs'[q].bus = i2cdevs[q].bus
    BY <1>1, <1>5, <2>2
  <2>5. i2cdevs' \in [Slots -> Slot \cup {None}] /\ file' \in [Fds -> Buses \cup {Other, None}]
    BY <1>1, <1>2, <1>6, <2>1, <2>2 DEF IInv, TypeOK
  <2>6. Counted'
    <3>1. Users(i2cdevs[s].fd)' = Users(f) - 1
      BY <2>2, Countable DEF Users
    <3> QED
      BY <1>2, <1>5, <2>2, <2>3, <3>1 DEF Counted
  <2>7. OneSlot' /\ SlotOpen' /\ OpenHasSlot'
    BY <2>1, <2>3, <2>4 DEF IInv, OneSlot, SlotOpen, OpenHasSlot
  <2>8. ContextSlot' /\ AddingSlot'
    BY <2>3, <2>4 DEF IInv, ContextSlot, AddingSlot
  <2> QED
    BY <2>5, <2>6, <2>7, <2>8
<1>7. CASE ~(i2cdevs[s].users > 1)
  <2>1. i2cdevs' = [i2cdevs EXCEPT ![s] = None] /\ file' = [file EXCEPT ![f] = None]
    BY <1>1, <1>7
  <2>2. Used' = Used \ {s}
    BY <1>2, <1>4, <2>1 DEF Used, IInv, TypeOK
  <2>3. i2cdevs' \in [Slots -> Slot \cup {None}] /\ file' \in [Fds -> Buses \cup {Other, None}]
    BY <2>1 DEF IInv, TypeOK
  <2>4. file'[f] = None /\ \A g \in Fds : g # f => file'[g] = file[g]
    BY <2>1 DEF IInv, TypeOK
  <2>5. Having(Contexts, context', f) = {} /\ Having(Threads, adding', f) = {}
    <3>1. Users(f) = 1
      BY <1>2, <1>7 DEF Slot
    <3>2. Cardinality(Having(Contexts, context', f)) = 0 /\ Cardinality(Having(Threads, adding', f)) = 0
      BY <3>1, Countable
    <3> QED
      BY <3>2, Countable, FS_EmptySet
  <2>6. OneSlot' /\ SlotOpen'
    BY <1>3, <1>5, <2>2, <2>4 DEF IInv, OneSlot, SlotOpen
  <2>7. OpenHasSlot'
    BY <1>1, <1>3, <1>5, <2>2, <2>4, I2cAssumption DEF IInv, OpenHasSlot
  <2>8. ContextSlot'
    <3> SUFFICES ASSUME NEW c \in Contexts, context'[c] # None
                 PROVE  \E q \in Used' : i2cdevs'[q].fd = context'[c] /\ i2cdevs'[q].bus = bus'[c]
      BY DEF ContextSlot
    <3>1. context'[c] # f
      BY <2>5 DEF Having
    <3>2. PICK q \in Used : i2cdevs[q].fd = context[c] /\ i2cdevs[q].bus = bus[c]
      BY DEF IInv, ContextSlot
    <3> QED
      BY <3>1, <3>2, <1>1, <1>5, <2>2
  <2>9. AddingSlot'
    <3> SUFFICES ASSUME NEW t \in Threads, adding'[t] # None
                 PROVE  \E q \in Used' : i2cdevs'[q].fd = adding'[t] /\ i2cdevs'[q].bus = want'[t]
      BY DEF AddingSlot
    <3>1. adding'[t] # f
      BY <2>5 DEF Having
    <3>2. PICK q \in Used : i2cdevs[q].fd = adding[t] /\ i2cdevs[q].bus = want[t]
      BY DEF IInv, AddingSlot
    <3> QED
      BY <3>1, <3>2, <1>1, <1>5, <2>2
  <2>10. Counted'
    BY <1>5, <2>2 DEF Counted
  <2> QED
    BY <2>3, <2>6, <2>7, <2>8, <2>9, <2>10
<1> QED
  BY <1>6, <1>7

LEMMA NotMadeIInv == ASSUME NEW t \in Threads, IInv, NotMade(t) PROVE IInv'
<1> DEFINE f == adding[t]
<1>1. /\ f # None /\ Del(f)
      /\ adding' = [adding EXCEPT ![t] = None] /\ want' = [want EXCEPT ![t] = None]
      /\ UNCHANGED <<context, bus, written>>
  BY DEF NotMade
<1>2. f \in Fds
  BY <1>1 DEF IInv, TypeOK
<1>3. adding'[t] # f /\ adding[t] = f /\ \A r \in Threads \ {t} : adding'[r] = adding[r]
  BY <1>1 DEF IInv, TypeOK
<1>4. Cardinality(Having(Threads, adding, f)) = Cardinality(Having(Threads, adding', f)) + 1
  <2> HIDE DEF f
  <2> QED
    BY <1>3, I2cAssumption, Takes
<1>5. \A g : g # f /\ g # None => Having(Threads, adding', g) = Having(Threads, adding, g)
  BY <1>1, <1>3 DEF Having, IInv, TypeOK
<1>6. /\ \A c \in Contexts : context'[c] = context[c] /\ bus'[c] = bus[c]
      /\ \A r \in Threads : adding'[r] # None => adding'[r] = adding[r] /\ want'[r] = want[r]
  BY <1>1, <1>3 DEF IInv, TypeOK
<1>7. Users(f) = Cardinality(Having(Contexts, context', f))
                   + Cardinality(Having(Threads, adding', f)) + 1
  <2> HIDE DEF f
  <2> QED
    BY <1>1, <1>4, Countable DEF Users
<1>8. /\ i2cdevs' \in [Slots -> Slot \cup {None}]
      /\ file' \in [Fds -> Buses \cup {Other, None}]
      /\ (OneSlot /\ SlotOpen /\ ContextSlot /\ AddingSlot /\ Counted /\ OpenHasSlot)'
  <2> HIDE DEF f
  <2> QED
    BY <1>1, <1>2, <1>5, <1>6, <1>7, DelSlots
<1>9. TypeOK' /\ Arrived'
  BY <1>1, <1>8 DEF IInv, TypeOK, Arrived
<1> QED
  BY <1>8, <1>9 DEF IInv

LEMMA FreeIInv == ASSUME NEW x \in Contexts, IInv, Free(x) PROVE IInv'
<1> DEFINE f == context[x]
<1>1. /\ f # None /\ Del(f)
      /\ context' = [context EXCEPT ![x] = None] /\ bus' = [bus EXCEPT ![x] = None]
      /\ written' = [b \in Buses |-> IF written[b] = x THEN None ELSE written[b]]
      /\ UNCHANGED <<adding, want>>
  BY DEF Free
<1>2. f \in Fds
  BY <1>1 DEF IInv, TypeOK
<1>3. context'[x] # f /\ context[x] = f /\ \A c \in Contexts \ {x} : context'[c] = context[c]
  BY <1>1 DEF IInv, TypeOK
<1>4. Cardinality(Having(Contexts, context, f)) = Cardinality(Having(Contexts, context', f)) + 1
  <2> HIDE DEF f
  <2> QED
    BY <1>3, I2cAssumption, Takes
<1>5. \A g : g # f /\ g # None => Having(Contexts, context', g) = Having(Contexts, context, g)
  BY <1>1, <1>3 DEF Having, IInv, TypeOK
<1>6. /\ \A c \in Contexts : context'[c] # None => context'[c] = context[c] /\ bus'[c] = bus[c]
      /\ \A r \in Threads : adding'[r] = adding[r] /\ want'[r] = want[r]
  BY <1>1, <1>3 DEF IInv, TypeOK
<1>7. Users(f) = Cardinality(Having(Contexts, context', f))
                   + Cardinality(Having(Threads, adding', f)) + 1
  <2> HIDE DEF f
  <2> QED
    BY <1>1, <1>4, Countable DEF Users
<1>8. /\ i2cdevs' \in [Slots -> Slot \cup {None}]
      /\ file' \in [Fds -> Buses \cup {Other, None}]
      /\ (OneSlot /\ SlotOpen /\ ContextSlot /\ AddingSlot /\ Counted /\ OpenHasSlot)'
  <2> HIDE DEF f
  <2> QED
    BY <1>1, <1>2, <1>5, <1>6, <1>7, DelSlots
<1>9. TypeOK'
  BY <1>1, <1>8 DEF IInv, TypeOK
<1>10. Arrived'
  BY <1>1, <1>3 DEF IInv, TypeOK, Arrived
<1> QED
  BY <1>8, <1>9, <1>10 DEF IInv

LEMMA NextIInv == IInv /\ [Next]_vars => IInv'
<1> SUFFICES ASSUME IInv, [Next]_vars PROVE IInv'
  OBVIOUS
<1>1. CASE UNCHANGED vars
  BY <1>1 DEF vars, IInv, TypeOK, OneSlot, SlotOpen, ContextSlot, AddingSlot, Counted,
              OpenHasSlot, Arrived, Used, Users
<1>2. ASSUME NEW t \in Threads, NEW b \in Buses, Call(t, b) PROVE IInv'
  BY <1>2, CallIInv
<1>3. ASSUME NEW t \in Threads, NotAdded(t) PROVE IInv'
  <2>1. PICK b \in Buses : b = want[t]
    BY <1>3 DEF NotAdded, IInv, TypeOK
  <2> QED
    BY <1>3, <2>1, CallIInv
<1>4. ASSUME NEW t \in Threads, Found(t) \/ Open(t) \/ Made(t) \/ NotMade(t) PROVE IInv'
  BY <1>4, FoundIInv, OpenIInv, MadeIInv, NotMadeIInv
<1>5. ASSUME NEW c \in Contexts, Transfer(c) \/ Free(c) PROVE IInv'
  BY <1>5, TransferIInv, FreeIInv
<1>6. ASSUME NEW f \in Fds, OtherOpens(f) \/ OtherCloses(f) PROVE IInv'
  BY <1>6, OtherIInv
<1> QED
  BY <1>1, <1>2, <1>3, <1>4, <1>5, <1>6 DEF Next

\* The invariant of the library is inductive.
THEOREM Invariance == Spec => []IInv
<1> QED
  BY InitIInv, NextIInv, PTL DEF Spec

-----------------------------------------------------------------------------

LEMMA IInvBuses == IInv => BusesRight
<1> SUFFICES ASSUME IInv PROVE BusesRight
  OBVIOUS
<1>1. \A s \in Used :
        i2cdevs[s].users = Cardinality({c \in Contexts : context[c] = i2cdevs[s].fd})
                             + Cardinality({t \in Threads : adding[t] = i2cdevs[s].fd})
  BY DEF IInv, Counted, Users, Having
<1>2. \A f \in Fds : file[f] \in Buses =>
        \E s \in Used : /\ i2cdevs[s].fd = f /\ i2cdevs[s].bus = file[f]
                        /\ \A q \in Used \ {s} : i2cdevs[q].bus # file[f]
  BY DEF IInv, OpenHasSlot, SlotOpen, OneSlot
<1>3. \A c \in Contexts : context[c] # None => file[context[c]] = bus[c]
  BY DEF IInv, ContextSlot, SlotOpen
<1>4. \A b \in Buses : written[b] # None => bus[written[b]] = b
  BY DEF IInv, Arrived
<1> QED
  BY <1>1, <1>2, <1>3, <1>4 DEF BusesRight, UsersCounted

\* Whatever threads and the rest of the process do in between, the count of a
\* descriptor is the number of its users, it stays open for its bus as long as
\* it has one, and transfers reach the bus their context was made for.
THEOREM BusesStayRight == Spec => []BusesRight
<1> QED
  BY Invariance, IInvBuses, PTL

\* A context frees its descriptor exactly once: destroy() always finds a slot.
THEOREM FreeFindsSlot ==
  Spec => [](\A c \in Contexts : context[c] # None =>
               \E s \in Used : i2cdevs[s].fd = context[c])
<1>1. IInv => \A c \in Contexts : context[c] # None =>
                \E s \in Used : i2cdevs[s].fd = context[c]
  BY DEF IInv, ContextSlot
<1> QED
  BY <1>1, Invariance, PTL

-----------------------------------------------------------------------------
(* The GPIO interrupts *)

IrqType ==
  /\ open \in [Fds -> Gpios \cup {None}]
  /\ watched \in [Fds -> Irqs \cup {None}]
  /\ irq \in [Irqs -> [gpio : Gpios, fd : Fds] \cup {None}]
  /\ list \in Seq(Irqs)
  /\ at \in {"idle", "open", "alloc", "list", "unwatch", "disarm", "close"}
  /\ gpio \in Gpios \cup {None} /\ new \in Fds \cup {None} /\ gone \in Irqs \cup {None}

Live(c) == irq[c] # None

\* Every context has a descriptor of its own, which is open for its gpio.
OwnDescriptor ==
  /\ \A c \in Irqs : Live(c) => open[irq[c].fd] = irq[c].gpio
  /\ \A c, d \in Irqs : Live(c) /\ Live(d) /\ irq[c].fd = irq[d].fd => c = d

\* What is in the list exists and is watched, and is in it once.
ListRight ==
  /\ \A x \in 1..Len(list) : /\ Live(list[x]) /\ watched[irq[list[x]].fd] = list[x]
                             /\ list[x] # gone
  /\ \A x, y \in 1..Len(list) : x # y => list[x] # list[y]

\* What the requesting thread has in its hands where it is.
InHand ==
  /\ at = "idle" <=> gpio = None
  /\ at \in {"alloc", "list"} => new \in Fds /\ open[new] = gpio
  /\ at = "alloc" => \A c \in Irqs : Live(c) => irq[c].fd # new
  /\ at = "list" => gone \in Irqs /\ irq[gone] = [gpio |-> gpio, fd |-> new] /\ watched[new] = gone
  /\ at \in {"unwatch", "disarm", "close"} => gone \in Irqs /\ Live(gone)
  /\ at \in {"idle", "open", "unwatch", "disarm", "close"} => new = None
  /\ at \in {"idle", "open", "alloc"} => gone = None

\* An open descriptor is one of a context, or in the hands of the thread.
NoneLost == \A f \in Fds : open[f] # None => f = new \/ \E c \in Irqs : Live(c) /\ irq[c].fd = f

IrqInv == IrqType /\ OwnDescriptor /\ ListRight /\ InHand /\ NoneLost

USE IrqAssumption

LEMMA IrqInit == Irq!Init => IrqInv
<1> SUFFICES ASSUME Irq!Init PROVE IrqInv
  OBVIOUS
<1>1. list \in Seq(Irqs) /\ Len(list) = 0
  BY EmptySeq DEF Irq!Init
<1> QED
  BY <1>1 DEF Irq!Init, IrqInv, IrqType, OwnDescriptor, ListRight, InHand, NoneLost, Live

\* What every context and everything in the list is.
LEMMA IrqTypes ==
  ASSUME IrqInv
  PROVE  /\ Len(list) \in Nat /\ DOMAIN list = 1..Len(list)
         /\ \A x \in 1..Len(list) : list[x] \in Irqs
         /\ \A c \in Irqs : Live(c) => irq[c].fd \in Fds /\ irq[c].gpio \in Gpios
  BY LenProperties, ElementOfSeq DEF IrqInv, IrqType, Live

LEMMA RequestIrq == ASSUME IrqInv, NEW g \in Gpios, Irq!Request(g) PROVE IrqInv'
  BY DEF Irq!Request, IrqInv, IrqType, OwnDescriptor, ListRight, InHand, NoneLost, Live

LEMMA OpenIrq == ASSUME IrqInv, Irq!OpenValue PROVE IrqInv'
<1>1. CASE Irq!Return /\ UNCHANGED open
  BY <1>1 DEF Irq!OpenValue, Irq!Return, IrqInv, IrqType, OwnDescriptor, ListRight, InHand, NoneLost, Live
<1>2. ASSUME NEW f \in Fds, open[f] = None, open' = [open EXCEPT ![f] = gpio],
             at' = "alloc", new' = f, UNCHANGED <<gpio, gone>>
      PROVE  IrqInv'
  <2>1. /\ at = "open" /\ gpio \in Gpios /\ gone = None /\ new = None
        /\ UNCHANGED <<watched, irq, list>> /\ open \in [Fds -> Gpios \cup {None}]
    BY DEF Irq!OpenValue, IrqInv, IrqType, InHand
  <2>2. \A c \in Irqs : Live(c) => irq[c].fd # f
    BY <1>2, IrqTypes DEF IrqInv, OwnDescriptor
  <2>3. IrqType' /\ ListRight'
    BY <1>2, <2>1 DEF IrqInv, IrqType, ListRight, Live
  <2>4. OwnDescriptor'
    BY <1>2, <2>1, <2>2, IrqTypes DEF IrqInv, OwnDescriptor, Live
  <2>5. InHand'
    BY <1>2, <2>1, <2>2 DEF InHand, Live
  <2>6. NoneLost'
    BY <1>2, <2>1 DEF IrqInv, NoneLost, Live
  <2> QED
    BY <2>3, <2>4, <2>5, <2>6 DEF IrqInv
<1> QED
  BY <1>1, <1>2 DEF Irq!OpenValue

LEMMA AddIrq == ASSUME IrqInv, Irq!Add PROVE IrqInv'
<1>1. /\ at = "alloc" /\ gpio \in Gpios /\ gone = None /\ new \in Fds /\ open[new] = gpio
      /\ UNCHANGED list /\ \A c \in Irqs : Live(c) => irq[c].fd # new
  BY DEF Irq!Add, IrqInv, IrqType, InHand
<1>2. ASSUME NEW c \in Irqs, irq[c] = None,
             irq' = [irq EXCEPT ![c] = [gpio |-> gpio, fd |-> new]],
             watched' = [watched EXCEPT ![new] = c],
             at' = "list", gone' = c, UNCHANGED <<gpio, new, open>>
      PROVE  IrqInv'
  <2>1. /\ irq'[c] = [gpio |-> gpio, fd |-> new] /\ irq'[c] # None /\ irq'[c].fd = new /\ irq'[c].gpio = gpio
        /\ \A d \in Irqs : d # c => irq'[d] = irq[d]
    BY <1>1, <1>2 DEF IrqInv, IrqType
  <2>2. IrqType'
    BY <1>1, <1>2 DEF IrqInv, IrqType
  <2>3. OwnDescriptor'
    BY <1>1, <1>2, <2>1 DEF IrqInv, OwnDescriptor, Live
  <2>4. ListRight'
    <3>1. \A x \in 1..Len(list) : list[x] \in Irqs /\ list[x] # c /\ irq[list[x]].fd # new /\ irq[list[x]].fd \in Fds
      BY <1>1, <1>2, IrqTypes DEF IrqInv, ListRight, Live
    <3>2. \A x \in 1..Len(list) : watched'[irq'[list[x]].fd] = watched[irq[list[x]].fd]
      BY <1>2, <2>1, <3>1
    <3> QED
      BY <1>1, <1>2, <2>1, <3>1, <3>2 DEF IrqInv, ListRight, Live
  <2>5. InHand'
    BY <1>1, <1>2, <2>1 DEF IrqInv, IrqType, InHand, Live
  <2>6. NoneLost'
    BY <1>1, <1>2, <2>1 DEF IrqInv, NoneLost, Live
  <2> QED
    BY <2>2, <2>3, <2>4, <2>5, <2>6 DEF IrqInv
<1>3. ASSUME Irq!Closed(new), Irq!Return, UNCHANGED irq PROVE IrqInv'
  <2>1. IrqType' /\ InHand'
    BY <1>1, <1>3 DEF Irq!Closed, Irq!Return, IrqInv, IrqType, InHand
  <2>2. OwnDescriptor' /\ NoneLost'
    BY <1>1, <1>3, IrqTypes DEF Irq!Closed, Irq!Return, IrqInv, IrqType, OwnDescriptor, NoneLost, Live
  <2>3. ListRight'
    <3>1. \A x \in 1..Len(list) : list[x] \in Irqs /\ irq[list[x]].fd # new /\ irq[list[x]].fd \in Fds
      BY <1>1, IrqTypes DEF IrqInv, ListRight, Live
    <3> QED
      BY <1>1, <1>3, <3>1 DEF Irq!Closed, Irq!Return, IrqInv, IrqType, ListRight, Live
  <2> QED
    BY <2>1, <2>2, <2>3 DEF IrqInv
<1> QED
  BY <1>2, <1>3 DEF Irq!Add

LEMMA ListIrq == ASSUME IrqInv, Irq!List PROVE IrqInv'
<1>1. /\ at = "list" /\ gone \in Irqs /\ Live(gone) /\ irq[gone].fd = new /\ watched[new] = gone
      /\ gone' = None /\ new' = None /\ gpio' = None /\ at' = "idle"
      /\ UNCHANGED <<open, watched, irq>>
  BY DEF Irq!List, Irq!Return, IrqInv, IrqType, InHand, Live
<1>2. /\ list' \in Seq(Irqs) /\ Len(list') = Len(list) + 1 /\ list'[1] = gone
      /\ \A x \in 2..Len(list') : list'[x] = list[x - 1] /\ x - 1 \in 1..Len(list)
  <2>1. /\ list \in Seq(Irqs) /\ Len(list) \in Nat /\ <<gone>> \in Seq(Irqs) /\ Len(<<gone>>) = 1
        /\ list' = <<gone>> \o list
    BY <1>1, IrqTypes DEF Irq!List, IrqInv, IrqType
  <2>2. /\ list' \in Seq(Irqs) /\ Len(list') = 1 + Len(list)
        /\ \A x \in 1..(1 + Len(list)) : list'[x] = IF x <= 1 THEN <<gone>>[x] ELSE list[x - 1]
    BY <2>1, ConcatProperties
  <2> QED
    BY <2>1, <2>2
<1>3. IrqType' /\ InHand'
  BY <1>1, <1>2 DEF IrqInv, IrqType, InHand, Live
<1>4. OwnDescriptor' /\ NoneLost'
  BY <1>1 DEF IrqInv, OwnDescriptor, NoneLost, Live
<1>5. ListRight'
  <2>1. \A x \in 1..Len(list') : x = 1 \/ x \in 2..Len(list')
    BY <1>2, IrqTypes
  <2>2. \A x \in 1..Len(list') : Live(list'[x]) /\ watched[irq[list'[x]].fd] = list'[x] /\ list'[x] \in Irqs
    BY <1>1, <1>2, <2>1, IrqTypes DEF IrqInv, ListRight
  <2>3. ASSUME NEW x \in 1..Len(list'), NEW y \in 1..Len(list'), x # y PROVE list'[x] # list'[y]
    <3>1. CASE x = 1
      BY <1>2, <2>1, <2>3, <3>1 DEF IrqInv, ListRight
    <3>2. CASE y = 1
      BY <1>2, <2>1, <2>3, <3>2 DEF IrqInv, ListRight
    <3>3. CASE x # 1 /\ y # 1
      <4>1. x - 1 \in 1..Len(list) /\ y - 1 \in 1..Len(list) /\ list'[x] = list[x - 1] /\ list'[y] = list[y - 1]
        BY <1>2, <2>1, <3>3
      <4>2. x - 1 # y - 1
        BY <2>3
      <4> QED
        BY <4>1, <4>2 DEF IrqInv, ListRight
    <3> QED
      BY <3>1, <3>2, <3>3
  <2> QED
    BY <1>1, <2>2, <2>3 DEF ListRight, Live
<1> QED
  BY <1>3, <1>4, <1>5 DEF IrqInv

\* A list that has lost its element x.
LEMMA WithoutElement ==
  ASSUME NEW S, NEW s \in Seq(S), NEW x \in 1..Len(s)
  PROVE  /\ Irq!RemoveAt(s, x) \in Seq(S) /\ Len(Irq!RemoveAt(s, x)) = Len(s) - 1
         /\ \A y \in 1..(Len(s) - 1) : Irq!RemoveAt(s, x)[y] = s[IF y < x THEN y ELSE y + 1]
<1>1. Len(s) \in Int /\ x \in Int /\ 1 <= x /\ x <= Len(s) /\ \A y \in 1..Len(s) : s[y] \in S
  BY LenProperties, ElementOfSeq
<1> DEFINE a == SubSeq(s, 1, x - 1)
           b == SubSeq(s, x + 1, Len(s))
<1>2. /\ a \in Seq(S) /\ Len(a) = x - 1 /\ \A y \in 1..(x - 1) : a[y] = s[y]
  <2>1. \A y \in 1..(x - 1) : s[y] \in S
    BY <1>1
  <2>2. /\ a \in Seq(S) /\ Len(a) = IF 1 <= x - 1 THEN (x - 1) - 1 + 1 ELSE 0
        /\ \A y \in 1..((x - 1) - 1 + 1) : a[y] = s[1 + y - 1]
    BY <1>1, <2>1, SubSeqProperties
  <2> QED
    BY <1>1, <2>2
<1>3. /\ b \in Seq(S) /\ Len(b) = Len(s) - x /\ \A y \in 1..(Len(s) - x) : b[y] = s[x + y]
  <2>1. \A y \in (x + 1)..Len(s) : s[y] \in S
    BY <1>1
  <2>2. /\ b \in Seq(S) /\ Len(b) = IF x + 1 <= Len(s) THEN Len(s) - (x + 1) + 1 ELSE 0
        /\ \A y \in 1..(Len(s) - (x + 1) + 1) : b[y] = s[(x + 1) + y - 1]
    BY <1>1, <2>1, SubSeqProperties
  <2> QED
    BY <1>1, <2>2
<1>4. /\ Irq!RemoveAt(s, x) \in Seq(S) /\ Len(Irq!RemoveAt(s, x)) = Len(a) + Len(b)
      /\ \A y \in 1..(Len(a) + Len(b)) : Irq!RemoveAt(s, x)[y] = IF y <= Len(a) THEN a[y] ELSE b[y - Len(a)]
  <2>1. /\ a \o b \in Seq(S) /\ Len(a \o b) = Len(a) + Len(b)
        /\ \A y \in 1..(Len(a) + Len(b)) : (a \o b)[y] = IF y <= Len(a) THEN a[y] ELSE b[y - Len(a)]
    <3>1. a \in Seq(S) /\ b \in Seq(S)
      BY <1>2, <1>3
    <3> HIDE DEF a, b
    <3> QED
      BY <3>1, ConcatProperties
  <2>2. Irq!RemoveAt(s, x) = a \o b
    BY DEF Irq!RemoveAt
  <2> HIDE DEF a, b
  <2> QED
    BY <2>1, <2>2
<1> HIDE DEF a, b
<1>5. (x - 1) + (Len(s) - x) = Len(s) - 1
  BY <1>1
<1>6. ASSUME NEW y \in 1..(Len(s) - 1) PROVE Irq!RemoveAt(s, x)[y] = s[IF y < x THEN y ELSE y + 1]
  <2>1. CASE y < x
    BY <1>1, <1>2, <1>3, <1>4, <1>5, <2>1
  <2>2. CASE ~(y < x)
    <3>1. ~(y <= Len(a)) /\ y - Len(a) \in 1..(Len(s) - x) /\ x + (y - Len(a)) = y + 1
      BY <1>1, <1>2, <2>2
    <3> QED
      BY <1>2, <1>3, <1>4, <1>5, <2>2, <3>1
  <2> QED
    BY <2>1, <2>2
<1> QED
  BY <1>2, <1>3, <1>4, <1>5, <1>6

LEMMA UnlistIrq == ASSUME IrqInv, NEW g \in Gpios, Irq!Unlist(g) PROVE IrqInv'
<1>1. PICK x \in 1..Len(list) : gone' = list[x] /\ list' = Irq!RemoveAt(list, x)
  BY IrqTypes DEF Irq!Unlist
<1>2. /\ at = "idle" /\ at' = "unwatch" /\ gpio' = g /\ new = None /\ gone = None
      /\ UNCHANGED <<new, open, watched, irq>>
  BY DEF Irq!Unlist, IrqInv, InHand
<1>3. /\ list[x] \in Irqs /\ Live(list[x]) /\ Len(list) \in Nat /\ list \in Seq(Irqs)
  BY IrqTypes DEF IrqInv, IrqType, ListRight
<1>4. /\ list' \in Seq(Irqs) /\ Len(list') = Len(list) - 1
      /\ \A y \in 1..(Len(list) - 1) : list'[y] = list[IF y < x THEN y ELSE y + 1]
  BY <1>1, <1>3, WithoutElement
<1> DEFINE Old(y) == IF y < x THEN y ELSE y + 1
<1>5. /\ \A y \in 1..Len(list') : Old(y) \in 1..Len(list) /\ Old(y) # x /\ list'[y] = list[Old(y)]
      /\ \A y, z \in 1..Len(list') : y # z => Old(y) # Old(z)
  BY <1>3, <1>4
<1> HIDE DEF Old
<1>6. IrqType' /\ InHand'
  BY <1>1, <1>2, <1>3, <1>4 DEF IrqInv, IrqType, InHand, Live
<1>7. OwnDescriptor' /\ NoneLost'
  BY <1>2 DEF IrqInv, OwnDescriptor, NoneLost, Live
<1>8. ListRight'
  BY <1>1, <1>2, <1>5 DEF IrqInv, ListRight, Live
<1> QED
  BY <1>6, <1>7, <1>8 DEF IrqInv

LEMMA FreeIrq == ASSUME IrqInv, Irq!Unwatch \/ Irq!Disarm \/ Irq!CloseAndFree PROVE IrqInv'
<1>1. /\ at \in {"unwatch", "disarm", "close"} /\ gone \in Irqs /\ Live(gone) /\ irq[gone].fd \in Fds
      /\ new = None /\ UNCHANGED list
  BY IrqTypes DEF Irq!Unwatch, Irq!Disarm, Irq!CloseAndFree, IrqInv, InHand
<1>2. \A x \in 1..Len(list) :
        list[x] \in Irqs /\ list[x] # gone /\ Live(list[x]) /\ irq[list[x]].fd # irq[gone].fd /\ irq[list[x]].fd \in Fds
  BY <1>1, IrqTypes DEF IrqInv, ListRight, OwnDescriptor
<1>3. CASE Irq!Unwatch
  <2>1. ListRight'
    BY <1>1, <1>2, <1>3 DEF Irq!Unwatch, IrqInv, IrqType, ListRight, Live
  <2> QED
    BY <1>1, <1>3, <2>1 DEF Irq!Unwatch, IrqInv, IrqType, OwnDescriptor, InHand, NoneLost, Live
<1>4. CASE Irq!Disarm
  BY <1>4 DEF Irq!Disarm, IrqInv, IrqType, OwnDescriptor, ListRight, InHand, NoneLost, Live
<1>5. CASE Irq!CloseAndFree
  <2>1. /\ irq' = [irq EXCEPT ![gone] = None] /\ Irq!Return
        /\ open' = [open EXCEPT ![irq[gone].fd] = None]
        /\ watched' = [watched EXCEPT ![irq[gone].fd] = None]
    BY <1>5 DEF Irq!CloseAndFree, Irq!Closed
  <2>2. IrqType' /\ InHand'
    BY <1>1, <2>1 DEF Irq!Return, IrqInv, IrqType, InHand
  <2>3. \A c \in Irqs : Live(c)' => c # gone /\ Live(c) /\ irq'[c] = irq[c] /\ irq[c].fd # irq[gone].fd /\ irq[c].fd \in Fds
    BY <1>1, <2>1, IrqTypes DEF IrqInv, IrqType, OwnDescriptor, Live
  <2>4. OwnDescriptor'
    BY <2>1, <2>3 DEF IrqInv, IrqType, OwnDescriptor
  <2>5. ListRight'
    <3>1. ASSUME NEW x \in 1..Len(list)
          PROVE  /\ Live(list[x])' /\ irq'[list[x]] = irq[list[x]]
                 /\ watched'[irq[list[x]].fd] = watched[irq[list[x]].fd]
      <4>1. /\ list[x] \in Irqs /\ list[x] # gone /\ Live(list[x])
            /\ irq[list[x]].fd # irq[gone].fd /\ irq[list[x]].fd \in Fds
            /\ list'[x] = list[x]
        BY <1>1, <1>2
      <4>2. irq'[list[x]] = irq[list[x]]
        BY <2>1, <4>1 DEF IrqInv, IrqType
      <4>3. watched'[irq[list[x]].fd] = watched[irq[list[x]].fd]
        BY <2>1, <4>1 DEF IrqInv, IrqType
      <4> QED
        BY <1>1, <4>1, <4>2, <4>3 DEF Live
    <3> QED
      BY <1>1, <1>2, <2>1, <3>1 DEF IrqInv, ListRight, Irq!Return
  <2>6. NoneLost'
    <3> SUFFICES ASSUME NEW f \in Fds, open'[f] # None
                 PROVE  \E c \in Irqs : Live(c)' /\ irq'[c].fd = f
      BY DEF NoneLost
    <3>1. open[f] # None /\ f # irq[gone].fd /\ f # new
      BY <1>1, <2>1 DEF IrqInv, IrqType
    <3>2. PICK c \in Irqs : Live(c) /\ irq[c].fd = f
      BY <3>1 DEF IrqInv, NoneLost
    <3> QED
      BY <2>1, <3>1, <3>2 DEF IrqInv, IrqType, Live
  <2> QED
    BY <2>2, <2>4, <2>5, <2>6 DEF IrqInv
<1> QED
  BY <1>3, <1>4, <1>5

LEMMA IrqStep == IrqInv /\ [Irq!Next]_(Irq!vars) => IrqInv'
<1>1. ASSUME IrqInv, (\E g \in Gpios : Irq!Interrupt(g)) \/ Irq!IrqThread \/ UNCHANGED Irq!vars PROVE IrqInv'
  <2>1. UNCHANGED <<open, watched, irq, list, at, gpio, new, gone>>
    BY <1>1 DEF Irq!Interrupt, Irq!IrqThread, Irq!Fetch, Irq!Read, Irq!Call, Irq!NextEvent, Irq!locals, Irq!vars
  <2> QED
    BY <1>1, <2>1 DEF IrqInv, IrqType, OwnDescriptor, ListRight, InHand, NoneLost, Live
<1> QED
  BY <1>1, RequestIrq, OpenIrq, AddIrq, ListIrq, UnlistIrq, FreeIrq DEF Irq!Next

\* The requesting thread, the interrupt thread and the calls that fail keep the
\* list, the contexts, the descriptors and the epoll set together.
THEOREM IrqInvariance == Irq!Spec => []IrqInv
  BY IrqInit, IrqStep, PTL DEF Irq!Spec

LEMMA IrqInvListed == IrqInv => ListedWatched
<1> SUFFICES ASSUME IrqInv PROVE ListedWatched
  OBVIOUS
<1>1. ASSUME NEW x \in DOMAIN list, NEW y \in DOMAIN list, y # x
      PROVE  irq[list[y]].fd # irq[list[x]].fd
  BY <1>1, IrqTypes DEF IrqInv, ListRight, OwnDescriptor
<1> QED
  BY <1>1, IrqTypes DEF IrqInv, ListRight, OwnDescriptor, NoneLost, ListedWatched, Irq!ListedWatched, Live

\* Whatever calls of request_gpio_irq() failed and however requests and frees
\* follow each other, every context in the list exists, with an open descriptor
\* of its gpio that the epoll set gives its events to and no other context has,
\* and no descriptor stays open that nobody has.
THEOREM ListStaysWatched == MCSpec => []ListedWatched
<1>1. MCInit => Irq!Init
  BY DEF MCInit
<1>2. [MCNext]_MCvars => [Irq!Next]_(Irq!vars)
  BY DEF MCNext, MCvars, irqVars, Irq!vars, Irq!locals
<1> QED
  BY <1>1, <1>2, IrqInvariance, IrqInvListed, PTL DEF MCSpec, Irq!Spec

-----------------------------------------------------------------------------
(* The GPIO pins *)

\* What a call may have left to do.
Underway(c, left) ==
  \/ left = <<>>
  \/ \E d \in {"in", "out"} :
       /\ c = <<"request", d>>
       /\ left \in {Pins!Request(d), << <<"export", 0>>, <<"direction", d>> >>, << <<"direction", d>> >>}
  \/ \E v \in {0, 1} : c = <<"output", v>> /\ left \in {Pins!Output(v), Pins!SetValue(v)}
  \/ \E v \in {0, 1} : c = <<"set", v>> /\ left = Pins!SetValue(v)
  \/ c = <<"input", 0>> /\ left \in {Pins!Input, Pins!GetValue}
  \/ c = <<"get", 0>> /\ left = Pins!GetValue

Calls == {Pins!NoCall, <<"input", 0>>, <<"get", 0>>}
           \cup ({"request"} \X {"in", "out"}) \cup ({"output", "set"} \X {0, 1})

PinType ==
  /\ exported \in BOOLEAN /\ direction \in {"in", "out"} /\ level \in {0, 1}
  /\ asked \in [Threads -> Calls]
  /\ DOMAIN steps = Threads /\ \A t \in Threads : Underway(asked[t], steps[t])
  /\ value \in [Threads -> {-1, 0, 1}] /\ disturbed \in [Threads -> BOOLEAN]

\* What a call has done so far stands, if it has not failed and was not disturbed.
Holds(t) ==
  LET op == asked[t][1]
      arg == asked[t][2]
      left == steps[t]
  IN  /\ left = <<>> /\ value[t] # -1 /\ asked[t] # Pins!NoCall =>
           /\ exported
           /\ op = "request" => direction = arg
           /\ op = "input" => direction = "in"
           /\ op \in {"output", "set"} => direction = "out" /\ level = arg
           /\ op = "get" /\ direction = "out" => level = value[t]
      /\ op = "input" /\ left = Pins!GetValue => direction = "in"

PinInv ==
  /\ PinType
  /\ \A t \in Threads : ~disturbed[t] => Holds(t)

LEMMA Tuples ==
  ASSUME NEW a, NEW b
  PROVE  /\ <<a>> # << >> /\ <<a, b>> # << >> /\ <<a>> # <<a, b>>
         /\ Head(<<a>>) = a /\ Tail(<<a>>) = << >>
         /\ Head(<<a, b>>) = a /\ Tail(<<a, b>>) = <<b>>
         /\ <<a>> \o <<b>> = <<a, b>>
<1>1. <<a>> # << >> /\ <<a, b>> # << >> /\ <<a>> # <<a, b>>
  OBVIOUS
<1>2. Head(<<a>>) = a /\ Head(<<a, b>>) = a
  OBVIOUS
<1>3. Tail(<<a>>) = << >>
  OBVIOUS
<1>4. Tail(<<a, b>>) = <<b>>
  <2> DEFINE S == {a, b}
             s == <<a, b>>
  <2>1. s \in Seq(S) /\ Len(s) = 2 /\ s # << >> /\ s[2] = b
    OBVIOUS
  <2>2. Tail(s) \in Seq(S) /\ Len(Tail(s)) = 1 /\ Tail(s)[1] = b
    BY <2>1, HeadTailProperties
  <2>3. <<b>> \in Seq(S) /\ Len(<<b>>) = 1 /\ <<b>>[1] = b
    OBVIOUS
  <2> QED
    BY <2>2, <2>3, SeqEqual
<1>5. <<a>> \o <<b>> = <<a, b>>
  <2> DEFINE S == {a, b}
  <2>1. <<a>> \in Seq(S) /\ <<b>> \in Seq(S) /\ Len(<<a>>) = 1 /\ Len(<<b>>) = 1
    OBVIOUS
  <2>2. /\ <<a>> \o <<b>> \in Seq(S) /\ Len(<<a>> \o <<b>>) = 2
        /\ (<<a>> \o <<b>>)[1] = a /\ (<<a>> \o <<b>>)[2] = b
    BY <2>1, ConcatProperties
  <2>3. <<a, b>> \in Seq(S) /\ Len(<<a, b>>) = 2
    OBVIOUS
  <2> QED
    <3> DEFINE u == <<a>> \o <<b>>
               w == <<a, b>>
    <3>1. u \in Seq(S) /\ w \in Seq(S) /\ Len(u) = Len(w) /\ \A i \in 1..Len(u) : u[i] = w[i]
      BY <2>2, <2>3
    <3> HIDE DEF u, w
    <3>2. u = w
      BY <3>1, SeqEqual
    <3> QED
      BY <3>2 DEF u, w
<1> QED
  BY <1>1, <1>2, <1>3, <1>4, <1>5

\* What there is to do names the access, and what is left after it.
LEMMA PinSteps ==
  ASSUME PinInv, NEW t \in Threads
  PROVE  /\ asked[t] = Pins!NoCall => steps[t] = <<>>
         /\ Pins!At(t, "check") => \E d \in {"in", "out"} :
              /\ asked[t] = <<"request", d>>
              /\ Tail(steps[t]) = << <<"direction", d>> >>
         /\ Pins!At(t, "export") => \E d \in {"in", "out"} :
              /\ asked[t] = <<"request", d>>
              /\ Tail(steps[t]) = << <<"direction", d>> >>
         /\ Pins!At(t, "direction") =>
              \/ \E d \in {"in", "out"} :
                   asked[t] = <<"request", d>> /\ Pins!Argument(t) = d /\ Tail(steps[t]) = <<>>
              \/ \E v \in {0, 1} :
                   asked[t] = <<"output", v>> /\ Pins!Argument(t) = "out" /\ Tail(steps[t]) = Pins!SetValue(v)
              \/ asked[t] = <<"input", 0>> /\ Pins!Argument(t) = "in" /\ Tail(steps[t]) = Pins!GetValue
         /\ Pins!At(t, "value") => \E v \in {0, 1} :
              asked[t] \in {<<"output", v>>, <<"set", v>>} /\ Pins!Argument(t) = v /\ Tail(steps[t]) = <<>>
         /\ Pins!At(t, "read") =>
              asked[t] \in {<<"input", 0>>, <<"get", 0>>} /\ Tail(steps[t]) = <<>> /\ steps[t] = Pins!GetValue
<1>1. Underway(asked[t], steps[t])
  BY DEF PinInv, PinType
<1>2. CASE steps[t] = <<>>
  BY <1>2 DEF Pins!At
<1>3. ASSUME NEW d \in {"in", "out"}, asked[t] = <<"request", d>>,
             steps[t] \in {Pins!Request(d), << <<"export", 0>>, <<"direction", d>> >>}
      PROVE  Head(steps[t]) \in {<<"check", 0>>, <<"export", 0>>} /\ Tail(steps[t]) = << <<"direction", d>> >>
<2>1. CASE steps[t] = Pins!Request(d)
  BY <2>1, Tuples DEF Pins!Request
<2>2. CASE steps[t] = << <<"export", 0>>, <<"direction", d>> >>
  BY <2>2, Tuples
<2> QED
  BY <1>3, <2>1, <2>2
<1>4. ASSUME NEW d \in {"in", "out"}, asked[t] = <<"request", d>>, steps[t] = << <<"direction", d>> >>
      PROVE  Head(steps[t]) = <<"direction", d>> /\ Tail(steps[t]) = <<>>
  BY <1>4, Tuples
<1>5. ASSUME NEW v \in {0, 1}, steps[t] = Pins!Output(v)
      PROVE  Head(steps[t]) = <<"direction", "out">> /\ Tail(steps[t]) = Pins!SetValue(v)
  BY <1>5, Tuples DEF Pins!Output, Pins!SetValue
<1>6. ASSUME NEW v \in {0, 1}, steps[t] = Pins!SetValue(v)
      PROVE  Head(steps[t]) = <<"value", v>> /\ Tail(steps[t]) = <<>>
  BY <1>6, Tuples DEF Pins!SetValue
<1>7. ASSUME steps[t] = Pins!Input
      PROVE  Head(steps[t]) = <<"direction", "in">> /\ Tail(steps[t]) = Pins!GetValue
  BY <1>7, Tuples DEF Pins!Input, Pins!GetValue
<1>8. ASSUME steps[t] = Pins!GetValue
      PROVE  Head(steps[t]) = <<"read", 0>> /\ Tail(steps[t]) = <<>>
  BY <1>8, Tuples DEF Pins!GetValue
<1>9. CASE \E d \in {"in", "out"} :
       /\ asked[t] = <<"request", d>>
       /\ steps[t] \in {Pins!Request(d), << <<"export", 0>>, <<"direction", d>> >>}
  BY <1>3, <1>9 DEF Pins!At, Pins!Argument, Pins!NoCall
<1>10. CASE \E d \in {"in", "out"} : asked[t] = <<"request", d>> /\ steps[t] = << <<"direction", d>> >>
  BY <1>4, <1>10 DEF Pins!At, Pins!Argument, Pins!NoCall
<1>11. CASE \E v \in {0, 1} : asked[t] = <<"output", v>> /\ steps[t] = Pins!Output(v)
  BY <1>5, <1>11 DEF Pins!At, Pins!Argument, Pins!NoCall
<1>12. CASE \E v \in {0, 1} : asked[t] \in {<<"output", v>>, <<"set", v>>} /\ steps[t] = Pins!SetValue(v)
  BY <1>6, <1>12 DEF Pins!At, Pins!Argument, Pins!NoCall
<1>13. CASE asked[t] = <<"input", 0>> /\ steps[t] = Pins!Input
  BY <1>7, <1>13 DEF Pins!At, Pins!Argument, Pins!NoCall
<1>14. CASE asked[t] \in {<<"input", 0>>, <<"get", 0>>} /\ steps[t] = Pins!GetValue
  BY <1>8, <1>14 DEF Pins!At, Pins!Argument, Pins!NoCall
<1> QED
  BY <1>1, <1>2, <1>9, <1>10, <1>11, <1>12, <1>13, <1>14 DEF Underway

LEMMA PinInit == Pins!Init => PinInv
  BY Tuples DEF Pins!Init, PinInv, PinType, Underway, Calls, Pins!NoCall, Holds, Pins!GetValue

\* The thread that moves is the one whose call has to be looked at: what it does
\* to the pin disturbs the others' calls.
LEMMA OthersHold ==
  ASSUME PinInv, NEW t \in Threads, PinType',
         exported => exported',
         \A s \in Threads \ {t} : asked'[s] = asked[s] /\ steps'[s] = steps[s] /\ value'[s] = value[s],
         \A s \in Threads \ {t} : disturbed[s] => disturbed'[s],
         UNCHANGED <<direction, level>> \/ \A s \in Threads \ {t} : disturbed'[s],
         (~disturbed[t] => Holds(t))'
  PROVE  PinInv'
<1> SUFFICES ASSUME NEW s \in Threads \ {t}, ~disturbed'[s]
             PROVE  Holds(s)'
  BY DEF PinInv
<1>1. Holds(s) /\ UNCHANGED <<direction, level, asked[s], steps[s], value[s]>>
  BY DEF PinInv
<1> QED
  BY <1>1 DEF Holds

\* Types after a step of t that leaves its call as it is.
LEMMA AccessType ==
  ASSUME PinInv, NEW t \in Threads, NEW left,
         Underway(asked[t], left), steps' = [steps EXCEPT ![t] = left], UNCHANGED asked,
         exported' \in BOOLEAN, direction' \in {"in", "out"}, level' \in {0, 1},
         value' \in [Threads -> {-1, 0, 1}], disturbed' \in [Threads -> BOOLEAN]
  PROVE  PinType' /\ steps'[t] = left
<1>1. \A s \in Threads : Underway(asked'[s], steps'[s])
  BY DEF PinInv, PinType
<1> QED
  BY <1>1 DEF PinInv, PinType

LEMMA GiveUpKeeps ==
  ASSUME PinInv, NEW t \in Threads, Pins!GiveUp(t), exported => exported', exported' \in BOOLEAN,
         UNCHANGED <<direction, level>>
  PROVE  PinInv'
<1>1. PinType'
  <2>1. value' \in [Threads -> {-1, 0, 1}]
    BY DEF Pins!GiveUp, PinInv, PinType
  <2> QED
    BY <2>1, AccessType DEF Pins!GiveUp, PinInv, PinType, Underway
<1>2. value'[t] = -1
  BY DEF Pins!GiveUp, PinInv, PinType
<1>3. Holds(t)'
  BY <1>2, Tuples DEF Holds, Pins!GiveUp, Pins!GetValue, PinInv, PinType
<1> QED
  BY <1>1, <1>3, OthersHold DEF Pins!GiveUp, PinInv, PinType

LEMMA CallStep ==
  ASSUME PinInv, NEW t \in Threads, Pins!Call(t)
  PROVE  PinInv'
<1>1. ASSUME NEW op, NEW arg, NEW left, Pins!Begin(t, op, arg, left),
             <<op, arg>> \in Calls, Underway(<<op, arg>>, left), left # <<>>, left # Pins!GetValue \/ op = "get"
      PROVE  PinInv'
  <2>1. /\ asked'[t] = <<op, arg>> /\ steps'[t] = left
        /\ \A s \in Threads \ {t} : asked'[s] = asked[s] /\ steps'[s] = steps[s]
                                   /\ value'[s] = value[s] /\ disturbed'[s] = disturbed[s]
    BY <1>1 DEF Pins!Begin, PinInv, PinType
  <2>2. PinType'
    <3>1. \A s \in Threads : Underway(asked'[s], steps'[s])
      BY <1>1, <2>1 DEF PinInv, PinType
    <3> QED
      BY <1>1, <3>1 DEF Pins!Begin, Pins!pin, PinInv, PinType
  <2> QED
    BY <1>1, <2>1, <2>2, OthersHold DEF Pins!Begin, Pins!pin, Holds
<1>2. \A d : Pins!Request(d) # <<>> /\ Pins!Request(d) # Pins!GetValue
  BY Tuples DEF Pins!Request, Pins!GetValue
<1>3. \A v : Pins!Output(v) # <<>> /\ Pins!Output(v) # Pins!GetValue
  BY Tuples DEF Pins!Output, Pins!GetValue
<1>4. \A v : Pins!SetValue(v) # <<>> /\ Pins!SetValue(v) # Pins!GetValue
  BY Tuples DEF Pins!SetValue, Pins!GetValue
<1>5. Pins!Input # <<>> /\ Pins!Input # Pins!GetValue /\ Pins!GetValue # <<>>
  BY Tuples DEF Pins!Input, Pins!GetValue
<1>6. CASE \E d \in {"in", "out"} : Pins!Begin(t, "request", d, Pins!Request(d))
  BY <1>1, <1>2, <1>6 DEF Calls, Underway
<1>7. CASE \E v \in {0, 1} : Pins!Begin(t, "output", v, Pins!Output(v)) \/ Pins!Begin(t, "set", v, Pins!SetValue(v))
  BY <1>1, <1>3, <1>4, <1>7 DEF Calls, Underway
<1>8. CASE Pins!Begin(t, "input", 0, Pins!Input) \/ Pins!Begin(t, "get", 0, Pins!GetValue)
  BY <1>1, <1>5, <1>8 DEF Calls, Underway
<1> QED
  BY <1>6, <1>7, <1>8 DEF Pins!Call

LEMMA CheckStep == ASSUME PinInv, NEW t \in Threads, Pins!Check(t) PROVE PinInv'
<1>1. PICK d \in {"in", "out"} : asked[t] = <<"request", d>> /\ Tail(steps[t]) = << <<"direction", d>> >>
  BY PinSteps DEF Pins!Check
<1> DEFINE left == IF exported THEN Tail(steps[t]) ELSE << <<"export", 0>> >> \o Tail(steps[t])
<1>2. /\ left \in {<< <<"export", 0>>, <<"direction", d>> >>, << <<"direction", d>> >>}
      /\ left # <<>> /\ (asked[t][1] # "input")
  <2>1. << <<"export", 0>> >> \o << <<"direction", d>> >> = << <<"export", 0>>, <<"direction", d>> >>
    BY Tuples
  <2>2. << <<"export", 0>>, <<"direction", d>> >> # <<>> /\ << <<"direction", d>> >> # <<>>
    BY Tuples
  <2>3. CASE exported
    BY <1>1, <2>2, <2>3
  <2>4. CASE ~exported
    <3>1. left = << <<"export", 0>> >> \o << <<"direction", d>> >>
      BY <1>1, <2>4, Zenon
    <3>2. left = << <<"export", 0>>, <<"direction", d>> >>
      BY <2>1, <3>1, Zenon
    <3> HIDE DEF left
    <3> QED
      BY <1>1, <2>2, <3>2
  <2> QED
    BY <2>3, <2>4
<1>3. steps' = [steps EXCEPT ![t] = left] /\ UNCHANGED <<exported, direction, level, asked, value, disturbed>>
  BY DEF Pins!Check, Pins!pin
<1> HIDE DEF left
<1>4. PinType' /\ steps'[t] = left
  BY <1>1, <1>2, <1>3, AccessType DEF Underway, PinInv, PinType
<1>5. \A s \in Threads \ {t} : steps'[s] = steps[s]
  BY <1>3 DEF PinInv, PinType
<1>6. Holds(t)'
  BY <1>1, <1>2, <1>3, <1>4 DEF Holds
<1> QED
  BY <1>3, <1>4, <1>5, <1>6, OthersHold

\* A step of t that ends with `left' to do, with what it leaves unchanged for it.
LEMMA DoneKeeps ==
  ASSUME PinInv, NEW t \in Threads, Pins!Done(t), Underway(asked[t], Tail(steps[t])),
         exported => exported', exported' \in BOOLEAN, direction' \in {"in", "out"}, level' \in {0, 1},
         Pins!Disturb(t) \/ UNCHANGED <<direction, level, disturbed>>,
         steps'[t] = Tail(steps[t]) => (~disturbed[t] => Holds(t))'
  PROVE  PinInv'
<1>1. disturbed' \in [Threads -> BOOLEAN] /\ \A s \in Threads : disturbed[s] => disturbed'[s]
  BY DEF Pins!Disturb, PinInv, PinType
<1>2. UNCHANGED <<direction, level>> \/ \A s \in Threads \ {t} : disturbed'[s]
  BY DEF Pins!Disturb
<1>3. \A s \in Threads \ {t} : steps'[s] = steps[s]
  BY DEF Pins!Done, PinInv, PinType
<1>4. PinType' /\ steps'[t] = Tail(steps[t])
  BY <1>1, AccessType DEF Pins!Done, PinInv, PinType
<1> QED
  BY <1>1, <1>2, <1>3, <1>4, OthersHold DEF Pins!Done

LEMMA ExportStep == ASSUME PinInv, NEW t \in Threads, Pins!Export(t) PROVE PinInv'
<1>1. PICK d \in {"in", "out"} : asked[t] = <<"request", d>> /\ Tail(steps[t]) = << <<"direction", d>> >>
  BY PinSteps DEF Pins!Export
<1>2. CASE Pins!GiveUp(t) /\ UNCHANGED <<direction, level>> /\ exported' \in BOOLEAN /\ (exported => exported')
  BY <1>2, GiveUpKeeps
<1>3. CASE Pins!Done(t) /\ exported' = TRUE /\ UNCHANGED <<direction, level, disturbed>>
  <2>1. Underway(asked[t], Tail(steps[t])) /\ Tail(steps[t]) # <<>>
    BY <1>1, Tuples DEF Underway
  <2>2. steps'[t] = Tail(steps[t]) => Holds(t)'
    BY <1>1, <1>3, <2>1 DEF Holds, Pins!Done
  <2> QED
    BY <1>3, <2>1, <2>2, DoneKeeps DEF PinInv, PinType
<1>4. exported \in BOOLEAN
  BY DEF PinInv, PinType
<1>5. CASE ~exported /\ exported' = TRUE /\ ((Pins!Done(t) /\ UNCHANGED disturbed) \/ Pins!GiveUp(t)) /\ UNCHANGED <<direction, level>>
  BY <1>2, <1>3, <1>4, <1>5
<1>6. CASE Pins!Broken(t)
  BY <1>2, <1>4, <1>6 DEF Pins!Broken, Pins!pin
<1> QED
  BY <1>5, <1>6 DEF Pins!Export

LEMMA DirectionStep == ASSUME PinInv, NEW t \in Threads, Pins!SetDirection(t) PROVE PinInv'
<1>1. CASE Pins!Broken(t)
  BY <1>1, GiveUpKeeps DEF Pins!Broken, Pins!pin, PinInv, PinType
<1>2. CASE /\ exported /\ direction' = Pins!Argument(t)
           /\ level' = IF direction' = "out" THEN 0 ELSE level
           /\ Pins!Done(t) /\ Pins!Disturb(t) /\ UNCHANGED exported
  <2>1. \/ \E d \in {"in", "out"} :
             asked[t] = <<"request", d>> /\ Pins!Argument(t) = d /\ Tail(steps[t]) = <<>>
        \/ \E v \in {0, 1} :
             asked[t] = <<"output", v>> /\ Pins!Argument(t) = "out" /\ Tail(steps[t]) = Pins!SetValue(v)
        \/ asked[t] = <<"input", 0>> /\ Pins!Argument(t) = "in" /\ Tail(steps[t]) = Pins!GetValue
    BY PinSteps DEF Pins!SetDirection
  <2>2. Underway(asked[t], Tail(steps[t])) /\ Pins!Argument(t) \in {"in", "out"}
    BY <2>1 DEF Underway
  <2>3. steps'[t] = Tail(steps[t]) => Holds(t)'
    <3> SUFFICES ASSUME steps'[t] = Tail(steps[t]) PROVE Holds(t)'
      OBVIOUS
    <3>1. asked' = asked /\ (\A v : Pins!SetValue(v) # <<>> /\ Pins!SetValue(v) # Pins!GetValue) /\ Pins!GetValue # <<>>
      BY <1>2, Tuples DEF Pins!Done, Pins!SetValue, Pins!GetValue
    <3>2. ASSUME NEW d \in {"in", "out"}, asked[t] = <<"request", d>>, Pins!Argument(t) = d, Tail(steps[t]) = <<>>
          PROVE  Holds(t)'
      <4>1. asked'[t] = <<"request", d>> /\ direction' = d /\ exported' /\ steps'[t] = <<>>
        BY <1>2, <3>1, <3>2
      <4> QED
        BY <4>1 DEF Holds
    <3>3. ASSUME NEW v \in {0, 1}, asked[t] = <<"output", v>>, Tail(steps[t]) = Pins!SetValue(v)
          PROVE  Holds(t)'
      <4>1. asked'[t] = <<"output", v>> /\ steps'[t] # <<>>
        BY <3>1, <3>3
      <4> QED
        BY <4>1 DEF Holds
    <3>4. ASSUME asked[t] = <<"input", 0>>, Pins!Argument(t) = "in", Tail(steps[t]) = Pins!GetValue
          PROVE  Holds(t)'
      <4>1. direction' = "in" /\ steps'[t] # <<>>
        BY <1>2, <3>1, <3>4
      <4> QED
        BY <4>1 DEF Holds
    <3> QED
      BY <2>1, <3>2, <3>3, <3>4
  <2> QED
    BY <1>2, <2>2, <2>3, DoneKeeps DEF PinInv, PinType
<1> QED
  BY <1>1, <1>2 DEF Pins!SetDirection

LEMMA SetStep == ASSUME PinInv, NEW t \in Threads, Pins!Set(t) PROVE PinInv'
<1>1. CASE Pins!Broken(t)
  BY <1>1, GiveUpKeeps DEF Pins!Broken, Pins!pin, PinInv, PinType
<1>2. CASE /\ exported /\ direction = "out" /\ level' = Pins!Argument(t)
           /\ Pins!Done(t) /\ Pins!Disturb(t) /\ UNCHANGED <<exported, direction>>
  <2>1. PICK v \in {0, 1} :
          asked[t] \in {<<"output", v>>, <<"set", v>>} /\ Pins!Argument(t) = v /\ Tail(steps[t]) = <<>>
    BY PinSteps DEF Pins!Set
  <2>2. Underway(asked[t], Tail(steps[t]))
    BY <2>1 DEF Underway
  <2>3. steps'[t] = Tail(steps[t]) => Holds(t)'
    BY <1>2, <2>1, Tuples DEF Holds, Pins!Done, Pins!GetValue
  <2> QED
    BY <1>2, <2>1, <2>2, <2>3, DoneKeeps DEF PinInv, PinType
<1> QED
  BY <1>1, <1>2 DEF Pins!Set

LEMMA GetStep == ASSUME PinInv, NEW t \in Threads, Pins!Get(t) PROVE PinInv'
<1>1. CASE Pins!Broken(t)
  BY <1>1, GiveUpKeeps DEF Pins!Broken, Pins!pin, PinInv, PinType
<1>2. CASE /\ exported /\ value' = [value EXCEPT ![t] = level]
           /\ steps' = [steps EXCEPT ![t] = Tail(@)] /\ UNCHANGED <<Pins!pin, asked, disturbed>>
  <2>1. /\ asked[t] \in {<<"input", 0>>, <<"get", 0>>}
        /\ Tail(steps[t]) = <<>> /\ steps[t] = Pins!GetValue
    BY PinSteps DEF Pins!Get
  <2>2. UNCHANGED <<exported, direction, level, asked, disturbed>>
    BY <1>2 DEF Pins!pin
  <2>3. value' \in [Threads -> {-1, 0, 1}] /\ value'[t] = level
        /\ \A s \in Threads \ {t} : value'[s] = value[s] /\ steps'[s] = steps[s]
    BY <1>2 DEF PinInv, PinType
  <2>4. PinType' /\ steps'[t] = <<>>
    BY <1>2, <2>1, <2>2, <2>3, AccessType DEF PinInv, PinType, Underway
  <2>5. ~disturbed[t] /\ asked[t] = <<"input", 0>> => direction = "in"
    BY <2>1 DEF PinInv, Holds, Pins!NoCall
  <2>6. ~disturbed[t] => Holds(t)'
    BY <1>2, <2>1, <2>2, <2>3, <2>4, <2>5, Tuples DEF Holds, Pins!GetValue
  <2> QED
    BY <1>2, <2>2, <2>3, <2>4, <2>6, OthersHold
<1> QED
  BY <1>1, <1>2 DEF Pins!Get

LEMMA OutsideStep == ASSUME PinInv, Pins!Outside PROVE PinInv'
<1>1. PinType'
  BY DEF Pins!Outside, PinInv, PinType
<1>2. ASSUME NEW t \in Threads, ~disturbed'[t] PROVE Holds(t)'
  BY <1>2 DEF Pins!Outside, PinInv, PinType, Holds
<1> QED
  BY <1>1, <1>2 DEF PinInv

LEMMA PinStep == PinInv /\ [Pins!Next]_(Pins!vars) => PinInv'
<1>1. CASE UNCHANGED Pins!vars
  BY <1>1 DEF Pins!vars, Pins!pin, PinInv, PinType, Holds
<1> QED
  BY <1>1, CallStep, CheckStep, ExportStep, DirectionStep, SetStep, GetStep, OutsideStep DEF Pins!Next

\* Each call has done what it has done so far, whatever the others do meanwhile,
\* unless it is told that it was disturbed.
THEOREM PinInvariance == Pins!Init /\ [][Pins!Next]_(Pins!vars) => []PinInv
  BY PinInit, PinStep, PTL

LEMMA PinInvEffective == PinInv => Effective
  BY DEF PinInv, Holds, Effective, Pins!Effective

\* A call of the GPIO library that succeeds has had its effect, whatever files
\* could not be written or read before and with any number of threads at the
\* pin: only a write of another thread takes it back.
THEOREM CallsTakeEffect == MCSpec => []Effective
<1>1. MCInit => Pins!Init
  BY DEF MCInit
<1>2. [MCNext]_MCvars => [Pins!Next]_(Pins!vars)
  BY DEF MCNext, MCvars, pinVars, Pins!vars, Pins!pin
<1> QED
  BY <1>1, <1>2, PinInvariance, PinInvEffective, PTL DEF MCSpec

-----------------------------------------------------------------------------
(* The bit-banged I2C *)

WriteCalls ==
  [op : {"write"}, bytes : {<<dev, reg, data>> : dev \in {v \in Bits!Byte : v[W] = 0},
                                                 reg \in Bits!Byte, data \in Bits!Byte}]
ReadCalls ==
  [op : {"read"}, bytes : {<<dev, reg>> : dev \in {v \in Bits!Byte : v[W] = 0}, reg \in Bits!Byte},
   size : 1..MaxRead]

SlaveType ==
  [st : {"idle", "recv", "ack", "send", "acked"}, first : BOOLEAN, bits : Seq({0, 1}),
   sda : BOOLEAN, scl : BOOLEAN, got : Seq(Seq({0, 1})), sent : Seq(Bits!Byte),
   starts : Nat, stops : Nat]

Fns ==
  {"none", "start", "send", "answer", "recv", "take", "sendack", "stop", "toggle", "check", "done"}
Place == [fn : Fns, byte : Nat, bit : Nat, step : Nat]

BitsType ==
  /\ call \in {None, [op |-> "restore"]} \cup WriteCalls \cup ReadCalls
  /\ place \in Place
  /\ sda \in {"hi", "lo", "in"} /\ scl \in {"hi", "lo", "in"}
  /\ dat \in Seq({0, 1}) /\ buf \in Seq(Bits!Byte) /\ ret \in {-1, 0}
  /\ slave \in SlaveType

\* What the slave took of the bytes to send, and took or still sends of the bits.
Out == Bits!Outgoing(call)
Took(k) == Len(slave.got) = k /\ \A i \in 1..k : slave.got[i] = Out[i]
TookBits(k) == Len(slave.bits) = k /\ \A i \in 1..k : slave.bits[i] = Out[place.byte][i]
Sending(v, x) ==
  /\ slave.st = "send" /\ slave.sda = (v[x] = 0)
  /\ Len(slave.bits) = W - x /\ \A i \in 1..(W - x) : slave.bits[i] = v[x + i]

\* The second byte after a start is no address.
Addressed == place.byte = 1 \/ (place.byte = 3 /\ call.op = "read")
Starts == IF place.byte = 3 /\ call.op = "read" THEN 2 ELSE 1

\* Before the slave has sent anything
Writing ==
  /\ call \in WriteCalls \cup ReadCalls
  /\ dat = <<>> /\ buf = <<>> /\ slave.sent = <<>> /\ slave.stops = 0

\* The clock at each step of a turn: driven low, let go from one step on, then
\* driven high, which it is only when the slave holds it no more.
ClockAt(letgo, high) ==
  /\ scl = (IF place.step < letgo THEN "lo" ELSE IF place.step < high THEN "in" ELSE "hi")
  /\ place.step >= high => ~slave.scl

AtNone ==
  /\ place = Bits!At("none", 1, 1) /\ sda = "in" /\ scl = "in" /\ ret = 0
  /\ dat = <<>> /\ buf = <<>> /\ ~slave.scl /\ slave.got = <<>> /\ slave.sent = <<>>
  /\ slave.starts = 0 /\ slave.stops = 0
  /\ \/ slave.st = "idle" /\ ~slave.sda
     \/ slave.sda /\ slave.st = "ack" /\ slave.bits \in Bits!Byte
     \/ slave.sda /\ slave.st = "send" /\ Len(slave.bits) < W

AtStart ==
  /\ Writing /\ ret = 0 /\ ~slave.sda /\ place.step \in 1..4
  /\ place.byte = 1 \/ (place.byte = 3 /\ call.op = "read")
  /\ Took(place.byte - 1)
  /\ slave.starts = (IF place.step = 4 THEN Starts ELSE Starts - 1)
  /\ IF place.step = 1 THEN scl \in {"lo", "in"} ELSE scl = "hi" /\ ~slave.scl
  /\ sda = (IF place.step <= 2 THEN "in" ELSE IF place.step = 3 THEN "hi" ELSE "lo")
  /\ place.step = 4 => slave.st = "recv" /\ slave.first /\ slave.bits = <<>>

AtSend ==
  /\ Writing /\ ret = 0 /\ ~slave.sda
  /\ place.byte \in 1..3 /\ place.bit \in 1..W /\ place.step \in 1..5
  /\ Took(place.byte - 1) /\ slave.starts = Starts
  /\ slave.st = "recv" /\ slave.first = Addressed
  /\ ClockAt(3, 5)
  /\ place.step > 1 => sda = Bits!Pin(Out[place.byte][place.bit])
  /\ TookBits(IF place.step >= 3 /\ ~slave.scl THEN place.bit ELSE place.bit - 1)

AtAnswer ==
  /\ Writing /\ place.byte \in 1..3 /\ place.step \in 1..6
  /\ Took(place.byte) /\ slave.starts = Starts
  /\ slave.st = "ack" /\ slave.first = Addressed /\ TookBits(W)
  /\ ClockAt(3, 5)
  /\ place.step > 1 => sda = "in"
  /\ ret = (IF place.step = 6 /\ ~slave.sda THEN -1 ELSE 0)

\* While the slave sends
Reading ==
  /\ call \in ReadCalls /\ ret = 0 /\ place.byte \in 1..call.size
  /\ Took(3) /\ slave.starts = 2 /\ slave.stops = 0 /\ Len(slave.sent) = place.byte

\* What was read of the bytes, and of the bits of the byte.
ReadBytes(k) == Len(buf) = k /\ \A i \in 1..k : buf[i] = slave.sent[i]
ReadBits(k) == Len(dat) = k /\ \A i \in 1..k : dat[i] = slave.sent[place.byte][i]

AtRecv ==
  /\ Reading /\ place.step = 1 /\ scl = "lo" /\ Sending(slave.sent[place.byte], 1)
  /\ ReadBytes(place.byte - 1) /\ dat = <<>>

AtTake ==
  /\ Reading /\ place.bit \in 1..W /\ place.step \in 1..5
  /\ sda = "in" /\ ClockAt(2, 4) /\ Sending(slave.sent[place.byte], place.bit)
  /\ IF place.step = 5 /\ place.bit = W
     THEN ReadBytes(place.byte) /\ dat = <<>>
     ELSE /\ ReadBytes(place.byte - 1)
          /\ ReadBits(IF place.step = 5 THEN place.bit ELSE place.bit - 1)

More == IF place.byte < call.size THEN 0 ELSE 1

AtSendAck ==
  /\ Reading /\ place.step \in 1..3 /\ ReadBytes(place.byte) /\ dat = <<>>
  /\ slave.st = "acked" /\ ~slave.sda
  /\ ClockAt(3, 3)
  /\ place.step > 1 => sda = Bits!Pin(More)
  /\ slave.bits = (IF place.step = 3 THEN <<More>> ELSE <<>>)

\* What a transfer has done when it is to be ended.
Moved ==
  /\ call \in WriteCalls \cup ReadCalls /\ ~slave.sda
  /\ \E k \in 0..3 : Took(k) /\ (ret = 0 => k = 3)
  /\ dat = <<>> /\ ReadBytes(Len(slave.sent))
  /\ IF call.op = "write" THEN slave.starts = 1
                          ELSE slave.starts \in 1..2 /\ (ret = 0 => slave.starts = 2)

AtStop ==
  /\ Moved /\ slave.stops = 0 /\ place.step \in 1..3
  /\ ClockAt(3, 3)
  /\ place.step > 1 => sda = "lo"

\* After each turn of the clock a stuck slave has a bit less to send.
Toggled(n) ==
  \/ slave.st = "idle" /\ ~slave.sda
  \/ slave.st = "send" /\ Len(slave.bits) + n <= W

AtToggle ==
  /\ call = [op |-> "restore"] /\ ret = 0
  /\ place.byte \in 1..(W + 1) /\ place.step \in 1..4
  /\ \/ /\ place.step = 1 /\ scl \in {"in", "hi"} /\ sda \in {"in", "hi"} /\ ~slave.scl
        /\ \/ Toggled(place.byte - 1) /\ (slave.st = "send" => slave.sda)
           \/ place.byte = 1 /\ slave.st = "ack" /\ slave.sda /\ slave.bits \in Bits!Byte
           \/ place.byte = 1 /\ slave.st = "send" /\ slave.sda /\ Len(slave.bits) < W
     \/ /\ place.step \in 2..4
        /\ ClockAt(4, 4)
        /\ place.step > 2 => sda = "lo"
        /\ Toggled(place.byte) \/ (slave.st \in {"recv", "acked"} /\ ~slave.sda)

AtCheck ==
  /\ call = [op |-> "restore"] /\ ret = 0
  /\ place.step \in 1..2 /\ scl = "hi" /\ ~slave.scl
  /\ sda \in {"in", "hi"}
  /\ slave.st = "idle" /\ ~slave.sda

AtDone ==
  /\ scl = "hi" /\ ~slave.scl /\ slave.st = "idle" /\ ~slave.sda
  /\ \/ call = [op |-> "restore"] /\ ret = 0
     \/ Moved /\ slave.stops = 1

\* Where the master is, the slave is with it.
InStep ==
  \/ place.fn = "none" /\ AtNone
  \/ place.fn = "start" /\ AtStart
  \/ place.fn = "send" /\ AtSend
  \/ place.fn = "answer" /\ AtAnswer
  \/ place.fn = "recv" /\ AtRecv
  \/ place.fn = "take" /\ AtTake
  \/ place.fn = "sendack" /\ AtSendAck
  \/ place.fn = "stop" /\ AtStop
  \/ place.fn = "toggle" /\ AtToggle
  \/ place.fn = "check" /\ AtCheck
  \/ place.fn = "done" /\ AtDone

BitsInv == ~forced => BitsType /\ InStep

-----------------------------------------------------------------------------
(* What the lines and the slave do *)

LEMMA Levels ==
  /\ Bits!Level("lo", TRUE) = 0 /\ Bits!Level("lo", FALSE) = 0
  /\ Bits!Level("hi", TRUE) = 0 /\ Bits!Level("hi", FALSE) = 1
  /\ Bits!Level("in", TRUE) = 0 /\ Bits!Level("in", FALSE) = 1
  BY DEF Bits!Level

LEMMA PinLevel == ASSUME NEW b \in {0, 1} PROVE Bits!Level(Bits!Pin(b), FALSE) = b
  BY DEF Bits!Level, Bits!Pin

\* Nothing happens for the slave.
LEMMA ReactNone ==
  ASSUME NEW s, NEW c0 \in {0, 1}, NEW d0 \in {0, 1}, NEW d1 \in {0, 1}, c0 = 0 \/ d0 = d1
  PROVE  Bits!Reactions(s, c0, d0, c0, d1) = {s}
  BY DEF Bits!Reactions

LEMMA ReactRise ==
  ASSUME NEW s, NEW d0, NEW d1 PROVE Bits!Reactions(s, 0, d0, 1, d1) = {Bits!Rises(s, d1)}
  BY DEF Bits!Reactions

LEMMA ReactStart ==
  ASSUME NEW s
  PROVE  Bits!Reactions(s, 1, 1, 1, 0) =
           {[s EXCEPT !.st = "recv", !.first = TRUE, !.bits = <<>>, !.starts = @ + 1]}
  BY DEF Bits!Reactions

LEMMA ReactStop ==
  ASSUME NEW s PROVE Bits!Reactions(s, 1, 0, 1, 1) = {[s EXCEPT !.st = "idle", !.stops = @ + 1]}
  BY DEF Bits!Reactions

\* The clock falls: the slave moves on, and may then hold it.
LEMMA ReactFall ==
  ASSUME NEW s, NEW d0, NEW d1, NEW t \in Bits!Reactions(s, 1, d0, 0, d1)
  PROVE  \E u \in Bits!Falls(s) : t \in {u, [u EXCEPT !.scl = TRUE]}
<1>1. t \in UNION {Bits!Stretches(u) : u \in Bits!Falls(s)}
  BY DEF Bits!Reactions
<1>2. PICK u \in Bits!Falls(s) : t \in Bits!Stretches(u)
  BY <1>1
<1> QED
  BY <1>2 DEF Bits!Stretches

\* What the slave does by the place it is at.
LEMMA FallsRecv ==
  ASSUME NEW s, s.st = "recv"
  PROVE  Bits!Falls(s) = IF Len(s.bits) = W THEN Bits!Answers(s) ELSE {s}
  BY DEF Bits!Falls

LEMMA FallsAck ==
  ASSUME NEW s, s.st = "ack"
  PROVE  Bits!Falls(s) =
           IF ~s.sda THEN Bits!Rests(s)
           ELSE IF s.first /\ s.bits[W] = 1 THEN Bits!Sends(s) ELSE Bits!Receives(s)
  BY DEF Bits!Falls

LEMMA FallsSend ==
  ASSUME NEW s, s.st = "send"
  PROVE  Bits!Falls(s) = IF s.bits # <<>> THEN Bits!Shifts(s) ELSE Bits!Listens(s)
  BY DEF Bits!Falls

LEMMA FallsAcked ==
  ASSUME NEW s, s.st = "acked"
  PROVE  Bits!Falls(s) = IF s.bits = << 0 >> THEN Bits!Sends(s) ELSE Bits!Rests(s)
  BY DEF Bits!Falls

LEMMA FallsIdle == ASSUME NEW s, s.st = "idle" PROVE Bits!Falls(s) = {s}
  BY DEF Bits!Falls

LEMMA ByteSeq ==
  ASSUME NEW v \in Bits!Byte
  PROVE  v \in Seq({0, 1}) /\ Len(v) = W /\ v # <<>> /\ \A i \in 1..W : v[i] \in {0, 1}
  BY BitsAssumption DEF Bits!Byte

LEMMA SeqByte ==
  ASSUME NEW s \in Seq({0, 1}), Len(s) = W PROVE s \in Bits!Byte
  BY BitsAssumption DEF Bits!Byte

\* The rest of a byte being sent.
LEMMA TailOf ==
  ASSUME NEW s \in Seq({0, 1}), s # <<>>
  PROVE  /\ Tail(s) \in Seq({0, 1}) /\ Head(s) = s[1] /\ Head(s) \in {0, 1}
         /\ Len(Tail(s)) = Len(s) - 1 /\ \A i \in 1..(Len(s) - 1) : Tail(s)[i] = s[i + 1]
  OBVIOUS

LEMMA RisesIs ==
  ASSUME NEW s \in SlaveType, NEW b \in {0, 1}
  PROVE  /\ Bits!Rises(s, b) \in SlaveType
         /\ Bits!Rises(s, b) = [s EXCEPT !.bits = Bits!Rises(s, b).bits]
         /\ s.st \in {"recv", "acked"} => Bits!Rises(s, b).bits = Append(s.bits, b)
         /\ s.st \notin {"recv", "acked"} => Bits!Rises(s, b) = s
<1>1. CASE s.st \in {"recv", "acked"}
  <2>1. Bits!Rises(s, b) = [s EXCEPT !.bits = Append(s.bits, b)]
    BY <1>1 DEF Bits!Rises
  <2>2. Append(s.bits, b) \in Seq({0, 1})
    BY DEF SlaveType
  <2>3. Bits!Rises(s, b) \in SlaveType /\ Bits!Rises(s, b).bits = Append(s.bits, b)
    BY <2>1, <2>2 DEF SlaveType
  <2> QED
    BY <1>1, <2>1, <2>3
<1>2. CASE s.st \notin {"recv", "acked"}
  <2>1. Bits!Rises(s, b) = s
    BY <1>2 DEF Bits!Rises
  <2>2. s = [s EXCEPT !.bits = s.bits]
    BY DEF SlaveType
  <2> QED
    BY <1>2, <2>1, <2>2
<1> QED
  BY <1>1, <1>2

LEMMA FallsType ==
  ASSUME NEW s \in SlaveType, NEW u \in Bits!Falls(s)
  PROVE  u \in SlaveType /\ [u EXCEPT !.scl = TRUE] \in SlaveType
<1> SUFFICES u \in SlaveType
  BY DEF SlaveType
<1>1. CASE u \in Bits!Answers(s)
  <2>1. PICK a \in BOOLEAN : u = [s EXCEPT !.st = "ack", !.sda = a, !.got = Append(@, s.bits)]
    BY <1>1 DEF Bits!Answers
  <2> DEFINE got == Append(s.got, s.bits)
  <2>2. got \in Seq(Seq({0, 1}))
    BY DEF SlaveType
  <2>3. u = [s EXCEPT !.st = "ack", !.sda = a, !.got = got]
    BY <2>1
  <2> HIDE DEF got
  <2> QED
    BY <2>2, <2>3 DEF SlaveType
<1>2. CASE u \in Bits!Receives(s)
  <2>1. u = [s EXCEPT !.st = "recv", !.first = FALSE, !.bits = <<>>, !.sda = FALSE]
    BY <1>2 DEF Bits!Receives
  <2>2. <<>> \in Seq({0, 1})
    OBVIOUS
  <2> QED
    BY <2>1, <2>2 DEF SlaveType
<1>3. CASE u \in Bits!Sends(s)
  <2>1. PICK v \in Bits!Byte :
          u = [s EXCEPT !.st = "send", !.bits = Tail(v), !.sda = (Head(v) = 0), !.sent = Append(@, v)]
    BY <1>3 DEF Bits!Sends
  <2> DEFINE rest == Tail(v)
             pulls == Head(v) = 0
             sent == Append(s.sent, v)
  <2>2. rest \in Seq({0, 1}) /\ pulls \in BOOLEAN /\ sent \in Seq(Bits!Byte)
    BY ByteSeq, TailOf DEF SlaveType
  <2>3. u = [s EXCEPT !.st = "send", !.bits = rest, !.sda = pulls, !.sent = sent]
    BY <2>1
  <2> HIDE DEF rest, pulls, sent
  <2> QED
    BY <2>2, <2>3 DEF SlaveType
<1>4. CASE s.bits # <<>> /\ u \in Bits!Shifts(s)
  <2>1. Tail(s.bits) \in Seq({0, 1})
    BY <1>4, TailOf DEF SlaveType
  <2> QED
    BY <1>4, <2>1 DEF Bits!Shifts, SlaveType
<1>5. CASE u \in Bits!Listens(s)
  BY <1>5 DEF Bits!Listens, SlaveType
<1>6. CASE u \in Bits!Rests(s)
  BY <1>6 DEF Bits!Rests, SlaveType
<1>7. CASE u = s
  BY <1>7 DEF SlaveType
<1>8. \/ u \in Bits!Answers(s) \/ u \in Bits!Receives(s) \/ u \in Bits!Sends(s)
      \/ s.bits # <<>> /\ u \in Bits!Shifts(s)
      \/ u \in Bits!Listens(s) \/ u \in Bits!Rests(s) \/ u = s
  <2>1. s.st \in {"idle", "recv", "ack", "send", "acked"}
    BY DEF SlaveType
  <2>2. CASE s.st = "recv"
    BY <2>2, FallsRecv
  <2>3. CASE s.st = "ack"
    BY <2>3, FallsAck
  <2>4. CASE s.st = "send"
    BY <2>4, FallsSend
  <2>5. CASE s.st = "acked"
    BY <2>5, FallsAcked
  <2>6. CASE s.st = "idle"
    BY <2>6, FallsIdle
  <2> QED
    BY <2>1, <2>2, <2>3, <2>4, <2>5, <2>6
<1> QED
  BY <1>1, <1>2, <1>3, <1>4, <1>5, <1>6, <1>7, <1>8, Zenon

-----------------------------------------------------------------------------
(* What a pin step does *)

Reacts(c, d) ==
  slave' \in Bits!Reactions(slave, Bits!Scl, Bits!Sda,
                            Bits!Level(c, slave.scl), Bits!Level(d, slave.sda))
SdaTo(v) ==
  /\ sda' = v /\ UNCHANGED <<scl, call, dat, buf, ret>> /\ Reacts(scl, v)
SclTo(v) ==
  /\ scl' = v /\ UNCHANGED <<sda, call, dat, buf, ret>> /\ Reacts(v, sda)
  /\ ~forced' => ~(v = "hi" /\ slave.scl)

LEMMA DoesSda ==
  ASSUME NEW v, Bits!Turn # <<>>, Bits!Turn[place.step] = <<"sda", v>>, Bits!Master
  PROVE  SdaTo(v) /\ Bits!Step
  BY DEF Bits!Master, Bits!SetPin, Bits!Wait, Bits!ReadAck, Bits!ReadBit, Bits!Check, Bits!Doing,
         Bits!SetScl, SdaTo, Reacts

LEMMA DoesScl ==
  ASSUME NEW v, Bits!Turn # <<>>, Bits!Turn[place.step] = <<"scl", v>>, Bits!Master
  PROVE  SclTo(v) /\ Bits!Step
<1>1. /\ scl' = v /\ UNCHANGED <<sda, call, dat, buf, ret>> /\ Bits!Step /\ Reacts(v, sda)
      /\ forced' = (forced \/ (Bits!Turn[place.step] = <<"scl", "hi">> /\ slave.scl))
  BY DEF Bits!Master, Bits!SetPin, Bits!Wait, Bits!ReadAck, Bits!ReadBit, Bits!Check, Bits!Doing,
         Bits!SetScl, Reacts
<1>2. v = "hi" /\ slave.scl => forced'
  BY <1>1
<1> QED
  BY <1>1, <1>2 DEF SclTo

LEMMA DoesOther ==
  ASSUME NEW k \in {"wait", "ack", "bit", "check"}, Bits!Turn # <<>>,
         Bits!Turn[place.step] = <<k>>, Bits!Master
  PROVE  /\ k = "wait" => Bits!Wait
         /\ k = "ack" => Bits!ReadAck
         /\ k = "bit" => Bits!ReadBit
         /\ k = "check" => Bits!Check
  BY DEF Bits!Master, Bits!SetPin, Bits!Wait, Bits!ReadAck, Bits!ReadBit, Bits!Check, Bits!Doing

\* Levels and reactions, by what the clock is.
LEMMA SdaQuiet ==
  ASSUME slave \in SlaveType, NEW v \in {"hi", "lo", "in"}, sda \in {"hi", "lo", "in"}, SdaTo(v),
         scl = "lo" \/ Bits!Level(v, slave.sda) = Bits!Sda
  PROVE  slave' = slave
<1>1. Bits!Scl \in {0, 1} /\ Bits!Sda \in {0, 1} /\ Bits!Level(v, slave.sda) \in {0, 1}
      /\ Bits!Level(scl, slave.scl) = Bits!Scl /\ (scl = "lo" => Bits!Scl = 0)
  BY DEF Bits!Scl, Bits!Sda, Bits!Level
<1> QED
  BY <1>1, ReactNone DEF SdaTo, Reacts

LEMMA SclFalls ==
  ASSUME slave \in SlaveType, scl # "lo", ~slave.scl, SclTo("lo")
  PROVE  \E u \in Bits!Falls(slave) : slave' \in {u, [u EXCEPT !.scl = TRUE]}
<1>1. Bits!Scl = 1 /\ Bits!Level("lo", slave.scl) = 0
  BY DEF Bits!Scl, Bits!Level
<1>2. slave' \in Bits!Reactions(slave, 1, Bits!Sda, 0, Bits!Level(sda, slave.sda))
  BY <1>1 DEF SclTo, Reacts
<1> QED
  BY <1>2, ReactFall

\* A slave that may hold the clock low as it falls has reacted all the same.
LEMMA FellTo ==
  ASSUME NEW u \in SlaveType, slave' \in {u, [u EXCEPT !.scl = TRUE]}
  PROVE  /\ slave'.st = u.st /\ slave'.first = u.first /\ slave'.bits = u.bits
         /\ slave'.sda = u.sda /\ slave'.got = u.got /\ slave'.sent = u.sent
         /\ slave'.starts = u.starts /\ slave'.stops = u.stops
<1>1. CASE slave' = u
  BY <1>1
<1>2. CASE slave' = [u EXCEPT !.scl = TRUE]
  BY <1>2 DEF SlaveType
<1> QED
  BY <1>1, <1>2

\* The clock is let go: it rises unless the slave holds it.
LEMMA SclLetGo ==
  ASSUME slave \in SlaveType, scl = "lo", SclTo("in")
  PROVE  slave' = (IF slave.scl THEN slave ELSE Bits!Rises(slave, Bits!Sda))
<1>1. Bits!Scl = 0 /\ Bits!Level("in", slave.scl) = (IF slave.scl THEN 0 ELSE 1)
      /\ Bits!Sda \in {0, 1} /\ Bits!Level(sda, slave.sda) = Bits!Sda
  BY DEF Bits!Scl, Bits!Sda, Bits!Level
<1>3. CASE slave.scl
  <2>1. slave' \in Bits!Reactions(slave, 0, Bits!Sda, 0, Bits!Sda)
    BY <1>1, <1>3 DEF SclTo, Reacts
  <2> QED
    BY <1>1, <1>3, <2>1, ReactNone
<1>4. CASE ~slave.scl
  <2>1. slave' \in Bits!Reactions(slave, 0, Bits!Sda, 1, Bits!Sda)
    BY <1>1, <1>4 DEF SclTo, Reacts
  <2> QED
    BY <1>4, <2>1, ReactRise
<1> QED
  BY <1>3, <1>4

\* The clock is driven high, and not against the slave.
LEMMA SclHigh ==
  ASSUME slave \in SlaveType, scl \in {"lo", "in", "hi"}, SclTo("hi"), ~forced'
  PROVE  /\ ~slave.scl
         /\ slave' = (IF scl = "lo" THEN Bits!Rises(slave, Bits!Sda) ELSE slave)
<1>1. ~slave.scl
  BY DEF SclTo
<1>2. Bits!Scl = (IF scl = "lo" THEN 0 ELSE 1) /\ Bits!Level("hi", slave.scl) = 1
      /\ Bits!Sda \in {0, 1} /\ Bits!Level(sda, slave.sda) = Bits!Sda
  BY <1>1 DEF Bits!Scl, Bits!Sda, Bits!Level
<1>3. CASE scl = "lo"
  BY <1>1, <1>2, <1>3, ReactRise DEF SclTo, Reacts
<1>4. CASE scl # "lo"
  BY <1>1, <1>2, <1>4, ReactNone DEF SclTo, Reacts
<1> QED
  BY <1>1, <1>3, <1>4

\* The slave lets the clock go.
LEMMA SlaveLetsGo ==
  ASSUME slave \in SlaveType, scl \in {"lo", "in"}, Bits!LetGo
  PROVE  /\ slave.scl /\ ~slave'.scl /\ UNCHANGED <<call, place, sda, scl, dat, buf, ret>>
         /\ LET s == [slave EXCEPT !.scl = FALSE]
            IN  slave' = (IF scl = "lo" THEN s ELSE Bits!Rises(s, Bits!Sda))
<1> DEFINE s == [slave EXCEPT !.scl = FALSE]
<1>1. slave.scl /\ UNCHANGED <<call, place, sda, scl, dat, buf, ret>>
      /\ slave' \in Bits!Reactions(s, Bits!Scl, Bits!Sda, Bits!Level(scl, FALSE), Bits!Sda)
  BY DEF Bits!LetGo
<1>2. s \in SlaveType /\ ~s.scl
  BY DEF SlaveType
<1>3. Bits!Scl = 0 /\ Bits!Level(scl, FALSE) = (IF scl = "lo" THEN 0 ELSE 1) /\ Bits!Sda \in {0, 1}
  BY <1>1 DEF Bits!Scl, Bits!Sda, Bits!Level
<1> HIDE DEF s
<1>4. slave' = (IF scl = "lo" THEN s ELSE Bits!Rises(s, Bits!Sda))
  <2>1. CASE scl = "lo"
    <3>1. slave' \in Bits!Reactions(s, 0, Bits!Sda, 0, Bits!Sda)
      BY <1>1, <1>3, <2>1
    <3> QED
      BY <1>3, <2>1, <3>1, ReactNone
  <2>2. CASE scl # "lo"
    <3>1. slave' \in Bits!Reactions(s, 0, Bits!Sda, 1, Bits!Sda)
      BY <1>1, <1>3, <2>2
    <3> QED
      BY <2>2, <3>1, ReactRise
  <2> QED
    BY <2>1, <2>2
<1>5. ~slave'.scl
  <2>1. ~Bits!Rises(s, Bits!Sda).scl
    <3>1. Bits!Rises(s, Bits!Sda) = [s EXCEPT !.bits = Bits!Rises(s, Bits!Sda).bits]
      BY <1>2, <1>3, RisesIs
    <3> QED
      BY <1>2, <3>1 DEF SlaveType
  <2> QED
    BY <1>2, <1>4, <2>1
<1> QED
  BY <1>1, <1>4, <1>5 DEF s

\* What was forced stays so.
LEMMA ForcedStays == ASSUME [Bits!Next]_(Bits!vars), ~forced' PROVE ~forced
  BY DEF Bits!Next, Bits!Master, Bits!Call, Bits!SetPin, Bits!Wait, Bits!ReadAck, Bits!ReadBit,
         Bits!Check, Bits!LetGo, Bits!vars

-----------------------------------------------------------------------------
(* The turns of the master, step by step *)

LEMMA StartTurn ==
  ASSUME place.fn = "start", place.step \in 1..4, Bits!Master
  PROVE  /\ place.step = 1 => SclTo("hi")
         /\ place.step = 2 => SdaTo("hi")
         /\ place.step = 3 => SdaTo("lo")
         /\ place.step = 4 => SclTo("lo")
         /\ place' = (IF place.step < 4 THEN [place EXCEPT !.step = @ + 1] ELSE Bits!NextTurn)
<1>1. Bits!Turn = Bits!Start
  BY DEF Bits!Turn
<1>2. /\ Bits!Turn # <<>> /\ Len(Bits!Turn) = 4
      /\ Bits!Turn[1] = <<"scl", "hi">>
      /\ Bits!Turn[2] = <<"sda", "hi">>
      /\ Bits!Turn[3] = <<"sda", "lo">>
      /\ Bits!Turn[4] = <<"scl", "lo">>
  BY <1>1 DEF Bits!Start, Bits!SetScl, Bits!SetSda
<1>3. CASE place.step = 1
  BY <1>2, <1>3, DoesScl DEF Bits!Step
<1>4. CASE place.step = 2
  BY <1>2, <1>4, DoesSda DEF Bits!Step
<1>5. CASE place.step = 3
  BY <1>2, <1>5, DoesSda DEF Bits!Step
<1>6. CASE place.step = 4
  BY <1>2, <1>6, DoesScl DEF Bits!Step
<1> QED
  BY <1>3, <1>4, <1>5, <1>6

LEMMA SendTurn ==
  ASSUME place.fn = "send", place.step \in 1..5, Bits!Master
  PROVE  /\ place.step = 1 => SdaTo(Bits!Pin(Out[place.byte][place.bit]))
         /\ place.step = 2 => SclTo("in")
         /\ place.step = 3 => Bits!Wait
         /\ place.step = 4 => SclTo("hi")
         /\ place.step = 5 => SclTo("lo")
         /\ place' = (IF place.step < 5 THEN [place EXCEPT !.step = @ + 1] ELSE Bits!NextTurn)
<1>1. Bits!Turn = Bits!SendBit(Out[place.byte][place.bit])
  BY DEF Bits!Turn, Out
<1>2. /\ Bits!Turn # <<>> /\ Len(Bits!Turn) = 5
      /\ Bits!Turn[1] = <<"sda", Bits!Pin(Out[place.byte][place.bit])>>
      /\ Bits!Turn[2] = <<"scl", "in">>
      /\ Bits!Turn[3] = <<"wait">>
      /\ Bits!Turn[4] = <<"scl", "hi">>
      /\ Bits!Turn[5] = <<"scl", "lo">>
  BY <1>1 DEF Bits!SendBit, Bits!SetScl, Bits!SetSda
<1>3. CASE place.step = 1
  BY <1>2, <1>3, DoesSda DEF Bits!Step
<1>4. CASE place.step = 2
  BY <1>2, <1>4, DoesScl DEF Bits!Step
<1>5. CASE place.step = 3
  BY <1>2, <1>5, DoesOther DEF Bits!Wait, Bits!Step
<1>6. CASE place.step = 4
  BY <1>2, <1>6, DoesScl DEF Bits!Step
<1>7. CASE place.step = 5
  BY <1>2, <1>7, DoesScl DEF Bits!Step
<1> QED
  BY <1>3, <1>4, <1>5, <1>6, <1>7

LEMMA AnswerTurn ==
  ASSUME place.fn = "answer", place.step \in 1..6, Bits!Master
  PROVE  /\ place.step = 1 => SdaTo("in")
         /\ place.step = 2 => SclTo("in")
         /\ place.step = 3 => Bits!Wait
         /\ place.step = 4 => SclTo("hi")
         /\ place.step = 5 => Bits!ReadAck
         /\ place.step = 6 => SclTo("lo")
         /\ place' = (IF place.step < 6 THEN [place EXCEPT !.step = @ + 1] ELSE Bits!NextTurn)
<1>1. Bits!Turn = Bits!Answer
  BY DEF Bits!Turn
<1>2. /\ Bits!Turn # <<>> /\ Len(Bits!Turn) = 6
      /\ Bits!Turn[1] = <<"sda", "in">>
      /\ Bits!Turn[2] = <<"scl", "in">>
      /\ Bits!Turn[3] = <<"wait">>
      /\ Bits!Turn[4] = <<"scl", "hi">>
      /\ Bits!Turn[5] = <<"ack">>
      /\ Bits!Turn[6] = <<"scl", "lo">>
  BY <1>1 DEF Bits!Answer, Bits!SetScl, Bits!SetSda
<1>3. CASE place.step = 1
  BY <1>2, <1>3, DoesSda DEF Bits!Step
<1>4. CASE place.step = 2
  BY <1>2, <1>4, DoesScl DEF Bits!Step
<1>5. CASE place.step = 3
  BY <1>2, <1>5, DoesOther DEF Bits!Wait, Bits!Step
<1>6. CASE place.step = 4
  BY <1>2, <1>6, DoesScl DEF Bits!Step
<1>7. CASE place.step = 5
  BY <1>2, <1>7, DoesOther DEF Bits!ReadAck, Bits!Step
<1>8. CASE place.step = 6
  BY <1>2, <1>8, DoesScl DEF Bits!Step
<1> QED
  BY <1>3, <1>4, <1>5, <1>6, <1>7, <1>8

LEMMA TakeTurn ==
  ASSUME place.fn = "take", place.step \in 1..5, Bits!Master
  PROVE  /\ place.step = 1 => SclTo("in")
         /\ place.step = 2 => Bits!Wait
         /\ place.step = 3 => SclTo("hi")
         /\ place.step = 4 => Bits!ReadBit
         /\ place.step = 5 => SclTo("lo")
         /\ place' = (IF place.step < 5 THEN [place EXCEPT !.step = @ + 1] ELSE Bits!NextTurn)
<1>1. Bits!Turn = Bits!RecvBit
  BY DEF Bits!Turn
<1>2. /\ Bits!Turn # <<>> /\ Len(Bits!Turn) = 5
      /\ Bits!Turn[1] = <<"scl", "in">>
      /\ Bits!Turn[2] = <<"wait">>
      /\ Bits!Turn[3] = <<"scl", "hi">>
      /\ Bits!Turn[4] = <<"bit">>
      /\ Bits!Turn[5] = <<"scl", "lo">>
  BY <1>1 DEF Bits!RecvBit, Bits!SetScl
<1>3. CASE place.step = 1
  BY <1>2, <1>3, DoesScl DEF Bits!Step
<1>4. CASE place.step = 2
  BY <1>2, <1>4, DoesOther DEF Bits!Wait, Bits!Step
<1>5. CASE place.step = 3
  BY <1>2, <1>5, DoesScl DEF Bits!Step
<1>6. CASE place.step = 4
  BY <1>2, <1>6, DoesOther DEF Bits!ReadBit, Bits!Step
<1>7. CASE place.step = 5
  BY <1>2, <1>7, DoesScl DEF Bits!Step
<1> QED
  BY <1>3, <1>4, <1>5, <1>6, <1>7

LEMMA SendAckTurn ==
  ASSUME place.fn = "sendack", place.step \in 1..3, Bits!Master
  PROVE  /\ place.step = 1 => SdaTo(Bits!Pin(More))
         /\ place.step = 2 => SclTo("hi")
         /\ place.step = 3 => SclTo("lo")
         /\ place' = (IF place.step < 3 THEN [place EXCEPT !.step = @ + 1] ELSE Bits!NextTurn)
<1>1. Bits!Turn = Bits!SendAck(More)
  BY DEF Bits!Turn, More
<1>2. /\ Bits!Turn # <<>> /\ Len(Bits!Turn) = 3
      /\ Bits!Turn[1] = <<"sda", Bits!Pin(More)>>
      /\ Bits!Turn[2] = <<"scl", "hi">>
      /\ Bits!Turn[3] = <<"scl", "lo">>
  BY <1>1 DEF Bits!SendAck, Bits!SetScl, Bits!SetSda
<1>3. CASE place.step = 1
  BY <1>2, <1>3, DoesSda DEF Bits!Step
<1>4. CASE place.step = 2
  BY <1>2, <1>4, DoesScl DEF Bits!Step
<1>5. CASE place.step = 3
  BY <1>2, <1>5, DoesScl DEF Bits!Step
<1> QED
  BY <1>3, <1>4, <1>5

LEMMA StopTurn ==
  ASSUME place.fn = "stop", place.step \in 1..3, Bits!Master
  PROVE  /\ place.step = 1 => SdaTo("lo")
         /\ place.step = 2 => SclTo("hi")
         /\ place.step = 3 => SdaTo("hi")
         /\ place' = (IF place.step < 3 THEN [place EXCEPT !.step = @ + 1] ELSE Bits!NextTurn)
<1>1. Bits!Turn = Bits!Stop
  BY DEF Bits!Turn
<1>2. /\ Bits!Turn # <<>> /\ Len(Bits!Turn) = 3
      /\ Bits!Turn[1] = <<"sda", "lo">>
      /\ Bits!Turn[2] = <<"scl", "hi">>
      /\ Bits!Turn[3] = <<"sda", "hi">>
  BY <1>1 DEF Bits!Stop, Bits!SetScl, Bits!SetSda
<1>3. CASE place.step = 1
  BY <1>2, <1>3, DoesSda DEF Bits!Step
<1>4. CASE place.step = 2
  BY <1>2, <1>4, DoesScl DEF Bits!Step
<1>5. CASE place.step = 3
  BY <1>2, <1>5, DoesSda DEF Bits!Step
<1> QED
  BY <1>3, <1>4, <1>5

LEMMA ToggleTurn ==
  ASSUME place.fn = "toggle", place.step \in 1..4, Bits!Master
  PROVE  /\ place.step = 1 => SclTo("lo")
         /\ place.step = 2 => SdaTo("lo")
         /\ place.step = 3 => SclTo("hi")
         /\ place.step = 4 => SdaTo("hi")
         /\ place' = (IF place.step < 4 THEN [place EXCEPT !.step = @ + 1] ELSE Bits!NextTurn)
<1>1. Bits!Turn = Bits!Toggle
  BY DEF Bits!Turn
<1>2. /\ Bits!Turn # <<>> /\ Len(Bits!Turn) = 4
      /\ Bits!Turn[1] = <<"scl", "lo">>
      /\ Bits!Turn[2] = <<"sda", "lo">>
      /\ Bits!Turn[3] = <<"scl", "hi">>
      /\ Bits!Turn[4] = <<"sda", "hi">>
  BY <1>1 DEF Bits!Toggle, Bits!SetScl, Bits!SetSda
<1>3. CASE place.step = 1
  BY <1>2, <1>3, DoesScl DEF Bits!Step
<1>4. CASE place.step = 2
  BY <1>2, <1>4, DoesSda DEF Bits!Step
<1>5. CASE place.step = 3
  BY <1>2, <1>5, DoesScl DEF Bits!Step
<1>6. CASE place.step = 4
  BY <1>2, <1>6, DoesSda DEF Bits!Step
<1> QED
  BY <1>3, <1>4, <1>5, <1>6

LEMMA RecvTurn ==
  ASSUME place.fn = "recv", place.step \in 1..1, Bits!Master
  PROVE  /\ SdaTo("in")
         /\ place' = Bits!NextTurn
<1>1. Bits!Turn = <<Bits!SetSda("in")>>
  BY DEF Bits!Turn
<1>2. /\ Bits!Turn # <<>> /\ Len(Bits!Turn) = 1
      /\ Bits!Turn[1] = <<"sda", "in">>
  BY <1>1 DEF Bits!SetSda
<1>3. CASE place.step = 1
  BY <1>2, <1>3, DoesSda DEF Bits!Step
<1> QED
  BY <1>3

LEMMA CheckTurn ==
  ASSUME place.fn = "check", place.step \in 1..2, Bits!Master
  PROVE  /\ place.step = 1 => SdaTo("in")
         /\ place.step = 2 => Bits!Check
         /\ place' = (IF place.step < 2 THEN [place EXCEPT !.step = @ + 1] ELSE Bits!NextTurn)
<1>1. Bits!Turn = <<Bits!SetSda("in"), <<"check">>>>
  BY DEF Bits!Turn
<1>2. /\ Bits!Turn # <<>> /\ Len(Bits!Turn) = 2
      /\ Bits!Turn[1] = <<"sda", "in">>
      /\ Bits!Turn[2] = <<"check">>
  BY <1>1 DEF Bits!SetSda
<1>3. CASE place.step = 1
  BY <1>2, <1>3, DoesSda DEF Bits!Step
<1>4. CASE place.step = 2
  BY <1>2, <1>4, DoesOther DEF Bits!Check, Bits!Step
<1> QED
  BY <1>3, <1>4

-----------------------------------------------------------------------------
(* What the slave is after the clock has risen or fallen *)

LEMMA RisesFields ==
  ASSUME NEW s \in SlaveType, NEW b \in {0, 1}, NEW t, t = Bits!Rises(s, b)
  PROVE  /\ t \in SlaveType /\ t.scl = s.scl
         /\ t.st = s.st /\ t.first = s.first /\ t.sda = s.sda
         /\ t.got = s.got /\ t.sent = s.sent /\ t.starts = s.starts /\ t.stops = s.stops
         /\ s.st \in {"recv", "acked"} => t.bits = Append(s.bits, b)
         /\ s.st \notin {"recv", "acked"} => t.bits = s.bits
<1>1. t \in SlaveType /\ t = [s EXCEPT !.bits = t.bits]
  BY RisesIs
<1>2. /\ s.st \in {"recv", "acked"} => t.bits = Append(s.bits, b)
      /\ s.st \notin {"recv", "acked"} => t.bits = s.bits
  BY RisesIs
<1>3. /\ t.st = s.st /\ t.first = s.first /\ t.sda = s.sda /\ t.scl = s.scl
      /\ t.got = s.got /\ t.sent = s.sent /\ t.starts = s.starts /\ t.stops = s.stops
  <2> DEFINE x == t.bits
  <2>1. t = [s EXCEPT !.bits = x]
    BY <1>1
  <2> HIDE DEF x
  <2> QED
    BY <2>1 DEF SlaveType
<1> QED
  BY <1>1, <1>2, <1>3

\* In the middle of a byte, or out of a transfer.
LEMMA SlaveKeeps ==
  ASSUME slave \in SlaveType, scl # "lo", ~slave.scl, SclTo("lo"),
         slave.st = "idle" \/ (slave.st = "recv" /\ Len(slave.bits) # W)
  PROVE  /\ slave' \in SlaveType
         /\ slave'.st = slave.st /\ slave'.first = slave.first /\ slave'.bits = slave.bits
         /\ slave'.sda = slave.sda /\ slave'.got = slave.got /\ slave'.sent = slave.sent
         /\ slave'.starts = slave.starts /\ slave'.stops = slave.stops
<1>0. PICK u \in Bits!Falls(slave) : slave' \in {u, [u EXCEPT !.scl = TRUE]}
  BY SclFalls
<1>1. slave' \in SlaveType
  BY <1>0, FallsType
<1>2. u \in {slave}
  BY <1>0, FallsIdle, FallsRecv
<1>3. /\ slave'.st = slave.st /\ slave'.first = slave.first /\ slave'.bits = slave.bits
      /\ slave'.sda = slave.sda /\ slave'.got = slave.got /\ slave'.sent = slave.sent
      /\ slave'.starts = slave.starts /\ slave'.stops = slave.stops
  BY <1>0, <1>2 DEF SlaveType
<1> QED
  BY <1>1, <1>3

\* The byte is complete.
LEMMA SlaveAnswers ==
  ASSUME slave \in SlaveType, scl # "lo", ~slave.scl, SclTo("lo"),
         slave.st = "recv", Len(slave.bits) = W
  PROVE  /\ slave' \in SlaveType
         /\ slave'.first = slave.first /\ slave'.bits = slave.bits
         /\ slave'.sent = slave.sent /\ slave'.starts = slave.starts
         /\ slave'.stops = slave.stops
         /\ slave'.st = "ack" /\ slave'.got = Append(slave.got, slave.bits)
<1>0. PICK u \in Bits!Falls(slave) : slave' \in {u, [u EXCEPT !.scl = TRUE]}
  BY SclFalls
<1>1. slave' \in SlaveType
  BY <1>0, FallsType
<1>2. u \in Bits!Answers(slave)
  BY <1>0, FallsRecv
<1>3. /\ slave'.first = slave.first /\ slave'.bits = slave.bits /\ slave'.sent = slave.sent
      /\ slave'.starts = slave.starts /\ slave'.stops = slave.stops
      /\ slave'.st = "ack" /\ slave'.got = Append(slave.got, slave.bits)
  <2>1. PICK a \in BOOLEAN : u = [slave EXCEPT !.st = "ack", !.sda = a, !.got = Append(@, slave.bits)]
    BY <1>2 DEF Bits!Answers
  <2>2. /\ u.first = slave.first /\ u.bits = slave.bits /\ u.sent = slave.sent
        /\ u.starts = slave.starts /\ u.stops = slave.stops
        /\ u.st = "ack" /\ u.got = Append(slave.got, slave.bits)
    BY <2>1 DEF SlaveType
  <2>3. u \in SlaveType
    BY <1>0, FallsType
  <2> QED
    BY <1>0, <2>2, <2>3, FellTo
<1> QED
  BY <1>1, <1>3

\* The byte was acknowledged, and another follows.
LEMMA SlaveReceives ==
  ASSUME slave \in SlaveType, scl # "lo", ~slave.scl, SclTo("lo"),
         slave.st = "ack", slave.sda, ~(slave.first /\ slave.bits[W] = 1)
  PROVE  /\ slave' \in SlaveType
         /\ slave'.got = slave.got /\ slave'.sent = slave.sent
         /\ slave'.starts = slave.starts /\ slave'.stops = slave.stops
         /\ slave'.st = "recv" /\ ~slave'.first /\ slave'.bits = <<>> /\ ~slave'.sda
<1>0. PICK u \in Bits!Falls(slave) : slave' \in {u, [u EXCEPT !.scl = TRUE]}
  BY SclFalls
<1>1. slave' \in SlaveType
  BY <1>0, FallsType
<1>2. u \in Bits!Receives(slave)
  BY <1>0, FallsAck
<1>3. /\ slave'.got = slave.got /\ slave'.sent = slave.sent /\ slave'.starts = slave.starts
      /\ slave'.stops = slave.stops
      /\ slave'.st = "recv" /\ ~slave'.first /\ slave'.bits = <<>> /\ ~slave'.sda
  <2>1. u = [slave EXCEPT !.st = "recv", !.first = FALSE, !.bits = <<>>, !.sda = FALSE]
    BY <1>2 DEF Bits!Receives
  <2>2. /\ u.got = slave.got /\ u.sent = slave.sent /\ u.starts = slave.starts
        /\ u.stops = slave.stops
        /\ u.st = "recv" /\ ~u.first /\ u.bits = <<>> /\ ~u.sda
    BY <2>1 DEF SlaveType
  <2>3. u \in SlaveType
    BY <1>0, FallsType
  <2> QED
    BY <1>0, <2>2, <2>3, FellTo
<1> QED
  BY <1>1, <1>3

LEMMA SlaveShifts ==
  ASSUME slave \in SlaveType, scl # "lo", ~slave.scl, SclTo("lo"),
         slave.st = "send", slave.bits # <<>>
  PROVE  /\ slave' \in SlaveType
         /\ slave'.st = slave.st /\ slave'.first = slave.first /\ slave'.got = slave.got
         /\ slave'.sent = slave.sent /\ slave'.starts = slave.starts
         /\ slave'.stops = slave.stops
         /\ slave'.bits = Tail(slave.bits) /\ slave'.sda = (Head(slave.bits) = 0)
<1>0. PICK u \in Bits!Falls(slave) : slave' \in {u, [u EXCEPT !.scl = TRUE]}
  BY SclFalls
<1>1. slave' \in SlaveType
  BY <1>0, FallsType
<1>2. u \in Bits!Shifts(slave)
  BY <1>0, FallsSend
<1>3. /\ slave'.st = slave.st /\ slave'.first = slave.first /\ slave'.got = slave.got
      /\ slave'.sent = slave.sent /\ slave'.starts = slave.starts
      /\ slave'.stops = slave.stops
      /\ slave'.bits = Tail(slave.bits) /\ slave'.sda = (Head(slave.bits) = 0)
  <2>1. u = [slave EXCEPT !.bits = Tail(@), !.sda = (Head(slave.bits) = 0)]
    BY <1>2 DEF Bits!Shifts
  <2>2. /\ u.st = slave.st /\ u.first = slave.first /\ u.got = slave.got
        /\ u.sent = slave.sent /\ u.starts = slave.starts /\ u.stops = slave.stops
        /\ u.bits = Tail(slave.bits) /\ u.sda = (Head(slave.bits) = 0)
    BY <2>1 DEF SlaveType
  <2>3. u \in SlaveType
    BY <1>0, FallsType
  <2> QED
    BY <1>0, <2>2, <2>3, FellTo
<1> QED
  BY <1>1, <1>3

LEMMA SlaveListens ==
  ASSUME slave \in SlaveType, scl # "lo", ~slave.scl, SclTo("lo"),
         slave.st = "send", slave.bits = <<>>
  PROVE  /\ slave' \in SlaveType
         /\ slave'.first = slave.first /\ slave'.bits = slave.bits /\ slave'.got = slave.got
         /\ slave'.sent = slave.sent /\ slave'.starts = slave.starts
         /\ slave'.stops = slave.stops
         /\ slave'.st = "acked" /\ ~slave'.sda
<1>0. PICK u \in Bits!Falls(slave) : slave' \in {u, [u EXCEPT !.scl = TRUE]}
  BY SclFalls
<1>1. slave' \in SlaveType
  BY <1>0, FallsType
<1>2. u \in Bits!Listens(slave)
  BY <1>0, FallsSend
<1>3. /\ slave'.first = slave.first /\ slave'.bits = slave.bits /\ slave'.got = slave.got
      /\ slave'.sent = slave.sent /\ slave'.starts = slave.starts
      /\ slave'.stops = slave.stops
      /\ slave'.st = "acked" /\ ~slave'.sda
  <2>1. u = [slave EXCEPT !.st = "acked", !.sda = FALSE]
    BY <1>2 DEF Bits!Listens
  <2>2. /\ u.first = slave.first /\ u.bits = slave.bits /\ u.got = slave.got
        /\ u.sent = slave.sent /\ u.starts = slave.starts /\ u.stops = slave.stops
        /\ u.st = "acked" /\ ~u.sda
    BY <2>1 DEF SlaveType
  <2>3. u \in SlaveType
    BY <1>0, FallsType
  <2> QED
    BY <1>0, <2>2, <2>3, FellTo
<1> QED
  BY <1>1, <1>3

\* Nobody acknowledged.
LEMMA SlaveRests ==
  ASSUME slave \in SlaveType, scl # "lo", ~slave.scl, SclTo("lo"),
         (slave.st = "ack" /\ ~slave.sda) \/ (slave.st = "acked" /\ slave.bits # << 0 >>)
  PROVE  /\ slave' \in SlaveType
         /\ slave'.first = slave.first /\ slave'.bits = slave.bits /\ slave'.sda = slave.sda
         /\ slave'.got = slave.got /\ slave'.sent = slave.sent
         /\ slave'.starts = slave.starts /\ slave'.stops = slave.stops
         /\ slave'.st = "idle"
<1>0. PICK u \in Bits!Falls(slave) : slave' \in {u, [u EXCEPT !.scl = TRUE]}
  BY SclFalls
<1>1. slave' \in SlaveType
  BY <1>0, FallsType
<1>2. u \in Bits!Rests(slave)
  BY <1>0, FallsAck, FallsAcked
<1>3. /\ slave'.first = slave.first /\ slave'.bits = slave.bits /\ slave'.sda = slave.sda
      /\ slave'.got = slave.got /\ slave'.sent = slave.sent /\ slave'.starts = slave.starts
      /\ slave'.stops = slave.stops
      /\ slave'.st = "idle"
  <2>1. u = [slave EXCEPT !.st = "idle"]
    BY <1>2 DEF Bits!Rests
  <2>2. /\ u.first = slave.first /\ u.bits = slave.bits /\ u.sda = slave.sda
        /\ u.got = slave.got /\ u.sent = slave.sent
        /\ u.starts = slave.starts /\ u.stops = slave.stops /\ u.st = "idle"
    BY <2>1 DEF SlaveType
  <2>3. u \in SlaveType
    BY <1>0, FallsType
  <2> QED
    BY <1>0, <2>2, <2>3, FellTo
<1> QED
  BY <1>1, <1>3

\* It sends a byte.
LEMMA SlaveSends ==
  ASSUME slave \in SlaveType, scl # "lo", ~slave.scl, SclTo("lo"),
         \/ slave.st = "ack" /\ slave.sda /\ slave.first /\ slave.bits[W] = 1
         \/ slave.st = "acked" /\ slave.bits = << 0 >>
  PROVE  \E v \in Bits!Byte :
           /\ slave' \in SlaveType /\ slave'.st = "send" /\ slave'.bits = Tail(v)
           /\ slave'.sda = (Head(v) = 0)
           /\ slave'.sent = Append(slave.sent, v)
           /\ slave'.first = slave.first /\ slave'.got = slave.got
           /\ slave'.starts = slave.starts /\ slave'.stops = slave.stops
<1>0. PICK u \in Bits!Falls(slave) : slave' \in {u, [u EXCEPT !.scl = TRUE]}
  BY SclFalls
<1>1. slave' \in SlaveType
  BY <1>0, FallsType
<1>2. u \in Bits!Sends(slave)
  BY <1>0, FallsAck, FallsAcked
<1>3. PICK v \in Bits!Byte :
        u = [slave EXCEPT !.st = "send", !.bits = Tail(v), !.sda = (Head(v) = 0), !.sent = Append(@, v)]
  BY <1>2 DEF Bits!Sends
<1>4. /\ slave'.st = "send" /\ slave'.bits = Tail(v) /\ slave'.sda = (Head(v) = 0)
      /\ slave'.sent = Append(slave.sent, v)
      /\ slave'.first = slave.first /\ slave'.got = slave.got
      /\ slave'.starts = slave.starts /\ slave'.stops = slave.stops
  <2>1. /\ u.st = "send" /\ u.bits = Tail(v) /\ u.sda = (Head(v) = 0)
        /\ u.sent = Append(slave.sent, v) /\ u.first = slave.first /\ u.got = slave.got
        /\ u.starts = slave.starts /\ u.stops = slave.stops
    BY <1>3 DEF SlaveType
  <2>2. u \in SlaveType
    BY <1>0, FallsType
  <2> QED
    BY <1>0, <2>1, <2>2, FellTo
<1> QED
  BY <1>1, <1>4

-----------------------------------------------------------------------------
(* The slave is in step: one lemma for each turn *)

LEMMA StepOn ==
  ASSUME BitsType, place' = [place EXCEPT !.step = @ + 1]
  PROVE  /\ place' \in Place
         /\ place'.fn = place.fn /\ place'.byte = place.byte /\ place'.bit = place.bit
         /\ place'.step = place.step + 1
  BY DEF BitsType, Place

LEMMA AtPlace ==
  ASSUME NEW fn \in Fns, NEW byte \in Nat, NEW bit \in Nat
  PROVE  /\ Bits!At(fn, byte, bit) \in Place
         /\ Bits!At(fn, byte, bit).fn = fn /\ Bits!At(fn, byte, bit).byte = byte
         /\ Bits!At(fn, byte, bit).bit = bit /\ Bits!At(fn, byte, bit).step = 1
  BY DEF Bits!At, Place

\* The bytes to send: an address to write to, two more, the last of a read an
\* address to read from.
LEMMA OutIs ==
  ASSUME call \in WriteCalls \cup ReadCalls
  PROVE  /\ Out \in Seq(Bits!Byte) /\ Len(Out) = 3 /\ \A i \in 1..3 : Out[i] \in Bits!Byte
         /\ Out[1][W] = 0
         /\ call.op = "read" => call \in ReadCalls /\ call.size \in 1..MaxRead /\ Out[3][W] = 1
         /\ call.op # "read" => call.op = "write"
         /\ call \in ReadCalls => call.op = "read"
<1>1. CASE call \in WriteCalls
  <2>1. PICK dev \in Bits!Byte, reg \in Bits!Byte, data \in Bits!Byte :
          dev[W] = 0 /\ call.bytes = <<dev, reg, data>> /\ call.op = "write"
    BY <1>1 DEF WriteCalls
  <2>2. Out = <<dev, reg, data>> /\ call \notin ReadCalls
    BY <2>1 DEF Out, Bits!Outgoing, ReadCalls
  <2> QED
    BY <2>1, <2>2
<1>2. CASE call \in ReadCalls
  <2>1. PICK dev \in Bits!Byte, reg \in Bits!Byte :
          dev[W] = 0 /\ call.bytes = <<dev, reg>> /\ call.op = "read" /\ call.size \in 1..MaxRead
    BY <1>2 DEF ReadCalls
  <2>2. Bits!Reading(dev) \in Bits!Byte /\ Bits!Reading(dev)[W] = 1
    BY <2>1, BitsAssumption DEF Bits!Reading, Bits!Byte
  <2>3. Out = Append(call.bytes, Bits!Reading(call.bytes[1])) /\ call.bytes[1] = dev
    BY <2>1 DEF Out, Bits!Outgoing
  <2>4. call.bytes \in Seq(Bits!Byte) /\ Len(call.bytes) = 2 /\ call.bytes[2] = reg
    BY <2>1
  <2>5. Len(Out) = 3 /\ Out[1] = dev /\ Out[2] = reg /\ Out[3] = Bits!Reading(dev)
    BY <2>2, <2>3, <2>4
  <2>6. Out \in Seq(Bits!Byte)
    BY <2>2, <2>3, <2>4
  <2>7. \A i \in 1..3 : Out[i] \in Bits!Byte
    <3>1. dev \in Bits!Byte /\ reg \in Bits!Byte
      BY <2>1
    <3>2. ASSUME NEW i \in 1..3 PROVE i = 1 \/ i = 2 \/ i = 3
      OBVIOUS
    <3> QED
      BY <2>2, <2>5, <3>1, <3>2
  <2> QED
    BY <1>2, <2>1, <2>2, <2>5, <2>6, <2>7
<1> QED
  BY <1>1, <1>2

LEMMA StartStep ==
  ASSUME BitsType, place.fn = "start", AtStart, Bits!Master, ~forced'
  PROVE  BitsType' /\ InStep'
<1>1. CASE place.step = 1
  <2>1. SclTo("hi") /\ place' = [place EXCEPT !.step = @ + 1]
    BY <1>1, StartTurn
  <2>2. ~slave.scl /\ (slave' = slave \/ slave' = Bits!Rises(slave, Bits!Sda))
    BY <2>1, SclHigh DEF BitsType
  <2>3. Bits!Sda \in {0, 1}
    BY DEF Bits!Sda, Bits!Level
  <2>4. /\ slave' \in SlaveType /\ ~slave'.scl /\ ~slave'.sda /\ slave'.got = slave.got
        /\ slave'.sent = slave.sent /\ slave'.starts = slave.starts /\ slave'.stops = slave.stops
    BY <2>2, <2>3, RisesFields DEF BitsType, AtStart
  <2>5. scl' = "hi" /\ sda' = sda /\ UNCHANGED <<call, dat, buf, ret>>
    BY <2>1 DEF SclTo
  <2>6. AtStart'
    BY <1>1, <2>1, <2>4, <2>5, StepOn DEF AtStart, Writing, Took, Out, Starts
  <2> QED
    BY <2>1, <2>4, <2>5, <2>6, StepOn DEF BitsType, InStep
<1>2. CASE place.step = 2
  <2>1. SdaTo("hi") /\ place' = [place EXCEPT !.step = @ + 1]
    BY <1>2, StartTurn
  <2>2. slave' = slave
    BY <1>2, <2>1, SdaQuiet DEF BitsType, AtStart, Bits!Sda, Bits!Level
  <2>3. scl' = scl /\ sda' = "hi" /\ UNCHANGED <<call, dat, buf, ret>>
    BY <2>1 DEF SdaTo
  <2>4. AtStart'
    BY <1>2, <2>1, <2>2, <2>3, StepOn DEF AtStart, Writing, Took, Out, Starts
  <2> QED
    BY <2>1, <2>2, <2>3, <2>4, StepOn DEF BitsType, InStep
<1>3. CASE place.step = 3
  <2>1. SdaTo("lo") /\ place' = [place EXCEPT !.step = @ + 1]
    BY <1>3, StartTurn
  <2>2. Bits!Scl = 1 /\ Bits!Level(scl, slave.scl) = 1 /\ Bits!Sda = 1 /\ Bits!Level("lo", slave.sda) = 0
    BY <1>3 DEF AtStart, Bits!Scl, Bits!Sda, Bits!Level
  <2>3. slave' \in Bits!Reactions(slave, 1, 1, 1, 0)
    BY <2>1, <2>2 DEF SdaTo, Reacts
  <2>4. slave' = [slave EXCEPT !.st = "recv", !.first = TRUE, !.bits = <<>>, !.starts = @ + 1]
    BY <2>3, ReactStart
  <2>5. /\ slave' \in SlaveType /\ slave'.st = "recv" /\ slave'.first /\ slave'.bits = <<>>
        /\ slave'.starts = slave.starts + 1
        /\ slave'.sda = slave.sda /\ slave'.scl = slave.scl /\ slave'.got = slave.got
        /\ slave'.sent = slave.sent /\ slave'.stops = slave.stops
    <3>1. slave \in SlaveType /\ <<>> \in Seq({0, 1}) /\ slave.starts + 1 \in Nat
      BY DEF BitsType, SlaveType
    <3>2. slave' \in SlaveType
      BY <2>4, <3>1 DEF SlaveType
    <3> QED
      BY <2>4, <3>1, <3>2 DEF SlaveType
  <2>6. scl' = scl /\ sda' = "lo" /\ UNCHANGED <<call, dat, buf, ret>>
    BY <2>1 DEF SdaTo
  <2>7. AtStart'
    BY <1>3, <2>1, <2>5, <2>6, StepOn DEF AtStart, Writing, Took, Out, Starts, BitsType, SlaveType
  <2> QED
    BY <2>1, <2>5, <2>6, <2>7, StepOn DEF BitsType, InStep
<1>4. CASE place.step = 4
  <2>1. SclTo("lo") /\ place' = Bits!At("send", place.byte, 1)
    BY <1>4, StartTurn DEF Bits!NextTurn
  <2>2. /\ slave.st = "recv" /\ slave.bits = <<>> /\ slave.first /\ slave \in SlaveType
        /\ scl = "hi" /\ ~slave.scl
    BY <1>4 DEF AtStart, BitsType
  <2>3. Len(slave.bits) # W
    BY <2>2, BitsAssumption
  <2>4. /\ slave' \in SlaveType /\ slave'.st = "recv" /\ slave'.first /\ slave'.bits = <<>>
        /\ slave'.starts = slave.starts /\ slave'.sda = slave.sda /\ slave'.got = slave.got
        /\ slave'.sent = slave.sent /\ slave'.stops = slave.stops
    BY <2>1, <2>2, <2>3, SlaveKeeps
  <2>5. scl' = "lo" /\ sda' = sda /\ UNCHANGED <<call, dat, buf, ret>>
    BY <2>1 DEF SclTo
  <2>6. /\ place' \in Place
        /\ place'.fn = "send" /\ place'.byte = place.byte /\ place'.bit = 1 /\ place'.step = 1
    <3>1. place.byte \in Nat
      BY DEF BitsType, Place
    <3> QED
      BY <2>1, <3>1 DEF Bits!At, Place, Fns
  <2>7. Writing' /\ Took(place.byte - 1)' /\ slave'.starts = Starts'
    BY <1>4, <2>4, <2>5, <2>6 DEF AtStart, Writing, Took, Out, Starts
  <2>8. ClockAt(3, 5)' /\ TookBits(IF place.step >= 3 /\ ~slave.scl THEN place.bit ELSE place.bit - 1)'
    BY <2>4, <2>5, <2>6 DEF ClockAt, TookBits
  <2>9. AtSend'
    <3>1. place'.byte \in 1..3 /\ place'.bit \in 1..W /\ place'.step \in 1..5 /\ Addressed'
      BY <2>5, <2>6, BitsAssumption DEF AtStart, Addressed
    <3> QED
      BY <2>4, <2>5, <2>6, <2>7, <2>8, <3>1 DEF AtStart, AtSend
  <2> QED
    BY <2>4, <2>5, <2>6, <2>9 DEF BitsType, InStep
<1> QED
  BY <1>1, <1>2, <1>3, <1>4 DEF AtStart

\* The bits a slave took are the byte, once it has all of them.
LEMMA TookByte ==
  ASSUME slave \in SlaveType, NEW v \in Bits!Byte, Len(slave.bits) = W,
         \A i \in 1..W : slave.bits[i] = v[i]
  PROVE  slave.bits = v
<1>1. slave.bits \in Seq({0, 1}) /\ v \in Seq({0, 1}) /\ Len(v) = W
  BY ByteSeq DEF SlaveType
<1> DEFINE b == slave.bits
<1>2. b \in Seq({0, 1}) /\ Len(b) = Len(v) /\ \A i \in 1..Len(b) : b[i] = v[i]
  BY <1>1
<1> HIDE DEF b
<1>3. b = v
  BY <1>1, <1>2
<1> QED
  BY <1>3 DEF b

\* One bit more.
LEMMA OneMore ==
  ASSUME NEW s \in Seq({0, 1}), NEW v, NEW k \in Nat, Len(s) = k,
         \A i \in 1..k : s[i] = v[i], NEW b \in {0, 1}, b = v[k + 1]
  PROVE  /\ Append(s, b) \in Seq({0, 1}) /\ Len(Append(s, b)) = k + 1
         /\ \A i \in 1..(k + 1) : Append(s, b)[i] = v[i]
  OBVIOUS

LEMMA SendStep ==
  ASSUME BitsType, place.fn = "send", AtSend, Bits!Master, ~forced'
  PROVE  BitsType' /\ InStep'
<1>1. /\ slave \in SlaveType /\ place \in Place /\ place.byte \in 1..3 /\ place.bit \in 1..W
      /\ Out[place.byte] \in Bits!Byte /\ Out[place.byte][place.bit] \in {0, 1}
  <2>1. Out[place.byte] \in Bits!Byte
    BY OutIs DEF AtSend, Writing
  <2> QED
    BY <2>1, ByteSeq DEF AtSend, BitsType
<1> DEFINE b == Out[place.byte][place.bit]
<1>2. Bits!Pin(b) \in {"hi", "lo"}
  BY DEF Bits!Pin
<1> HIDE DEF b
<1>3. CASE place.step = 1
  <2>1. SdaTo(Bits!Pin(b)) /\ place' = [place EXCEPT !.step = @ + 1]
    BY <1>3, SendTurn DEF b
  <2>2. scl = "lo"
    BY <1>3 DEF AtSend, ClockAt
  <2>3. slave' = slave
    BY <1>1, <1>2, <2>1, <2>2, SdaQuiet DEF BitsType
  <2>4. scl' = scl /\ sda' = Bits!Pin(b) /\ UNCHANGED <<call, dat, buf, ret>>
    BY <2>1 DEF SdaTo
  <2>5. AtSend'
    BY <1>3, <2>1, <2>2, <2>3, <2>4, StepOn
       DEF AtSend, Writing, Took, TookBits, Out, Starts, Addressed, ClockAt, b
  <2> QED
    BY <1>2, <2>1, <2>3, <2>4, <2>5, StepOn DEF BitsType, InStep
<1>4. CASE place.step = 2
  <2>1. SclTo("in") /\ place' = [place EXCEPT !.step = @ + 1]
    BY <1>4, SendTurn
  <2>2. scl = "lo" /\ sda = Bits!Pin(b) /\ slave.st = "recv" /\ ~slave.sda /\ TookBits(place.bit - 1)
    BY <1>4 DEF AtSend, ClockAt, b
  <2>3. Bits!Sda = b /\ b \in {0, 1}
    <3>1. b \in {0, 1}
      BY <1>1 DEF b
    <3> QED
      BY <2>2, <3>1 DEF Bits!Sda, Bits!Level, Bits!Pin
  <2>4. slave' = (IF slave.scl THEN slave ELSE Bits!Rises(slave, b))
    BY <1>1, <2>1, <2>2, <2>3, SclLetGo
  <2>5. /\ slave' \in SlaveType /\ slave'.scl = slave.scl /\ slave'.st = "recv"
        /\ slave'.first = slave.first /\ ~slave'.sda /\ slave'.got = slave.got
        /\ slave'.sent = slave.sent /\ slave'.starts = slave.starts /\ slave'.stops = slave.stops
        /\ slave'.bits = (IF slave.scl THEN slave.bits ELSE Append(slave.bits, b))
    <3>1. CASE slave.scl
      BY <1>1, <2>2, <2>4, <3>1
    <3>2. CASE ~slave.scl
      BY <1>1, <2>2, <2>3, <2>4, <3>2, RisesFields
    <3> QED
      BY <3>1, <3>2
  <2>6. scl' = "in" /\ sda' = sda /\ UNCHANGED <<call, dat, buf, ret>>
    BY <2>1 DEF SclTo
  <2>7. place' \in Place /\ place'.fn = "send" /\ place'.byte = place.byte /\ place'.bit = place.bit
        /\ place'.step = 3
    BY <1>4, <2>1, StepOn DEF Place
  <2>8. TookBits(IF ~slave.scl THEN place.bit ELSE place.bit - 1)'
    <3>1. slave.bits \in Seq({0, 1}) /\ place.bit - 1 \in Nat /\ place.bit - 1 + 1 = place.bit
      BY <1>1, BitsAssumption DEF SlaveType
    <3>2. CASE slave.scl
      BY <2>2, <2>5, <2>6, <2>7, <3>2 DEF TookBits, Out
    <3>3. CASE ~slave.scl
      <4>1. Len(Append(slave.bits, b)) = place.bit - 1 + 1
            /\ \A i \in 1..(place.bit - 1 + 1) : Append(slave.bits, b)[i] = Out[place.byte][i]
        BY <2>2, <2>3, <3>1, OneMore DEF TookBits, b
      <4> QED
        BY <2>5, <2>6, <2>7, <3>1, <3>3, <4>1 DEF TookBits, Out
    <3> QED
      BY <3>2, <3>3
  <2>9. Writing' /\ Took(place.byte - 1)' /\ slave'.starts = Starts' /\ slave'.first = Addressed'
    BY <2>5, <2>6, <2>7 DEF AtSend, Writing, Took, Out, Starts, Addressed
  <2>10. AtSend'
    BY <2>2, <2>5, <2>6, <2>7, <2>8, <2>9 DEF AtSend, ClockAt, Out, b
  <2> QED
    BY <2>5, <2>6, <2>7, <2>10 DEF BitsType, InStep
<1>5. CASE place.step = 3
  <2>1. Bits!Wait /\ place' = [place EXCEPT !.step = @ + 1]
    BY <1>5, SendTurn
  <2>2. UNCHANGED <<call, sda, scl, dat, buf, ret, slave>>
    BY <2>1 DEF Bits!Wait
  <2>3. AtSend'
    BY <1>5, <2>1, <2>2, StepOn
       DEF AtSend, Writing, Took, TookBits, Out, Starts, Addressed, ClockAt
  <2> QED
    BY <2>1, <2>2, <2>3, StepOn DEF BitsType, InStep
<1>6. CASE place.step = 4
  <2>1. SclTo("hi") /\ place' = [place EXCEPT !.step = @ + 1]
    BY <1>6, SendTurn
  <2>2. scl = "in"
    BY <1>6 DEF AtSend, ClockAt
  <2>3. slave' = slave /\ ~slave.scl
    BY <1>1, <2>1, <2>2, SclHigh
  <2>4. scl' = "hi" /\ sda' = sda /\ UNCHANGED <<call, dat, buf, ret>>
    BY <2>1 DEF SclTo
  <2>5. AtSend'
    BY <1>6, <2>1, <2>3, <2>4, StepOn
       DEF AtSend, Writing, Took, TookBits, Out, Starts, Addressed, ClockAt
  <2> QED
    BY <2>1, <2>3, <2>4, <2>5, StepOn DEF BitsType, InStep
<1>7. CASE place.step = 5
  <2>1. SclTo("lo") /\ place' = Bits!NextTurn
    BY <1>7, SendTurn
  <2>2. scl = "hi" /\ ~slave.scl /\ slave.st = "recv" /\ ~slave.sda /\ TookBits(place.bit)
    BY <1>7 DEF AtSend, ClockAt
  <2>3. scl' = "lo" /\ sda' = sda /\ UNCHANGED <<call, dat, buf, ret>>
    BY <2>1 DEF SclTo
  <2>4. CASE place.bit < W
    <3>1. /\ slave' \in SlaveType /\ slave'.st = "recv" /\ slave'.first = slave.first
          /\ slave'.bits = slave.bits /\ ~slave'.sda /\ slave'.got = slave.got
          /\ slave'.sent = slave.sent /\ slave'.starts = slave.starts /\ slave'.stops = slave.stops
      <4>1. Len(slave.bits) # W
        BY <1>1, <2>2, <2>4, BitsAssumption DEF TookBits
      <4> QED
        BY <1>1, <2>1, <2>2, <4>1, SlaveKeeps
    <3>2. place' = Bits!At("send", place.byte, place.bit + 1)
      BY <2>1, <2>4 DEF Bits!NextTurn
    <3>3. /\ place' \in Place /\ place'.fn = "send" /\ place'.byte = place.byte
          /\ place'.bit = place.bit + 1 /\ place'.step = 1
      <4>1. place.byte \in Nat /\ place.bit + 1 \in Nat
        BY <1>1 DEF Place
      <4> QED
        BY <3>2, <4>1 DEF Bits!At, Place, Fns
    <3>4. Writing' /\ Took(place.byte - 1)' /\ slave'.starts = Starts' /\ slave'.first = Addressed'
      BY <2>3, <3>1, <3>3 DEF AtSend, Writing, Took, Out, Starts, Addressed
    <3>5. TookBits(place.bit - 1)'
      BY <1>1, <2>2, <2>3, <3>1, <3>3 DEF TookBits, Out, Place
    <3>6. AtSend'
      BY <1>1, <2>3, <2>4, <3>1, <3>3, <3>4, <3>5, BitsAssumption DEF AtSend, ClockAt
    <3> QED
      BY <2>3, <3>1, <3>3, <3>6 DEF BitsType, InStep
  <2>5. CASE ~(place.bit < W)
    <3>0. place.bit = W
      BY <1>1, <2>5, BitsAssumption
    <3>1. /\ slave' \in SlaveType /\ slave'.st = "ack" /\ slave'.first = slave.first
          /\ slave'.bits = slave.bits /\ slave'.got = Append(slave.got, slave.bits)
          /\ slave'.sent = slave.sent /\ slave'.starts = slave.starts /\ slave'.stops = slave.stops
      <4>1. Len(slave.bits) = W
        BY <2>2, <3>0 DEF TookBits
      <4> QED
        BY <1>1, <2>1, <2>2, <4>1, SlaveAnswers
    <3>2. place' = Bits!At("answer", place.byte, 1)
      BY <2>1, <2>5 DEF Bits!NextTurn
    <3>3. /\ place' \in Place /\ place'.fn = "answer" /\ place'.byte = place.byte /\ place'.step = 1
      <4>1. place.byte \in Nat
        BY <1>1 DEF Place
      <4> QED
        BY <3>2, <4>1 DEF Bits!At, Place, Fns
    <3>4. Took(place.byte)'
      <4>1. slave.bits = Out[place.byte]
        BY <1>1, <2>2, <3>0, TookByte DEF TookBits
      <4>2. slave.got \in Seq(Seq({0, 1})) /\ slave.bits \in Seq({0, 1}) /\ Took(place.byte - 1)
        BY <1>1 DEF SlaveType, AtSend
      <4>3. Len(slave'.got) = place.byte /\ slave'.got[place.byte] = Out[place.byte]
            /\ \A i \in 1..(place.byte - 1) : slave'.got[i] = Out[i]
        BY <1>1, <3>1, <4>1, <4>2 DEF Took
      <4> QED
        BY <1>1, <2>3, <3>3, <4>3 DEF Took, Out
    <3>5. Writing' /\ slave'.starts = Starts' /\ slave'.first = Addressed' /\ TookBits(W)'
      BY <2>2, <2>3, <3>0, <3>1, <3>3 DEF AtSend, Writing, TookBits, Out, Starts, Addressed
    <3>6. AtAnswer'
      BY <1>1, <2>3, <3>1, <3>3, <3>4, <3>5 DEF AtSend, AtAnswer, ClockAt
    <3> QED
      BY <2>3, <3>1, <3>3, <3>6 DEF BitsType, InStep
  <2> QED
    BY <2>4, <2>5
<1> QED
  BY <1>3, <1>4, <1>5, <1>6, <1>7 DEF AtSend

\* What the slave sends begins with the first bit.
LEMMA FirstBit ==
  ASSUME slave' \in SlaveType, NEW v \in Bits!Byte,
         slave'.st = "send", slave'.bits = Tail(v), slave'.sda = (Head(v) = 0)
  PROVE  Sending(v, 1)'
<1>1. v \in Seq({0, 1}) /\ v # <<>> /\ Len(v) = W
  BY ByteSeq
<1>2. Head(v) = v[1] /\ Len(Tail(v)) = W - 1 /\ \A i \in 1..(W - 1) : Tail(v)[i] = v[i + 1]
  BY <1>1, TailOf
<1>3. \A i \in 1..(W - 1) : Tail(v)[i] = v[1 + i]
  BY <1>2
<1> QED
  BY <1>2, <1>3 DEF Sending

\* No acknowledge: the function ends.
LEMMA NotAcked ==
  ASSUME BitsType, AtAnswer, place.step = 6, ~slave.sda, SclTo("lo"), place' = Bits!NextTurn,
         place.fn = "answer"
  PROVE  BitsType' /\ InStep'
<1>1. slave \in SlaveType /\ slave.st = "ack" /\ scl = "hi" /\ ~slave.scl /\ ret = -1
  BY DEF AtAnswer, ClockAt, BitsType
<1>2. /\ slave' \in SlaveType /\ slave'.st = "idle" /\ slave'.sda = slave.sda
      /\ slave'.got = slave.got /\ slave'.sent = slave.sent
      /\ slave'.starts = slave.starts /\ slave'.stops = slave.stops
  BY <1>1, SlaveRests
<1>3. scl' = "lo" /\ sda' = sda /\ UNCHANGED <<call, dat, buf, ret>>
  BY DEF SclTo
<1>4. place' = Bits!At("stop", 1, 1)
  BY <1>1 DEF Bits!NextTurn, Bits!AfterByte
<1>5. place' \in Place /\ place'.fn = "stop" /\ place'.step = 1
  BY <1>4 DEF Bits!At, Place, Fns
<1>6. \E k \in 0..3 : Took(k)' /\ (ret' = 0 => k = 3)
  <2>1. place.byte \in 0..3 /\ Took(place.byte)
    BY DEF AtAnswer
  <2>2. \A k \in 0..3 : Took(k) => Took(k)'
    BY <1>2, <1>3 DEF Took, Out
  <2>3. ret' # 0
    BY <1>1, <1>3
  <2> QED
    BY <2>1, <2>2, <2>3
<1>7. Moved' /\ slave'.stops = 0
  <2>1. dat' = <<>> /\ buf' = <<>> /\ slave'.sent = <<>> /\ slave'.stops = 0
        /\ call' \in WriteCalls \cup ReadCalls /\ ~slave'.sda
    BY <1>2, <1>3 DEF AtAnswer, Writing
  <2>2. ReadBytes(Len(slave.sent))'
    BY <2>1 DEF ReadBytes
  <2>3. IF call'.op = "write" THEN slave'.starts = 1
        ELSE slave'.starts \in 1..2 /\ (ret' = 0 => slave'.starts = 2)
    BY <1>1, <1>2, <1>3 DEF AtAnswer, Starts
  <2> QED
    BY <1>6, <2>1, <2>2, <2>3 DEF Moved
<1>8. AtStop'
  BY <1>3, <1>5, <1>7 DEF AtStop, ClockAt
<1> QED
  BY <1>2, <1>3, <1>5, <1>8 DEF BitsType, InStep

\* The slave takes the next byte.
LEMMA AckedForMore ==
  ASSUME BitsType, AtAnswer, place.step = 6, slave.sda, SclTo("lo"), place' = Bits!NextTurn,
         place.fn = "answer", ~(place.byte = 3 /\ call.op = "read")
  PROVE  BitsType' /\ InStep'
<1>1. slave \in SlaveType /\ slave.st = "ack" /\ scl = "hi" /\ ~slave.scl /\ ret = 0
      /\ place.byte \in 1..3 /\ Took(place.byte) /\ Writing /\ slave.starts = Starts
  BY DEF AtAnswer, ClockAt, BitsType
<1>2. ~(slave.first /\ slave.bits[W] = 1)
  <2>1. slave.first => place.byte = 1
    BY DEF AtAnswer, Addressed
  <2>2. slave.bits[W] = Out[place.byte][W]
    BY BitsAssumption DEF AtAnswer, TookBits
  <2>3. Out[1][W] = 0
    BY <1>1, OutIs DEF Writing
  <2> QED
    BY <2>1, <2>2, <2>3
<1>3. /\ slave' \in SlaveType /\ slave'.st = "recv" /\ ~slave'.first /\ slave'.bits = <<>>
      /\ ~slave'.sda /\ slave'.got = slave.got /\ slave'.sent = slave.sent
      /\ slave'.starts = slave.starts /\ slave'.stops = slave.stops
  BY <1>1, <1>2, SlaveReceives
<1>4. scl' = "lo" /\ sda' = "in" /\ UNCHANGED <<call, dat, buf, ret>>
  BY DEF SclTo, AtAnswer
<1>5. call.op \in {"read", "write"}
  BY <1>1, OutIs DEF Writing
<1>6. Writing' /\ \A k \in 0..3 : Took(k)' <=> Took(k)
  <2>1. Writing'
    BY <1>1, <1>3, <1>4 DEF Writing
  <2>2. Out' = Out
    BY <1>4 DEF Out
  <2>3. \A k \in 0..3 : Took(k)' <=> Took(k)
    BY <1>3, <2>2 DEF Took
  <2> QED
    BY <2>1, <2>3
<1>7. ASSUME NEW n \in {2, 3}, place' = Bits!At("send", n, 1), place.byte = n - 1,
             n = 3 => call.op = "write"
      PROVE  BitsType' /\ InStep'
  <2>1. /\ place' \in Place /\ place'.fn = "send" /\ place'.byte = n /\ place'.bit = 1
        /\ place'.step = 1
    BY <1>7 DEF Bits!At, Place, Fns
  <2>2. slave'.starts = Starts' /\ slave'.first = Addressed' /\ Took(place.byte - 1)'
    BY <1>1, <1>3, <1>4, <1>6, <1>7, <2>1 DEF Starts, Addressed, SlaveType
  <2>3. TookBits(place.bit - 1)'
    BY <1>3, <2>1 DEF TookBits
  <2>4. AtSend'
    BY <1>1, <1>3, <1>4, <1>6, <2>1, <2>2, <2>3, BitsAssumption DEF AtSend, ClockAt
  <2> QED
    BY <1>3, <1>4, <2>1, <2>4 DEF BitsType, InStep
<1>8. CASE place.byte = 1
  <2>1. place' = Bits!At("send", 2, 1)
    BY <1>1, <1>8 DEF Bits!NextTurn, Bits!AfterByte
  <2> QED
    BY <1>7, <1>8, <2>1
<1>9. CASE place.byte = 2 /\ call.op = "write"
  <2>1. place' = Bits!At("send", 3, 1)
    BY <1>1, <1>9 DEF Bits!NextTurn, Bits!AfterByte
  <2> QED
    BY <1>7, <1>9, <2>1
<1>10. CASE place.byte = 2 /\ call.op = "read"
  <2>1. place' = Bits!At("start", 3, 1)
    BY <1>1, <1>10 DEF Bits!NextTurn, Bits!AfterByte
  <2>2. place' \in Place /\ place'.fn = "start" /\ place'.byte = 3 /\ place'.step = 1
    BY <2>1 DEF Bits!At, Place, Fns
  <2>3. slave'.starts = Starts' - 1 /\ Took(place.byte - 1)'
    BY <1>1, <1>3, <1>4, <1>6, <1>10, <2>2 DEF Starts
  <2>4. AtStart'
    BY <1>1, <1>3, <1>4, <1>6, <1>10, <2>2, <2>3 DEF AtStart
  <2> QED
    BY <1>3, <1>4, <2>2, <2>4 DEF BitsType, InStep
<1>11. CASE place.byte = 3 /\ call.op = "write"
  <2>1. place' = Bits!At("stop", 1, 1)
    BY <1>1, <1>11 DEF Bits!NextTurn, Bits!AfterByte
  <2>2. place' \in Place /\ place'.fn = "stop" /\ place'.step = 1
    BY <2>1 DEF Bits!At, Place, Fns
  <2>3. ReadBytes(Len(slave.sent))'
    BY <1>6 DEF ReadBytes, Writing
  <2>4. slave'.starts = 1 /\ Took(3)'
    BY <1>1, <1>3, <1>6, <1>11 DEF Starts
  <2>5. Moved' /\ slave'.stops = 0
    BY <1>3, <1>4, <1>6, <1>11, <2>3, <2>4 DEF Moved, Writing
  <2>6. AtStop'
    BY <1>4, <2>2, <2>5 DEF AtStop, ClockAt
  <2> QED
    BY <1>3, <1>4, <2>2, <2>6 DEF BitsType, InStep
<1> QED
  BY <1>1, <1>5, <1>8, <1>9, <1>10, <1>11

\* The slave sends from here on.
LEMMA AckedForReading ==
  ASSUME BitsType, AtAnswer, place.step = 6, slave.sda, SclTo("lo"), place' = Bits!NextTurn,
         place.fn = "answer", place.byte = 3, call.op = "read"
  PROVE  BitsType' /\ InStep'
<1>1. slave \in SlaveType /\ slave.st = "ack" /\ scl = "hi" /\ ~slave.scl /\ ret = 0
      /\ Took(3) /\ Writing /\ slave.starts = 2
  BY DEF AtAnswer, ClockAt, BitsType, Starts
<1>2. call \in ReadCalls /\ call.size \in 1..MaxRead /\ Out[3][W] = 1
  BY <1>1, OutIs DEF Writing
<1>3. slave.first /\ slave.bits[W] = 1
  <2>1. slave.first
    BY DEF AtAnswer, Addressed
  <2>2. slave.bits[W] = Out[place.byte][W]
    BY BitsAssumption DEF AtAnswer, TookBits
  <2> QED
    BY <1>2, <2>1, <2>2
<1>4. PICK v \in Bits!Byte :
        /\ slave' \in SlaveType /\ slave'.st = "send" /\ slave'.bits = Tail(v)
        /\ slave'.sda = (Head(v) = 0) /\ slave'.sent = Append(slave.sent, v)
        /\ slave'.got = slave.got /\ slave'.starts = slave.starts /\ slave'.stops = slave.stops
  BY <1>1, <1>3, SlaveSends
<1>5. scl' = "lo" /\ sda' = "in" /\ UNCHANGED <<call, dat, buf, ret>>
  BY DEF SclTo, AtAnswer
<1>6. place' = Bits!At("recv", 1, 1)
  BY <1>1 DEF Bits!NextTurn, Bits!AfterByte
<1>7. place' \in Place /\ place'.fn = "recv" /\ place'.byte = 1 /\ place'.step = 1
  BY <1>6 DEF Bits!At, Place, Fns
<1>8. Len(slave'.sent) = 1 /\ slave'.sent[1] = v
  BY <1>1, <1>4 DEF Writing
<1>9. Reading'
  <2>1. place'.byte \in 1..call'.size
    BY <1>2, <1>5, <1>7, BitsAssumption
  <2>2. Took(3)'
    BY <1>1, <1>4, <1>5 DEF Took, Out
  <2>3. slave'.starts = 2 /\ slave'.stops = 0
    BY <1>1, <1>4 DEF Writing
  <2> QED
    BY <1>1, <1>2, <1>5, <1>7, <1>8, <2>1, <2>2, <2>3 DEF Reading
<1>10. Sending(slave.sent[place.byte], 1)'
  <2>1. Sending(v, 1)'
    BY <1>4, FirstBit
  <2> QED
    BY <1>7, <1>8, <2>1 DEF Sending
<1>11. AtRecv'
  BY <1>1, <1>5, <1>7, <1>9, <1>10 DEF AtRecv, ReadBytes, Writing
<1> QED
  BY <1>4, <1>5, <1>7, <1>11 DEF BitsType, InStep

LEMMA AnswerStep ==
  ASSUME BitsType, place.fn = "answer", AtAnswer, Bits!Master, ~forced'
  PROVE  BitsType' /\ InStep'
<1>1. slave \in SlaveType /\ slave.st = "ack"
  BY DEF AtAnswer, BitsType
<1>2. CASE place.step = 1
  <2>1. SdaTo("in") /\ place' = [place EXCEPT !.step = @ + 1]
    BY <1>2, AnswerTurn
  <2>2. scl = "lo"
    BY <1>2 DEF AtAnswer, ClockAt
  <2>3. slave' = slave
    BY <1>1, <2>1, <2>2, SdaQuiet DEF BitsType
  <2>4. scl' = scl /\ sda' = "in" /\ UNCHANGED <<call, dat, buf, ret>>
    BY <2>1 DEF SdaTo
  <2>5. AtAnswer'
    BY <1>2, <2>1, <2>3, <2>4, StepOn
       DEF AtAnswer, Writing, Took, TookBits, Out, Starts, Addressed, ClockAt
  <2> QED
    BY <2>1, <2>3, <2>4, <2>5, StepOn DEF BitsType, InStep
<1>3. CASE place.step = 2
  <2>1. SclTo("in") /\ place' = [place EXCEPT !.step = @ + 1]
    BY <1>3, AnswerTurn
  <2>2. scl = "lo"
    BY <1>3 DEF AtAnswer, ClockAt
  <2>3. slave' = slave
    <3>1. slave' = (IF slave.scl THEN slave ELSE Bits!Rises(slave, Bits!Sda))
      BY <1>1, <2>1, <2>2, SclLetGo
    <3>2. Bits!Rises(slave, Bits!Sda) = slave
      BY <1>1 DEF Bits!Rises
    <3> QED
      BY <3>1, <3>2
  <2>4. scl' = "in" /\ sda' = sda /\ UNCHANGED <<call, dat, buf, ret>>
    BY <2>1 DEF SclTo
  <2>5. AtAnswer'
    BY <1>3, <2>1, <2>3, <2>4, StepOn
       DEF AtAnswer, Writing, Took, TookBits, Out, Starts, Addressed, ClockAt
  <2> QED
    BY <2>1, <2>3, <2>4, <2>5, StepOn DEF BitsType, InStep
<1>4. CASE place.step = 3
  <2>1. Bits!Wait /\ place' = [place EXCEPT !.step = @ + 1]
    BY <1>4, AnswerTurn
  <2>2. UNCHANGED <<call, sda, scl, dat, buf, ret, slave>>
    BY <2>1 DEF Bits!Wait
  <2>3. AtAnswer'
    BY <1>4, <2>1, <2>2, StepOn
       DEF AtAnswer, Writing, Took, TookBits, Out, Starts, Addressed, ClockAt
  <2> QED
    BY <2>1, <2>2, <2>3, StepOn DEF BitsType, InStep
<1>5. CASE place.step = 4
  <2>1. SclTo("hi") /\ place' = [place EXCEPT !.step = @ + 1]
    BY <1>5, AnswerTurn
  <2>2. scl = "in"
    BY <1>5 DEF AtAnswer, ClockAt
  <2>3. slave' = slave /\ ~slave.scl
    BY <1>1, <2>1, <2>2, SclHigh
  <2>4. scl' = "hi" /\ sda' = sda /\ UNCHANGED <<call, dat, buf, ret>>
    BY <2>1 DEF SclTo
  <2>5. AtAnswer'
    BY <1>5, <2>1, <2>3, <2>4, StepOn
       DEF AtAnswer, Writing, Took, TookBits, Out, Starts, Addressed, ClockAt
  <2> QED
    BY <2>1, <2>3, <2>4, <2>5, StepOn DEF BitsType, InStep
<1>6. CASE place.step = 5
  <2>1. Bits!ReadAck /\ place' = [place EXCEPT !.step = @ + 1]
    BY <1>6, AnswerTurn
  <2>2. UNCHANGED <<call, sda, scl, dat, buf, slave>> /\ ret' = (IF Bits!Sda = 0 THEN 0 ELSE -1)
    BY <2>1 DEF Bits!ReadAck
  <2>3. (Bits!Sda = 0) <=> slave.sda
    BY <1>6 DEF AtAnswer, Bits!Sda, Bits!Level
  <2>4. ret' = (IF ~slave'.sda THEN -1 ELSE 0) /\ ret' \in {-1, 0}
    BY <2>2, <2>3
  <2>5. AtAnswer'
    BY <1>6, <2>1, <2>2, <2>4, StepOn
       DEF AtAnswer, Writing, Took, TookBits, Out, Starts, Addressed, ClockAt
  <2> QED
    BY <2>1, <2>2, <2>4, <2>5, StepOn DEF BitsType, InStep
<1>7. CASE place.step = 6
  <2>1. SclTo("lo") /\ place' = Bits!NextTurn
    BY <1>7, AnswerTurn
  <2> QED
    BY <1>7, <2>1, NotAcked, AckedForMore, AckedForReading
<1> QED
  BY <1>2, <1>3, <1>4, <1>5, <1>6, <1>7 DEF AtAnswer

LEMMA RecvStep ==
  ASSUME BitsType, place.fn = "recv", AtRecv, Bits!Master, ~forced'
  PROVE  BitsType' /\ InStep'
<1>1. SdaTo("in") /\ place' = Bits!At("take", place.byte, 1)
  BY RecvTurn DEF AtRecv, Bits!NextTurn
<1>2. slave \in SlaveType /\ scl = "lo" /\ place.byte \in Nat
  BY DEF AtRecv, BitsType, Place
<1>3. slave' = slave
  BY <1>1, <1>2, SdaQuiet DEF BitsType
<1>4. scl' = scl /\ sda' = "in" /\ UNCHANGED <<call, dat, buf, ret>>
  BY <1>1 DEF SdaTo
<1>5. /\ place' \in Place /\ place'.fn = "take" /\ place'.byte = place.byte /\ place'.bit = 1
      /\ place'.step = 1
  BY <1>1, <1>2 DEF Bits!At, Place, Fns
<1>6. Reading' /\ Sending(slave.sent[place.byte], 1)' /\ ReadBytes(place.byte - 1)'
  BY <1>3, <1>4, <1>5 DEF AtRecv, Reading, Took, Out, Sending, ReadBytes
<1>7. ReadBits(0)'
  BY <1>4 DEF AtRecv, ReadBits
<1>8. AtTake'
  BY <1>2, <1>4, <1>5, <1>6, <1>7, BitsAssumption DEF AtTake, ClockAt
<1> QED
  BY <1>3, <1>4, <1>5, <1>8 DEF BitsType, InStep

\* The master reads the bit the slave has put on the line.
LEMMA TakeRead ==
  ASSUME BitsType, place.fn = "take", AtTake, place.step = 4, Bits!ReadBit,
         place' = [place EXCEPT !.step = @ + 1]
  PROVE  BitsType' /\ InStep'
<1> DEFINE v == slave.sent[place.byte]
<1>1. /\ slave \in SlaveType /\ place \in Place /\ place.bit \in 1..W /\ Reading
      /\ dat \in Seq({0, 1}) /\ buf \in Seq(Bits!Byte)
      /\ ReadBytes(place.byte - 1) /\ ReadBits(place.bit - 1) /\ Sending(v, place.bit)
  BY DEF AtTake, BitsType
<1>2. slave.sent \in Seq(Bits!Byte) /\ Len(slave.sent) = place.byte /\ place.byte \in Nat \ {0}
  <2>1. place.byte \in Nat /\ place.byte >= 1
    <3>1. call \in ReadCalls /\ place.byte \in 1..call.size
      BY <1>1 DEF Reading
    <3>2. call.size \in Nat
      BY <3>1, BitsAssumption DEF ReadCalls
    <3> QED
      BY <3>1, <3>2
  <2> QED
    BY <1>1, <2>1 DEF Reading, SlaveType
<1>3. v \in Bits!Byte
  BY <1>2
<1>4. v \in Seq({0, 1}) /\ Len(v) = W /\ \A i \in 1..W : v[i] \in {0, 1}
  BY <1>3, ByteSeq
<1>5. Bits!Sda = v[place.bit]
  <2>1. sda = "in" /\ slave.sda = (v[place.bit] = 0) /\ v[place.bit] \in {0, 1}
    BY <1>1, <1>4 DEF AtTake, Sending
  <2> QED
    BY <2>1 DEF Bits!Sda, Bits!Level
<1> DEFINE d == Append(dat, Bits!Sda)
<1>6. d \in Seq({0, 1}) /\ Len(d) = place.bit /\ \A i \in 1..place.bit : d[i] = v[i]
  <2>1. place.bit - 1 \in Nat /\ place.bit - 1 + 1 = place.bit /\ Bits!Sda \in {0, 1}
    BY <1>1, <1>4, <1>5, BitsAssumption
  <2>2. Len(dat) = place.bit - 1 /\ \A i \in 1..(place.bit - 1) : dat[i] = v[i]
    BY <1>1 DEF ReadBits
  <2>3. /\ Append(dat, Bits!Sda) \in Seq({0, 1}) /\ Len(Append(dat, Bits!Sda)) = place.bit - 1 + 1
        /\ \A i \in 1..(place.bit - 1 + 1) : Append(dat, Bits!Sda)[i] = v[i]
    BY <1>1, <1>5, <2>1, <2>2, OneMore
  <2> QED
    BY <2>1, <2>3
<1> HIDE DEF d
<1>7. /\ UNCHANGED <<call, sda, scl, ret, slave>>
      /\ IF place.bit < W THEN dat' = d /\ UNCHANGED buf ELSE dat' = <<>> /\ buf' = Append(buf, d)
  BY DEF Bits!ReadBit, d
<1>8. place' \in Place /\ place'.fn = "take" /\ place'.byte = place.byte /\ place'.bit = place.bit
      /\ place'.step = 5
  BY StepOn
<1>9. Reading' /\ Sending(slave.sent[place.byte], place.bit)'
  BY <1>1, <1>7, <1>8 DEF Reading, Took, Out, Sending
<1>10. ClockAt(2, 4)' /\ sda' = "in"
  BY <1>7, <1>8 DEF AtTake, ClockAt
<1>11. CASE place.bit < W
  <2>1. dat' = d /\ buf' = buf
    BY <1>7, <1>11
  <2>2. ReadBits(place.bit)'
    BY <1>6, <1>7, <1>8, <2>1 DEF ReadBits
  <2>3. ReadBytes(place.byte - 1)'
    BY <1>1, <1>7, <1>8, <2>1 DEF ReadBytes
  <2>4. place'.bit # W
    BY <1>1, <1>8, <1>11, BitsAssumption
  <2>5. AtTake'
    BY <1>1, <1>8, <1>9, <1>10, <2>2, <2>3, <2>4 DEF AtTake
  <2> QED
    BY <1>6, <1>7, <1>8, <2>1, <2>5 DEF BitsType, InStep
<1>12. CASE ~(place.bit < W)
  <2>1. dat' = <<>> /\ buf' = Append(buf, d) /\ place.bit = W
    BY <1>1, <1>7, <1>12, BitsAssumption
  <2>2. d = v /\ d \in Bits!Byte
    <3>1. d = v
      <4> HIDE DEF v
      <4> QED
        BY <1>4, <1>6, <2>1
    <3> QED
      BY <1>3, <3>1
  <2>3. buf' \in Seq(Bits!Byte) /\ Len(buf') = place.byte /\ buf'[place.byte] = v
        /\ \A i \in 1..(place.byte - 1) : buf'[i] = slave.sent[i]
    BY <1>1, <1>2, <2>1, <2>2 DEF ReadBytes
  <2>4. ReadBytes(place.byte)'
    BY <1>2, <1>7, <1>8, <2>3 DEF ReadBytes
  <2>5. AtTake'
    BY <1>1, <1>8, <1>9, <1>10, <2>1, <2>4 DEF AtTake
  <2> QED
    BY <1>7, <1>8, <2>1, <2>3, <2>5 DEF BitsType, InStep
<1> QED
  BY <1>11, <1>12

\* The clock falls after the bit: the next one, or the end of the byte.
LEMMA TakeFall ==
  ASSUME BitsType, place.fn = "take", AtTake, place.step = 5, SclTo("lo"), place' = Bits!NextTurn
  PROVE  BitsType' /\ InStep'
<1>1. /\ slave \in SlaveType /\ slave.st = "send" /\ scl = "hi" /\ ~slave.scl
      /\ place.bit \in 1..W /\ place.byte \in Nat /\ place.bit \in Nat /\ Reading
  BY DEF AtTake, BitsType, ClockAt, Sending, Place
<1>2. scl' = "lo" /\ sda' = "in" /\ UNCHANGED <<call, dat, buf, ret>>
  BY DEF SclTo, AtTake
<1> DEFINE v == slave.sent[place.byte]
<1>3. Len(slave.bits) = W - place.bit /\ slave.bits \in Seq({0, 1})
      /\ \A i \in 1..(W - place.bit) : slave.bits[i] = v[place.bit + i]
  BY <1>1 DEF AtTake, Sending, SlaveType
<1>4. CASE place.bit < W
  <2>1. slave.bits # <<>>
    BY <1>1, <1>3, <1>4, BitsAssumption
  <2>2. /\ slave' \in SlaveType /\ slave'.st = slave.st /\ slave'.got = slave.got
        /\ slave'.sent = slave.sent /\ slave'.starts = slave.starts /\ slave'.stops = slave.stops
        /\ slave'.bits = Tail(slave.bits) /\ slave'.sda = (Head(slave.bits) = 0)
    BY <1>1, <2>1, SlaveShifts
  <2>3. place' = Bits!At("take", place.byte, place.bit + 1)
    BY <1>4 DEF Bits!NextTurn
  <2>4. /\ place' \in Place /\ place'.fn = "take" /\ place'.byte = place.byte
        /\ place'.bit = place.bit + 1 /\ place'.step = 1
    BY <1>1, <2>3 DEF Bits!At, Place, Fns
  <2>5. Sending(slave.sent[place.byte], place.bit)'
    <3>1. Head(slave.bits) = v[place.bit + 1]
      <4>1. Head(slave.bits) = slave.bits[1]
        BY <1>3, <2>1, TailOf
      <4>2. 1 \in 1..(W - place.bit)
        BY <1>1, <1>4, BitsAssumption
      <4> HIDE DEF v
      <4> QED
        BY <1>3, <4>1, <4>2
    <3>2. Len(Tail(slave.bits)) = W - (place.bit + 1)
      <4>1. Len(Tail(slave.bits)) = Len(slave.bits) - 1
        BY <1>3, <2>1, TailOf
      <4>2. W \in Int /\ place.bit \in Int
        BY <1>1, BitsAssumption
      <4> QED
        BY <1>3, <4>1, <4>2
    <3>3. \A i \in 1..(W - (place.bit + 1)) : Tail(slave.bits)[i] = v[place.bit + 1 + i]
      <4> TAKE i \in 1..(W - (place.bit + 1))
      <4>1. i \in 1..(Len(slave.bits) - 1) /\ i + 1 \in 1..(W - place.bit)
            /\ place.bit + (i + 1) = place.bit + 1 + i
        <5>1. i \in Int /\ 1 <= i /\ i <= W - (place.bit + 1) /\ W \in Int /\ place.bit \in Int
          BY <1>1, BitsAssumption
        <5>2. Len(slave.bits) = W - place.bit
          BY <1>3
        <5> HIDE DEF v
        <5> QED
          BY <5>1, <5>2
      <4>2. Tail(slave.bits)[i] = slave.bits[i + 1]
        BY <1>3, <2>1, <4>1, TailOf
      <4>3. slave.bits[i + 1] = v[place.bit + (i + 1)]
        BY <1>3, <4>1
      <4> QED
        BY <4>1, <4>2, <4>3
    <3> QED
      BY <1>1, <2>2, <2>4, <3>1, <3>2, <3>3 DEF Sending
  <2>6. Reading' /\ ReadBytes(place.byte - 1)' /\ ReadBits(place.bit - 1)'
    BY <1>1, <1>2, <1>4, <2>2, <2>4, BitsAssumption DEF AtTake, Reading, Took, Out, ReadBytes, ReadBits
  <2>7. AtTake'
    BY <1>1, <1>2, <1>4, <2>4, <2>5, <2>6, BitsAssumption DEF AtTake, ClockAt
  <2> QED
    BY <1>2, <2>2, <2>4, <2>7 DEF BitsType, InStep
<1>5. CASE ~(place.bit < W)
  <2>0. place.bit = W
    BY <1>1, <1>5, BitsAssumption
  <2>1. slave.bits = <<>>
    BY <1>3, <2>0, BitsAssumption
  <2>2. /\ slave' \in SlaveType /\ slave'.st = "acked" /\ ~slave'.sda /\ slave'.got = slave.got
        /\ slave'.sent = slave.sent /\ slave'.starts = slave.starts /\ slave'.stops = slave.stops
        /\ slave'.bits = slave.bits
    BY <1>1, <2>1, SlaveListens
  <2>3. place' = Bits!At("sendack", place.byte, 1)
    BY <1>5 DEF Bits!NextTurn
  <2>4. place' \in Place /\ place'.fn = "sendack" /\ place'.byte = place.byte /\ place'.step = 1
    BY <1>1, <2>3 DEF Bits!At, Place, Fns
  <2>5. Reading' /\ ReadBytes(place.byte)' /\ dat' = <<>>
    BY <1>1, <1>2, <2>0, <2>2, <2>4 DEF AtTake, Reading, Took, Out, ReadBytes
  <2>6. AtSendAck'
    BY <1>2, <2>1, <2>2, <2>4, <2>5 DEF AtSendAck, ClockAt
  <2> QED
    BY <1>2, <2>2, <2>4, <2>6 DEF BitsType, InStep
<1> QED
  BY <1>4, <1>5

LEMMA TakeStep ==
  ASSUME BitsType, place.fn = "take", AtTake, Bits!Master, ~forced'
  PROVE  BitsType' /\ InStep'
<1>1. slave \in SlaveType /\ slave.st = "send"
  BY DEF AtTake, BitsType, Sending
<1>2. ASSUME place' = [place EXCEPT !.step = @ + 1], place.step <= 3, slave' = slave,
             UNCHANGED <<call, sda, dat, buf, ret>>, ClockAt(2, 4)', scl' \in {"hi", "lo", "in"}
      PROVE  BitsType' /\ InStep'
  <2>1. /\ place' \in Place /\ place'.fn = "take" /\ place'.byte = place.byte
        /\ place'.bit = place.bit /\ place'.step = place.step + 1 /\ place.step \in 1..3
    BY <1>2, StepOn DEF AtTake
  <2>2. AtTake'
    BY <1>2, <2>1 DEF AtTake, Reading, Took, Out, Sending, ReadBytes, ReadBits
  <2> QED
    BY <1>2, <2>1, <2>2 DEF BitsType, InStep
<1>3. CASE place.step = 1
  <2>1. SclTo("in") /\ place' = [place EXCEPT !.step = @ + 1]
    BY <1>3, TakeTurn
  <2>2. scl = "lo"
    BY <1>3 DEF AtTake, ClockAt
  <2>3. slave' = slave
    <3>1. slave' = (IF slave.scl THEN slave ELSE Bits!Rises(slave, Bits!Sda))
      BY <1>1, <2>1, <2>2, SclLetGo
    <3>2. Bits!Rises(slave, Bits!Sda) = slave
      BY <1>1 DEF Bits!Rises
    <3> QED
      BY <3>1, <3>2
  <2>4. scl' = "in" /\ UNCHANGED <<call, sda, dat, buf, ret>>
    BY <2>1 DEF SclTo
  <2>5. ClockAt(2, 4)'
    BY <1>3, <2>1, <2>4, StepOn DEF ClockAt
  <2> QED
    BY <1>2, <1>3, <2>1, <2>3, <2>4, <2>5
<1>4. CASE place.step = 2
  <2>1. Bits!Wait /\ place' = [place EXCEPT !.step = @ + 1]
    BY <1>4, TakeTurn
  <2>2. UNCHANGED <<call, sda, scl, dat, buf, ret, slave>>
    BY <2>1 DEF Bits!Wait
  <2>3. ClockAt(2, 4)' /\ scl' = "in"
    BY <1>4, <2>1, <2>2, StepOn DEF AtTake, ClockAt
  <2> QED
    BY <1>2, <1>4, <2>1, <2>2, <2>3
<1>5. CASE place.step = 3
  <2>1. SclTo("hi") /\ place' = [place EXCEPT !.step = @ + 1]
    BY <1>5, TakeTurn
  <2>2. scl = "in"
    BY <1>5 DEF AtTake, ClockAt
  <2>3. slave' = slave /\ ~slave.scl
    BY <1>1, <2>1, <2>2, SclHigh
  <2>4. scl' = "hi" /\ UNCHANGED <<call, sda, dat, buf, ret>>
    BY <2>1 DEF SclTo
  <2>5. ClockAt(2, 4)'
    BY <1>5, <2>1, <2>3, <2>4, StepOn DEF ClockAt
  <2> QED
    BY <1>2, <1>5, <2>1, <2>3, <2>4, <2>5
<1>6. CASE place.step = 4
  <2>1. Bits!ReadBit /\ place' = [place EXCEPT !.step = @ + 1]
    BY <1>6, TakeTurn
  <2> QED
    BY <1>6, <2>1, TakeRead
<1>7. CASE place.step = 5
  <2>1. SclTo("lo") /\ place' = Bits!NextTurn
    BY <1>7, TakeTurn
  <2> QED
    BY <1>7, <2>1, TakeFall
<1> QED
  BY <1>3, <1>4, <1>5, <1>6, <1>7 DEF AtTake

\* The clock falls after the master's answer to a byte: the slave sends the next
\* one, or is done.
LEMMA SendAckFall ==
  ASSUME BitsType, place.fn = "sendack", AtSendAck, place.step = 3, SclTo("lo"),
         place' = Bits!NextTurn
  PROVE  BitsType' /\ InStep'
<1>1. /\ slave \in SlaveType /\ slave.st = "acked" /\ scl = "hi" /\ ~slave.scl /\ ~slave.sda
      /\ slave.bits = <<More>> /\ Reading /\ call \in ReadCalls /\ ret = 0 /\ dat = <<>>
      /\ Took(3) /\ ReadBytes(place.byte) /\ Len(slave.sent) = place.byte
  BY DEF AtSendAck, BitsType, ClockAt, Reading
<1>2. place.byte \in 1..call.size /\ call.size \in 1..MaxRead /\ place.byte \in Nat
  BY <1>1, OutIs DEF Reading, BitsType, Place
<1>3. scl' = "lo" /\ sda' = sda /\ UNCHANGED <<call, dat, buf, ret>>
  BY DEF SclTo
<1>4. CASE place.byte < call.size
  <2>1. slave.bits = << 0 >>
    BY <1>1, <1>4 DEF More
  <2>2. PICK v \in Bits!Byte :
          /\ slave' \in SlaveType /\ slave'.st = "send" /\ slave'.bits = Tail(v)
          /\ slave'.sda = (Head(v) = 0) /\ slave'.sent = Append(slave.sent, v)
          /\ slave'.got = slave.got /\ slave'.starts = slave.starts /\ slave'.stops = slave.stops
    BY <1>1, <2>1, SlaveSends
  <2>3. place' = Bits!At("recv", place.byte + 1, 1)
    BY <1>4 DEF Bits!NextTurn
  <2>4. place' \in Place /\ place'.fn = "recv" /\ place'.byte = place.byte + 1 /\ place'.step = 1
    BY <1>2, <2>3 DEF Bits!At, Place, Fns
  <2>5. /\ Len(slave'.sent) = place.byte + 1 /\ slave'.sent[place.byte + 1] = v
        /\ \A i \in 1..place.byte : slave'.sent[i] = slave.sent[i]
    <3>1. slave.sent \in Seq(Bits!Byte)
      BY <1>1 DEF SlaveType
    <3> QED
      BY <1>1, <1>2, <2>2, <3>1
  <2>6. Reading'
    <3>1. place'.byte \in 1..call'.size
      BY <1>2, <1>3, <1>4, <2>4, BitsAssumption
    <3>2. Took(3)' /\ slave'.starts = 2 /\ slave'.stops = 0
      BY <1>1, <1>3, <2>2 DEF Took, Out, Reading
    <3> QED
      BY <1>1, <1>3, <2>4, <2>5, <3>1, <3>2 DEF Reading
  <2>7. ReadBytes(place.byte - 1)'
    BY <1>1, <1>2, <1>3, <2>4, <2>5 DEF ReadBytes
  <2>8. Sending(slave.sent[place.byte], 1)'
    <3>1. Sending(v, 1)'
      BY <2>2, FirstBit
    <3> QED
      BY <2>4, <2>5, <3>1 DEF Sending
  <2>9. AtRecv'
    BY <1>1, <1>3, <2>4, <2>6, <2>7, <2>8 DEF AtRecv
  <2> QED
    BY <1>3, <2>2, <2>4, <2>9 DEF BitsType, InStep
<1>5. CASE ~(place.byte < call.size)
  <2>1. slave.bits # << 0 >>
    BY <1>1, <1>5 DEF More
  <2>2. /\ slave' \in SlaveType /\ slave'.st = "idle" /\ slave'.sda = slave.sda
        /\ slave'.got = slave.got /\ slave'.sent = slave.sent
        /\ slave'.starts = slave.starts /\ slave'.stops = slave.stops
    BY <1>1, <2>1, SlaveRests
  <2>3. place' = Bits!At("stop", 1, 1)
    BY <1>5 DEF Bits!NextTurn
  <2>4. place' \in Place /\ place'.fn = "stop" /\ place'.step = 1
    BY <2>3 DEF Bits!At, Place, Fns
  <2>5. ReadBytes(Len(slave.sent))' /\ Took(3)'
    BY <1>1, <1>3, <2>2 DEF ReadBytes, Took, Out
  <2>6. call.op = "read" /\ slave'.starts = 2 /\ slave'.stops = 0
    BY <1>1, <2>2, OutIs DEF Reading
  <2>7. Moved'
    BY <1>1, <1>3, <2>2, <2>5, <2>6 DEF Moved
  <2>8. AtStop'
    BY <1>3, <2>4, <2>6, <2>7 DEF AtStop, ClockAt
  <2> QED
    BY <1>3, <2>2, <2>4, <2>8 DEF BitsType, InStep
<1> QED
  BY <1>4, <1>5

LEMMA SendAckStep ==
  ASSUME BitsType, place.fn = "sendack", AtSendAck, Bits!Master, ~forced'
  PROVE  BitsType' /\ InStep'
<1>1. slave \in SlaveType /\ slave.st = "acked" /\ More \in {0, 1} /\ Bits!Pin(More) \in {"hi", "lo"}
  BY DEF AtSendAck, BitsType, More, Bits!Pin
<1>2. CASE place.step = 1
  <2>1. SdaTo(Bits!Pin(More)) /\ place' = [place EXCEPT !.step = @ + 1]
    BY <1>2, SendAckTurn
  <2>2. scl = "lo"
    BY <1>2 DEF AtSendAck, ClockAt
  <2>3. slave' = slave
    BY <1>1, <2>1, <2>2, SdaQuiet DEF BitsType
  <2>4. scl' = scl /\ sda' = Bits!Pin(More) /\ UNCHANGED <<call, dat, buf, ret>>
    BY <2>1 DEF SdaTo
  <2>5. /\ place' \in Place /\ place'.fn = "sendack" /\ place'.byte = place.byte
        /\ place'.step = 2
    BY <1>2, <2>1, StepOn
  <2>6. AtSendAck'
    BY <1>2, <2>3, <2>4, <2>5 DEF AtSendAck, Reading, Took, Out, ReadBytes, ClockAt, More
  <2> QED
    BY <1>1, <2>3, <2>4, <2>5, <2>6 DEF BitsType, InStep
<1>3. CASE place.step = 2
  <2>1. SclTo("hi") /\ place' = [place EXCEPT !.step = @ + 1]
    BY <1>3, SendAckTurn
  <2>2. scl = "lo" /\ sda = Bits!Pin(More) /\ ~slave.sda /\ slave.bits = <<>>
    BY <1>3 DEF AtSendAck, ClockAt
  <2>3. Bits!Sda = More
    BY <1>1, <2>2 DEF Bits!Sda, Bits!Level, Bits!Pin
  <2>4. slave' = Bits!Rises(slave, More) /\ ~slave.scl
    BY <1>1, <2>1, <2>2, <2>3, SclHigh
  <2>5. /\ slave' \in SlaveType /\ slave'.scl = slave.scl /\ slave'.st = "acked"
        /\ ~slave'.sda /\ slave'.got = slave.got
        /\ slave'.sent = slave.sent /\ slave'.starts = slave.starts /\ slave'.stops = slave.stops
        /\ slave'.bits = Append(<<>>, More)
    BY <1>1, <2>2, <2>4, RisesFields
  <2>6. slave'.bits = <<More>>
    BY <2>5
  <2>7. scl' = "hi" /\ sda' = sda /\ UNCHANGED <<call, dat, buf, ret>>
    BY <2>1 DEF SclTo
  <2>8. /\ place' \in Place /\ place'.fn = "sendack" /\ place'.byte = place.byte
        /\ place'.step = 3
    BY <1>3, <2>1, StepOn
  <2>9. Reading' /\ ReadBytes(place.byte)' /\ More' = More
    BY <2>5, <2>7, <2>8 DEF AtSendAck, Reading, Took, Out, ReadBytes, More
  <2>10. AtSendAck'
    BY <2>2, <2>4, <2>5, <2>6, <2>7, <2>8, <2>9 DEF AtSendAck, ClockAt
  <2> QED
    BY <2>5, <2>7, <2>8, <2>10 DEF BitsType, InStep
<1>4. CASE place.step = 3
  <2>1. SclTo("lo") /\ place' = Bits!NextTurn
    BY <1>4, SendAckTurn
  <2> QED
    BY <1>4, <2>1, SendAckFall
<1> QED
  BY <1>2, <1>3, <1>4 DEF AtSendAck

\* SDA rises while SCL is high: the slave is idle after that.
LEMMA StopSeen ==
  ASSUME slave \in SlaveType, scl = "hi", ~slave.scl, sda = "lo", ~slave.sda, SdaTo("hi")
  PROVE  /\ slave' \in SlaveType /\ slave'.st = "idle" /\ slave'.sda = slave.sda
         /\ slave'.scl = slave.scl /\ slave'.got = slave.got /\ slave'.sent = slave.sent
         /\ slave'.starts = slave.starts /\ slave'.stops = slave.stops + 1
<1>1. Bits!Scl = 1 /\ Bits!Level(scl, slave.scl) = 1 /\ Bits!Sda = 0 /\ Bits!Level("hi", slave.sda) = 1
  BY DEF Bits!Scl, Bits!Sda, Bits!Level
<1>2. slave' \in Bits!Reactions(slave, 1, 0, 1, 1)
  BY <1>1 DEF SdaTo, Reacts
<1>3. slave' = [slave EXCEPT !.st = "idle", !.stops = @ + 1]
  BY <1>2, ReactStop
<1>4. slave.stops + 1 \in Nat
  BY DEF SlaveType
<1> QED
  BY <1>3, <1>4 DEF SlaveType

LEMMA StopStep ==
  ASSUME BitsType, place.fn = "stop", AtStop, Bits!Master, ~forced'
  PROVE  BitsType' /\ InStep'
<1>1. slave \in SlaveType /\ ~slave.sda /\ Moved
  BY DEF AtStop, Moved, BitsType
<1>2. ASSUME slave'.got = slave.got, slave'.sent = slave.sent, slave'.starts = slave.starts,
             ~slave'.sda, UNCHANGED <<call, dat, buf, ret>>
      PROVE  Moved'
  <2>1. \A k \in 0..3 : Took(k) => Took(k)'
    BY <1>2 DEF Took, Out
  <2>2. \E k \in 0..3 : Took(k)' /\ (ret' = 0 => k = 3)
    BY <1>1, <1>2, <2>1 DEF Moved
  <2> QED
    BY <1>1, <1>2, <2>2 DEF Moved, ReadBytes
<1>3. CASE place.step = 1
  <2>1. SdaTo("lo") /\ place' = [place EXCEPT !.step = @ + 1]
    BY <1>3, StopTurn
  <2>2. scl = "lo"
    BY <1>3 DEF AtStop, ClockAt
  <2>3. slave' = slave
    BY <1>1, <2>1, <2>2, SdaQuiet DEF BitsType
  <2>4. scl' = scl /\ sda' = "lo" /\ UNCHANGED <<call, dat, buf, ret>>
    BY <2>1 DEF SdaTo
  <2>5. place' \in Place /\ place'.fn = "stop" /\ place'.step = 2
    BY <1>3, <2>1, StepOn
  <2>6. AtStop'
    BY <1>1, <1>2, <2>2, <2>3, <2>4, <2>5 DEF AtStop, ClockAt
  <2> QED
    BY <2>3, <2>4, <2>5, <2>6 DEF BitsType, InStep
<1>4. CASE place.step = 2
  <2>1. SclTo("hi") /\ place' = [place EXCEPT !.step = @ + 1]
    BY <1>4, StopTurn
  <2>2. scl = "lo" /\ sda = "lo"
    BY <1>4 DEF AtStop, ClockAt
  <2>3. slave' = Bits!Rises(slave, Bits!Sda) /\ ~slave.scl /\ Bits!Sda \in {0, 1}
    <3>1. Bits!Sda \in {0, 1}
      BY DEF Bits!Sda, Bits!Level
    <3> QED
      BY <1>1, <2>1, <2>2, <3>1, SclHigh
  <2>4. /\ slave' \in SlaveType /\ slave'.scl = slave.scl /\ slave'.sda = slave.sda
        /\ slave'.got = slave.got /\ slave'.sent = slave.sent
        /\ slave'.starts = slave.starts /\ slave'.stops = slave.stops
    BY <1>1, <2>3, RisesFields
  <2>5. scl' = "hi" /\ sda' = sda /\ UNCHANGED <<call, dat, buf, ret>>
    BY <2>1 DEF SclTo
  <2>6. place' \in Place /\ place'.fn = "stop" /\ place'.step = 3
    BY <1>4, <2>1, StepOn
  <2>7. AtStop'
    BY <1>1, <1>2, <2>2, <2>3, <2>4, <2>5, <2>6 DEF AtStop, ClockAt
  <2> QED
    BY <2>4, <2>5, <2>6, <2>7 DEF BitsType, InStep
<1>5. CASE place.step = 3
  <2>1. SdaTo("hi") /\ place' = Bits!At("done", 1, 1)
    BY <1>5, StopTurn DEF Bits!NextTurn
  <2>2. scl = "hi" /\ ~slave.scl /\ sda = "lo" /\ slave.stops = 0
    BY <1>5 DEF AtStop, ClockAt
  <2>3. /\ slave' \in SlaveType /\ slave'.st = "idle" /\ slave'.sda = slave.sda
        /\ slave'.scl = slave.scl /\ slave'.got = slave.got /\ slave'.sent = slave.sent
        /\ slave'.starts = slave.starts /\ slave'.stops = 1
    BY <1>1, <2>1, <2>2, StopSeen
  <2>4. scl' = scl /\ sda' = "hi" /\ UNCHANGED <<call, dat, buf, ret>>
    BY <2>1 DEF SdaTo
  <2>5. place' \in Place /\ place'.fn = "done"
    BY <2>1 DEF Bits!At, Place, Fns
  <2>6. AtDone'
    BY <1>1, <1>2, <2>2, <2>3, <2>4 DEF AtDone
  <2> QED
    BY <2>3, <2>4, <2>5, <2>6 DEF BitsType, InStep
<1> QED
  BY <1>3, <1>4, <1>5 DEF AtStop

\* The clock falls for a stuck slave.
LEMMA ToggleFall ==
  ASSUME BitsType, AtToggle, place.step = 1, SclTo("lo")
  PROVE  /\ slave' \in SlaveType
         /\ \/ slave'.st = "idle" /\ ~slave'.sda
            \/ slave'.st = "send" /\ Len(slave'.bits) + place.byte <= W
            \/ slave'.st \in {"recv", "acked"} /\ ~slave'.sda
<1>1. /\ slave \in SlaveType /\ scl # "lo" /\ ~slave.scl /\ place.byte \in 1..(W + 1)
      /\ W \in Nat /\ place.byte \in Nat
  BY BitsAssumption DEF AtToggle, BitsType, Place
<1>2. \/ slave.st = "idle" /\ ~slave.sda
      \/ slave.st = "send" /\ Len(slave.bits) + place.byte <= W + 1
      \/ place.byte = 1 /\ slave.st = "ack" /\ slave.sda
  <2>1. Len(slave.bits) \in Nat
    BY <1>1 DEF SlaveType
  <2> QED
    BY <1>1, <2>1 DEF AtToggle, Toggled
<1>3. CASE slave.st = "idle" /\ ~slave.sda
  BY <1>1, <1>3, SlaveKeeps
<1>4. CASE slave.st = "send" /\ Len(slave.bits) + place.byte <= W + 1
  <2>1. CASE slave.bits = <<>>
    BY <1>1, <1>4, <2>1, SlaveListens
  <2>2. CASE slave.bits # <<>>
    <3>1. slave.bits \in Seq({0, 1})
      BY <1>1 DEF SlaveType
    <3>2. Len(Tail(slave.bits)) = Len(slave.bits) - 1 /\ Len(slave.bits) \in Nat
      BY <2>2, <3>1, TailOf
    <3>3. slave' \in SlaveType /\ slave'.st = "send" /\ slave'.bits = Tail(slave.bits)
      BY <1>1, <1>4, <2>2, SlaveShifts
    <3> QED
      BY <1>1, <1>4, <3>2, <3>3
  <2> QED
    BY <2>1, <2>2
<1>5. CASE place.byte = 1 /\ slave.st = "ack" /\ slave.sda
  <2>1. CASE slave.first /\ slave.bits[W] = 1
    <3>1. PICK v \in Bits!Byte :
            slave' \in SlaveType /\ slave'.st = "send" /\ slave'.bits = Tail(v)
      BY <1>1, <1>5, <2>1, SlaveSends
    <3>2. v \in Seq({0, 1}) /\ v # <<>> /\ Len(v) = W
      BY ByteSeq
    <3>3. Len(Tail(v)) = W - 1
      BY <3>2, TailOf
    <3> QED
      BY <1>1, <1>5, <3>1, <3>3
  <2>2. CASE ~(slave.first /\ slave.bits[W] = 1)
    BY <1>1, <1>5, <2>2, SlaveReceives
  <2> QED
    BY <2>1, <2>2
<1> QED
  BY <1>2, <1>3, <1>4, <1>5

\* SDA is let go with the clock high: a slave that does not pull it sees a stop.
LEMMA ToggleEnd ==
  ASSUME BitsType, AtToggle, place.step = 4, SdaTo("hi"), place' = Bits!NextTurn,
         place.fn = "toggle"
  PROVE  BitsType' /\ InStep'
<1>1. /\ slave \in SlaveType /\ scl = "hi" /\ ~slave.scl /\ sda = "lo"
      /\ place.byte \in 1..(W + 1) /\ place.byte \in Nat /\ W \in Nat
      /\ call = [op |-> "restore"] /\ ret = 0
  BY BitsAssumption DEF AtToggle, BitsType, ClockAt, Place
<1>2. scl' = "hi" /\ sda' = "hi" /\ UNCHANGED <<call, dat, buf, ret>>
  BY <1>1 DEF SdaTo
<1>3. slave' \in SlaveType /\ ~slave'.scl
      /\ \/ slave'.st = "idle" /\ ~slave'.sda
         \/ /\ slave'.st = "send" /\ slave'.sda
            /\ Len(slave'.bits) + place.byte <= W /\ Len(slave'.bits) \in Nat
  <2>1. CASE slave.sda
    <3>1. slave.st = "send" /\ Len(slave.bits) + place.byte <= W /\ Len(slave.bits) \in Nat
      BY <1>1, <2>1 DEF AtToggle, Toggled, SlaveType
    <3>2. Bits!Level("hi", slave.sda) = Bits!Sda
      BY <1>1, <2>1 DEF Bits!Level, Bits!Sda
    <3>3. slave' = slave
      BY <1>1, <3>2, SdaQuiet
    <3> QED
      BY <1>1, <2>1, <3>1, <3>3
  <2>2. CASE ~slave.sda
    BY <1>1, <2>2, StopSeen
  <2> QED
    BY <2>1, <2>2
<1>4. CASE place.byte <= W
  <2>1. place' = Bits!At("toggle", place.byte + 1, 1)
    BY <1>4 DEF Bits!NextTurn
  <2>2. place' \in Place /\ place'.fn = "toggle" /\ place'.byte = place.byte + 1 /\ place'.step = 1
    BY <1>1, <2>1 DEF Bits!At, Place, Fns
  <2>3. Toggled(place.byte - 1)' /\ (slave'.st = "send" => slave'.sda)
    BY <1>1, <1>3, <2>2 DEF Toggled
  <2>4. AtToggle'
    BY <1>1, <1>2, <1>3, <1>4, <2>2, <2>3 DEF AtToggle
  <2> QED
    BY <1>2, <1>3, <2>2, <2>4 DEF BitsType, InStep
<1>5. CASE ~(place.byte <= W)
  <2>1. place' = Bits!At("check", 1, 1)
    BY <1>5 DEF Bits!NextTurn
  <2>2. place' \in Place /\ place'.fn = "check" /\ place'.step = 1
    BY <2>1 DEF Bits!At, Place, Fns
  <2>3. slave'.st = "idle" /\ ~slave'.sda
    BY <1>1, <1>3, <1>5
  <2>4. AtCheck'
    BY <1>1, <1>2, <1>3, <2>2, <2>3 DEF AtCheck
  <2> QED
    BY <1>2, <1>3, <2>2, <2>4 DEF BitsType, InStep
<1> QED
  BY <1>4, <1>5

LEMMA ToggleStep ==
  ASSUME BitsType, place.fn = "toggle", AtToggle, Bits!Master, ~forced'
  PROVE  BitsType' /\ InStep'
<1>1. slave \in SlaveType /\ call = [op |-> "restore"] /\ ret = 0 /\ place.byte \in 1..(W + 1)
  BY DEF AtToggle, BitsType
<1>2. CASE place.step = 1
  <2>1. SclTo("lo") /\ place' = [place EXCEPT !.step = @ + 1]
    BY <1>2, ToggleTurn
  <2>2. scl' = "lo" /\ sda' = sda /\ UNCHANGED <<call, dat, buf, ret>>
    BY <2>1 DEF SclTo
  <2>3. place' \in Place /\ place'.fn = "toggle" /\ place'.byte = place.byte /\ place'.step = 2
    BY <1>2, <2>1, StepOn
  <2>4. slave' \in SlaveType
        /\ (Toggled(place.byte) \/ (slave.st \in {"recv", "acked"} /\ ~slave.sda))'
    BY <1>2, <2>1, <2>3, ToggleFall DEF Toggled
  <2>5. AtToggle'
    BY <1>1, <2>2, <2>3, <2>4 DEF AtToggle, ClockAt
  <2> QED
    BY <2>2, <2>3, <2>4, <2>5 DEF BitsType, InStep
<1>3. CASE place.step = 2
  <2>1. SdaTo("lo") /\ place' = [place EXCEPT !.step = @ + 1]
    BY <1>3, ToggleTurn
  <2>2. scl = "lo" /\ (Toggled(place.byte) \/ (slave.st \in {"recv", "acked"} /\ ~slave.sda))
    BY <1>3 DEF AtToggle, ClockAt
  <2>3. slave' = slave
    BY <1>1, <2>1, <2>2, SdaQuiet DEF BitsType
  <2>4. scl' = scl /\ sda' = "lo" /\ UNCHANGED <<call, dat, buf, ret>>
    BY <2>1 DEF SdaTo
  <2>5. place' \in Place /\ place'.fn = "toggle" /\ place'.byte = place.byte /\ place'.step = 3
    BY <1>3, <2>1, StepOn
  <2>6. AtToggle'
    BY <1>1, <2>2, <2>3, <2>4, <2>5 DEF AtToggle, ClockAt, Toggled
  <2> QED
    BY <2>3, <2>4, <2>5, <2>6 DEF BitsType, InStep
<1>4. CASE place.step = 3
  <2>1. SclTo("hi") /\ place' = [place EXCEPT !.step = @ + 1]
    BY <1>4, ToggleTurn
  <2>2. /\ scl = "lo" /\ sda = "lo"
        /\ Toggled(place.byte) \/ (slave.st \in {"recv", "acked"} /\ ~slave.sda)
    BY <1>4 DEF AtToggle, ClockAt
  <2>3. slave' = Bits!Rises(slave, Bits!Sda) /\ ~slave.scl /\ Bits!Sda \in {0, 1}
    <3>1. Bits!Sda \in {0, 1}
      BY DEF Bits!Sda, Bits!Level
    <3> QED
      BY <1>1, <2>1, <2>2, <3>1, SclHigh
  <2>4. /\ slave' \in SlaveType /\ slave'.scl = slave.scl /\ slave'.sda = slave.sda
        /\ slave'.st = slave.st
        /\ slave.st \notin {"recv", "acked"} => slave'.bits = slave.bits
    BY <1>1, <2>3, RisesFields
  <2>5. scl' = "hi" /\ sda' = sda /\ UNCHANGED <<call, dat, buf, ret>>
    BY <2>1 DEF SclTo
  <2>6. place' \in Place /\ place'.fn = "toggle" /\ place'.byte = place.byte /\ place'.step = 4
    BY <1>4, <2>1, StepOn
  <2>7. (Toggled(place.byte) \/ (slave.st \in {"recv", "acked"} /\ ~slave.sda))'
    BY <2>2, <2>4, <2>6 DEF Toggled
  <2>8. AtToggle'
    BY <1>1, <2>2, <2>3, <2>4, <2>5, <2>6, <2>7 DEF AtToggle, ClockAt
  <2> QED
    BY <2>4, <2>5, <2>6, <2>8 DEF BitsType, InStep
<1>5. CASE place.step = 4
  <2>1. SdaTo("hi") /\ place' = Bits!NextTurn
    BY <1>5, ToggleTurn
  <2> QED
    BY <1>5, <2>1, ToggleEnd
<1> QED
  BY <1>2, <1>3, <1>4, <1>5 DEF AtToggle

LEMMA RestoreCheck ==
  ASSUME BitsType, place.fn = "check", AtCheck, Bits!Master, ~forced'
  PROVE  BitsType' /\ InStep'
<1>1. /\ slave \in SlaveType /\ scl = "hi" /\ sda \in {"in", "hi"} /\ ~slave.sda
      /\ Bits!Sda = 1 /\ Bits!Level("in", slave.sda) = 1
  BY DEF AtCheck, BitsType, Bits!Sda, Bits!Level
<1>2. CASE place.step = 1
  <2>1. SdaTo("in") /\ place' = [place EXCEPT !.step = @ + 1]
    BY <1>2, CheckTurn
  <2>2. slave' = slave
    BY <1>1, <2>1, SdaQuiet
  <2>3. scl' = scl /\ sda' = "in" /\ UNCHANGED <<call, dat, buf, ret>>
    BY <2>1 DEF SdaTo
  <2>4. place' \in Place /\ place'.fn = "check" /\ place'.step = 2
    BY <1>2, <2>1, StepOn
  <2>5. AtCheck'
    BY <2>2, <2>3, <2>4 DEF AtCheck
  <2> QED
    BY <2>2, <2>3, <2>4, <2>5 DEF BitsType, InStep
<1>3. CASE place.step = 2
  <2>1. Bits!Check /\ place' = Bits!At("done", 1, 1)
    BY <1>3, CheckTurn DEF Bits!NextTurn
  <2>2. UNCHANGED <<call, sda, scl, dat, buf, slave>> /\ ret' = 0
    BY <1>1, <2>1 DEF Bits!Check
  <2>3. place' \in Place /\ place'.fn = "done"
    BY <2>1 DEF Bits!At, Place, Fns
  <2>4. AtDone'
    BY <2>2 DEF AtCheck, AtDone
  <2> QED
    BY <2>2, <2>3, <2>4 DEF BitsType, InStep
<1> QED
  BY <1>2, <1>3 DEF AtCheck

\* A function is called: to restore the bus if and only if SDA is pulled.
LEMMA BitsCall == ASSUME BitsType, place.fn = "none", AtNone, Bits!Call PROVE BitsType' /\ InStep'
<1>1. /\ slave \in SlaveType /\ ~slave.scl /\ sda = "in" /\ scl = "in" /\ ret = 0
      /\ dat = <<>> /\ buf = <<>> /\ slave.got = <<>> /\ slave.sent = <<>>
      /\ slave.starts = 0 /\ slave.stops = 0
  BY DEF AtNone, BitsType
<1>2. /\ UNCHANGED <<sda, scl, dat, buf, ret, slave>> /\ call' \in Bits!Calls
      /\ place' = IF call'.op = "restore" THEN Bits!At("toggle", 1, 1) ELSE Bits!At("start", 1, 1)
  BY DEF Bits!Call
<1>3. CASE slave.sda
  <2>1. Bits!Sda = 0
    BY <1>3 DEF Bits!Sda, Bits!Level
  <2>2. call' = [op |-> "restore"] /\ call'.op = "restore"
    BY <1>2, <2>1 DEF Bits!Calls
  <2>3. place' = Bits!At("toggle", 1, 1)
    BY <1>2, <2>2
  <2>4. place' \in Place /\ place'.fn = "toggle" /\ place'.byte = 1 /\ place'.step = 1
    BY <2>3 DEF Bits!At, Place, Fns
  <2>5. AtToggle'
    BY <1>1, <1>2, <1>3, <2>2, <2>4, BitsAssumption DEF AtNone, AtToggle
  <2> QED
    BY <1>2, <2>2, <2>4, <2>5 DEF BitsType, InStep
<1>4. CASE ~slave.sda
  <2>1. Bits!Sda = 1
    BY <1>1, <1>4 DEF Bits!Sda, Bits!Level
  <2>2. call' \in WriteCalls \cup ReadCalls
    BY <1>2, <2>1 DEF Bits!Calls, WriteCalls, ReadCalls
  <2>3. call'.op # "restore"
    BY <2>2 DEF WriteCalls, ReadCalls
  <2>4. place' = Bits!At("start", 1, 1)
    BY <1>2, <2>3
  <2>5. place' \in Place /\ place'.fn = "start" /\ place'.byte = 1 /\ place'.step = 1
    BY <2>4 DEF Bits!At, Place, Fns
  <2>6. Writing' /\ Took(place.byte - 1)'
    BY <1>1, <1>2, <2>2, <2>5 DEF Writing, Took
  <2>7. AtStart'
    BY <1>1, <1>2, <1>4, <2>5, <2>6 DEF AtStart, Starts
  <2> QED
    BY <1>2, <2>2, <2>5, <2>7 DEF BitsType, InStep
<1> QED
  BY <1>3, <1>4

\* What the slave is after it has let the clock go.
LEMMA LetGoFields ==
  ASSUME slave \in SlaveType, scl \in {"lo", "in"}, Bits!LetGo
  PROVE  /\ slave' \in SlaveType /\ slave.scl /\ ~slave'.scl /\ slave'.st = slave.st
         /\ slave'.first = slave.first /\ slave'.sda = slave.sda /\ slave'.got = slave.got
         /\ slave'.sent = slave.sent /\ slave'.starts = slave.starts /\ slave'.stops = slave.stops
         /\ scl = "in" /\ slave.st \in {"recv", "acked"} =>
              slave'.bits = Append(slave.bits, Bits!Sda)
         /\ scl = "lo" \/ slave.st \notin {"recv", "acked"} => slave'.bits = slave.bits
<1> DEFINE s == [slave EXCEPT !.scl = FALSE]
<1>1. slave.scl /\ ~slave'.scl /\ slave' = (IF scl = "lo" THEN s ELSE Bits!Rises(s, Bits!Sda))
  BY SlaveLetsGo
<1>2. /\ s \in SlaveType /\ s.st = slave.st /\ s.first = slave.first /\ s.bits = slave.bits
      /\ s.sda = slave.sda /\ s.got = slave.got /\ s.sent = slave.sent
      /\ s.starts = slave.starts /\ s.stops = slave.stops
  BY DEF SlaveType
<1>3. Bits!Sda \in {0, 1}
  BY DEF Bits!Sda, Bits!Level
<1> HIDE DEF s
<1>4. CASE scl = "lo"
  BY <1>1, <1>2, <1>4
<1>5. CASE scl # "lo"
  <2>1. slave' = Bits!Rises(s, Bits!Sda)
    BY <1>1, <1>5
  <2>2. /\ slave' \in SlaveType /\ slave'.st = s.st
        /\ slave'.first = s.first /\ slave'.sda = s.sda /\ slave'.got = s.got
        /\ slave'.sent = s.sent /\ slave'.starts = s.starts /\ slave'.stops = s.stops
        /\ s.st \in {"recv", "acked"} => slave'.bits = Append(s.bits, Bits!Sda)
        /\ s.st \notin {"recv", "acked"} => slave'.bits = s.bits
    BY <1>2, <1>3, <2>1, RisesFields
  <2> QED
    BY <1>1, <1>2, <1>5, <2>2
<1> QED
  BY <1>4, <1>5

LEMMA BitsLetGo == ASSUME BitsType, InStep, Bits!LetGo PROVE BitsType' /\ InStep'
<1>1. slave.scl /\ slave \in SlaveType /\ UNCHANGED <<call, place, sda, scl, dat, buf, ret>>
  BY DEF Bits!LetGo, BitsType
<1>2. ASSUME scl \in {"lo", "in"} PROVE BitsType'
  BY <1>1, <1>2, LetGoFields DEF BitsType
<1>3. CASE place.fn = "start" /\ AtStart
  <2>1. scl \in {"lo", "in"} /\ place.step = 1
    BY <1>1, <1>3 DEF AtStart
  <2>2. AtStart'
    BY <1>1, <1>3, <2>1, LetGoFields DEF AtStart, Writing, Took, Out, Starts
  <2> QED
    BY <1>1, <1>2, <1>3, <2>1, <2>2 DEF InStep
<1>4. CASE place.fn = "send" /\ AtSend
  <2>1. scl \in {"lo", "in"} /\ place.step \in 1..4 /\ slave.st = "recv" /\ ~slave.sda
        /\ (scl = "lo" <=> place.step < 3) /\ place.bit \in 1..W /\ place.byte \in 1..3
    BY <1>1, <1>4 DEF AtSend, ClockAt
  <2>2. /\ slave' \in SlaveType /\ ~slave'.scl /\ slave'.st = "recv"
        /\ slave'.first = slave.first /\ ~slave'.sda /\ slave'.got = slave.got
        /\ slave'.sent = slave.sent /\ slave'.starts = slave.starts /\ slave'.stops = slave.stops
        /\ scl = "in" => slave'.bits = Append(slave.bits, Bits!Sda)
        /\ scl = "lo" => slave'.bits = slave.bits
    BY <1>1, <2>1, LetGoFields
  <2>3. TookBits(place.bit - 1)
    BY <1>1, <1>4 DEF AtSend
  <2>4. TookBits(IF place.step >= 3 /\ ~slave.scl THEN place.bit ELSE place.bit - 1)'
    <3>1. CASE scl = "lo"
      BY <1>1, <2>1, <2>2, <2>3, <3>1 DEF TookBits, Out
    <3>2. CASE scl = "in"
      <4> DEFINE b == Out[place.byte][place.bit]
      <4>1. b \in {0, 1}
        <5>1. Out[place.byte] \in Bits!Byte
          BY <1>4, <2>1, OutIs DEF AtSend, Writing
        <5> QED
          BY <2>1, <5>1, ByteSeq
      <4>2. place.step > 1 /\ sda = Bits!Pin(b)
        BY <1>4, <2>1, <3>2 DEF AtSend
      <4> HIDE DEF b
      <4>3. Bits!Sda = b
        BY <2>1, <4>1, <4>2 DEF Bits!Sda, Bits!Level, Bits!Pin
      <4>4. slave.bits \in Seq({0, 1}) /\ place.bit - 1 \in Nat /\ place.bit - 1 + 1 = place.bit
        BY <1>1, <2>1, BitsAssumption DEF SlaveType
      <4>5. Len(Append(slave.bits, b)) = place.bit - 1 + 1
            /\ \A i \in 1..(place.bit - 1 + 1) : Append(slave.bits, b)[i] = Out[place.byte][i]
        BY <2>3, <4>1, <4>4, OneMore DEF TookBits, b
      <4>6. slave'.bits = Append(slave.bits, b)
        BY <2>2, <3>2, <4>3
      <4>7. Out' = Out /\ place' = place /\ ~slave'.scl /\ place.step >= 3
        BY <1>1, <2>1, <2>2, <3>2 DEF Out
      <4>8. Len(slave'.bits) = place.bit /\ \A i \in 1..place.bit : slave'.bits[i] = Out[place.byte][i]
        BY <4>4, <4>5, <4>6
      <4> QED
        BY <4>7, <4>8 DEF TookBits
    <3> QED
      BY <2>1, <3>1, <3>2
  <2>5. Writing' /\ Took(place.byte - 1)' /\ slave'.starts = Starts' /\ slave'.first = Addressed'
    BY <1>1, <1>4, <2>2 DEF AtSend, Writing, Took, Out, Starts, Addressed
  <2>6. AtSend'
    BY <1>1, <1>4, <2>1, <2>2, <2>4, <2>5 DEF AtSend, ClockAt, Out
  <2> QED
    BY <1>1, <1>2, <1>4, <2>1, <2>6 DEF InStep
<1>5. CASE place.fn = "answer" /\ AtAnswer
  <2>1. scl \in {"lo", "in"} /\ slave.st = "ack"
    BY <1>1, <1>5 DEF AtAnswer, ClockAt
  <2>2. AtAnswer'
    BY <1>1, <1>5, <2>1, LetGoFields
       DEF AtAnswer, Writing, Took, TookBits, Out, Starts, Addressed, ClockAt
  <2> QED
    BY <1>1, <1>2, <1>5, <2>1, <2>2 DEF InStep
<1>6. CASE place.fn = "recv" /\ AtRecv
  <2>1. scl = "lo"
    BY <1>6 DEF AtRecv
  <2>2. /\ slave'.st = slave.st /\ slave'.sda = slave.sda /\ slave'.bits = slave.bits
        /\ slave'.got = slave.got /\ slave'.sent = slave.sent
        /\ slave'.starts = slave.starts /\ slave'.stops = slave.stops
    BY <1>1, <2>1, LetGoFields
  <2>3. Reading'
    BY <1>1, <1>6, <2>2 DEF AtRecv, Reading, Took, Out
  <2>4. Sending(slave.sent[place.byte], 1)'
    BY <1>1, <1>6, <2>2 DEF AtRecv, Sending
  <2>5. ReadBytes(place.byte - 1)'
    BY <1>1, <1>6, <2>2 DEF AtRecv, ReadBytes
  <2>6. AtRecv'
    BY <1>1, <1>6, <2>3, <2>4, <2>5 DEF AtRecv
  <2> QED
    BY <1>1, <1>2, <1>6, <2>1, <2>6 DEF InStep
<1>7. CASE place.fn = "take" /\ AtTake
  <2>1. scl \in {"lo", "in"} /\ slave.st = "send"
    BY <1>1, <1>7 DEF AtTake, ClockAt, Sending
  <2>2. /\ ~slave'.scl /\ slave'.st = slave.st /\ slave'.sda = slave.sda /\ slave'.bits = slave.bits
        /\ slave'.got = slave.got /\ slave'.sent = slave.sent
        /\ slave'.starts = slave.starts /\ slave'.stops = slave.stops
    BY <1>1, <2>1, LetGoFields
  <2>3. Reading'
    BY <1>1, <1>7, <2>2 DEF AtTake, Reading, Took, Out
  <2>4. Sending(slave.sent[place.byte], place.bit)'
    BY <1>1, <1>7, <2>2 DEF AtTake, Sending
  <2>5. ClockAt(2, 4)'
    BY <1>1, <1>7, <2>2 DEF AtTake, ClockAt
  <2>6. \A k : (ReadBytes(k) => ReadBytes(k)') /\ (ReadBits(k) => ReadBits(k)')
    BY <1>1, <2>2 DEF ReadBytes, ReadBits
  <2>7. AtTake'
    BY <1>1, <1>7, <2>3, <2>4, <2>5, <2>6 DEF AtTake
  <2> QED
    BY <1>1, <1>2, <1>7, <2>1, <2>7 DEF InStep
<1>8. CASE place.fn = "sendack" /\ AtSendAck
  <2>1. scl = "lo"
    BY <1>1, <1>8 DEF AtSendAck, ClockAt
  <2>2. AtSendAck'
    BY <1>1, <1>8, <2>1, LetGoFields DEF AtSendAck, Reading, Took, Out, ReadBytes, ClockAt, More
  <2> QED
    BY <1>1, <1>2, <1>8, <2>1, <2>2 DEF InStep
<1>9. CASE place.fn = "stop" /\ AtStop
  <2>1. scl = "lo"
    BY <1>1, <1>9 DEF AtStop, ClockAt
  <2>2. Moved'
    <3>1. \A k \in 0..3 : Took(k) => Took(k)'
      BY <1>1, <2>1, LetGoFields DEF Took, Out
    <3>2. \E k \in 0..3 : Took(k)' /\ (ret' = 0 => k = 3)
      BY <1>1, <1>9, <3>1 DEF AtStop, Moved
    <3> QED
      BY <1>1, <1>9, <2>1, <3>2, LetGoFields DEF AtStop, Moved, ReadBytes
  <2>3. AtStop'
    BY <1>1, <1>9, <2>1, <2>2, LetGoFields DEF AtStop, ClockAt
  <2> QED
    BY <1>1, <1>2, <1>9, <2>1, <2>3 DEF InStep
<1>10. CASE place.fn = "toggle" /\ AtToggle
  <2>1. scl = "lo" /\ place.step \in 2..4
    BY <1>1, <1>10 DEF AtToggle, ClockAt
  <2>2. AtToggle'
    BY <1>1, <1>10, <2>1, LetGoFields DEF AtToggle, ClockAt, Toggled
  <2> QED
    BY <1>1, <1>2, <1>10, <2>1, <2>2 DEF InStep
<1> QED
  BY <1>1, <1>3, <1>4, <1>5, <1>6, <1>7, <1>8, <1>9, <1>10 DEF InStep, AtNone, AtCheck, AtDone

-----------------------------------------------------------------------------
(* The invariant, and what it gives *)

\* The slave a bus starts with, or is reset to.
LEMMA SlaveAtIs ==
  ASSUME NEW s, NEW st \in {"idle", "ack", "send"}, NEW bits \in Seq({0, 1}),
         NEW pulls \in BOOLEAN, s = Bits!SlaveAt(st, bits, pulls)
  PROVE  /\ s \in SlaveType /\ s.st = st /\ s.bits = bits /\ s.sda = pulls /\ ~s.scl
         /\ s.got = <<>> /\ s.sent = <<>> /\ s.starts = 0 /\ s.stops = 0
  BY DEF Bits!SlaveAt, SlaveType

LEMMA BitsInit == Bits!Init => BitsInv
<1> SUFFICES ASSUME Bits!Init PROVE BitsType /\ InStep
  BY DEF BitsInv
<1>1. /\ place = Bits!At("none", 1, 1) /\ call = None /\ sda = "in" /\ scl = "in"
      /\ dat = <<>> /\ buf = <<>> /\ ret = 0
  BY DEF Bits!Init
<1>2. place \in Place /\ place.fn = "none"
  BY <1>1 DEF Bits!At, Place, Fns
<1>4. /\ slave \in SlaveType /\ ~slave.scl
      /\ slave.got = <<>> /\ slave.sent = <<>> /\ slave.starts = 0 /\ slave.stops = 0
      /\ \/ slave.st = "idle" /\ ~slave.sda
         \/ slave.sda /\ slave.st = "ack" /\ slave.bits \in Bits!Byte
         \/ slave.sda /\ slave.st = "send" /\ Len(slave.bits) < W
  <2>1. CASE slave = Bits!SlaveAt("idle", <<>>, FALSE)
    <3>1. <<>> \in Seq({0, 1})
      OBVIOUS
    <3> QED
      BY <2>1, <3>1, SlaveAtIs
  <2>2. CASE \E v \in Bits!Byte : slave = Bits!SlaveAt("ack", v, TRUE)
    <3>1. PICK v \in Bits!Byte : slave = Bits!SlaveAt("ack", v, TRUE)
      BY <2>2
    <3>2. v \in Seq({0, 1})
      BY ByteSeq
    <3>3. /\ slave \in SlaveType /\ slave.st = "ack" /\ slave.bits = v /\ slave.sda = TRUE
          /\ ~slave.scl /\ slave.got = <<>> /\ slave.sent = <<>>
          /\ slave.starts = 0 /\ slave.stops = 0
      BY <3>1, <3>2, SlaveAtIs
    <3> QED
      BY <3>3
  <2>3. CASE \E v \in Bits!Byte : slave = [Bits!SlaveAt("ack", v, TRUE) EXCEPT !.first = TRUE]
    <3>1. PICK v \in Bits!Byte : slave = [Bits!SlaveAt("ack", v, TRUE) EXCEPT !.first = TRUE]
      BY <2>3
    <3> DEFINE s == Bits!SlaveAt("ack", v, TRUE)
    <3>2. /\ s \in SlaveType /\ s.st = "ack" /\ s.bits = v /\ s.sda = TRUE /\ ~s.scl
          /\ s.got = <<>> /\ s.sent = <<>> /\ s.starts = 0 /\ s.stops = 0
      <4>1. v \in Seq({0, 1})
        BY ByteSeq
      <4> QED
        BY <4>1, SlaveAtIs
    <3>3. slave = [s EXCEPT !.first = TRUE]
      BY <3>1
    <3> HIDE DEF s
    <3>4. /\ slave \in SlaveType /\ slave.st = "ack" /\ slave.bits = v /\ slave.sda = TRUE
          /\ ~slave.scl /\ slave.got = <<>> /\ slave.sent = <<>>
          /\ slave.starts = 0 /\ slave.stops = 0
      BY <3>2, <3>3 DEF SlaveType
    <3> QED
      BY <3>4
  <2>4. CASE \E v \in Bits!Byte, x \in 2..(W + 1) :
               slave = Bits!SlaveAt("send", SubSeq(v, x, W), TRUE)
    <3>1. PICK v \in Bits!Byte, x \in 2..(W + 1) :
            slave = Bits!SlaveAt("send", SubSeq(v, x, W), TRUE)
      BY <2>4
    <3>2. v \in Seq({0, 1}) /\ Len(v) = W /\ x \in Int /\ 2 <= x /\ x <= W + 1 /\ W \in Nat \ {0}
      BY ByteSeq, BitsAssumption
    <3>3. SubSeq(v, x, W) \in Seq({0, 1}) /\ Len(SubSeq(v, x, W)) < W
      BY <3>2
    <3>4. /\ slave \in SlaveType /\ slave.st = "send" /\ slave.bits = SubSeq(v, x, W)
          /\ slave.sda = TRUE /\ ~slave.scl /\ slave.got = <<>> /\ slave.sent = <<>>
          /\ slave.starts = 0 /\ slave.stops = 0
      BY <3>1, <3>3, SlaveAtIs
    <3> QED
      BY <3>3, <3>4
  <2> QED
    BY <2>1, <2>2, <2>3, <2>4, Zenon DEF Bits!Init
<1>5. AtNone
  BY <1>1, <1>4 DEF AtNone
<1> QED
  BY <1>1, <1>2, <1>4, <1>5 DEF BitsType, InStep

\* A step that changes nothing leaves the slave in step.
LEMMA InStepStays ==
  ASSUME InStep, UNCHANGED Bits!vars
  PROVE  InStep'
<1>1. UNCHANGED <<place, call, sda, scl, dat, buf, ret, slave>>
  BY DEF Bits!vars
<1>2. CASE place.fn = "none" /\ AtNone
  <2>1. (place.fn = "none")' /\ AtNone'
    BY <1>1, <1>2 DEF AtNone
  <2> QED
    BY <2>1 DEF InStep
<1>3. CASE place.fn = "start" /\ AtStart
  <2>1. (place.fn = "start")' /\ AtStart'
    BY <1>1, <1>3 DEF AtStart, Writing, Took, Out, Starts
  <2> QED
    BY <2>1 DEF InStep
<1>4. CASE place.fn = "send" /\ AtSend
  <2>1. (place.fn = "send")' /\ AtSend'
    BY <1>1, <1>4 DEF AtSend, Writing, Took, TookBits, Out, Starts, Addressed, ClockAt
  <2> QED
    BY <2>1 DEF InStep
<1>5. CASE place.fn = "answer" /\ AtAnswer
  <2>1. (place.fn = "answer")' /\ AtAnswer'
    BY <1>1, <1>5 DEF AtAnswer, Writing, Took, TookBits, Out, Starts, Addressed, ClockAt
  <2> QED
    BY <2>1 DEF InStep
<1>6. CASE place.fn = "recv" /\ AtRecv
  <2>1. (place.fn = "recv")' /\ AtRecv'
    BY <1>1, <1>6 DEF AtRecv, Reading, Took, Out, Sending, ReadBytes
  <2> QED
    BY <2>1 DEF InStep
<1>7. CASE place.fn = "take" /\ AtTake
  <2>1. (place.fn = "take")' /\ AtTake'
    BY <1>1, <1>7 DEF AtTake, Reading, Took, Out, Sending, ReadBytes, ReadBits, ClockAt
  <2> QED
    BY <2>1 DEF InStep
<1>8. CASE place.fn = "sendack" /\ AtSendAck
  <2>1. (place.fn = "sendack")' /\ AtSendAck'
    BY <1>1, <1>8 DEF AtSendAck, Reading, Took, Out, ReadBytes, More, ClockAt
  <2> QED
    BY <2>1 DEF InStep
<1>9. CASE place.fn = "stop" /\ AtStop
  <2>1. (place.fn = "stop")' /\ AtStop'
    BY <1>1, <1>9 DEF AtStop, Moved, Took, Out, ReadBytes, ClockAt
  <2> QED
    BY <2>1 DEF InStep
<1>10. CASE place.fn = "toggle" /\ AtToggle
  <2>1. (place.fn = "toggle")' /\ AtToggle'
    BY <1>1, <1>10 DEF AtToggle, Toggled, ClockAt
  <2> QED
    BY <2>1 DEF InStep
<1>11. CASE place.fn = "check" /\ AtCheck
  <2>1. (place.fn = "check")' /\ AtCheck'
    BY <1>1, <1>11 DEF AtCheck
  <2> QED
    BY <2>1 DEF InStep
<1>12. CASE place.fn = "done" /\ AtDone
  <2>1. (place.fn = "done")' /\ AtDone'
    BY <1>1, <1>12 DEF AtDone, Moved, Took, Out, ReadBytes
  <2> QED
    BY <2>1 DEF InStep
<1> QED
  BY <1>2, <1>3, <1>4, <1>5, <1>6, <1>7, <1>8, <1>9, <1>10, <1>11, <1>12 DEF InStep

LEMMA BitsStep == BitsInv /\ [Bits!Next]_(Bits!vars) => BitsInv'
<1> SUFFICES ASSUME BitsInv, [Bits!Next]_(Bits!vars), ~forced' PROVE BitsType' /\ InStep'
  BY DEF BitsInv
<1>1. BitsType /\ InStep
  BY ForcedStays DEF BitsInv
<1>2. CASE Bits!Call
  <2>1. place.fn = "none" /\ AtNone
    BY <1>1, <1>2 DEF Bits!Call, InStep
  <2> QED
    BY <1>1, <1>2, <2>1, BitsCall
<1>3. CASE Bits!Master
  <2>1. place.fn # "none" /\ place.fn # "done"
    <3>1. Bits!Turn # <<>>
      BY <1>3 DEF Bits!Master, Bits!SetPin, Bits!Wait, Bits!ReadAck, Bits!ReadBit, Bits!Check, Bits!Doing
    <3> QED
      BY <3>1 DEF Bits!Turn
  <2> QED
    BY <1>1, <1>3, <2>1, StartStep, SendStep, AnswerStep, RecvStep, TakeStep, SendAckStep,
       StopStep, ToggleStep, RestoreCheck DEF InStep
<1>4. CASE Bits!LetGo
  BY <1>1, <1>4, BitsLetGo
<1>5. CASE UNCHANGED Bits!vars
  <2>1. BitsType'
    BY <1>1, <1>5 DEF Bits!vars, BitsType
  <2> QED
    BY <1>1, <1>5, <2>1, InStepStays
<1> QED
  BY <1>2, <1>3, <1>4, <1>5 DEF Bits!Next

\* As long as the clock was not driven against the slave, the slave is where the
\* master is: in the same bit of the same byte, with the bits before it right.
THEOREM BitsInvariance == Bits!Init /\ [][Bits!Next]_(Bits!vars) => []BitsInv
  BY BitsInit, BitsStep, PTL

LEMMA SamePrefix ==
  ASSUME NEW S, NEW g \in Seq(S), NEW o \in Seq(S), Len(g) <= Len(o),
         \A i \in 1..Len(g) : g[i] = o[i]
  PROVE  /\ SubSeq(g, 1, Len(g)) = SubSeq(o, 1, Len(g))
         /\ Len(g) = Len(o) => g = o
<1>2. Len(g) \in Nat /\ Len(o) \in Nat /\ \A i \in 1..Len(g) : g[i] \in S /\ o[i] \in S
  BY LenProperties, ElementOfSeq
<1> DEFINE a == SubSeq(g, 1, Len(g))
           b == SubSeq(o, 1, Len(g))
<1>3. /\ a \in Seq(S) /\ b \in Seq(S) /\ Len(a) = Len(g) /\ Len(b) = Len(g)
      /\ \A i \in 1..Len(g) : a[i] = g[i] /\ b[i] = o[i]
  BY <1>2, SubSeqProperties
<1> HIDE DEF a, b
<1>4. a = b
  BY <1>3, SeqEqual
<1>5. Len(g) = Len(o) => g = o
  BY SeqEqual
<1> QED
  BY <1>4, <1>5 DEF a, b

LEMMA BitsInvProtocol == BitsInv => BusProtocol
<1> SUFFICES ASSUME BitsInv, Bits!Returned
             PROVE  /\ call.op \in {"write", "read"} => Bits!Transferred
                    /\ slave.st = "idle" /\ ~slave.sda
                    /\ call.op = "restore" => ret = 0
                    /\ call.op = "write" => slave.starts = 1 /\ slave.stops = 1
                    /\ call.op = "read" =>
                         /\ slave.starts \in 1..2 /\ (ret = 0 => slave.starts = 2)
                         /\ slave.stops = 1
  BY DEF BusProtocol, Bits!BusProtocol
<1>1. BitsType /\ AtDone
  BY DEF BitsInv, Bits!Returned, InStep
<1>2. CASE call = [op |-> "restore"] /\ ret = 0
  BY <1>1, <1>2 DEF AtDone
<1>3. CASE Moved /\ slave.stops = 1
  <2>1. /\ call \in WriteCalls \cup ReadCalls /\ dat = <<>> /\ ReadBytes(Len(slave.sent))
        /\ slave \in SlaveType /\ buf \in Seq(Bits!Byte)
    BY <1>1, <1>3 DEF Moved, BitsType
  <2>2. PICK k \in 0..3 : Took(k) /\ (ret = 0 => k = 3)
    BY <1>3 DEF Moved
  <2>3. /\ slave.got \in Seq(Seq({0, 1})) /\ slave.sent \in Seq(Bits!Byte) /\ Out \in Seq(Bits!Byte)
        /\ Len(Out) = 3 /\ Len(slave.got) = k /\ \A i \in 1..k : slave.got[i] = Out[i]
    BY <2>1, <2>2, OutIs DEF SlaveType, Took
  <2>4. /\ SubSeq(slave.got, 1, Len(slave.got)) = SubSeq(Out, 1, Len(slave.got))
        /\ Len(slave.got) <= Len(Out) /\ (k = 3 => slave.got = Out)
    <3> DEFINE g == slave.got
               o == Out
    <3>1. g \in Seq(Seq({0, 1})) /\ o \in Seq(Bits!Byte) /\ Len(g) <= Len(o) /\ (k = 3 => Len(g) = Len(o))
          /\ \A i \in 1..Len(g) : g[i] = o[i]
      BY <2>3
    <3>2. o \in Seq(Seq({0, 1}))
      <4>1. Bits!Byte \subseteq Seq({0, 1})
        BY ByteSeq
      <4> QED
        BY <3>1, <4>1, SeqMonotonic
    <3> HIDE DEF g, o
    <3>3. SubSeq(g, 1, Len(g)) = SubSeq(o, 1, Len(g)) /\ (Len(g) = Len(o) => g = o)
      BY <3>1, <3>2, SamePrefix
    <3> QED
      BY <3>1, <3>3 DEF g, o
  <2>5. Bits!IsPrefix(slave.got, Out) /\ (ret = 0 => slave.got = Out)
    BY <2>2, <2>4 DEF Bits!IsPrefix
  <2>6. buf = slave.sent
    <3> DEFINE s == slave.sent
    <3>1. s \in Seq(Bits!Byte) /\ Len(buf) = Len(s) /\ \A i \in 1..Len(s) : buf[i] = s[i]
      BY <2>1, <2>3 DEF ReadBytes
    <3> HIDE DEF s
    <3>2. buf = s
      BY <2>1, <3>1
    <3> QED
      BY <3>2 DEF s
  <2>7. Bits!Transferred
    BY <2>1, <2>5, <2>6 DEF Bits!Transferred, Out
  <2>8. call.op \in {"write", "read"}
    BY <2>1, OutIs
  <2> QED
    BY <1>1, <1>3, <2>7, <2>8 DEF AtDone, Moved
<1> QED
  BY <1>1, <1>2, <1>3 DEF AtDone

\* The bytes of a write or a read arrive bit by bit, in both directions and
\* however the slave stretches the clock and answers, with one start (two for a
\* read) and one stop, and a slave stuck in any bit is idle after restore_i2c(),
\* for any width of a byte and any length of a read, unless the clock was driven
\* high against a slave that holds it.
THEOREM BytesArrive == MCSpec => []BusProtocol
<1>1. MCInit => Bits!Init
  BY DEF MCInit
<1>2. [MCNext]_MCvars => [Bits!Next]_(Bits!vars)
  BY DEF MCNext, MCvars, bitsVars, Bits!vars
<1> QED
  BY <1>1, <1>2, BitsInvariance, BitsInvProtocol, PTL DEF MCSpec
=============================================================================

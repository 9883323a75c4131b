----------------------------- MODULE MCDrivers -----------------------------
\* The drivers share no state: a behaviour is one of one of them.
EXTENDS I2cDevs

CONSTANTS Gpios, Irqs, Faults, W, MaxRead, PinFaults

\* What is in a table is told apart from nothing.
ASSUME IrqAssumption ==
  /\ None \notin Gpios \cup Irqs \cup Fds
  /\ None \notin [gpio : Gpios, fd : Fds]

ASSUME BitsAssumption == W \in Nat \ {0} /\ MaxRead \in Nat

VARIABLES
  driver,
  armed, open, watched, irq, list, at, gpio, new, gone, ready, batch, stage, lost,
  call, place, sda, scl, dat, buf, ret, slave, forced,
  exported, direction, level, asked, steps, value, disturbed

Irq == INSTANCE GpioIrq
Bits == INSTANCE GpioI2c
Pins == INSTANCE GpioPins WITH Callers <- Threads, Faults <- PinFaults

irqVars == <<armed, open, watched, irq, list, at, gpio, new, gone, ready, batch, stage, lost>>
bitsVars == <<call, place, sda, scl, dat, buf, ret, slave, forced>>
pinVars == <<exported, direction, level, asked, steps, value, disturbed>>
MCvars == <<vars, irqVars, bitsVars, pinVars, driver>>

MCInit ==
  /\ driver \in {"i2c", "irq", "bits", "pins"}
  /\ Init /\ Irq!Init /\ Bits!Init /\ Pins!Init
  /\ driver # "bits" => slave = Bits!SlaveAt("idle", <<>>, FALSE)

Only(d) == driver = d /\ UNCHANGED driver

MCNext ==
  \/ Only("i2c") /\ Next /\ UNCHANGED <<irqVars, bitsVars, pinVars>>
  \/ Only("irq") /\ Irq!Next /\ UNCHANGED <<vars, bitsVars, pinVars>>
  \/ Only("bits") /\ Bits!Next /\ UNCHANGED <<vars, irqVars, pinVars>>
  \/ Only("pins") /\ Pins!Next /\ UNCHANGED <<vars, irqVars, bitsVars>>

\* The interrupt thread does nothing else.
MCFairness == WF_MCvars(Only("irq") /\ Irq!IrqThread /\ UNCHANGED <<vars, bitsVars, pinVars>>)

MCSpec == MCInit /\ [][MCNext]_MCvars /\ MCFairness

ListedWatched == Irq!ListedWatched
Delivered == Irq!Delivered
BusProtocol == Bits!BusProtocol
Effective == Pins!Effective
=============================================================================

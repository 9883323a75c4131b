------------------------------ MODULE GpioPins ------------------------------
(***************************************************************************)
(* The pins of src/hw/example_gpio.c: each call is a few accesses to files *)
(* below /sys/class/gpio, and nothing keeps two threads from calling for   *)
(* the same pin at a time.  There is one pin.                              *)
(***************************************************************************)
EXTENDS Integers, Sequences

CONSTANTS
  Callers,  \* threads
  Faults    \* "export", "access", "write", "read"

VARIABLES
  exported,   \* the pin is in /sys
  direction,  \* its direction file
  level,      \* its value file
  asked,      \* the call each thread made last, and its argument
  steps,      \* what is left of it
  value,      \* what it gave: -1, 0 or 1
  disturbed   \* another thread has written to the pin since it began

pin == <<exported, direction, level>>
vars == <<pin, asked, steps, value, disturbed>>

NoCall == <<"none", 0>>

Init ==
  /\ exported = FALSE /\ direction = "in" /\ level = 0
  /\ asked = [t \in Callers |-> NoCall] /\ steps = [t \in Callers |-> <<>>]
  /\ value = [t \in Callers |-> 0] /\ disturbed = [t \in Callers |-> FALSE]

-----------------------------------------------------------------------------
(* the calls *)

\* Mutant: the level before the direction.
OutputLevelFirst(v) == << <<"value", v>>, <<"direction", "out">> >>

\* gpio_direction_output()
Output(v) == << <<"direction", "out">>, <<"value", v>> >>

Request(d) == << <<"check", 0>>, <<"direction", d>> >>
Input == << <<"direction", "in">>, <<"read", 0>> >>
SetValue(v) == << <<"value", v>> >>
GetValue == << <<"read", 0>> >>

Begin(t, call, arg, todo) ==
  /\ steps[t] = <<>>
  /\ asked' = [asked EXCEPT ![t] = <<call, arg>>]
  /\ steps' = [steps EXCEPT ![t] = todo]
  /\ value' = [value EXCEPT ![t] = 0]
  /\ disturbed' = [disturbed EXCEPT ![t] = FALSE]
  /\ UNCHANGED pin

Call(t) ==
  \/ \E d \in {"in", "out"} : Begin(t, "request", d, Request(d))
  \/ \E v \in {0, 1} : Begin(t, "output", v, Output(v)) \/ Begin(t, "set", v, SetValue(v))
  \/ Begin(t, "input", 0, Input) \/ Begin(t, "get", 0, GetValue)

-----------------------------------------------------------------------------
(* the accesses to /sys *)

At(t, file) == steps[t] # <<>> /\ Head(steps[t])[1] = file
Argument(t) == Head(steps[t])[2]
Done(t) == steps' = [steps EXCEPT ![t] = Tail(@)] /\ UNCHANGED <<asked, value>>

\* A write to the pin, seen by the calls of the other threads.
Disturb(t) == disturbed' = [s \in Callers |-> disturbed[s] \/ s # t]

GiveUp(t) ==
  /\ steps' = [steps EXCEPT ![t] = <<>>]
  /\ value' = [value EXCEPT ![t] = -1]
  /\ UNCHANGED <<asked, disturbed>>

\* The call gives -1 and has changed nothing since its last access.
Broken(t) == GiveUp(t) /\ UNCHANGED pin

\* is_gpio_ok(): a pin that is not there is exported first.
Check(t) ==
  /\ At(t, "check")
  /\ steps' = [steps EXCEPT ![t] =
                 IF exported THEN Tail(@) ELSE << <<"export", 0>> >> \o Tail(@)]
  /\ UNCHANGED <<pin, asked, value, disturbed>>

\* The kernel refuses a pin that is exported already: by another thread, behind
\* this one's check.  Behind it the files may not be accessible yet (line 110).
Export(t) ==
  /\ At(t, "export")
  /\ \/ /\ ~exported /\ exported' = TRUE
        /\ \/ Done(t) /\ UNCHANGED disturbed
           \/ "access" \in Faults /\ GiveUp(t)
        /\ UNCHANGED <<direction, level>>
     \/ (exported \/ "export" \in Faults) /\ Broken(t)

\* A pin that becomes an output is low.
SetDirection(t) ==
  /\ At(t, "direction")
  /\ \/ /\ exported
        /\ direction' = Argument(t)
        /\ level' = IF direction' = "out" THEN 0 ELSE level
        /\ Done(t) /\ Disturb(t) /\ UNCHANGED exported
     \/ (~exported \/ "write" \in Faults) /\ Broken(t)

\* The kernel refuses a value for an input.
Set(t) ==
  /\ At(t, "value")
  /\ \/ /\ exported /\ direction = "out"
        /\ level' = Argument(t)
        /\ Done(t) /\ Disturb(t) /\ UNCHANGED <<exported, direction>>
     \/ (~exported \/ direction = "in" \/ "write" \in Faults) /\ Broken(t)

Get(t) ==
  /\ At(t, "read")
  /\ \/ /\ exported
        /\ value' = [value EXCEPT ![t] = level]
        /\ steps' = [steps EXCEPT ![t] = Tail(@)]
        /\ UNCHANGED <<pin, asked, disturbed>>
     \/ (~exported \/ "read" \in Faults) /\ Broken(t)

\* What is connected to an input.
Outside ==
  /\ direction = "in" /\ level' \in {0, 1} \ {level}
  /\ UNCHANGED <<exported, direction, asked, steps, value, disturbed>>

Next ==
  \/ \E t \in Callers : Call(t) \/ Check(t) \/ Export(t)
                          \/ SetDirection(t) \/ Set(t) \/ Get(t)
  \/ Outside

-----------------------------------------------------------------------------
(* properties *)

(***************************************************************************)
(* A call that succeeds has done what it is for (lines 99-166): the pin is *)
(* exported and has the direction asked for, an output the level, and a    *)
(* level that was read is the output's - until another thread writes to    *)
(* the pin, in the middle of the call or behind it.                        *)
(***************************************************************************)
Effective == \A t \in Callers :
  steps[t] = <<>> /\ value[t] # -1 /\ ~disturbed[t] /\ asked[t] # NoCall =>
    LET call == asked[t][1]
        arg == asked[t][2]
    IN  /\ exported
        /\ call = "request" => direction = arg
        /\ call = "input" => direction = "in"
        /\ call \in {"output", "set"} => direction = "out" /\ level = arg
        /\ call = "get" /\ direction = "out" => level = value[t]
=============================================================================

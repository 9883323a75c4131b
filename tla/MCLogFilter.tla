----------------------------- MODULE MCLogFilter -----------------------------
(***************************************************************************)
(* Every registration of up to MaxCommands commands, one command a step.   *)
(***************************************************************************)
EXTENDS LogFilter
CONSTANT MaxCommands

VARIABLES
  commands,   \* of the registration, so far
  filter      \* what alloc_filter() has made of them

Init == commands = <<>> /\ filter = NoRules
Next == /\ Len(commands) < MaxCommands
        /\ \E c \in Command : /\ commands' = Append(commands, c)
                               /\ filter' = AddCommand(filter, c)
Spec == Init /\ [][Next]_<<commands, filter>>

Given(op) == {i \in DOMAIN commands : commands[i].op = op}
Names(rule, group, level) ==
  (rule.group = AnyGroup \/ rule.group = group) /\ rule.level >= level
Named(op, pro, group, level) ==
  \E i \in Given(op) : commands[i].pro = pro /\ Names(commands[i], group, level)

(***************************************************************************)
(* With several rules for a program the last one given has the last word,  *)
(* wherever "all" stands between them: the rules of other programs and the *)
(* earlier ones of this program change nothing.                            *)
(***************************************************************************)
LastRuleDecides ==
  Given("all") # {} /\ Given("in") = {} =>
    \A p \in Programs \ Short, g \in Groups, l \in Levels :
      LET mine == {i \in Given("ex") : commands[i].pro = p}
      IN  FilterLog(filter, p, g, l) <=>
            \A i \in mine : (\A j \in mine : j <= i) => ~Names(commands[i], g, l)

(***************************************************************************)
(* The comment of struct log_filter on "all" = 0: "0 indicate all is       *)
(* excluded except those in inhead" (logd.c:43).                           *)
(***************************************************************************)
InRulesInclude ==
  Given("all") = {} =>
    \A p \in Programs \ Short, g \in Groups, l \in Levels :
      Named("in", p, g, l) => FilterLog(filter, p, g, l)
=============================================================================

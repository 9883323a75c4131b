------------------------------ MODULE LogFilter ------------------------------
(***************************************************************************)
(* The filters of those who watch logd at run time, src/log/logd.c: a      *)
(* registration is a list of commands, alloc_filter() turns it into two    *)
(* hash tables of rules, filter_log() decides about each message.  A rule  *)
(* names a program, a group (or none) and a level.                         *)
(***************************************************************************)
EXTENDS Integers, Sequences

CONSTANTS
  Programs, Groups,
  Short,      \* programs with a name of one character
  AnyGroup,   \* the empty group of a rule
  Levels      \* 0 (EMERG) ... 8, the level of a name that is not known

ASSUME LogFilterAssumption ==
  Short \subseteq Programs /\ AnyGroup \notin Groups /\ Levels \subseteq 0..8

Rule == [op : {"ex", "in"}, pro : Programs, group : Groups \cup {AnyGroup}, level : Levels]
All == [op |-> "all"]
Command == Rule \cup {All}

\* The bucket of a rule is taken from "pro/...", that of a message from the
\* program: with a name of one character they never are the same.
SameBucket(rule, pro) == rule.pro = pro /\ pro \notin Short

\* One turn of the loop of alloc_filter(): hlist_add_head(), into exhead for both
\* kinds of rule.
NoRules == [all |-> FALSE, ex |-> <<>>, in |-> <<>>]

\* Mutant: a rule is appended.
AddCommandAtTail(f, c) ==
  CASE c.op = "all" -> [f EXCEPT !.all = TRUE]
    [] c.op = "ex" -> [f EXCEPT !.ex = Append(@, c)]
    [] c.op = "in" -> [f EXCEPT !.ex = Append(@, c)]

AddCommand(f, c) ==
  CASE c.op = "all" -> [f EXCEPT !.all = TRUE]
    [] c.op = "ex" -> [f EXCEPT !.ex = <<c>> \o @]
    [] c.op = "in" -> [f EXCEPT !.ex = <<c>> \o @]

Covers(rule, group, level) == rule.group \in {AnyGroup, group} /\ level <= rule.level

\* The first rule found for the program decides.
First(rules, pro, i) ==
  /\ i \in DOMAIN rules /\ SameBucket(rules[i], pro)
  /\ \A j \in DOMAIN rules : SameBucket(rules[j], pro) => i <= j

Decides(rules, pro, group, level) ==
  \E i \in DOMAIN rules : First(rules, pro, i) /\ Covers(rules[i], group, level)

\* filter_log() >= 0: the message is forwarded.
FilterLog(filter, pro, group, level) ==
  IF filter.all THEN ~Decides(filter.ex, pro, group, level)
  ELSE Decides(filter.in, pro, group, level)
=============================================================================

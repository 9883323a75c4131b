----------------------------- MODULE ToolsProofs -----------------------------
(***************************************************************************)
(* Theorems about the log filters, for any programs, groups and levels and *)
(* registrations of any length, and about the counts of src/track, for any *)
(* column of the type and any failing calls; about the record viewer, for  *)
(* any records, uids, hash and table, and any failing calls; and about the *)
(* array of frombin and the video of har, for any input and any buffer.    *)
(***************************************************************************)
EXTENDS MCTools, MCRecord, FiniteSetTheorems, SequenceTheorems, WellFoundedInduction, TLAPS

-----------------------------------------------------------------------------
(* The log filters                                                         *)

\* The rules of a program, in the order of the registration and as they are
\* in the table.
Mine(p) == {k \in DOMAIN commands : commands[k] \in Rule /\ commands[k].pro = p}
Theirs(p) == {n \in DOMAIN filter.ex : filter.ex[n].pro = p}

\* The last one given is the first one found.
Turned(p) ==
  \/ Mine(p) = {} /\ Theirs(p) = {}
  \/ \E k \in Mine(p), n \in Theirs(p) :
       /\ \A m \in Mine(p) : m <= k
       /\ \A m \in Theirs(p) : n <= m
       /\ commands[k] = filter.ex[n]

FilterTyped ==
  /\ commands \in Seq(Command)
  /\ filter \in [all : BOOLEAN, ex : Seq(Rule), in : {<<>>}]

FilterInv ==
  /\ FilterTyped
  /\ filter.all <=> Given("all") # {}
  /\ \A p \in Programs : Turned(p)

LEMMA FilterInitially == Init => FilterInv
<1> SUFFICES ASSUME Init PROVE FilterInv
  OBVIOUS
<1>1. commands = <<>> /\ filter = [all |-> FALSE, ex |-> <<>>, in |-> <<>>]
  BY DEF Init, NoRules
<1>2. FilterTyped
  BY <1>1 DEF FilterTyped
<1>3. Given("all") = {} /\ \A p \in Programs : Mine(p) = {} /\ Theirs(p) = {}
  BY <1>1 DEF Given, Mine, Theirs
<1> QED
  BY <1>1, <1>2, <1>3 DEF FilterInv, Turned

\* A turn of the loop puts the rule at the head of the table.
LEMMA RuleKeepsTurned ==
  ASSUME FilterTyped, NEW c \in Rule, NEW p \in Programs, Turned(p),
         commands' = Append(commands, c),
         filter' = [filter EXCEPT !.ex = <<c>> \o @]
  PROVE  Turned(p)'
<1>1. /\ commands \in Seq(Command) /\ c \in Command
      /\ Len(commands') = Len(commands) + 1
      /\ \A k \in 1..Len(commands) : commands'[k] = commands[k]
      /\ commands'[Len(commands) + 1] = c
      /\ DOMAIN commands = 1..Len(commands) /\ DOMAIN commands' = 1..(Len(commands) + 1)
      /\ Len(commands) \in Nat
  BY DEF FilterTyped, Command
<1>2. filter.ex \in Seq(Rule) /\ filter'.ex = <<c>> \o filter.ex
  BY DEF FilterTyped
<1>3. /\ filter'.ex[1] = c
      /\ \A n \in 1..Len(filter.ex) : filter'.ex[n + 1] = filter.ex[n]
      /\ DOMAIN filter.ex = 1..Len(filter.ex) /\ DOMAIN filter'.ex = 1..(Len(filter.ex) + 1)
      /\ Len(filter.ex) \in Nat
  BY <1>2
<1>4. CASE c.pro = p
  <2>1. Len(commands) + 1 \in Mine(p)' /\ 1 \in Theirs(p)'
    BY <1>1, <1>3, <1>4 DEF Mine, Theirs
  <2>2. /\ \A m \in Mine(p)' : m <= Len(commands) + 1
        /\ \A m \in Theirs(p)' : 1 <= m
    BY <1>1, <1>3 DEF Mine, Theirs
  <2> QED
    BY <1>1, <1>3, <2>1, <2>2 DEF Turned
<1>5. CASE c.pro # p
  <2>1. Mine(p)' = Mine(p)
    BY <1>1, <1>5 DEF Mine
  <2>2. \A n \in 1..Len(filter.ex) : n \in Theirs(p) <=> n + 1 \in Theirs(p)'
    BY <1>3 DEF Theirs
  <2>3. \A m \in Theirs(p)' : m \in Int /\ m - 1 \in Theirs(p)
    BY <1>3, <1>5 DEF Theirs
  <2>4. CASE Mine(p) = {} /\ Theirs(p) = {}
    BY <2>1, <2>3, <2>4 DEF Turned
  <2>5. ASSUME NEW k \in Mine(p), NEW n \in Theirs(p),
               \A m \in Mine(p) : m <= k, \A m \in Theirs(p) : n <= m,
               commands[k] = filter.ex[n]
        PROVE  Turned(p)'
    <3>1. n \in 1..Len(filter.ex) /\ k \in 1..Len(commands)
      BY <1>1, <1>3 DEF Theirs, Mine
    <3>2. n + 1 \in Theirs(p)' /\ k \in Mine(p)'
      BY <2>1, <2>2, <3>1
    <3>3. \A m \in Theirs(p)' : n + 1 <= m
      BY <2>3, <2>5, <3>1
    <3>4. commands'[k] = filter'.ex[n + 1]
      BY <1>1, <1>3, <2>5, <3>1
    <3> QED
      BY <2>1, <2>5, <3>2, <3>3, <3>4 DEF Turned
  <2> QED
    BY <2>4, <2>5 DEF Turned
<1> QED
  BY <1>4, <1>5

LEMMA FilterPreserved == FilterInv /\ [Next]_<<commands, filter>> => FilterInv'
<1> SUFFICES ASSUME FilterInv, [Next]_<<commands, filter>> PROVE FilterInv'
  OBVIOUS
<1>1. CASE UNCHANGED <<commands, filter>>
  <2>1. commands' = commands /\ filter' = filter
    BY <1>1
  <2>2. FilterTyped' /\ (filter.all <=> Given("all") # {})'
    BY <2>1, Zenon DEF FilterInv, FilterTyped, Given
  <2>3. ASSUME NEW p \in Programs PROVE Turned(p)'
    <3>1. Mine(p)' = Mine(p) /\ Theirs(p)' = Theirs(p)
      BY <2>1, Zenon DEF Mine, Theirs
    <3> QED
      BY <2>1, <3>1, Zenon DEF FilterInv, Turned
  <2> QED
    BY <2>2, <2>3, Zenon DEF FilterInv
<1>2. ASSUME NEW c \in Command, commands' = Append(commands, c),
             filter' = AddCommand(filter, c)
      PROVE  FilterInv'
  <2>0. FilterTyped
    BY DEF FilterInv
  <2>1. /\ commands \in Seq(Command) /\ commands' \in Seq(Command)
        /\ Len(commands) \in Nat /\ Len(commands') = Len(commands) + 1
        /\ \A k \in 1..Len(commands) : commands'[k] = commands[k]
        /\ commands'[Len(commands) + 1] = c
        /\ DOMAIN commands = 1..Len(commands) /\ DOMAIN commands' = 1..(Len(commands) + 1)
    BY <1>2, <2>0 DEF FilterTyped
  <2>2. CASE c = All
    <3>1. filter' = [filter EXCEPT !.all = TRUE]
      BY <1>2, <2>2 DEF AddCommand, All
    <3>2. filter'.all = TRUE /\ filter'.ex = filter.ex
          /\ filter' \in [all : BOOLEAN, ex : Seq(Rule), in : {<<>>}]
      BY <2>0, <3>1 DEF FilterTyped
    <3>3. Len(commands) + 1 \in Given("all")'
      BY <2>1, <2>2 DEF Given, All
    <3>4. All \notin Rule
      BY DEF All, Rule
    <3>5. ASSUME NEW p \in Programs PROVE Turned(p)'
      <4>1. Mine(p)' = Mine(p)
        BY <2>1, <2>2, <3>4 DEF Mine
      <4>2. Theirs(p)' = Theirs(p)
        BY <3>2 DEF Theirs
      <4>3. Turned(p)
        BY DEF FilterInv
      <4>4. \A k \in Mine(p) : commands'[k] = commands[k]
        BY <2>1 DEF Mine
      <4> QED
        BY <3>2, <4>1, <4>2, <4>3, <4>4 DEF Turned
    <3> QED
      BY <2>1, <3>2, <3>3, <3>5 DEF FilterInv, FilterTyped
  <2>3. CASE c \in Rule
    <3>1. filter' = [filter EXCEPT !.ex = <<c>> \o @]
      BY <1>2, <2>3 DEF AddCommand, Rule
    <3>2. <<c>> \o filter.ex \in Seq(Rule)
      BY <2>0, <2>3 DEF FilterTyped
    <3>3. filter'.all = filter.all /\ filter' \in [all : BOOLEAN, ex : Seq(Rule), in : {<<>>}]
      BY <2>0, <3>1, <3>2 DEF FilterTyped
    <3>4. c.op # "all"
      BY <2>3 DEF Rule
    <3>5. Given("all")' = Given("all")
      BY <2>1, <3>4 DEF Given
    <3>6. \A p \in Programs : Turned(p)'
      BY <1>2, <2>0, <2>3, <3>1, RuleKeepsTurned DEF FilterInv
    <3> QED
      BY <2>1, <3>3, <3>5, <3>6 DEF FilterInv, FilterTyped
  <2> QED
    BY <2>2, <2>3 DEF Command
<1> QED
  BY <1>1, <1>2 DEF Next

LEMMA TheLastDecides == FilterInv => LastRuleDecides
<1> SUFFICES ASSUME FilterInv, Given("all") # {}, Given("in") = {},
                    NEW p \in Programs \ Short, NEW g \in Groups, NEW l \in Levels
             PROVE  FilterLog(filter, p, g, l) <=>
                      \A x \in {y \in Given("ex") : commands[y].pro = p} :
                        (\A j \in {y \in Given("ex") : commands[y].pro = p} : j <= x)
                          => ~Names(commands[x], g, l)
  BY DEF LastRuleDecides
<1>1. filter.all = TRUE
  BY DEF FilterInv, FilterTyped
<1>2. {y \in Given("ex") : commands[y].pro = p} = Mine(p)
  <2>1. \A y \in DOMAIN commands : commands[y] \in Command /\ commands[y].op # "in"
    BY DEF FilterInv, FilterTyped, Given
  <2>2. \A c \in Command : c.op = "ex" <=> c \in Rule /\ c.op # "in"
    BY DEF Command, Rule, All
  <2> QED
    BY <2>1, <2>2 DEF Given, Mine
<1>3. \A n \in DOMAIN filter.ex : SameBucket(filter.ex[n], p) <=> n \in Theirs(p)
  BY DEF SameBucket, Theirs
<1>4. \A n \in DOMAIN filter.ex :
        First(filter.ex, p, n) <=> n \in Theirs(p) /\ \A m \in Theirs(p) : n <= m
  BY <1>3 DEF First, Theirs
<1>5. \A k \in Mine(p) : Names(commands[k], g, l) <=> Covers(commands[k], g, l)
  <2>1. \A k \in Mine(p) : commands[k].level \in 0..8 /\ l \in 0..8
    BY LogFilterAssumption DEF Mine, Rule
  <2> QED
    BY <2>1 DEF Names, Covers
<1>6. FilterLog(filter, p, g, l) <=> ~Decides(filter.ex, p, g, l)
  BY <1>1 DEF FilterLog
<1>7. CASE Mine(p) = {} /\ Theirs(p) = {}
  BY <1>2, <1>4, <1>6, <1>7 DEF Decides
<1>8. ASSUME NEW k \in Mine(p), NEW n \in Theirs(p),
             \A m \in Mine(p) : m <= k, \A m \in Theirs(p) : n <= m,
             commands[k] = filter.ex[n]
      PROVE  FilterLog(filter, p, g, l) <=>
               \A x \in Mine(p) : (\A j \in Mine(p) : j <= x) => ~Names(commands[x], g, l)
  <2>1. Mine(p) \subseteq Int /\ Theirs(p) \subseteq DOMAIN filter.ex /\ DOMAIN filter.ex \subseteq Int
    BY DEF Mine, Theirs, FilterInv, FilterTyped
  <2>2. \A x \in Mine(p) : (\A j \in Mine(p) : j <= x) => x = k
    BY <1>8, <2>1
  <2>3. \A x \in DOMAIN filter.ex : First(filter.ex, p, x) <=> x = n
    BY <1>4, <1>8, <2>1
  <2>4. Decides(filter.ex, p, g, l) <=> Covers(filter.ex[n], g, l)
    BY <2>1, <2>3 DEF Decides
  <2> QED
    BY <1>5, <1>6, <1>8, <2>2, <2>4
<1>9. Turned(p)
  BY DEF FilterInv
<1> QED
  BY <1>2, <1>7, <1>8, <1>9 DEF Turned

(***************************************************************************)
(* Of several rules that exclude messages of a program the last one given  *)
(* decides, in a registration of any length: the rules of the other        *)
(* programs and "all" do not come between (alloc_filter(), filter_log()).  *)
(***************************************************************************)
THEOREM TheLastHasTheLastWord == MCSpec => []LastRuleDecides
<1>1. MCInit => FilterInv
  BY FilterInitially DEF MCInit
<1>2. FilterInv /\ [MCNext]_MCvars => FilterInv'
  <2>1. [MCNext]_MCvars => [Next]_<<commands, filter>>
    BY DEF MCNext, MCvars, filterVars
  <2> QED
    BY <2>1, FilterPreserved
<1> QED
  BY <1>1, <1>2, TheLastDecides, PTL DEF MCSpec

-----------------------------------------------------------------------------
(* The counts of src/track                                                 *)

UsedSteps == {"devices", "title", "rows", "create", "output", "done", "failed"}
FilesRead ==
  /\ columns \in Seq(Kinds)
  /\ rows \in Seq(Entries)
  /\ near \in 0..Len(rows)
  /\ step \in UsedSteps
  /\ lines = DeviceLines

\* With a table as expected, the counts are those of the rows behind buf from
\* the title on; the sums are those of the lines written.
Counted ==
  /\ at \in 0..(Len(rows) - near)
  /\ step \in {"devices", "title"} => at = 0
  /\ step \in {"rows", "create", "output", "done"} => elist = DOMAIN columns
  /\ DOMAIN result = {u \in lmap : Stat!RowsOf(u, at) # {}}
  /\ \A u \in DOMAIN result : result[u] = Stat!Expected(u, at)
  /\ csv \subseteq DOMAIN result
  /\ total = Stat!Sums(csv, at)
  /\ step \in {"create", "output", "done"} => at = Len(rows) - near
  /\ step \in {"devices", "title", "rows", "create"} => csv = {}
  /\ step = "done" => csv = DOMAIN result

TrackInv == FilesRead /\ (Stat!Expectable => Counted)

\* Track has its own instance of FiniteSets.
LEMMA SameCardinality == \A S : Stat!Cardinality(S) = Cardinality(S)
BY DEF Stat!Cardinality, Cardinality, Stat!IsFiniteSet, IsFiniteSet

\* What one row more does to a count.
LEMMA OneMore ==
  ASSUME NEW n \in Nat, NEW T, NEW U, T \subseteq 1..n
  PROVE  /\ U = T \cup {n + 1} => Cardinality(U) = Cardinality(T) + 1
         /\ U = T => Cardinality(U) = Cardinality(T)
         /\ IsFiniteSet(T) /\ Cardinality(T) \in Nat
<1>1. IsFiniteSet(1..n)
  BY FS_Interval
<1>2. IsFiniteSet(T)
  BY <1>1, FS_Subset
<1>3. n + 1 \notin T
  OBVIOUS
<1>4. Cardinality(T \cup {n + 1}) = Cardinality(T) + 1
  BY <1>2, <1>3, FS_AddElement
<1>5. Cardinality(T) \in Nat
  BY <1>2, FS_CardinalityType
<1> QED
  BY <1>2, <1>4, <1>5

LEMMA NothingBefore ==
  ASSUME NEW u
  PROVE  /\ Stat!RowsOf(u, 0) = {}
         /\ Stat!Expected(u, 0) = Stat!Zero
         /\ Stat!Sums({}, 0) = Stat!Zero
<1>1. 1..0 = {}
  OBVIOUS
<1>2. Stat!RowsOf(u, 0) = {}
  BY <1>1 DEF Stat!RowsOf
<1>3. Cardinality({}) = 0
  BY FS_EmptySet
<1>4. /\ \A t : {k \in Stat!RowsOf(u, 0) : rows[k].type = t} = {}
      /\ {k \in Stat!RowsOf(u, 0) : rows[k].type \notin 0..2} = {}
  BY <1>2
<1>5. Stat!Expected(u, 0) = Stat!Zero
  <2>1. /\ \A t : Cardinality({k \in Stat!RowsOf(u, 0) : rows[k].type = t}) = 0
        /\ Cardinality({k \in Stat!RowsOf(u, 0) : rows[k].type \notin 0..2}) = 0
    BY <1>3, <1>4
  <2> QED
    BY <2>1, SameCardinality, Zenon DEF Stat!Expected, Stat!Zero
<1>6. /\ \A t : {k \in {m \in 1..0 : rows[m].uid \in {}} : rows[k].type = t} = {}
      /\ {k \in {m \in 1..0 : rows[m].uid \in {}} : rows[k].type \notin 0..2} = {}
  OBVIOUS
<1>7. Stat!Sums({}, 0) = Stat!Zero
  <2>1. /\ \A t : Cardinality({k \in {m \in 1..0 : rows[m].uid \in {}} : rows[k].type = t}) = 0
        /\ Cardinality({k \in {m \in 1..0 : rows[m].uid \in {}} : rows[k].type \notin 0..2}) = 0
    BY <1>3, <1>6
  <2> QED
    BY <2>1, SameCardinality, Zenon DEF Stat!Sums, Stat!Zero
<1> QED
  BY <1>2, <1>5, <1>7

LEMMA CountIs ==
  ASSUME NEW f, NEW m, NEW t
  PROVE  /\ t \in 0..2 => Stat!Count([success |-> f, failed |-> m], t)
                            = [success |-> [f EXCEPT ![t] = f[t] + 1], failed |-> m]
         /\ t \notin 0..2 => Stat!Count([success |-> f, failed |-> m], t)
                               = [success |-> f, failed |-> m + 1]
BY DEF Stat!Count

\* Lines 123-127 and 133-137 count the row.
LEMMA CountsTheRow ==
  ASSUME NEW n \in Nat, rows \in Seq(Entries), n < Len(rows), NEW u, rows[n + 1].uid = u
  PROVE  Stat!Count(Stat!Expected(u, n), rows[n + 1].type) = Stat!Expected(u, n + 1)
<1> DEFINE T(t) == {k \in Stat!RowsOf(u, n) : rows[k].type = t}
           V(t) == {k \in Stat!RowsOf(u, n + 1) : rows[k].type = t}
           F == {k \in Stat!RowsOf(u, n) : rows[k].type \notin 0..2}
           G == {k \in Stat!RowsOf(u, n + 1) : rows[k].type \notin 0..2}
           type == rows[n + 1].type
<1>1. Stat!RowsOf(u, n + 1) = Stat!RowsOf(u, n) \cup {n + 1}
  BY DEF Stat!RowsOf
<1>2. Stat!RowsOf(u, n) \subseteq 1..n
  BY DEF Stat!RowsOf
<1>3. \A t : V(t) = IF t = type THEN T(t) \cup {n + 1} ELSE T(t)
  BY <1>1
<1>4. G = IF type \in 0..2 THEN F ELSE F \cup {n + 1}
  BY <1>1
<1>5. \A t : T(t) \subseteq 1..n /\ F \subseteq 1..n
  BY <1>2
<1>6. /\ Stat!Expected(u, n) = [success |-> [t \in 0..2 |-> Cardinality(T(t))], failed |-> Cardinality(F)]
      /\ Stat!Expected(u, n + 1) = [success |-> [t \in 0..2 |-> Cardinality(V(t))], failed |-> Cardinality(G)]
  BY SameCardinality, Zenon DEF Stat!Expected
<1> HIDE DEF T, V, F, G, type
<1>7. \A t : Cardinality(V(t)) = IF t = type THEN Cardinality(T(t)) + 1 ELSE Cardinality(T(t))
  BY <1>3, <1>5, OneMore
<1>8. Cardinality(G) = IF type \in 0..2 THEN Cardinality(F) ELSE Cardinality(F) + 1
  BY <1>4, <1>5, OneMore
<1>9. CASE type \in 0..2
  <2>1. Stat!Count(Stat!Expected(u, n), type) =
          [success |-> [[t \in 0..2 |-> Cardinality(T(t))] EXCEPT ![type] = Cardinality(T(type)) + 1],
           failed |-> Cardinality(F)]
    <3> DEFINE f == [t \in 0..2 |-> Cardinality(T(t))]
    <3>1. f[type] = Cardinality(T(type))
      BY <1>9
    <3> HIDE DEF f
    <3>2. Stat!Count([success |-> f, failed |-> Cardinality(F)], type)
            = [success |-> [f EXCEPT ![type] = f[type] + 1], failed |-> Cardinality(F)]
      BY <1>9, CountIs, ZenonT(60)
    <3> QED
      BY <1>6, <3>1, <3>2, Zenon DEF f
  <2>2. [[t \in 0..2 |-> Cardinality(T(t))] EXCEPT ![type] = Cardinality(T(type)) + 1]
          = [t \in 0..2 |-> Cardinality(V(t))]
    BY <1>7, <1>9
  <2>3. Cardinality(G) = Cardinality(F)
    BY <1>8, <1>9, Zenon
  <2>4. Stat!Count(Stat!Expected(u, n), type) = Stat!Expected(u, n + 1)
    BY <1>6, <2>1, <2>2, <2>3, Zenon
  <2> QED
    BY <2>4 DEF type
<1>10. CASE type \notin 0..2
  <2>1. Stat!Count(Stat!Expected(u, n), type) =
          [success |-> [t \in 0..2 |-> Cardinality(T(t))], failed |-> Cardinality(F) + 1]
    <3> DEFINE f == [t \in 0..2 |-> Cardinality(T(t))]
    <3> HIDE DEF f
    <3>1. Stat!Count([success |-> f, failed |-> Cardinality(F)], type)
            = [success |-> f, failed |-> Cardinality(F) + 1]
      BY <1>10, CountIs, Zenon
    <3> QED
      BY <1>6, <3>1, Zenon DEF f
  <2>2. [t \in 0..2 |-> Cardinality(T(t))] = [t \in 0..2 |-> Cardinality(V(t))]
    BY <1>7, <1>10
  <2>3. Cardinality(G) = Cardinality(F) + 1
    BY <1>8, <1>10, Zenon
  <2>4. Stat!Count(Stat!Expected(u, n), type) = Stat!Expected(u, n + 1)
    BY <1>6, <2>1, <2>2, <2>3, Zenon
  <2> QED
    BY <2>4 DEF type
<1> QED
  BY <1>9, <1>10

\* The row of another device changes nothing.
LEMMA OthersCountTheSame ==
  ASSUME NEW n \in Nat, NEW u, rows[n + 1].uid # u
  PROVE  /\ Stat!RowsOf(u, n + 1) = Stat!RowsOf(u, n)
         /\ Stat!Expected(u, n + 1) = Stat!Expected(u, n)
<1>1. Stat!RowsOf(u, n + 1) = Stat!RowsOf(u, n)
  BY DEF Stat!RowsOf
<1> QED
  BY <1>1 DEF Stat!Expected

LEMMA TwoSets ==
  ASSUME NEW n \in Nat, NEW S, NEW T, NEW U, S \subseteq 1..n, T \subseteq 1..n,
         S \cap T = {}, U = S \cup T
  PROVE  Cardinality(U) = Cardinality(S) + Cardinality(T)
<1>1. IsFiniteSet(S) /\ IsFiniteSet(T) /\ Cardinality(S) \in Nat /\ Cardinality(T) \in Nat
  BY OneMore
<1>2. Cardinality(S \cup T) = Cardinality(S) + Cardinality(T) - Cardinality(S \cap T)
  BY <1>1, FS_Union
<1>3. Cardinality(S \cap T) = 0
  BY FS_EmptySet
<1> QED
  BY <1>1, <1>2, <1>3

\* A line of the csv file adds the counts of its device to the sums.
LEMMA AddsTheLine ==
  ASSUME NEW n \in Nat, NEW us, NEW u, u \notin us
  PROVE  Stat!Add(Stat!Sums(us, n), Stat!Expected(u, n)) = Stat!Sums(us \cup {u}, n)
<1> DEFINE their(x) == {k \in 1..n : rows[k].uid \in x}
           S(t) == {k \in their(us) : rows[k].type = t}
           SF == {k \in their(us) : rows[k].type \notin 0..2}
           T(t) == {k \in Stat!RowsOf(u, n) : rows[k].type = t}
           TF == {k \in Stat!RowsOf(u, n) : rows[k].type \notin 0..2}
           U(t) == {k \in their(us \cup {u}) : rows[k].type = t}
           UF == {k \in their(us \cup {u}) : rows[k].type \notin 0..2}
<1>1. /\ \A t : S(t) \subseteq 1..n /\ T(t) \subseteq 1..n /\ S(t) \cap T(t) = {} /\ U(t) = S(t) \cup T(t)
      /\ SF \subseteq 1..n /\ TF \subseteq 1..n /\ SF \cap TF = {} /\ UF = SF \cup TF
  BY DEF Stat!RowsOf
<1>2. /\ Stat!Sums(us, n) = [success |-> [t \in 0..2 |-> Cardinality(S(t))], failed |-> Cardinality(SF)]
      /\ Stat!Expected(u, n) = [success |-> [t \in 0..2 |-> Cardinality(T(t))], failed |-> Cardinality(TF)]
      /\ Stat!Sums(us \cup {u}, n) = [success |-> [t \in 0..2 |-> Cardinality(U(t))], failed |-> Cardinality(UF)]
  BY SameCardinality, Zenon DEF Stat!Sums, Stat!Expected
<1> HIDE DEF S, SF, T, TF, U, UF
<1>3. \A t : Cardinality(U(t)) = Cardinality(S(t)) + Cardinality(T(t))
  BY <1>1, TwoSets
<1>4. Cardinality(UF) = Cardinality(SF) + Cardinality(TF)
  <2>1. SF \subseteq 1..n /\ TF \subseteq 1..n /\ SF \cap TF = {} /\ UF = SF \cup TF
    BY <1>1
  <2> QED
    BY <2>1, TwoSets, ZenonT(60)
<1> QED
  BY <1>2, <1>3, <1>4 DEF Stat!Add

LEMMA TrackInitially == MCInit => TrackInv
<1> SUFFICES ASSUME MCInit PROVE TrackInv
  OBVIOUS
<1>1. Stat!Init /\ lines = DeviceLines
  BY DEF MCInit
<1>2. columns \in Seq(Kinds)
  <2>1. <<>> \in Seq(Kinds)
    OBVIOUS
  <2> QED
    BY <2>1, TrackAssumption DEF MCInit
<1>3. rows \in Seq(Entries)
  <2>1. <<>> \in Seq(Entries)
    OBVIOUS
  <2> QED
    BY <2>1, TrackAssumption DEF MCInit
<1>4. rows \in Seq(Entries) /\ near \in 0..Len(rows)
  <2>1. near \in 0..MaxNear /\ near <= Len(rows)
    BY DEF MCInit
  <2>2. Len(rows) \in Nat
    BY <1>3, LenProperties
  <2> QED
    BY <1>3, <2>1, <2>2, TrackAssumption
<1>5. FilesRead
  BY <1>1, <1>2, <1>4 DEF FilesRead, UsedSteps, Stat!Init
<1>6. \A u : Stat!RowsOf(u, 0) = {} /\ Stat!Expected(u, 0) = Stat!Zero
      /\ Stat!Sums({}, 0) = Stat!Zero
  BY NothingBefore
<1>7. Counted
  <2>1. at = 0 /\ step = "devices" /\ lmap = {} /\ csv = {} /\ total = Stat!Zero
        /\ DOMAIN result = {}
    BY <1>1 DEF Stat!Init
  <2>2. at \in 0..(Len(rows) - near)
    BY <1>4, <2>1
  <2> QED
    BY <1>6, <2>1, <2>2 DEF Counted
<1> QED
  BY <1>5, <1>7 DEF TrackInv

\* No step changes the files.
LEMMA FilesStay ==
  ASSUME FilesRead, [Stat!Next]_statVars
  PROVE  /\ FilesRead' /\ Stat!Expectable' = Stat!Expectable
         /\ UNCHANGED <<lines, columns, rows, near>>
<1>1. UNCHANGED <<lines, columns, rows, near>> /\ step' \in UsedSteps
  BY DEF Stat!Next, statVars, FilesRead, UsedSteps, Stat!file, Stat!Devices, Stat!Title, Stat!Row,
         Stat!EndOfRows, Stat!Create, Stat!Output, Stat!OutputTotal, Stat!Fault, Stat!Fail
<1> QED
  BY <1>1 DEF FilesRead, Stat!Expectable

\* No column is left out, and every text is empty.
LEMMA InStepThroughout ==
  ASSUME FilesRead, Stat!Expectable, NEW k \in 1..Len(rows), NEW n
  PROVE  Stat!InStep(rows[k], n)
BY DEF FilesRead, Stat!Expectable, Stat!InStep

\* A step that reads no row and writes no line keeps the counts and the sums.
LEMMA CountsStay ==
  ASSUME Counted, UNCHANGED <<rows, at, lmap, result, csv, total>>
  PROVE  /\ (DOMAIN result = {u \in lmap : Stat!RowsOf(u, at) # {}})'
         /\ (\A u \in DOMAIN result : result[u] = Stat!Expected(u, at))'
         /\ (csv \subseteq DOMAIN result)'
         /\ (total = Stat!Sums(csv, at))'
<1>1. \A u : Stat!RowsOf(u, at)' = Stat!RowsOf(u, at)
  BY DEF Stat!RowsOf
<1>2. \A u : Stat!Expected(u, at)' = Stat!Expected(u, at)
  BY <1>1 DEF Stat!Expected
<1>3. Stat!Sums(csv, at)' = Stat!Sums(csv, at)
  BY DEF Stat!Sums
<1> QED
  BY <1>1, <1>2, <1>3 DEF Counted

LEMMA TitleKeeps ==
  ASSUME FilesRead, Stat!Expectable, Counted, Stat!Title
  PROVE  Counted'
<1>1. elist' = DOMAIN columns
  BY DEF Stat!Title, Stat!Expectable
<1>2. at' = at /\ at = 0 /\ step = "title" /\ step' \in {"rows", "failed"}
      /\ UNCHANGED <<columns, rows, near, lmap, result, csv, total>>
  BY DEF Stat!Title, Counted, Stat!file
<1> QED
  BY <1>1, <1>2, CountsStay DEF Counted

LEMMA RowKeeps ==
  ASSUME FilesRead, Stat!Expectable, Counted, Stat!Row
  PROVE  Counted'
<1> DEFINE r == rows[at + 1]
<1>1. /\ step = "rows" /\ at < Len(rows) /\ at + 1 <= Len(rows) - near /\ at \in Nat
      /\ csv = {} /\ total = Stat!Sums({}, at) /\ elist = DOMAIN columns
      /\ UNCHANGED <<columns, rows, near, step, lmap, elist, csv, total>>
  <2>1. at \in Nat /\ at < Len(rows) /\ ~Stat!Unreadable(at + 1)
    BY DEF Stat!Row, Counted, FilesRead
  <2>2. at + 1 <= Len(rows) - near
    BY <2>1 DEF Stat!Unreadable, FilesRead
  <2> QED
    BY <2>1, <2>2 DEF Stat!Row, Counted, Stat!file
<1>2. at + 1 \in 1..Len(rows) /\ r \in Entries
  BY <1>1 DEF FilesRead
<1>3. Stat!InStep(r, Len(columns)) /\ Stat!InStep(r, TypeCol)
  BY <1>2, InStepThroughout
<1>4. at' = at + 1
  BY <1>3 DEF Stat!Row
<1>5. Stat!TypeRead(r) = {r.type}
  <2>1. Cardinality(1..Len(columns)) = Len(columns)
    <3> DEFINE m == Len(columns)
    <3>1. m \in Nat
      BY DEF FilesRead
    <3> HIDE DEF m
    <3>2. Cardinality(1..m) = m
      BY <3>1, FS_Interval
    <3> QED
      BY <3>2 DEF m
  <2>2. Stat!Cardinality(elist) = Len(columns)
    BY <1>1, <2>1, SameCardinality DEF FilesRead
  <2>3. ~(Stat!Cardinality(elist) < TypeCol)
    BY <2>2, TrackAssumption DEF Stat!Expectable, FilesRead
  <2> QED
    BY <1>3, <2>3 DEF Stat!TypeRead
<1>6. result' = IF r.uid \in lmap
                THEN Stat!WithStatus(r.uid, Stat!Count(Stat!StatusOf(r.uid), r.type))
                ELSE result
  BY <1>5 DEF Stat!Row
<1>7. \A u : u # r.uid => /\ Stat!RowsOf(u, at + 1) = Stat!RowsOf(u, at)
                          /\ Stat!Expected(u, at + 1) = Stat!Expected(u, at)
  BY <1>1, OthersCountTheSame
<1>8. at + 1 \in Stat!RowsOf(r.uid, at + 1)
  BY <1>1 DEF Stat!RowsOf
<1>9. \A u : /\ Stat!RowsOf(u, at)' = Stat!RowsOf(u, at + 1)
             /\ Stat!Expected(u, at)' = Stat!Expected(u, at + 1)
  BY <1>1, <1>4 DEF Stat!RowsOf, Stat!Expected
<1>10. r.uid \in lmap => Stat!StatusOf(r.uid) = Stat!Expected(r.uid, at)
  <2>1. CASE Stat!RowsOf(r.uid, at) # {}
    BY <2>1 DEF Stat!StatusOf, Counted
  <2>2. CASE Stat!RowsOf(r.uid, at) = {}
    <3>1. Stat!RowsOf(r.uid, at) = Stat!RowsOf(r.uid, 0)
      BY <2>2, NothingBefore
    <3>2. Stat!Expected(r.uid, at) = Stat!Expected(r.uid, 0)
      BY <3>1 DEF Stat!Expected
    <3> QED
      BY <2>2, <3>2, NothingBefore DEF Stat!StatusOf, Counted
  <2> QED
    BY <2>1, <2>2
<1>11. r.uid \in lmap => Stat!Count(Stat!StatusOf(r.uid), r.type) = Stat!Expected(r.uid, at + 1)
  BY <1>1, <1>10, CountsTheRow DEF FilesRead
<1>12. (DOMAIN result = {u \in lmap : Stat!RowsOf(u, at) # {}})'
  <2>1. DOMAIN result = {u \in lmap : Stat!RowsOf(u, at) # {}}
    BY DEF Counted
  <2>2. DOMAIN result' = IF r.uid \in lmap THEN DOMAIN result \cup {r.uid} ELSE DOMAIN result
    BY <1>6 DEF Stat!WithStatus
  <2>3. {u \in lmap : Stat!RowsOf(u, at + 1) # {}} =
          IF r.uid \in lmap THEN {u \in lmap : Stat!RowsOf(u, at) # {}} \cup {r.uid}
          ELSE {u \in lmap : Stat!RowsOf(u, at) # {}}
    BY <1>7, <1>8
  <2> HIDE DEF r
  <2> QED
    BY <1>1, <1>9, <2>1, <2>2, <2>3
<1>13. (\A u \in DOMAIN result : result[u] = Stat!Expected(u, at))'
  <2>1. \A u \in DOMAIN result : result[u] = Stat!Expected(u, at)
    BY DEF Counted
  <2>2. DOMAIN result \subseteq lmap
    BY DEF Counted
  <2> HIDE DEF r
  <2>3. \A u \in DOMAIN result' : result'[u] = Stat!Expected(u, at + 1)
    <3>1. CASE r.uid \in lmap
      <4>1. DOMAIN result' = DOMAIN result \cup {r.uid}
            /\ result' = [v \in DOMAIN result \cup {r.uid} |->
                            IF v = r.uid THEN Stat!Expected(r.uid, at + 1) ELSE result[v]]
        BY <1>6, <1>11, <3>1 DEF Stat!WithStatus
      <4> QED
        BY <1>7, <2>1, <4>1
    <3>2. CASE r.uid \notin lmap
      BY <1>6, <1>7, <2>1, <2>2, <3>2
    <3> QED
      BY <3>1, <3>2
  <2> QED
    BY <1>9, <2>3
<1>14. total' = Stat!Sums(csv, at)'
  <2>1. Stat!Sums({}, at) = Stat!Sums({}, at + 1)
    BY DEF Stat!Sums
  <2> QED
    BY <1>1, <1>4, <2>1 DEF Stat!Sums
<1>15. at' \in 0..(Len(rows') - near')
  BY <1>1, <1>4 DEF FilesRead
<1> QED
  BY <1>1, <1>12, <1>13, <1>14, <1>15 DEF Counted

LEMMA EndOfRowsKeeps ==
  ASSUME FilesRead, Stat!Expectable, Counted, Stat!EndOfRows
  PROVE  Counted'
<1>1. at = Len(rows) - near
  <2>1. elist = DOMAIN columns /\ at \in 0..(Len(rows) - near)
    BY DEF Stat!EndOfRows, Counted
  <2>2. ~\E k \in elist : columns[k] = "binary"
    BY <2>1 DEF Stat!Expectable
  <2>3. at < Len(rows) => at + 1 > Len(rows) - near
    BY <2>2 DEF Stat!EndOfRows, Stat!Unreadable
  <2> QED
    BY <2>1, <2>3 DEF FilesRead
<1>2. step = "rows" /\ step' = "create" /\ UNCHANGED <<columns, rows, near, at, lmap, elist, result, csv, total>>
  BY DEF Stat!EndOfRows, Stat!file
<1> QED
  BY <1>1, <1>2, CountsStay DEF Counted

LEMMA OutputKeeps ==
  ASSUME FilesRead, Stat!Expectable, Counted, NEW u \in DOMAIN result, Stat!Output(u)
  PROVE  Counted'
<1>1. /\ step = "output" /\ u \notin csv /\ csv' = csv \cup {u}
      /\ total' = Stat!Add(total, result[u])
      /\ UNCHANGED <<columns, rows, near, step, at, lmap, elist, result>>
  BY DEF Stat!Output, Stat!file
<1>2. total' = Stat!Sums(csv \cup {u}, at)
  <2>1. at \in Nat
    BY DEF Counted, FilesRead
  <2>2. total = Stat!Sums(csv, at) /\ result[u] = Stat!Expected(u, at)
    BY DEF Counted
  <2> QED
    BY <1>1, <2>1, <2>2, AddsTheLine
<1>3. total' = Stat!Sums(csv, at)'
  BY <1>1, <1>2 DEF Stat!Sums
<1>4. \A x : Stat!RowsOf(x, at)' = Stat!RowsOf(x, at)
  BY <1>1 DEF Stat!RowsOf
<1>5. \A x : Stat!Expected(x, at)' = Stat!Expected(x, at)
  BY <1>1, <1>4 DEF Stat!Expected
<1> QED
  BY <1>1, <1>3, <1>4, <1>5 DEF Counted

LEMMA TrackPreserved == TrackInv /\ [Stat!Next]_statVars => TrackInv'
<1> SUFFICES ASSUME TrackInv, [Stat!Next]_statVars, Stat!Expectable' PROVE Counted'
  BY FilesStay DEF TrackInv
<1>1. FilesRead /\ Stat!Expectable /\ Counted /\ UNCHANGED <<lines, columns, rows, near>>
  BY FilesStay DEF TrackInv
<1>2. CASE UNCHANGED statVars
  BY <1>1, <1>2, CountsStay DEF statVars, Counted
<1>3. CASE Stat!Devices
  <2>1. /\ at = 0 /\ at' = 0 /\ csv = {} /\ csv' = {} /\ step' = "title"
        /\ UNCHANGED <<columns, rows, near, result, total>>
    BY <1>1, <1>3 DEF Stat!Devices, Counted, Stat!file
  <2>2. \A x : Stat!RowsOf(x, 0) = {}
    BY NothingBefore
  <2>3. \A x : Stat!RowsOf(x, 0)' = {}
    BY <2>1, <2>2 DEF Stat!RowsOf
  <2>4. DOMAIN result = {} /\ total = Stat!Sums({}, 0)
    BY <1>1, <2>1, <2>2 DEF Counted
  <2>5. total' = Stat!Sums(csv, at)'
    BY <2>1, <2>4 DEF Stat!Sums
  <2>6. DOMAIN result' = {x \in lmap' : Stat!RowsOf(x, at)' # {}}
    BY <2>1, <2>3, <2>4 DEF Stat!RowsOf
  <2> QED
    BY <1>1, <2>1, <2>4, <2>5, <2>6 DEF Counted, FilesRead
<1>4. CASE Stat!Title
  BY <1>1, <1>4, TitleKeeps
<1>5. CASE Stat!Row
  BY <1>1, <1>5, RowKeeps
<1>6. CASE Stat!EndOfRows
  BY <1>1, <1>6, EndOfRowsKeeps
<1>7. CASE Stat!Create
  BY <1>1, <1>7, CountsStay DEF Stat!Create, Counted, Stat!file
<1>8. ASSUME NEW u \in DOMAIN result, Stat!Output(u) PROVE Counted'
  BY <1>1, <1>8, OutputKeeps
<1>9. CASE Stat!OutputTotal
  BY <1>1, <1>9, CountsStay DEF Stat!OutputTotal, Counted, Stat!file
<1>10. CASE Stat!Fail
  BY <1>1, <1>10, CountsStay DEF Stat!Fail, Counted, Stat!file
<1> QED
  BY <1>2, <1>3, <1>4, <1>5, <1>6, <1>7, <1>8, <1>9, <1>10 DEF Stat!Next, Stat!Fault

LEMMA CountedRight == TrackInv => CountsRight
BY DEF TrackInv, FilesRead, UsedSteps, Counted, CountsRight, Stat!CountsRight

(***************************************************************************)
(* For a table src/track can read, every device of the type asked for is   *)
(* counted right and the csv file has each once and the sums, whichever    *)
(* the column of the type is and whichever calls fail.                     *)
(***************************************************************************)
THEOREM CountsStayRight == MCSpec => []CountsRight
<1>1. TrackInv /\ [MCNext]_MCvars => TrackInv'
  <2>1. [MCNext]_MCvars => [Stat!Next]_statVars
    BY DEF MCNext, MCvars, statVars
  <2> QED
    BY <2>1, TrackPreserved
<1> QED
  BY <1>1, TrackInitially, CountedRight, PTL DEF MCSpec

-----------------------------------------------------------------------------
(* The record viewer: least and greatest numbers, the elements of a list   *)

NatLess == {ss \in Nat \X Nat : ss[1] < ss[2]}

LEMMA SmallestNat ==
  ASSUME NEW S \in SUBSET Nat, S # {}
  PROVE  \E x \in S : \A y \in S : x <= y
<1>0. IsWellFoundedOn(NatLess, Nat)
  BY NatLessThanWellFounded, Zenon DEF OpToRel, NatLess
<1>1. PICK x \in S : \A y \in S : ~(<<y, x>> \in NatLess)
  BY <1>0, WFMin
<1>2. ASSUME NEW y \in S PROVE x <= y
  <2>1. <<y, x>> \in Nat \X Nat /\ <<y, x>>[1] = y /\ <<y, x>>[2] = x
    OBVIOUS
  <2>2. y < x => <<y, x>> \in NatLess
    BY <2>1, Zenon DEF NatLess
  <2> QED
    BY <1>1, <2>2
<1> QED
  BY <1>2

LEMMA LeastIs ==
  ASSUME NEW S \in SUBSET Int, S # {}, NEW b \in Int, \A x \in S : b <= x
  PROVE  Rec!Min(S) \in S /\ \A y \in S : Rec!Min(S) <= y
<1> DEFINE T == {x - b : x \in S}
<1>1. T \in SUBSET Nat /\ T # {}
  <2>1. \A x \in S : x - b \in Nat
    OBVIOUS
  <2> QED
    BY <2>1
<1>2. PICK t \in T : \A u \in T : t <= u
  BY <1>1, SmallestNat
<1>3. PICK x \in S : t = x - b
  OBVIOUS
<1>4. ASSUME NEW y \in S PROVE x <= y
  <2>1. y - b \in T /\ x \in Int /\ y \in Int
    OBVIOUS
  <2>2. x - b <= y - b
    BY <1>2, <1>3, <2>1
  <2> QED
    BY <2>1, <2>2
<1> QED
  BY <1>4 DEF Rec!Min

LEMMA GreatestIs ==
  ASSUME NEW S \in SUBSET Int, S # {}, NEW b \in Int, \A x \in S : x <= b
  PROVE  Rec!Max(S) \in S /\ \A y \in S : Rec!Max(S) >= y
<1> DEFINE T == {b - x : x \in S}
<1>1. T \in SUBSET Nat /\ T # {}
  <2>1. \A x \in S : b - x \in Nat
    OBVIOUS
  <2> QED
    BY <2>1
<1>2. PICK t \in T : \A u \in T : t <= u
  BY <1>1, SmallestNat
<1>3. PICK x \in S : t = b - x
  OBVIOUS
<1>4. ASSUME NEW y \in S PROVE x >= y
  <2>1. b - y \in T /\ x \in Int /\ y \in Int
    OBVIOUS
  <2>2. b - x <= b - y
    BY <1>2, <1>3, <2>1
  <2> QED
    BY <2>1, <2>2
<1> QED
  BY <1>4 DEF Rec!Max

Image(f) == {f[x] : x \in DOMAIN f}
OneToOne(f) == \A x, y \in DOMAIN f : f[x] = f[y] => x = y

\* Record has its own instance of FiniteSets.
LEMMA RecordCardinality == \A S : Rec!Cardinality(S) = Cardinality(S)
BY DEF Rec!Cardinality, Cardinality, Rec!IsFiniteSet, IsFiniteSet

LEMMA FunctionIsSeq ==
  ASSUME NEW S, NEW c \in Nat, NEW f \in [1..c -> S]
  PROVE  f \in Seq(S) /\ Len(f) = c
<1>1. Seq(S) = UNION {[1..m -> S] : m \in Nat}
  BY SeqDef
<1>2. \E m \in Nat : f \in [1..m -> S]
  OBVIOUS
<1>3. f \in Seq(S)
  BY <1>1, <1>2, Zenon
<1> QED
  BY <1>3, LenProperties

\* Kept() has the records of the set, each as often as the list.
LEMMA KeptIs ==
  ASSUME NEW S, NEW list \in Seq(S), NEW set
  PROVE  /\ Rec!Kept(list, set) \in Seq(S)
         /\ Image(Rec!Kept(list, set)) = Image(list) \cap set
         /\ OneToOne(list) => OneToOne(Rec!Kept(list, set))
<1> DEFINE P == {x \in DOMAIN list : list[x] \in set}
           Below(x) == {y \in P : y <= x}
           c == Rec!Cardinality(P)
           rank == [x \in P |-> Rec!Cardinality(Below(x))]
<1>1. DOMAIN list = 1..Len(list) /\ Len(list) \in Nat
  BY LenProperties
<1>2. IsFiniteSet(P) /\ c \in Nat
  <2>1. IsFiniteSet(1..Len(list))
    BY <1>1, FS_Interval, RecordCardinality
  <2>2. P \in SUBSET (1..Len(list))
    BY <1>1
  <2>3. IsFiniteSet(P)
    BY <2>1, <2>2, FS_Subset, RecordCardinality
  <2> QED
    BY <2>3, FS_CardinalityType, RecordCardinality
<1>3. \A x \in P : Below(x) \in SUBSET P /\ IsFiniteSet(Below(x)) /\ Rec!Cardinality(Below(x)) \in 1..c
  <2> SUFFICES ASSUME NEW x \in P
               PROVE  Below(x) \in SUBSET P /\ IsFiniteSet(Below(x)) /\ Rec!Cardinality(Below(x)) \in 1..c
    OBVIOUS
  <2>1. Below(x) \in SUBSET P /\ x \in Below(x)
    BY <1>1
  <2> DEFINE B == Below(x)
  <2> HIDE DEF P, Below
  <2>2. IsFiniteSet(B) /\ Rec!Cardinality(B) <= c
    BY <1>2, <2>1, FS_Subset, RecordCardinality
  <2>3. Rec!Cardinality(B) \in Nat /\ Rec!Cardinality(B) # 0
    BY <2>1, <2>2, FS_CardinalityType, FS_EmptySet, RecordCardinality
  <2> QED
    BY <1>2, <2>1, <2>2, <2>3
<1>4. \A x, y \in P : x < y => Rec!Cardinality(Below(x)) < Rec!Cardinality(Below(y))
  <2> SUFFICES ASSUME NEW x \in P, NEW y \in P, x < y
               PROVE  Rec!Cardinality(Below(x)) < Rec!Cardinality(Below(y))
    OBVIOUS
  <2>1. Below(x) \in SUBSET Below(y) /\ Below(x) # Below(y)
    <3>1. y \in Below(y) /\ y \notin Below(x)
      BY <1>1
    <3>2. \A z \in Below(x) : z \in Below(y)
      BY <1>1
    <3> QED
      BY <3>1, <3>2
  <2> HIDE DEF P, Below, c
  <2>2. IsFiniteSet(Below(y)) /\ Rec!Cardinality(Below(y)) \in 1..c /\ Rec!Cardinality(Below(x)) \in 1..c
    BY <1>3
  <2>3. Rec!Cardinality(Below(x)) <= Rec!Cardinality(Below(y))
    BY <2>1, <2>2, FS_Subset, RecordCardinality
  <2>4. Rec!Cardinality(Below(x)) # Rec!Cardinality(Below(y))
    BY <2>1, <2>2, FS_Subset, RecordCardinality
  <2> QED
    BY <1>2, <2>2, <2>3, <2>4
<1>5. \A x, y \in P : Rec!Cardinality(Below(x)) = Rec!Cardinality(Below(y)) => x = y
  <2>1. P \subseteq Int
    BY <1>1
  <2> HIDE DEF P, Below
  <2>2. \A x, y \in P : Rec!Cardinality(Below(x)) \in Int
    BY <1>2, <1>3
  <2> QED
    BY <1>4, <2>1, <2>2
<1>6. \A m \in 1..c : \E x \in P : Rec!Cardinality(Below(x)) = m
  <2> HIDE DEF P, Below, c
  <2>1. rank \in Injection(P, 1..c)
    BY <1>3, <1>5, Zenon DEF Injection, IsInjective
  <2>2. IsFiniteSet(1..c) /\ Rec!Cardinality(1..c) = c
    BY <1>2, FS_Interval, RecordCardinality
  <2>3. Rec!Cardinality(P) = Rec!Cardinality(1..c)
    BY <2>2 DEF c
  <2>4. rank \in Surjection(P, 1..c)
    BY <2>1, <2>2, <2>3, FS_Injection, RecordCardinality
  <2> QED
    BY <2>4 DEF Surjection
<1> DEFINE At(m) == CHOOSE x \in P : Rec!Cardinality(Below(x)) = m
           kept == [m \in 1..c |-> list[At(m)]]
<1>7. \A m \in 1..c : At(m) \in P /\ Rec!Cardinality(Below(At(m))) = m
  <2> HIDE DEF P, Below, c
  <2> QED
    BY <1>6
<1>8. \A x \in P : At(Rec!Cardinality(Below(x))) = x
  <2> HIDE DEF P, Below, c
  <2> SUFFICES ASSUME NEW x \in P PROVE At(Rec!Cardinality(Below(x))) = x
    OBVIOUS
  <2> HIDE DEF At
  <2> QED
    BY <1>3, <1>5, <1>7
<1>9. Rec!Kept(list, set) = kept
  BY Zenon DEF Rec!Kept
<1> HIDE DEF At, c
<1>10. \A m \in 1..c : list[At(m)] \in S /\ list[At(m)] \in set /\ At(m) \in DOMAIN list
  <2>1. \A x \in P : list[x] \in S /\ list[x] \in set /\ x \in DOMAIN list
    BY <1>1, ElementOfSeq
  <2> HIDE DEF P, Below
  <2> QED
    BY <1>7, <2>1
<1>11. kept \in [1..c -> S]
  BY <1>10
<1>12. kept \in Seq(S)
  BY <1>2, <1>11, FunctionIsSeq
<1>13. Image(kept) = Image(list) \cap set
  <2>1. ASSUME NEW e \in Image(kept) PROVE e \in Image(list) \cap set
    BY <1>10, <2>1 DEF Image
  <2>2. ASSUME NEW e \in Image(list) \cap set PROVE e \in Image(kept)
    <3>1. PICK x \in DOMAIN list : e = list[x]
      BY <2>2 DEF Image
    <3>2. x \in P
      BY <2>2, <3>1
    <3>3. Rec!Cardinality(Below(x)) \in 1..c /\ At(Rec!Cardinality(Below(x))) = x
      BY <1>3, <1>8, <3>2
    <3> HIDE DEF P, Below
    <3> QED
      BY <3>1, <3>3 DEF Image
  <2> QED
    BY <2>1, <2>2
<1>14. ASSUME OneToOne(list) PROVE OneToOne(kept)
  <2> SUFFICES ASSUME NEW m \in 1..c, NEW p \in 1..c, list[At(m)] = list[At(p)] PROVE m = p
    BY DEF OneToOne
  <2>1. At(m) = At(p)
    BY <1>10, <1>14 DEF OneToOne
  <2> HIDE DEF P, Below
  <2> QED
    BY <1>7, <2>1
<1> HIDE DEF kept
<1> QED
  BY <1>9, <1>12, <1>13, <1>14

-----------------------------------------------------------------------------
(* Exchanging and inserting                                                *)

LEMMA SameImage ==
  ASSUME NEW f, NEW g,
         \A z \in DOMAIN g : \E w \in DOMAIN f : g[z] = f[w],
         \A w \in DOMAIN f : \E z \in DOMAIN g : g[z] = f[w]
  PROVE  Image(g) = Image(f)
<1>1. ASSUME NEW e \in Image(g) PROVE e \in Image(f)
  BY <1>1 DEF Image
<1>2. ASSUME NEW e \in Image(f) PROVE e \in Image(g)
  <2>1. PICK w \in DOMAIN f : e = f[w]
    BY <1>2 DEF Image
  <2> QED
    BY <2>1 DEF Image
<1> QED
  BY <1>1, <1>2

LEMMA SwapKeeps ==
  ASSUME NEW f, NEW g, DOMAIN g = DOMAIN f, NEW x \in DOMAIN f, NEW y \in DOMAIN f,
         g[y] = f[x], g[x] = f[y], \A z \in DOMAIN f : z # x /\ z # y => g[z] = f[z]
  PROVE  Image(g) = Image(f) /\ (OneToOne(f) => OneToOne(g))
<1>1. \A z \in DOMAIN f : \E w \in DOMAIN f : g[z] = f[w]
  OBVIOUS
<1>2. \A w \in DOMAIN f : \E z \in DOMAIN f : g[z] = f[w]
  OBVIOUS
<1>3. Image(g) = Image(f)
  BY <1>1, <1>2, SameImage
<1>4. OneToOne(f) => OneToOne(g)
  BY DEF OneToOne
<1> QED
  BY <1>3, <1>4

\* The record at place y moves down to x, those between move up.
LEMMA InsertKeeps ==
  ASSUME NEW f, NEW g, DOMAIN g = DOMAIN f, DOMAIN f \subseteq Int,
         NEW y \in Int, NEW x \in Int, x <= y, x..y \subseteq DOMAIN f,
         g[x] = f[y], \A z \in (x + 1)..y : g[z] = f[z - 1],
         \A z \in DOMAIN f : z < x \/ z > y => g[z] = f[z]
  PROVE  Image(g) = Image(f) /\ (OneToOne(f) => OneToOne(g))
<1> DEFINE From(z) == IF z \in (x + 1)..y THEN z - 1 ELSE IF z = x THEN y ELSE z
<1>1. \A z \in DOMAIN f : From(z) \in DOMAIN f /\ g[z] = f[From(z)]
  OBVIOUS
<1>3. \A z, w \in DOMAIN f : From(z) = From(w) => z = w
  OBVIOUS
<1>4. \A w \in DOMAIN f : \E z \in DOMAIN f : From(z) = w
  <2> SUFFICES ASSUME NEW w \in DOMAIN f PROVE \E z \in DOMAIN f : From(z) = w
    OBVIOUS
  <2>1. CASE w \in x..(y - 1)
    <3>1. w + 1 \in DOMAIN f /\ From(w + 1) = w
      BY <2>1
    <3> QED
      BY <3>1
  <2>2. CASE w = y
    <3>1. x \in DOMAIN f /\ From(x) = w
      BY <2>2
    <3> QED
      BY <3>1
  <2>3. CASE w \notin x..y
    <3>1. From(w) = w
      BY <2>3
    <3> QED
      BY <3>1
  <2> QED
    BY <2>1, <2>2, <2>3
<1> HIDE DEF From
<1>5. Image(g) = Image(f)
  <2>1. \A z \in DOMAIN f : \E w \in DOMAIN f : g[z] = f[w]
    BY <1>1
  <2>2. \A w \in DOMAIN f : \E z \in DOMAIN f : g[z] = f[w]
    BY <1>1, <1>4
  <2> QED
    BY <2>1, <2>2, SameImage
<1>6. OneToOne(f) => OneToOne(g)
  BY <1>1, <1>3 DEF OneToOne
<1> QED
  BY <1>5, <1>6

\* If the places below y are in order, x is where its record belongs, and only
\* greater ones move, the places up to y are in order.
LEMMA InsertSorts ==
  ASSUME NEW y \in Nat, NEW x \in 0..y, NEW f, NEW key, NEW g,
         \A z \in 0..y : key[f[z]] \in Int,
         \A z, w \in 0..(y - 1) : z < w => key[f[z]] <= key[f[w]],
         \A z \in x..(y - 1) : key[f[z]] > key[f[y]],
         x = 0 \/ key[f[x - 1]] <= key[f[y]],
         g[x] = f[y], \A z \in (x + 1)..y : g[z] = f[z - 1],
         \A z \in 0..(x - 1) : g[z] = f[z]
  PROVE  \A z, w \in 0..y : z < w => key[g[z]] <= key[g[w]]
<1> SUFFICES ASSUME NEW z \in 0..y, NEW w \in 0..y, z < w PROVE key[g[z]] <= key[g[w]]
  OBVIOUS
<1>1. x \in Nat /\ y \in Nat
  OBVIOUS
<1>2. \A v \in 0..(x - 1) : key[f[v]] <= key[f[y]]
  <2> SUFFICES ASSUME NEW v \in 0..(x - 1) PROVE key[f[v]] <= key[f[y]]
    OBVIOUS
  <2>1. x - 1 \in 0..(y - 1) /\ v \in 0..(y - 1)
    OBVIOUS
  <2>2. v = x - 1 \/ key[f[v]] <= key[f[x - 1]]
    BY <2>1
  <2>3. key[f[v]] \in Int /\ key[f[x - 1]] \in Int /\ key[f[y]] \in Int
    BY <2>1
  <2> QED
    BY <2>2, <2>3
<1>3. CASE w < x
  <2>1. g[z] = f[z] /\ g[w] = f[w]
    BY <1>1, <1>3
  <2> QED
    BY <1>1, <1>3, <2>1
<1>4. CASE w = x
  <2>1. g[z] = f[z] /\ g[w] = f[y]
    BY <1>1, <1>4
  <2> QED
    BY <1>1, <1>2, <1>4, <2>1
<1>5. CASE w > x
  <2>1. g[w] = f[w - 1] /\ w - 1 \in x..(y - 1) /\ w - 1 \in 0..(y - 1)
    BY <1>1, <1>5
  <2>2. CASE z = x
    <3>1. g[z] = f[y]
      BY <1>1, <2>2
    <3>2. key[f[w - 1]] > key[f[y]] /\ key[f[w - 1]] \in Int /\ key[f[y]] \in Int
      BY <2>1
    <3> QED
      BY <2>1, <3>1, <3>2
  <2>3. CASE z < x
    <3>1. g[z] = f[z] /\ z \in 0..(y - 1)
      BY <1>1, <2>3
    <3>2. z < w - 1
      BY <1>1, <1>5, <2>3
    <3> QED
      BY <2>1, <3>1, <3>2
  <2>4. CASE z > x
    <3>1. g[z] = f[z - 1] /\ z - 1 \in 0..(y - 1) /\ z - 1 < w - 1
      BY <1>1, <2>4
    <3> QED
      BY <2>1, <3>1
  <2> QED
    BY <1>1, <2>2, <2>3, <2>4
<1> QED
  BY <1>1, <1>3, <1>4, <1>5

-----------------------------------------------------------------------------
(* The segments of the quick sort                                          *)

\* The segments to do and the one that is partitioned have no place in common;
\* those to do have two places or more.
Segments(s, a, b, c) ==
  /\ a \in Nat /\ b \in Int /\ a <= b + 1 /\ b < c
  /\ s \in Seq(Int \X Int)
  /\ \A x \in 1..Len(s) : 0 <= s[x][1] /\ s[x][1] < s[x][2] /\ s[x][2] < c
  /\ \A x \in 1..Len(s) : s[x][2] < a \/ b < s[x][1]
  /\ \A x, y \in 1..Len(s) : x # y => s[x][2] < s[y][1] \/ s[y][2] < s[x][1]

LEMMA EndsAreInt ==
  ASSUME NEW s \in Seq(Int \X Int)
  PROVE  Len(s) \in Nat /\ \A x \in 1..Len(s) : s[x][1] \in Int /\ s[x][2] \in Int
<1>1. Len(s) \in Nat /\ \A x \in 1..Len(s) : s[x] \in Int \X Int
  BY LenProperties, ElementOfSeq
<1> QED
  BY <1>1

LEMMA SegmentsPart ==
  ASSUME NEW s, NEW a, NEW b, NEW c \in Nat, Segments(s, a, b, c),
         NEW d \in Int, NEW e \in Int, a <= d, e <= b, d <= e + 1
  PROVE  Segments(s, d, e, c)
<1>1. \A x \in 1..Len(s) : s[x][2] < d \/ e < s[x][1]
  BY EndsAreInt, SMTT(30) DEF Segments
<1> QED
  BY <1>1 DEF Segments

LEMMA SegmentsPush ==
  ASSUME NEW s, NEW a, NEW b, NEW c \in Nat, Segments(s, a, b, c),
         NEW d \in Int, NEW e \in Int, a <= d, e <= b, d <= e + 1,
         NEW p \in Int, NEW q \in Int, a <= p, p < q, q <= b, q < d \/ e < p
  PROVE  Segments(<< <<p, q>> >> \o s, d, e, c)
<1> DEFINE t == << <<p, q>> >> \o s
<1>1. s \in Seq(Int \X Int) /\ Len(s) \in Nat
  BY EndsAreInt DEF Segments
<1>2. << <<p, q>> >> \in Seq(Int \X Int) /\ Len(<< <<p, q>> >>) = 1 /\ << <<p, q>> >>[1] = <<p, q>>
  OBVIOUS
<1>3. /\ t \in Seq(Int \X Int) /\ Len(t) = Len(s) + 1
      /\ \A x \in 1..(Len(s) + 1) : t[x] = IF x <= 1 THEN << <<p, q>> >>[x] ELSE s[x - 1]
  BY <1>1, <1>2, ConcatProperties
<1>4. t[1] = <<p, q>> /\ \A x \in 2..Len(t) : x - 1 \in 1..Len(s) /\ t[x] = s[x - 1]
  BY <1>1, <1>2, <1>3
<1> HIDE DEF t
<1>5. \A x \in 1..Len(s) : /\ s[x][1] \in Int /\ s[x][2] \in Int
                           /\ 0 <= s[x][1] /\ s[x][1] < s[x][2] /\ s[x][2] < c
                           /\ s[x][2] < a \/ b < s[x][1]
  BY EndsAreInt DEF Segments
<1>6. t[1][1] = p /\ t[1][2] = q
  BY <1>4
<1>ends. a \in Int /\ b \in Int
  BY DEF Segments
<1>7. \A x \in 1..Len(t) : x = 1 \/ x \in 2..Len(t)
  BY <1>1, <1>3
<1>8. \A x \in 1..Len(t) : 0 <= t[x][1] /\ t[x][1] < t[x][2] /\ t[x][2] < c
  <2>1. 0 <= p /\ q < c
    BY DEF Segments
  <2> QED
    BY <1>4, <1>5, <1>6, <1>7, <2>1
<1>9. \A x \in 1..Len(t) : t[x][2] < d \/ e < t[x][1]
  <2>1. ASSUME NEW x \in 1..Len(s) PROVE s[x][2] < d \/ e < s[x][1]
    <3>1. s[x][1] \in Int /\ s[x][2] \in Int /\ (s[x][2] < a \/ b < s[x][1])
      BY <1>5
    <3> QED
      BY <1>ends, <3>1
  <2> QED
    BY <1>4, <1>6, <1>7, <2>1
<1>10. \A x \in 2..Len(t) : t[x][2] < p \/ q < t[x][1]
  <2>1. ASSUME NEW x \in 1..Len(s) PROVE s[x][2] < p \/ q < s[x][1]
    <3>1. s[x][1] \in Int /\ s[x][2] \in Int /\ (s[x][2] < a \/ b < s[x][1])
      BY <1>5
    <3> QED
      BY <1>ends, <3>1
  <2> QED
    BY <1>4, <2>1
<1>11. \A x, y \in 2..Len(t) : x # y => t[x][2] < t[y][1] \/ t[y][2] < t[x][1]
  <2>1. \A x, y \in 1..Len(s) : x # y => s[x][2] < s[y][1] \/ s[y][2] < s[x][1]
    BY DEF Segments
  <2>2. \A x, y \in 2..Len(t) : x # y => x - 1 # y - 1
    OBVIOUS
  <2> QED
    BY <1>4, <2>1, <2>2
<1>12. \A x, y \in 1..Len(t) : x # y => t[x][2] < t[y][1] \/ t[y][2] < t[x][1]
  BY <1>6, <1>7, <1>10, <1>11
<1>13. d \in Nat /\ e \in Int /\ d <= e + 1 /\ e < c
  BY DEF Segments
<1> QED
  BY <1>3, <1>8, <1>9, <1>12, <1>13 DEF Segments, t

LEMMA SegmentsPop ==
  ASSUME NEW s, NEW a, NEW b, NEW c \in Nat, Segments(s, a, b, c), s # <<>>
  PROVE  Segments(Tail(s), s[1][1], s[1][2], c) /\ s[1][1] < s[1][2]
<1>1. s \in Seq(Int \X Int) /\ Len(s) \in Nat /\ Len(s) > 0
  BY EndsAreInt, EmptySeq DEF Segments
<1>2. /\ Tail(s) \in Seq(Int \X Int) /\ Len(Tail(s)) = Len(s) - 1
      /\ \A x \in 1..(Len(s) - 1) : Tail(s)[x] = s[x + 1]
  BY <1>1
<1>3. \A x \in 1..Len(s) : s[x][1] \in Int /\ s[x][2] \in Int
  BY <1>1, EndsAreInt
<1>4. 1 \in 1..Len(s) /\ \A x \in 1..(Len(s) - 1) : x + 1 \in 1..Len(s) /\ x + 1 # 1
  BY <1>1
<1>5. s[1][1] \in Nat /\ s[1][2] \in Int /\ s[1][1] < s[1][2] /\ s[1][2] < c
  BY <1>3, <1>4 DEF Segments
<1>6. \A x \in 1..Len(Tail(s)) : 0 <= Tail(s)[x][1] /\ Tail(s)[x][1] < Tail(s)[x][2] /\ Tail(s)[x][2] < c
  BY <1>2, <1>4 DEF Segments
<1>7. \A x \in 1..Len(Tail(s)) : Tail(s)[x][2] < s[1][1] \/ s[1][2] < Tail(s)[x][1]
  BY <1>2, <1>4 DEF Segments
<1>8. \A x, y \in 1..Len(Tail(s)) : x # y => Tail(s)[x][2] < Tail(s)[y][1] \/ Tail(s)[y][2] < Tail(s)[x][1]
  <2>1. \A x, y \in 1..(Len(s) - 1) : x # y => x + 1 # y + 1
    OBVIOUS
  <2> QED
    BY <1>2, <1>4, <2>1 DEF Segments
<1> QED
  BY <1>2, <1>5, <1>6, <1>7, <1>8 DEF Segments

\* There are never more of them than places.
LEMMA SegmentsBound ==
  ASSUME NEW s, NEW a, NEW b, NEW c \in Nat, Segments(s, a, b, c)
  PROVE  Len(s) <= c
<1> DEFINE first == [x \in 1..Len(s) |-> s[x][1]]
<1>1. Len(s) \in Nat /\ \A x \in 1..Len(s) : s[x][1] \in Int /\ s[x][2] \in Int
  BY EndsAreInt DEF Segments
<1>2. first \in [1..Len(s) -> 0..(c - 1)]
  BY <1>1 DEF Segments
<1>3. \A x, y \in 1..Len(s) : first[x] = first[y] => x = y
  <2> SUFFICES ASSUME NEW x \in 1..Len(s), NEW y \in 1..Len(s), s[x][1] = s[y][1], x # y PROVE FALSE
    OBVIOUS
  <2>1. s[x][2] < s[y][1] \/ s[y][2] < s[x][1]
    BY DEF Segments
  <2>2. s[x][1] < s[x][2] /\ s[y][1] < s[y][2]
    BY DEF Segments
  <2> QED
    BY <1>1, <2>1, <2>2
<1>4. first \in Injection(1..Len(s), 0..(c - 1))
  BY <1>2, <1>3 DEF Injection, IsInjective
<1>5. IsFiniteSet(0..(c - 1)) /\ Cardinality(0..(c - 1)) = c
  BY FS_Interval
<1>6. Cardinality(1..Len(s)) = Len(s)
  <2> DEFINE m == Len(s)
  <2>1. m \in Nat
    BY <1>1
  <2> HIDE DEF m
  <2>2. Cardinality(1..m) = m
    BY <2>1, FS_Interval
  <2> QED
    BY <2>2 DEF m
<1>7. Cardinality(1..Len(s)) <= Cardinality(0..(c - 1))
  BY <1>4, <1>5, FS_Injection
<1> QED
  BY <1>5, <1>6, <1>7

-----------------------------------------------------------------------------
(* The sort                                                                *)

SortPlaces == {"segment", "scan", "insert", "sorted"}
Size == Len(Rec!List)
InOrder(m) == \A x, y \in 0..(m - 1) : x < y => date[arr[x]] <= date[arr[y]]

RecType ==
  /\ uid \in [Ids -> Uids] /\ date \in [Ids -> Dates] /\ heartbeat \in [Ids -> BOOLEAN]
  /\ read \in SUBSET Ids /\ asked \in Uids \cup {None}
  /\ dump \in Seq(Ids) /\ records \in Seq(Ids) /\ answer \in Seq(Ids)
  /\ table \in [Rec!Buckets -> Seq(Ids)]

\* The array holds the list all the time; the partition only has to end with
\* no segment to do, the insertion sort has sorted the first places.
SortInv ==
  place \in SortPlaces =>
    /\ Size > 0 /\ arr \in [0..(Size - 1) -> Ids]
    /\ Image(arr) = Image(Rec!List) /\ (OneToOne(Rec!List) => OneToOne(arr))
    /\ place \in {"segment", "scan"} => Segments(stack, left, right, Size)
    /\ place = "scan" =>
         left < right /\ up \in (left - 1)..(right - 1) /\ down \in (left + 1)..(right + 1)
    /\ place = "insert" => stack = <<>> /\ down \in 1..Size /\ InOrder(down)
    /\ place = "sorted" => InOrder(Size)

LEMMA ListType == RecType => Rec!List \in Seq(Ids) /\ Size \in Nat
BY LenProperties DEF RecType, Rec!List, Size

LEMMA ArraySize ==
  ASSUME NEW c \in Nat, NEW S, NEW f \in [0..(c - 1) -> S]
  PROVE  DOMAIN f = 0..(c - 1) /\ Rec!Cardinality(DOMAIN f) = c
<1>1. DOMAIN f = 0..(c - 1)
  OBVIOUS
<1> QED
  BY <1>1, FS_Interval, RecordCardinality

\* Where the scans stop is in the segment.
LEMMA ScanStops ==
  ASSUME left \in Int, right \in Int, left < right,
         up \in (left - 1)..(right - 1), down \in (left + 1)..(right + 1)
  PROVE  /\ Rec!ScanUp \in (up + 1)..right /\ Rec!ScanDown \in left..(down - 1)
         /\ Rec!Mid \in left..right
<1> DEFINE U == {x \in (up + 1)..right : x = right \/ date[arr[x]] >= date[pivot]}
           D == {x \in left..(down - 1) : x = left \/ date[arr[x]] <= date[pivot]}
<1>1. right \in U /\ U \in SUBSET Int /\ \A x \in U : up + 1 <= x
  OBVIOUS
<1>2. left \in D /\ D \in SUBSET Int /\ \A x \in D : x <= down - 1
  OBVIOUS
<1>3. U \subseteq (up + 1)..right /\ D \subseteq left..(down - 1)
  OBVIOUS
<1>4. Rec!ScanUp = Rec!Min(U) /\ Rec!ScanDown = Rec!Max(D)
  BY DEF Rec!ScanUp, Rec!ScanDown
<1> HIDE DEF U, D
<1>5. Rec!Min(U) \in U
  BY <1>1, LeastIs, up + 1 \in Int
<1>6. Rec!Max(D) \in D
  BY <1>2, GreatestIs, down - 1 \in Int
<1>7. Rec!Mid \in left..right
  BY DEF Rec!Mid
<1> QED
  BY <1>3, <1>4, <1>5, <1>6, <1>7

LEMMA SegmentKeeps ==
  ASSUME RecordAssumption, RecType, SortInv, Rec!Segment, Rec!List' = Rec!List, UNCHANGED date
  PROVE  SortInv'
<1>1. Size \in Nat /\ Size' = Size
  BY ListType DEF Size
<1>2. /\ Size > 0 /\ arr \in [0..(Size - 1) -> Ids]
      /\ Image(arr) = Image(Rec!List) /\ (OneToOne(Rec!List) => OneToOne(arr))
      /\ Segments(stack, left, right, Size)
  BY DEF SortInv, SortPlaces, Rec!Segment
<1>3. /\ Image(arr)' = Image(Rec!List)' /\ (OneToOne(Rec!List)' => OneToOne(arr)')
      /\ (Size > 0 /\ arr \in [0..(Size - 1) -> Ids])'
  BY <1>1, <1>2, ZenonT(60) DEF Rec!Segment, Image, OneToOne
<1>4. left \in Int /\ right \in Int /\ M \in Nat \ {0}
  BY <1>2 DEF Segments, RecordAssumption
<1>5. CASE right - left >= M /\ Rec!BeginScan(left, right) /\ UNCHANGED stack
  <2>1. /\ left' = left /\ right' = right /\ up' = left - 1 /\ down' = right + 1
        /\ place' = "scan" /\ left < right
    BY <1>4, <1>5 DEF Rec!BeginScan
  <2>2. Segments(stack, left, right, Size)'
    BY <1>1, <1>2, <1>5, <2>1 DEF Segments
  <2>3. (left < right /\ up \in (left - 1)..(right - 1) /\ down \in (left + 1)..(right + 1))'
    BY <1>4, <2>1
  <2> QED
    BY <1>3, <2>1, <2>2, <2>3 DEF SortInv
<1>6. CASE /\ stack # <<>> /\ Rec!BeginScan(stack[1][1], stack[1][2]) /\ stack' = Tail(stack)
  <2>1. Segments(Tail(stack), stack[1][1], stack[1][2], Size) /\ stack[1][1] < stack[1][2]
    BY <1>1, <1>2, <1>6, SegmentsPop
  <2>2. stack[1][1] \in Int /\ stack[1][2] \in Int
    BY <2>1 DEF Segments
  <2>3. /\ left' = stack[1][1] /\ right' = stack[1][2] /\ up' = left' - 1 /\ down' = right' + 1
        /\ place' = "scan"
    BY <1>6 DEF Rec!BeginScan
  <2>4. Segments(stack, left, right, Size)'
    BY <1>1, <1>6, <2>1, <2>3
  <2>5. (left < right /\ up \in (left - 1)..(right - 1) /\ down \in (left + 1)..(right + 1))'
    BY <2>1, <2>2, <2>3
  <2> QED
    BY <1>3, <2>3, <2>4, <2>5 DEF SortInv
<1>7. CASE stack = <<>> /\ Rec!BeginInsert /\ UNCHANGED stack
  <2>1. place' = "insert" /\ stack' = <<>> /\ down' = 1
    BY <1>7 DEF Rec!BeginInsert
  <2>2. InOrder(down)'
    BY <2>1 DEF InOrder
  <2> QED
    BY <1>1, <1>2, <1>3, <2>1, <2>2 DEF SortInv
<1> QED
  BY <1>5, <1>6, <1>7 DEF Rec!Segment

\* An exchange of two places of the segment keeps what the array holds.
LEMMA SwapArray ==
  ASSUME RecType, Size \in Nat, Size > 0, arr \in [0..(Size - 1) -> Ids],
         Image(arr) = Image(Rec!List), OneToOne(Rec!List) => OneToOne(arr),
         NEW x \in 0..(Size - 1), NEW y \in 0..(Size - 1),
         arr' = Rec!Swapped(x, y), Rec!List' = Rec!List
  PROVE  /\ Size' = Size /\ (arr \in [0..(Size - 1) -> Ids])'
         /\ Image(arr)' = Image(Rec!List)' /\ (OneToOne(Rec!List)' => OneToOne(arr)')
<1> DEFINE c == Size - 1
           g == arr'
<1>1. c \in Nat /\ g = [arr EXCEPT ![x] = arr[y], ![y] = arr[x]]
  BY DEF Rec!Swapped
<1> HIDE DEF g
<1>2. g \in [0..c -> Ids] /\ Image(g) = Image(arr) /\ (OneToOne(arr) => OneToOne(g))
  <2>1. x \in DOMAIN arr /\ y \in DOMAIN arr
    OBVIOUS
  <2>2. /\ g \in [0..c -> Ids] /\ DOMAIN g = DOMAIN arr
        /\ g[y] = arr[x] /\ g[x] = arr[y] /\ \A z \in DOMAIN arr : z # x /\ z # y => g[z] = arr[z]
    BY <1>1, <2>1
  <2> HIDE DEF c
  <2>3. Image(g) = Image(arr) /\ (OneToOne(arr) => OneToOne(g))
    BY <1>1, <2>1, <2>2, SwapKeeps, ZenonT(60)
  <2> QED
    BY <2>2, <2>3
<1>3. Image(arr)' = Image(g) /\ OneToOne(arr)' = OneToOne(g)
  BY DEF g, Image, OneToOne
<1>4. Image(Rec!List)' = Image(Rec!List) /\ OneToOne(Rec!List)' = OneToOne(Rec!List) /\ Size' = Size
  BY DEF Image, OneToOne, Size
<1> QED
  BY <1>2, <1>3, <1>4 DEF g

LEMMA ExchangeKeeps ==
  ASSUME RecordAssumption, RecType, SortInv, Rec!Exchange, Rec!List' = Rec!List
  PROVE  SortInv'
<1>1. place = "scan" /\ Size \in Nat
  BY ListType DEF Rec!Exchange
<1>2. /\ Size > 0 /\ arr \in [0..(Size - 1) -> Ids]
      /\ Image(arr) = Image(Rec!List) /\ (OneToOne(Rec!List) => OneToOne(arr))
      /\ Segments(stack, left, right, Size) /\ left < right
      /\ up \in (left - 1)..(right - 1) /\ down \in (left + 1)..(right + 1)
  BY <1>1 DEF SortInv, SortPlaces
<1>3. left \in Nat /\ right \in Int /\ right < Size
  BY <1>2 DEF Segments
<1>4. Rec!ScanUp \in (up + 1)..right /\ Rec!ScanDown \in left..(down - 1)
  BY <1>2, <1>3, ScanStops
<1>5. Rec!ScanUp \in 0..(Size - 1) /\ Rec!ScanDown \in 0..(Size - 1)
  BY <1>1, <1>2, <1>3, <1>4
<1>6. /\ Size' = Size /\ (arr \in [0..(Size - 1) -> Ids])'
      /\ Image(arr)' = Image(Rec!List)' /\ (OneToOne(Rec!List)' => OneToOne(arr)')
  BY <1>1, <1>2, <1>5, SwapArray DEF Rec!Exchange
<1>7. Segments(stack, left, right, Size)'
  BY <1>2, <1>6 DEF Segments, Rec!Exchange
<1>8. (left < right /\ up \in (left - 1)..(right - 1) /\ down \in (left + 1)..(right + 1))'
  BY <1>2, <1>3, <1>4 DEF Rec!Exchange
<1> QED
  BY <1>1, <1>2, <1>6, <1>7, <1>8 DEF SortInv, Rec!Exchange

\* What Split and SplitLast find.
LEMMA SplitPlaces ==
  ASSUME RecordAssumption, RecType, SortInv, place = "scan", Rec!List' = Rec!List,
         arr' = Rec!Swapped(Rec!ScanDown, Rec!Mid)
  PROVE  /\ Size \in Nat /\ Size > 0 /\ Size' = Size /\ (arr \in [0..(Size - 1) -> Ids])'
         /\ Image(arr)' = Image(Rec!List)' /\ (OneToOne(Rec!List)' => OneToOne(arr)')
         /\ Segments(stack, left, right, Size)
         /\ left \in Nat /\ right \in Int /\ Rec!ScanDown \in left..right
<1>1. Size \in Nat
  BY ListType
<1>2. /\ Size > 0 /\ arr \in [0..(Size - 1) -> Ids]
      /\ Image(arr) = Image(Rec!List) /\ (OneToOne(Rec!List) => OneToOne(arr))
      /\ Segments(stack, left, right, Size) /\ left < right
      /\ up \in (left - 1)..(right - 1) /\ down \in (left + 1)..(right + 1)
  BY <1>1 DEF SortInv, SortPlaces
<1>3. left \in Nat /\ right \in Int /\ right < Size
  BY <1>2 DEF Segments
<1>4. Rec!ScanDown \in left..(down - 1) /\ Rec!Mid \in left..right
  BY <1>2, <1>3, ScanStops
<1>5. Rec!ScanDown \in left..right
  BY <1>2, <1>3, <1>4
<1>6. Rec!ScanDown \in 0..(Size - 1) /\ Rec!Mid \in 0..(Size - 1)
  BY <1>1, <1>3, <1>4, <1>5
<1>7. /\ Size' = Size /\ (arr \in [0..(Size - 1) -> Ids])'
      /\ Image(arr)' = Image(Rec!List)' /\ (OneToOne(Rec!List)' => OneToOne(arr)')
  BY <1>1, <1>2, <1>6, SwapArray
<1> QED
  BY <1>1, <1>2, <1>3, <1>5, <1>7

LEMMA SplitKeeps ==
  ASSUME RecordAssumption, RecType, SortInv, Rec!Split, Rec!List' = Rec!List
  PROVE  SortInv'
<1> DEFINE m == Rec!ScanDown
<1>1. place = "scan" /\ arr' = Rec!Swapped(Rec!ScanDown, Rec!Mid) /\ place' = "segment"
  BY DEF Rec!Split
<1>2. /\ Size \in Nat /\ Size > 0 /\ Size' = Size /\ (arr \in [0..(Size - 1) -> Ids])'
      /\ Image(arr)' = Image(Rec!List)' /\ (OneToOne(Rec!List)' => OneToOne(arr)')
      /\ Segments(stack, left, right, Size)
      /\ left \in Nat /\ right \in Int /\ m \in left..right
  BY <1>1, SplitPlaces
<1>3. \/ /\ right - m > M /\ m - left > M
         /\ stack' = Rec!Push(m + 1, right) /\ right' = m - 1 /\ left' = left
      \/ left' = m + 1 /\ right' = right /\ stack' = stack
      \/ /\ m - left > M
         /\ stack' = Rec!Push(left, m - 1) /\ left' = m + 1 /\ right' = right
      \/ stack # <<>> /\ left' = stack[1][1] /\ right' = stack[1][2] /\ stack' = Tail(stack)
  BY DEF Rec!Split
<1> HIDE DEF m
<1>4. m \in Int /\ M \in Nat /\ M >= 1
  BY <1>2 DEF RecordAssumption
<1>5. Segments(stack', left', right', Size)
  <2>1. CASE /\ right - m > M /\ m - left > M
             /\ stack' = Rec!Push(m + 1, right) /\ right' = m - 1 /\ left' = left
    <3>1. stack' = << <<m + 1, right>> >> \o stack
      BY <1>2, <1>4, <2>1 DEF Rec!Push
    <3>2. /\ left \in Int /\ m - 1 \in Int /\ left <= left /\ m - 1 <= right /\ left <= m - 1 + 1
          /\ m + 1 \in Int /\ left <= m + 1 /\ m + 1 < right /\ right <= right /\ m - 1 < m + 1
      BY <1>2, <1>4, <2>1
    <3>3. Segments(<< <<m + 1, right>> >> \o stack, left, m - 1, Size)
      BY <1>2, <3>2, SegmentsPush
    <3> QED
      BY <2>1, <3>1, <3>3
  <2>2. CASE left' = m + 1 /\ right' = right /\ stack' = stack
    <3>1. m + 1 \in Int /\ left <= m + 1 /\ right <= right /\ m + 1 <= right + 1
      BY <1>2, <1>4
    <3>2. Segments(stack, m + 1, right, Size)
      BY <1>2, <3>1, SegmentsPart
    <3> QED
      BY <2>2, <3>2
  <2>3. CASE /\ m - left > M
             /\ stack' = Rec!Push(left, m - 1) /\ left' = m + 1 /\ right' = right
    <3>1. stack' = << <<left, m - 1>> >> \o stack
      BY <1>2, <1>4, <2>3 DEF Rec!Push
    <3>2. /\ left \in Int /\ m - 1 \in Int /\ left <= left /\ m - 1 <= right /\ left < m - 1
          /\ m + 1 \in Int /\ left <= m + 1 /\ m + 1 <= right + 1 /\ right <= right /\ m - 1 < m + 1
      BY <1>2, <1>4, <2>3
    <3>3. Segments(<< <<left, m - 1>> >> \o stack, m + 1, right, Size)
      BY <1>2, <3>2, SegmentsPush
    <3> QED
      BY <2>3, <3>1, <3>3
  <2>4. CASE stack # <<>> /\ left' = stack[1][1] /\ right' = stack[1][2] /\ stack' = Tail(stack)
    BY <1>2, <2>4, SegmentsPop
  <2> QED
    BY <1>3, <2>1, <2>2, <2>3, <2>4
<1>6. Segments(stack, left, right, Size)'
  BY <1>2, <1>5
<1> QED
  BY <1>1, <1>2, <1>6 DEF SortInv

LEMMA SplitLastKeeps ==
  ASSUME RecordAssumption, RecType, SortInv, Rec!SplitLast, Rec!List' = Rec!List
  PROVE  SortInv'
<1>1. /\ place = "scan" /\ arr' = Rec!Swapped(Rec!ScanDown, Rec!Mid)
      /\ place' = "insert" /\ stack' = <<>> /\ down' = 1
  BY DEF Rec!SplitLast, Rec!BeginInsert
<1>2. /\ Size \in Nat /\ Size > 0 /\ Size' = Size /\ (arr \in [0..(Size - 1) -> Ids])'
      /\ Image(arr)' = Image(Rec!List)' /\ (OneToOne(Rec!List)' => OneToOne(arr)')
  BY <1>1, SplitPlaces
<1>3. InOrder(down)'
  BY <1>1 DEF InOrder
<1> QED
  BY <1>1, <1>2, <1>3 DEF SortInv

LEMMA InsertNextKeeps ==
  ASSUME RecordAssumption, RecType, SortInv, Rec!InsertNext, Rec!List' = Rec!List, UNCHANGED date
  PROVE  SortInv'
<1> DEFINE c == Size - 1
           W == {y \in 0..down : \A z \in y..(down - 1) : date[arr[z]] > date[arr[down]]}
           x == Rec!Min(W)
           g == arr'
<1>1. place = "insert" /\ Size \in Nat
  BY ListType DEF Rec!InsertNext
<1>2. /\ Size > 0 /\ arr \in [0..c -> Ids]
      /\ Image(arr) = Image(Rec!List) /\ (OneToOne(Rec!List) => OneToOne(arr))
      /\ stack = <<>> /\ down \in 1..Size /\ InOrder(down)
  BY <1>1 DEF SortInv, SortPlaces
<1>3. /\ down < Rec!n /\ down' = down + 1 /\ place' = "insert" /\ stack' = stack
      /\ g = [y \in DOMAIN arr |-> IF y \in (x + 1)..down THEN arr[y - 1]
                                   ELSE IF y = x THEN arr[down] ELSE arr[y]]
  BY <1>1 DEF Rec!InsertNext
<1>4. DOMAIN arr = 0..c /\ Rec!n = Size
  BY <1>1, <1>2, ArraySize DEF Rec!n
<1>5. c \in Nat /\ down \in 1..c
  BY <1>1, <1>2, <1>3, <1>4
<1>6. x \in W /\ \A y \in W : x <= y
  <2>1. W \in SUBSET Int /\ (\A y \in W : 0 <= y) /\ 0 \in Int
    BY <1>5
  <2>2. down \in W
    BY <1>5
  <2> HIDE DEF W
  <2> QED
    BY <2>1, <2>2, LeastIs
<1>7. x \in 0..down /\ \A z \in x..(down - 1) : date[arr[z]] > date[arr[down]]
  BY <1>6
<1>8. x = 0 \/ ~(x - 1 \in W)
  BY <1>5, <1>6
<1> HIDE DEF g
<1>9. \A z \in 0..c : date[arr[z]] \in Int
  <2>1. \A z \in 0..c : arr[z] \in Ids
    BY <1>2
  <2>2. \A e \in Ids : date[e] \in Int
    BY DEF RecType
  <2> QED
    BY <2>1, <2>2
<1>10. x = 0 \/ date[arr[x - 1]] <= date[arr[down]]
  <2> SUFFICES ASSUME x # 0 PROVE date[arr[x - 1]] <= date[arr[down]]
    OBVIOUS
  <2>1. x - 1 \in 0..down
    BY <1>5, <1>7
  <2>2. PICK z \in (x - 1)..(down - 1) : ~(date[arr[z]] > date[arr[down]])
    BY <1>8, <2>1
  <2>3. z = x - 1
    BY <1>7, <2>1, <2>2, <1>5
  <2>4. date[arr[x - 1]] \in Int /\ date[arr[down]] \in Int
    BY <1>5, <1>9, <2>1, <2>2, <2>3
  <2> QED
    BY <2>2, <2>3, <2>4
<1> HIDE DEF x, W
<1>11. down \in 0..c /\ x \in 0..down
  BY <1>5, <1>7
<1>12. /\ g \in [0..c -> Ids] /\ DOMAIN g = DOMAIN arr
       /\ g[x] = arr[down] /\ \A z \in (x + 1)..down : g[z] = arr[z - 1]
       /\ \A z \in DOMAIN arr : z < x \/ z > down => g[z] = arr[z]
  BY <1>2, <1>3, <1>4, <1>5, <1>11, SMTT(30)
<1>13. g \in [0..c -> Ids] /\ Image(g) = Image(arr) /\ (OneToOne(arr) => OneToOne(g))
  <2>1. /\ DOMAIN arr \subseteq Int /\ x..down \subseteq DOMAIN arr
        /\ down \in Int /\ x \in Int /\ x <= down
    BY <1>4, <1>5, <1>11
  <2> QED
    BY <1>12, <2>1, InsertKeeps
<1>14. \A z, w \in 0..down : z < w => date[g[z]] <= date[g[w]]
  <2>1. \A z, w \in 0..(down - 1) : z < w => date[arr[z]] <= date[arr[w]]
    BY <1>2 DEF InOrder
  <2>2. \A z \in 0..(x - 1) : g[z] = arr[z]
    BY <1>4, <1>5, <1>12, <1>11
  <2>3. down \in Nat /\ \A z \in 0..down : date[arr[z]] \in Int
    BY <1>5, <1>9
  <2> QED
    BY <1>7, <1>10, <1>12, <2>1, <2>2, <2>3, InsertSorts
<1>15. Image(arr)' = Image(g) /\ OneToOne(arr)' = OneToOne(g)
  BY DEF g, Image, OneToOne
<1>16. Image(Rec!List)' = Image(Rec!List) /\ OneToOne(Rec!List)' = OneToOne(Rec!List) /\ Size' = Size
  BY DEF Image, OneToOne, Size
<1>17. InOrder(down)'
  <2>1. 0..(down' - 1) = 0..down
    BY <1>3, <1>5
  <2> QED
    BY <1>14, <2>1 DEF InOrder, g
<1>18. down' \in 1..Size'
  BY <1>1, <1>3, <1>4, <1>5, <1>16
<1>19. (arr \in [0..(Size - 1) -> Ids])'
  BY <1>13, <1>16 DEF g, c
<1> QED
  BY <1>2, <1>3, <1>13, <1>15, <1>16, <1>17, <1>18, <1>19 DEF SortInv

LEMMA EndSortKeeps ==
  ASSUME RecordAssumption, RecType, SortInv, Rec!EndSort, Rec!List' = Rec!List, UNCHANGED date
  PROVE  SortInv'
<1>1. place = "insert" /\ place' = "sorted" /\ arr' = arr /\ down >= Rec!n /\ Size \in Nat
  BY ListType DEF Rec!EndSort
<1>2. /\ Size > 0 /\ arr \in [0..(Size - 1) -> Ids]
      /\ Image(arr) = Image(Rec!List) /\ (OneToOne(Rec!List) => OneToOne(arr))
      /\ down \in 1..Size /\ InOrder(down)
  BY <1>1 DEF SortInv, SortPlaces
<1>3. down = Size /\ Size' = Size
  <2>1. Rec!n = Size
    BY <1>1, <1>2, ArraySize DEF Rec!n
  <2> QED
    BY <1>1, <1>2, <2>1 DEF Size
<1>4. InOrder(Size)'
  BY <1>1, <1>2, <1>3 DEF InOrder
<1>5. /\ (arr \in [0..(Size - 1) -> Ids])' /\ Image(arr)' = Image(Rec!List)'
      /\ (OneToOne(Rec!List)' => OneToOne(arr)')
  <2>1. /\ Image(arr)' = Image(arr) /\ Image(Rec!List)' = Image(Rec!List)
        /\ OneToOne(arr)' = OneToOne(arr) /\ OneToOne(Rec!List)' = OneToOne(Rec!List)
    BY <1>1 DEF Image, OneToOne
  <2> QED
    BY <1>1, <1>2, <1>3, <2>1
<1> QED
  BY <1>1, <1>2, <1>3, <1>4, <1>5 DEF SortInv

LEMMA StartSortKeeps ==
  ASSUME RecType, Rec!StartSort
  PROVE  SortInv'
<1> DEFINE c == Size - 1
           list == Rec!List
           a == [x \in 0..(Len(list) - 1) |-> list[x + 1]]
<1>1. list # <<>> /\ Rec!BeginSort(a) /\ Rec!List' = Rec!List
  BY DEF Rec!StartSort, Rec!List
<1>2. list \in Seq(Ids) /\ Size = Len(list) /\ Size \in Nat /\ Size > 0
  BY <1>1, ListType, EmptySeq DEF Size
<1>3. DOMAIN list = 1..Size /\ \A x \in 1..Size : list[x] \in Ids
  BY <1>2, LenProperties, ElementOfSeq
<1> HIDE DEF list
<1>4. a \in [0..c -> Ids] /\ DOMAIN a = 0..c /\ \A x \in 0..c : a[x] = list[x + 1] /\ x + 1 \in 1..Size
  BY <1>2, <1>3
<1>5. /\ arr' = a /\ left' = 0 /\ right' = Rec!Cardinality(DOMAIN a) - 1
      /\ stack' = <<>> /\ place' = "segment"
  BY <1>1 DEF Rec!BeginSort
<1>6. right' = Size - 1 /\ Size' = Size
  <2>1. Rec!Cardinality(DOMAIN a) = Size
    BY <1>2, <1>4, ArraySize
  <2> QED
    BY <1>1, <1>5, <2>1 DEF Size
<1> HIDE DEF a
<1>7. Image(a) = Image(list)
  <2>1. \A z \in 0..c : \E w \in 1..Size : a[z] = list[w]
    BY <1>4
  <2>2. ASSUME NEW w \in 1..Size PROVE \E z \in 0..c : a[z] = list[w]
    <3>1. w - 1 \in 0..c /\ w - 1 + 1 = w
      BY <1>2
    <3> QED
      BY <1>4, <3>1
  <2> QED
    BY <1>3, <1>4, <2>1, <2>2, SameImage
<1>8. OneToOne(list) => OneToOne(a)
  <2> SUFFICES ASSUME OneToOne(list), NEW x \in 0..c, NEW y \in 0..c, a[x] = a[y] PROVE x = y
    BY <1>4 DEF OneToOne
  <2>1. x + 1 = y + 1
    BY <1>3, <1>4 DEF OneToOne
  <2> QED
    BY <1>2, <2>1
<1>9. Segments(stack, left, right, Size)'
  <2>1. Segments(<<>>, 0, Size - 1, Size)
    <3>1. <<>> \in Seq(Int \X Int) /\ Len(<<>>) = 0
      OBVIOUS
    <3> QED
      BY <1>2, <3>1 DEF Segments
  <2> QED
    BY <1>5, <1>6, <2>1
<1>10. (Image(arr) = Image(Rec!List) /\ (OneToOne(Rec!List) => OneToOne(arr)))'
  BY <1>1, <1>5, <1>7, <1>8 DEF Image, OneToOne, list
<1> QED
  BY <1>2, <1>4, <1>5, <1>6, <1>9, <1>10 DEF SortInv

-----------------------------------------------------------------------------
(* The table                                                               *)

\* The records done are in the buckets, those of one uid all in one bucket and
\* nothing else with them; the buckets tried before that one are not empty.
\* They are all there if no more uids than buckets are read.
TableFine(t, done, of, all) ==
  /\ \A b \in Rec!Buckets : OneToOne(t[b]) /\ Image(t[b]) \subseteq done
  /\ \A b, c \in Rec!Buckets : \A x \in Image(t[b]), y \in Image(t[c]) : b = c <=> of[x] = of[y]
  /\ \A b \in Rec!Buckets : \A x \in Image(t[b]) : \A p \in DOMAIN Rec!Probes(of[x]) :
       (\A q \in 1..p : Rec!Probes(of[x])[q] # b) => t[Rec!Probes(of[x])[p]] # <<>>
  /\ Cardinality({of[x] : x \in all}) <= 2 * H =>
       \A x \in done : \E b \in Rec!Buckets : x \in Image(t[b])

LEMMA ElementsAre ==
  ASSUME NEW S, NEW s \in Seq(S)
  PROVE  /\ Image(s) \subseteq S
         /\ s # <<>> => s[1] \in Image(s)
         /\ s = <<>> => Image(s) = {} /\ OneToOne(s)
<1>1. DOMAIN s = 1..Len(s) /\ Len(s) \in Nat
  BY LenProperties
<1>2. \A x \in DOMAIN s : s[x] \in S
  BY <1>1, ElementOfSeq
<1>3. s # <<>> => 1 \in DOMAIN s
  BY <1>1, EmptySeq
<1>4. s = <<>> => DOMAIN s = {}
  OBVIOUS
<1> QED
  BY <1>2, <1>3, <1>4 DEF Image, OneToOne

LEMMA PrependIs ==
  ASSUME NEW S, NEW s \in Seq(S), NEW x \in S
  PROVE  /\ <<x>> \o s \in Seq(S) /\ <<x>> \o s # <<>>
         /\ Image(<<x>> \o s) = Image(s) \cup {x}
         /\ OneToOne(s) /\ x \notin Image(s) => OneToOne(<<x>> \o s)
<1> DEFINE g == <<x>> \o s
<1>1. Len(s) \in Nat /\ DOMAIN s = 1..Len(s)
  BY LenProperties
<1>2. <<x>> \in Seq(S) /\ Len(<<x>>) = 1 /\ <<x>>[1] = x
  OBVIOUS
<1>3. /\ g \in Seq(S) /\ Len(g) = Len(s) + 1
      /\ \A z \in 1..(Len(s) + 1) : g[z] = IF z <= 1 THEN <<x>>[z] ELSE s[z - 1]
  BY <1>1, <1>2, ConcatProperties
<1> HIDE DEF g
<1>4. DOMAIN g = 1..(Len(s) + 1)
  BY <1>3, LenProperties
<1>5. g[1] = x /\ \A z \in DOMAIN s : z + 1 \in DOMAIN g /\ g[z + 1] = s[z]
  BY <1>1, <1>2, <1>3, <1>4
<1>6. \A z \in DOMAIN g : z = 1 \/ (z - 1 \in DOMAIN s /\ g[z] = s[z - 1])
  BY <1>1, <1>3, <1>4
<1>7. Image(g) = Image(s) \cup {x}
  <2>1. ASSUME NEW e \in Image(g) PROVE e \in Image(s) \cup {x}
    BY <1>5, <1>6, <2>1 DEF Image
  <2>2. ASSUME NEW e \in Image(s) \cup {x} PROVE e \in Image(g)
    <3>1. CASE e = x
      <4>1. 1 \in DOMAIN g
        BY <1>1, <1>4
      <4> QED
        BY <1>5, <3>1, <4>1 DEF Image
    <3>2. CASE e \in Image(s)
      <4>1. PICK z \in DOMAIN s : e = s[z]
        BY <3>2 DEF Image
      <4> QED
        BY <1>5, <4>1 DEF Image
    <3> QED
      BY <2>2, <3>1, <3>2
  <2> QED
    BY <2>1, <2>2
<1>8. ASSUME OneToOne(s), x \notin Image(s) PROVE OneToOne(g)
  <2> SUFFICES ASSUME NEW z \in DOMAIN g, NEW w \in DOMAIN g, g[z] = g[w] PROVE z = w
    BY DEF OneToOne
  <2>1. CASE z = 1 /\ w # 1
    BY <1>5, <1>6, <1>8, <2>1 DEF Image
  <2>2. CASE z # 1 /\ w = 1
    BY <1>5, <1>6, <1>8, <2>2 DEF Image
  <2>3. CASE z # 1 /\ w # 1
    <3>1. z - 1 = w - 1
      BY <1>6, <1>8, <2>3 DEF OneToOne
    <3> QED
      BY <1>1, <1>4, <3>1
  <2> QED
    BY <2>1, <2>2, <2>3
<1>9. g # <<>>
  BY <1>1, <1>3
<1> QED
  BY <1>3, <1>7, <1>8, <1>9 DEF g

LEMMA HeadTailIs ==
  ASSUME NEW S, NEW s \in Seq(S), s # <<>>
  PROVE  /\ Head(s) \in S /\ Tail(s) \in Seq(S) /\ Image(s) = Image(Tail(s)) \cup {Head(s)}
         /\ OneToOne(s) => OneToOne(Tail(s)) /\ Head(s) \notin Image(Tail(s))
<1> DEFINE t == Tail(s)
<1>1. /\ Len(s) \in Nat /\ Len(s) > 0 /\ t \in Seq(S) /\ Head(s) = s[1] /\ Head(s) \in S
      /\ DOMAIN s = 1..Len(s) /\ DOMAIN t = 1..(Len(s) - 1)
      /\ \A z \in 1..(Len(s) - 1) : t[z] = s[z + 1]
  BY HeadTailProperties, LenProperties, EmptySeq
<1> HIDE DEF t
<1>2. /\ 1 \in DOMAIN s /\ \A z \in DOMAIN t : z + 1 \in DOMAIN s /\ z + 1 # 1 /\ t[z] = s[z + 1]
      /\ \A w \in DOMAIN s : w = 1 \/ (w - 1 \in DOMAIN t /\ t[w - 1] = s[w])
  BY <1>1
<1>3. \A e \in Image(s) : e \in Image(t) \cup {Head(s)}
  BY <1>1, <1>2 DEF Image
<1>4. \A e \in Image(t) \cup {Head(s)} : e \in Image(s)
  BY <1>1, <1>2 DEF Image
<1>5. ASSUME OneToOne(s) PROVE OneToOne(t) /\ Head(s) \notin Image(t)
  <2>1. ASSUME NEW z \in DOMAIN t, NEW w \in DOMAIN t, t[z] = t[w] PROVE z = w
    <3>1. z + 1 = w + 1
      BY <1>2, <1>5, <2>1 DEF OneToOne
    <3> QED
      BY <1>1, <3>1
  <2>2. Head(s) \notin Image(t)
    BY <1>1, <1>2, <1>5 DEF OneToOne, Image
  <2> QED
    BY <2>1, <2>2 DEF OneToOne
<1> QED
  BY <1>1, <1>3, <1>4, <1>5 DEF t

LEMMA ConcatIs ==
  ASSUME NEW S, NEW s \in Seq(S), NEW t \in Seq(S)
  PROVE  /\ s \o t \in Seq(S) /\ Len(s \o t) = Len(s) + Len(t)
         /\ \A x \in 1..Len(s) : (s \o t)[x] = s[x]
         /\ \A x \in 1..Len(t) : (s \o t)[Len(s) + x] = t[x]
<1>1. /\ s \o t \in Seq(S) /\ Len(s \o t) = Len(s) + Len(t)
      /\ \A x \in 1..(Len(s) + Len(t)) : (s \o t)[x] = IF x <= Len(s) THEN s[x] ELSE t[x - Len(s)]
  BY ConcatProperties
<1>2. Len(s) \in Nat /\ Len(t) \in Nat
  BY LenProperties
<1>3. ASSUME NEW x \in 1..Len(t) PROVE (s \o t)[Len(s) + x] = t[x]
  <2>1. Len(s) + x \in 1..(Len(s) + Len(t)) /\ ~(Len(s) + x <= Len(s)) /\ Len(s) + x - Len(s) = x
    BY <1>2
  <2> QED
    BY <1>1, <2>1
<1> QED
  BY <1>1, <1>2, <1>3

LEMMA JoinIs ==
  ASSUME NEW S, NEW s \in Seq(S), NEW t \in Seq(S)
  PROVE  /\ s \o t \in Seq(S) /\ Image(s \o t) = Image(s) \cup Image(t)
         /\ OneToOne(s) /\ OneToOne(t) /\ Image(s) \cap Image(t) = {} => OneToOne(s \o t)
<1> DEFINE g == s \o t
<1>1. /\ Len(s) \in Nat /\ Len(t) \in Nat /\ g \in Seq(S)
      /\ DOMAIN s = 1..Len(s) /\ DOMAIN t = 1..Len(t) /\ DOMAIN g = 1..(Len(s) + Len(t))
  BY ConcatIs, LenProperties
<1>2. \A z \in DOMAIN s : z \in DOMAIN g /\ g[z] = s[z]
  BY <1>1, ConcatIs
<1>3. \A z \in DOMAIN t : Len(s) + z \in DOMAIN g /\ g[Len(s) + z] = t[z]
  BY <1>1, ConcatIs
<1> HIDE DEF g
<1>4. \A w \in DOMAIN g : \/ w \in DOMAIN s /\ g[w] = s[w]
                          \/ w \notin DOMAIN s /\ w - Len(s) \in DOMAIN t /\ g[w] = t[w - Len(s)]
  <2> SUFFICES ASSUME NEW w \in DOMAIN g, w \notin DOMAIN s
               PROVE  w - Len(s) \in DOMAIN t /\ g[w] = t[w - Len(s)]
    BY <1>2
  <2>1. w - Len(s) \in DOMAIN t /\ Len(s) + (w - Len(s)) = w
    BY <1>1
  <2> QED
    BY <1>3, <2>1
<1>5. \A e \in Image(g) : e \in Image(s) \cup Image(t)
  BY <1>4 DEF Image
<1>6. \A e \in Image(s) \cup Image(t) : e \in Image(g)
  BY <1>2, <1>3 DEF Image
<1>7. ASSUME OneToOne(s), OneToOne(t), Image(s) \cap Image(t) = {} PROVE OneToOne(g)
  <2> SUFFICES ASSUME NEW z \in DOMAIN g, NEW w \in DOMAIN g, g[z] = g[w] PROVE z = w
    BY DEF OneToOne
  <2>1. CASE z \in DOMAIN s /\ w \in DOMAIN s
    BY <1>2, <1>7, <2>1 DEF OneToOne
  <2>2. CASE z \notin DOMAIN s /\ w \notin DOMAIN s
    <3>1. z - Len(s) = w - Len(s)
      BY <1>4, <1>7, <2>2 DEF OneToOne
    <3> QED
      BY <1>1, <3>1
  <2>3. CASE z \in DOMAIN s /\ w \notin DOMAIN s
    BY <1>4, <1>7, <2>3 DEF Image
  <2>4. CASE z \notin DOMAIN s /\ w \in DOMAIN s
    BY <1>4, <1>7, <2>4 DEF Image
  <2> QED
    BY <2>1, <2>2, <2>3, <2>4
<1> QED
  BY <1>1, <1>5, <1>6, <1>7 DEF g

LEMMA AppendIs ==
  ASSUME NEW S, NEW s \in Seq(S), NEW x \in S
  PROVE  /\ Append(s, x) \in Seq(S) /\ Image(Append(s, x)) = Image(s) \cup {x}
         /\ OneToOne(s) /\ x \notin Image(s) => OneToOne(Append(s, x))
<1> DEFINE g == Append(s, x)
<1>1. /\ Len(s) \in Nat /\ DOMAIN s = 1..Len(s) /\ g \in Seq(S) /\ DOMAIN g = 1..(Len(s) + 1)
      /\ g[Len(s) + 1] = x /\ \A z \in 1..Len(s) : g[z] = s[z]
  BY AppendProperties, LenProperties
<1> HIDE DEF g
<1>2. \A z \in DOMAIN s : z \in DOMAIN g /\ g[z] = s[z]
  BY <1>1
<1>3. Len(s) + 1 \in DOMAIN g /\ \A w \in DOMAIN g : w = Len(s) + 1 \/ (w \in DOMAIN s /\ g[w] = s[w])
  BY <1>1
<1>4. \A e \in Image(g) : e \in Image(s) \cup {x}
  BY <1>1, <1>3 DEF Image
<1>5. \A e \in Image(s) \cup {x} : e \in Image(g)
  BY <1>1, <1>2, <1>3 DEF Image
<1>6. OneToOne(s) /\ x \notin Image(s) => OneToOne(g)
  BY <1>1, <1>3 DEF OneToOne, Image
<1> QED
  BY <1>1, <1>4, <1>5, <1>6 DEF g

\* Both ways to go through the table go through all of it.
LEMMA ProbesAre ==
  ASSUME RecordAssumption, NEW u \in Uids
  PROVE  /\ DOMAIN Rec!Probes(u) = 1..(2 * H + 2)
         /\ \A p \in 1..(2 * H + 2) : Rec!Probes(u)[p] \in Rec!Buckets
         /\ \A b \in Rec!Buckets : \E p \in 1..(2 * H + 2) : Rec!Probes(u)[p] = b
<1> DEFINE B == Rec!Buckets
           first == <<Hash[u], Hash[u] + H>>
           upper == [x \in 1..H |-> H + x - 1]
           lower == [x \in 1..H |-> x - 1]
           two == first \o upper
           g == two \o lower
<1>1. H \in Nat \ {0} /\ Hash[u] \in 0..(H - 1) /\ B = 0..(2 * H - 1)
  BY DEF RecordAssumption, Rec!Buckets
<1> HIDE DEF B
<1>2. first \in Seq(B) /\ Len(first) = 2 /\ first[1] \in B /\ first[2] \in B
  <2>1. Hash[u] \in B /\ Hash[u] + H \in B
    BY <1>1
  <2> QED
    BY <2>1
<1>3. upper \in Seq(B) /\ Len(upper) = H
  <2>1. upper \in [1..H -> B]
    BY <1>1
  <2> HIDE DEF upper
  <2> QED
    BY <1>1, <2>1, FunctionIsSeq
<1>4. lower \in Seq(B) /\ Len(lower) = H
  <2>1. lower \in [1..H -> B]
    BY <1>1
  <2> HIDE DEF lower
  <2> QED
    BY <1>1, <2>1, FunctionIsSeq
<1>5. (\A x \in 1..H : upper[x] = H + x - 1) /\ (\A x \in 1..H : lower[x] = x - 1)
  OBVIOUS
<1> HIDE DEF first, upper, lower
<1>6. /\ two \in Seq(B) /\ Len(two) = 2 + H
      /\ \A x \in 1..H : two[2 + x] = upper[x]
  <2>1. /\ two \in Seq(B) /\ Len(two) = Len(first) + Len(upper)
        /\ \A x \in 1..Len(upper) : two[Len(first) + x] = upper[x]
    <3>1. first \in Seq(B) /\ upper \in Seq(B)
      BY <1>2, <1>3
    <3> QED
      BY <3>1, ConcatIs
  <2> HIDE DEF two
  <2> QED
    BY <1>2, <1>3, <2>1
<1> HIDE DEF two
<1>7. /\ g \in Seq(B) /\ Len(g) = (2 + H) + H
      /\ \A x \in 1..(2 + H) : g[x] = two[x]
      /\ \A x \in 1..H : g[(2 + H) + x] = lower[x]
  <2>1. /\ g \in Seq(B) /\ Len(g) = Len(two) + Len(lower)
        /\ \A x \in 1..Len(two) : g[x] = two[x]
        /\ \A x \in 1..Len(lower) : g[Len(two) + x] = lower[x]
    <3>1. two \in Seq(B) /\ lower \in Seq(B)
      BY <1>4, <1>6
    <3> QED
      BY <3>1, ConcatIs
  <2> HIDE DEF g
  <2> QED
    BY <1>4, <1>6, <2>1
<1> HIDE DEF g
<1>8. DOMAIN g = 1..(2 * H + 2) /\ \A p \in 1..(2 * H + 2) : g[p] \in B
  <2>1. (2 + H) + H = 2 * H + 2
    BY <1>1
  <2> QED
    BY <1>7, <2>1, LenProperties, ElementOfSeq
<1>9. ASSUME NEW b \in B PROVE \E p \in 1..(2 * H + 2) : g[p] = b
  <2>1. CASE b >= H
    <3> DEFINE x == b - H + 1
    <3>1. x \in 1..H /\ 2 + x \in 1..(2 + H) /\ 2 + x \in 1..(2 * H + 2) /\ H + x - 1 = b
      BY <1>1, <2>1
    <3> HIDE DEF x
    <3>2. g[2 + x] = b
      BY <1>5, <1>6, <1>7, <3>1
    <3> QED
      BY <3>1, <3>2
  <2>2. CASE b < H
    <3> DEFINE x == b + 1
    <3>1. x \in 1..H /\ (2 + H) + x \in 1..(2 * H + 2) /\ x - 1 = b
      BY <1>1, <2>2
    <3> HIDE DEF x
    <3>2. g[(2 + H) + x] = b
      BY <1>5, <1>7, <3>1
    <3> QED
      BY <3>1, <3>2
  <2> QED
    BY <1>1, <2>1, <2>2
<1>10. Rec!Probes(u) = g
  BY DEF Rec!Probes, g, two, first, upper, lower
<1> QED
  BY <1>8, <1>9, <1>10 DEF B

LEMMA SearchOrderIs ==
  ASSUME RecordAssumption, NEW u \in Uids
  PROVE  /\ DOMAIN Rec!SearchOrder(u) = 1..(2 * H + 2)
         /\ \A p \in 1..(2 * H + 2) : Rec!SearchOrder(u)[p] \in Rec!Buckets
         /\ \A b \in Rec!Buckets : \E p \in 1..(2 * H + 2) : Rec!SearchOrder(u)[p] = b
<1> DEFINE B == Rec!Buckets
           first == <<Hash[u], Hash[u] + H>>
           all == [x \in 1..(2 * H) |-> x - 1]
           g == first \o all
<1>1. H \in Nat \ {0} /\ Hash[u] \in 0..(H - 1) /\ B = 0..(2 * H - 1)
  BY DEF RecordAssumption, Rec!Buckets
<1> HIDE DEF B
<1>2. first \in Seq(B) /\ Len(first) = 2
  <2>1. Hash[u] \in B /\ Hash[u] + H \in B
    BY <1>1
  <2> QED
    BY <2>1
<1>3. all \in Seq(B) /\ Len(all) = 2 * H
  <2>1. all \in [1..(2 * H) -> B] /\ 2 * H \in Nat
    BY <1>1
  <2> HIDE DEF all
  <2> QED
    BY <2>1, FunctionIsSeq
<1>4. \A x \in 1..(2 * H) : all[x] = x - 1
  OBVIOUS
<1> HIDE DEF first, all
<1>5. /\ g \in Seq(B) /\ Len(g) = 2 + 2 * H
      /\ \A x \in 1..(2 * H) : g[2 + x] = all[x]
  <2>1. /\ g \in Seq(B) /\ Len(g) = Len(first) + Len(all)
        /\ \A x \in 1..Len(all) : g[Len(first) + x] = all[x]
    <3>1. first \in Seq(B) /\ all \in Seq(B)
      BY <1>2, <1>3
    <3> QED
      BY <3>1, ConcatIs
  <2> HIDE DEF g
  <2> QED
    BY <1>2, <1>3, <2>1
<1> HIDE DEF g
<1>6. DOMAIN g = 1..(2 * H + 2) /\ \A p \in 1..(2 * H + 2) : g[p] \in B
  <2>1. 2 + 2 * H = 2 * H + 2
    BY <1>1
  <2> QED
    BY <1>5, <2>1, LenProperties, ElementOfSeq
<1>7. ASSUME NEW b \in B PROVE \E p \in 1..(2 * H + 2) : g[p] = b
  <2> DEFINE x == b + 1
  <2>1. x \in 1..(2 * H) /\ 2 + x \in 1..(2 * H + 2) /\ x - 1 = b
    BY <1>1
  <2> HIDE DEF x
  <2>2. g[2 + x] = b
    BY <1>4, <1>5, <2>1
  <2> QED
    BY <2>1, <2>2
<1>8. Rec!SearchOrder(u) = g
  BY DEF Rec!SearchOrder, g, first, all
<1> QED
  BY <1>6, <1>7, <1>8 DEF B

\* What it is to be a number up to n.
LEMMA InRange == \A n \in Int : \A p \in 1..n : p \in Int /\ 1 <= p
OBVIOUS

\* A record put into the first bucket that is empty or its own.
LEMMA AddedFine ==
  ASSUME RecordAssumption, NEW of \in [Ids -> Uids], NEW all \in SUBSET Ids, NEW done \in SUBSET all,
         NEW t \in [Rec!Buckets -> Seq(Ids)], TableFine(t, done, of, all),
         NEW x \in all, x \notin done,
         NEW first \in DOMAIN Rec!Probes(of[x]), NEW b, b = Rec!Probes(of[x])[first],
         t[b] = <<>> \/ of[t[b][1]] = of[x],
         \A q \in DOMAIN Rec!Probes(of[x]) :
           t[Rec!Probes(of[x])[q]] = <<>> \/ of[t[Rec!Probes(of[x])[q]][1]] = of[x] => first <= q,
         NEW g, g[b] = <<x>> \o t[b], \A a \in Rec!Buckets : a # b => g[a] = t[a]
  PROVE  TableFine(g, done \cup {x}, of, all)
<1>1. x \in Ids /\ of[x] \in Uids /\ \A y \in Ids : of[y] \in Uids
  OBVIOUS
<1>2. b \in Rec!Buckets
  <2>1. /\ DOMAIN Rec!Probes(of[x]) = 1..(2 * H + 2)
        /\ \A p \in 1..(2 * H + 2) : Rec!Probes(of[x])[p] \in Rec!Buckets
    BY <1>1, ProbesAre
  <2> QED
    BY <2>1
<1>tried. ASSUME NEW a \in Rec!Buckets, NEW y \in Image(t[a]), NEW p \in DOMAIN Rec!Probes(of[y]),
             \A q \in 1..p : Rec!Probes(of[y])[q] # a
      PROVE  t[Rec!Probes(of[y])[p]] # <<>>
  <2>1. \A c \in Rec!Buckets : \A z \in Image(t[c]) : \A r \in DOMAIN Rec!Probes(of[z]) :
          (\A q \in 1..r : Rec!Probes(of[z])[q] # c) => t[Rec!Probes(of[z])[r]] # <<>>
    BY Zenon DEF TableFine
  <2> QED
    BY <1>tried, <2>1, Zenon
<1>3. \A a \in Rec!Buckets : /\ t[a] \in Seq(Ids) /\ Image(t[a]) \subseteq Ids
                             /\ t[a] # <<>> => t[a][1] \in Image(t[a])
                             /\ t[a] = <<>> => Image(t[a]) = {}
  BY ElementsAre
<1>4. /\ <<x>> \o t[b] \in Seq(Ids) /\ <<x>> \o t[b] # <<>>
      /\ Image(<<x>> \o t[b]) = Image(t[b]) \cup {x}
      /\ OneToOne(t[b]) /\ x \notin Image(t[b]) => OneToOne(<<x>> \o t[b])
  BY <1>1, <1>2, <1>3, PrependIs
<1>5. /\ g[b] = <<x>> \o t[b] /\ \A a \in Rec!Buckets : a # b => g[a] = t[a]
  BY <1>2, <1>4
<1>6. /\ g[b] # <<>> /\ Image(g[b]) = Image(t[b]) \cup {x}
      /\ \A a \in Rec!Buckets : a # b => g[a] = t[a] /\ Image(g[a]) = Image(t[a])
  BY <1>4, <1>5
<1>7. \A a \in Rec!Buckets : OneToOne(g[a]) /\ Image(g[a]) \subseteq done \cup {x}
  <2> SUFFICES ASSUME NEW a \in Rec!Buckets PROVE OneToOne(g[a]) /\ Image(g[a]) \subseteq done \cup {x}
    OBVIOUS
  <2>1. OneToOne(t[a]) /\ Image(t[a]) \subseteq done
    BY DEF TableFine
  <2>2. CASE a = b
    BY <1>4, <1>5, <2>1, <2>2
  <2>3. CASE a # b
    BY <1>5, <2>1, <2>3
  <2> QED
    BY <2>2, <2>3
\* No other bucket has this uid, and this one no other uid.
<1>8. \A a \in Rec!Buckets : \A y \in Image(t[a]) : a = b <=> of[y] = of[x]
  <2> SUFFICES ASSUME NEW a \in Rec!Buckets, NEW y \in Image(t[a]) PROVE a = b <=> of[y] = of[x]
    OBVIOUS
  <2>1. t[a] # <<>> /\ t[a][1] \in Image(t[a])
    BY <1>3
  <2>2. of[y] = of[t[a][1]]
    BY <2>1 DEF TableFine
  <2>3. ASSUME a = b PROVE of[y] = of[x]
    BY <2>1, <2>2, <2>3
  <2>4. ASSUME of[y] = of[x], a # b PROVE FALSE
    <3>1. t[b] = <<>>
      <4>1. ASSUME t[b] # <<>> PROVE FALSE
        <5>1. t[b][1] \in Image(t[b]) /\ of[t[b][1]] = of[x]
          BY <1>2, <1>3, <4>1
        <5> QED
          BY <1>2, <2>4, <5>1 DEF TableFine
      <4> QED
        BY <4>1
    <3>2. \A q \in 1..first : Rec!Probes(of[x])[q] # a
      <4> SUFFICES ASSUME NEW q \in 1..first, Rec!Probes(of[x])[q] = a PROVE FALSE
        OBVIOUS
      <4>1. DOMAIN Rec!Probes(of[x]) = 1..(2 * H + 2) /\ 2 * H + 2 \in Int
        BY <1>1, ProbesAre DEF RecordAssumption
      <4>2. q \in DOMAIN Rec!Probes(of[x]) /\ q \in Int /\ first \in Int
        BY <4>1
      <4>3. first <= q
        BY <2>2, <2>4, <4>2
      <4>4. q = first
        BY <4>2, <4>3
      <4> QED
        BY <2>4, <4>4
    <3>3. t[Rec!Probes(of[y])[first]] # <<>>
      <4>1. Rec!Probes(of[y]) = Rec!Probes(of[x])
        BY <2>4
      <4>2. first \in DOMAIN Rec!Probes(of[y]) /\ \A q \in 1..first : Rec!Probes(of[y])[q] # a
        BY <3>2, <4>1
      <4> QED
        BY <1>tried, <4>2
    <3> QED
      BY <2>4, <3>1, <3>3
  <2> QED
    BY <2>3, <2>4
<1>9. \A a, c \in Rec!Buckets : \A y \in Image(g[a]), z \in Image(g[c]) : a = c <=> of[y] = of[z]
  <2> SUFFICES ASSUME NEW a \in Rec!Buckets, NEW c \in Rec!Buckets,
                      NEW y \in Image(g[a]), NEW z \in Image(g[c])
               PROVE  a = c <=> of[y] = of[z]
    OBVIOUS
  <2>1. (y \in Image(t[a]) \/ (y = x /\ a = b)) /\ (z \in Image(t[c]) \/ (z = x /\ c = b))
    BY <1>6
  <2>2. CASE y \in Image(t[a]) /\ z \in Image(t[c])
    BY <2>2 DEF TableFine
  <2>3. CASE ~(y \in Image(t[a]) /\ z \in Image(t[c]))
    BY <1>8, <2>1, <2>3
  <2> QED
    BY <2>2, <2>3
<1>10. \A a \in Rec!Buckets : \A y \in Image(g[a]) : \A p \in DOMAIN Rec!Probes(of[y]) :
         (\A q \in 1..p : Rec!Probes(of[y])[q] # a) => g[Rec!Probes(of[y])[p]] # <<>>
  <2> SUFFICES ASSUME NEW a \in Rec!Buckets, NEW y \in Image(g[a]), NEW p \in DOMAIN Rec!Probes(of[y]),
                      \A q \in 1..p : Rec!Probes(of[y])[q] # a
               PROVE  g[Rec!Probes(of[y])[p]] # <<>>
    OBVIOUS
  <2>1. y \in Image(t[a]) \/ (y = x /\ a = b)
    BY <1>6
  <2>2. Rec!Probes(of[y])[p] \in Rec!Buckets
    <3>1. of[y] \in Uids
      BY <1>1, <1>3, <2>1
    <3> QED
      BY <3>1, ProbesAre
  <2>3. t[Rec!Probes(of[y])[p]] # <<>>
    <3>1. CASE y \in Image(t[a])
      BY <1>tried, <3>1
    <3>2. CASE y = x /\ a = b
      <4>1. DOMAIN Rec!Probes(of[x]) = 1..(2 * H + 2) /\ 2 * H + 2 \in Int
        BY <1>1, ProbesAre DEF RecordAssumption
      <4>2. p \in 1..(2 * H + 2) /\ first \in 1..(2 * H + 2)
        BY <3>2, <4>1, Zenon
      <4>int. p \in Int /\ first \in Int /\ 1 <= first
        BY <4>1, <4>2, InRange, Zenon
      <4>3. ~(first <= p)
        BY <3>2, <4>int
      <4> QED
        BY <3>2, <4>3
    <3> QED
      BY <2>1, <3>1, <3>2
  <2> QED
    BY <1>6, <2>2, <2>3
<1>11. Cardinality({of[y] : y \in all}) <= 2 * H =>
         \A y \in done \cup {x} : \E a \in Rec!Buckets : y \in Image(g[a])
  <2> SUFFICES ASSUME Cardinality({of[y] : y \in all}) <= 2 * H, NEW y \in done \cup {x}
               PROVE  \E a \in Rec!Buckets : y \in Image(g[a])
    OBVIOUS
  <2>1. CASE y = x
    BY <1>2, <1>6, <2>1
  <2>2. CASE y \in done
    <3>1. PICK a \in Rec!Buckets : y \in Image(t[a])
      BY <2>2 DEF TableFine
    <3> QED
      BY <1>6, <3>1
  <2> QED
    BY <2>1, <2>2
<1> QED
  BY <1>5, <1>7, <1>9, <1>10, <1>11 DEF TableFine

\* No bucket for a record: there are more uids than buckets.
LEMMA NoneFree ==
  ASSUME RecordAssumption, NEW of \in [Ids -> Uids], NEW all \in SUBSET Ids, NEW done \in SUBSET all,
         NEW t \in [Rec!Buckets -> Seq(Ids)], TableFine(t, done, of, all), NEW x \in all,
         \A q \in DOMAIN Rec!Probes(of[x]) :
           LET a == Rec!Probes(of[x])[q] IN t[a] # <<>> /\ of[t[a][1]] # of[x]
  PROVE  TableFine(t, done \cup {x}, of, all)
<1> DEFINE U == {of[y] : y \in all}
           V == U \ {of[x]}
           f == [b \in Rec!Buckets |-> of[t[b][1]]]
           h == [y \in all |-> of[y]]
<1>1. of[x] \in Uids /\ of[x] \in U
  OBVIOUS
<1>2. \A b \in Rec!Buckets : t[b] # <<>> /\ of[t[b][1]] # of[x]
  <2> SUFFICES ASSUME NEW b \in Rec!Buckets PROVE t[b] # <<>> /\ of[t[b][1]] # of[x]
    OBVIOUS
  <2>1. PICK q \in DOMAIN Rec!Probes(of[x]) : Rec!Probes(of[x])[q] = b
    BY <1>1, ProbesAre
  <2> QED
    BY <2>1
<1>3. \A b \in Rec!Buckets : t[b][1] \in Image(t[b]) /\ t[b][1] \in all
  <2>1. \A b \in Rec!Buckets : t[b][1] \in Image(t[b])
    BY <1>2, ElementsAre
  <2> QED
    BY <2>1 DEF TableFine
<1>4. f \in [Rec!Buckets -> V]
  BY <1>2, <1>3
<1>5. \A b, c \in Rec!Buckets : f[b] = f[c] => b = c
  BY <1>3 DEF TableFine
<1>6. IsFiniteSet(U) /\ Cardinality(U) \in Nat
  <2>1. IsFiniteSet(all)
    BY FS_Subset DEF RecordAssumption
  <2>2. h \in Surjection(all, U)
    BY DEF Surjection
  <2> HIDE DEF U, h
  <2> QED
    BY <2>1, <2>2, FS_Surjection, FS_CardinalityType
<1>7. 2 * H - 1 \in Int /\ Rec!Buckets = 0..(2 * H - 1) /\ H \in Nat
  BY DEF Rec!Buckets, RecordAssumption
<1> HIDE DEF f, U
<1>8. IsFiniteSet(V) /\ Cardinality(V) = Cardinality(U) - 1
  <2>1. \A e \in U : IsFiniteSet(U \ {e}) /\ Cardinality(U \ {e}) = Cardinality(U) - 1
    BY <1>6, FS_RemoveElement
  <2> QED
    BY <1>1, <2>1, Zenon
<1> HIDE DEF V
<1>9. f \in Injection(Rec!Buckets, V)
  BY <1>4, <1>5 DEF Injection, IsInjective
<1>10. Cardinality(Rec!Buckets) <= Cardinality(V)
  BY <1>8, <1>9, FS_Injection
<1>11. Cardinality(Rec!Buckets) = 2 * H
  <2> DEFINE m == 2 * H - 1
  <2>1. m \in Int /\ 0 <= m + 1 /\ m - 0 + 1 = 2 * H
    BY <1>7 DEF RecordAssumption
  <2> HIDE DEF m
  <2>2. Cardinality(0..m) = IF 0 > m THEN 0 ELSE m - 0 + 1
    BY <2>1, FS_Interval
  <2>3. ~(0 > m)
    BY <1>7 DEF m, RecordAssumption
  <2> QED
    BY <1>7, <2>1, <2>2, <2>3 DEF m
<1>12. ~(Cardinality(U) <= 2 * H)
  BY <1>6, <1>7, <1>8, <1>10, <1>11
<1> QED
  BY <1>12 DEF TableFine, U

-----------------------------------------------------------------------------
(* The viewer                                                              *)

Beats == {x \in read : heartbeat[x]}
Full == Cardinality({uid[x] : x \in Beats}) <= 2 * H
Ordered(list) == \A x, y \in DOMAIN list : x < y => date[list[x]] <= date[list[y]]

Loading == {"open", "title", "read", "sort", "filter"} \cup SortPlaces
Asking == {"sort", "dump"} \cup SortPlaces

\* Where every heartbeat is: read into the list, then in the table too, and
\* those of one uid in the answer.
LoadInv ==
  /\ asked = None => place \in Loading \cup {"hash", "ask", "end"}
  /\ asked # None => place \in Asking \cup {"ask", "end"}
  /\ place \in {"open", "title", "read"} => OneToOne(dump) /\ Image(dump) \cap read = {}
  /\ asked = None /\ place \in Loading =>
       /\ OneToOne(records) /\ Image(records) = read
       /\ \A b \in Rec!Buckets : table[b] = <<>>
  /\ place = "hash" =>
       /\ OneToOne(dump) /\ Image(dump) \subseteq Beats
       /\ TableFine(table, Beats \ Image(dump), uid, Beats)
  /\ place = "ask" \/ (asked # None /\ place # "end") => TableFine(table, Beats, uid, Beats)
  /\ asked # None /\ place \in Asking /\ Full =>
       Image(answer) = {x \in Beats : uid[x] = asked} /\ OneToOne(answer)
  /\ place = "dump" => unsorted \/ Ordered(answer)

RecInv == RecType /\ SortInv /\ LoadInv

LEMMA BeatsAre ==
  RecType => Beats \in SUBSET Ids /\ Beats \subseteq read /\ \A x \in Ids : x \in Beats <=> x \in read /\ heartbeat[x]
BY DEF Beats, RecType

LEMMA SameData ==
  ASSUME UNCHANGED <<uid, heartbeat, read>>
  PROVE  Beats' = Beats /\ Full' = Full
BY DEF Beats, Full

\* Every row of the dump once, in some order.
LEMMA RowsAre ==
  ASSUME RecordAssumption
  PROVE  /\ Rec!SetToSeq(Ids) \in Seq(Ids) /\ OneToOne(Rec!SetToSeq(Ids))
<1> DEFINE c == Cardinality(Ids)
<1>1. c \in Nat /\ ExistsBijection(1..c, Ids)
  BY FS_CardinalityType DEF RecordAssumption
<1>2. PICK f \in Bijection(1..c, Ids) : TRUE
  BY <1>1, Zenon DEF ExistsBijection
<1>3. f \in [1..c -> Ids] /\ Rec!IsInjective(f)
  BY <1>2 DEF Bijection, Injection, IsInjective, Rec!IsInjective
<1> DEFINE g == CHOOSE h \in [1..c -> Ids] : Rec!IsInjective(h)
<1>4. g \in [1..c -> Ids] /\ Rec!IsInjective(g)
  BY <1>3, Zenon
<1>5. Rec!SetToSeq(Ids) = g
  BY RecordCardinality DEF Rec!SetToSeq
<1> HIDE DEF g, c
<1>6. g \in Seq(Ids) /\ OneToOne(g)
  BY <1>1, <1>4, FunctionIsSeq DEF Rec!IsInjective, OneToOne
<1> QED
  BY <1>5, <1>6

LEMMA RecInit ==
  ASSUME RecordAssumption, RecordInit
  PROVE  RecInv
<1> USE DEF RecordInit, Rec!Init
<1>1. <<>> \in Seq(Ids) /\ Image(<<>>) = {} /\ OneToOne(<<>>)
  <2>1. <<>> \in Seq(Ids)
    OBVIOUS
  <2> QED
    BY <2>1, ElementsAre
<1>2. table = [b \in Rec!Buckets |-> <<>>] /\ place = "open" /\ asked = None /\ dump = Rec!SetToSeq(Ids)
  OBVIOUS
<1>3. RecType
  BY <1>1, <1>2, RowsAre DEF RecType
<1>4. SortInv
  BY <1>2 DEF SortInv, SortPlaces
<1>5. LoadInv
  <2>1. OneToOne(dump) /\ Image(dump) \cap read = {} /\ OneToOne(records) /\ Image(records) = read
    BY <1>1, <1>2, RowsAre
  <2>2. \A b \in Rec!Buckets : table[b] = <<>>
    BY <1>2
  <2> QED
    BY <1>2, <2>1, <2>2 DEF LoadInv, Loading
<1> QED
  BY <1>3, <1>4, <1>5 DEF RecInv

LEMMA OpenKeeps ==
  ASSUME RecordAssumption, RecInv, Rec!OpenFile \/ Rec!ReadTitle
  PROVE  RecInv'
<1>1. /\ place \in {"open", "title"} /\ place' \in {"title", "read", "end"}
      /\ UNCHANGED <<uid, date, heartbeat, dump, read, records, table, asked, answer, unsorted>>
  BY DEF Rec!OpenFile, Rec!ReadTitle, Rec!Rest, Rec!dataVars
<1>2. RecType' /\ SortInv'
  BY <1>1 DEF RecInv, RecType, SortInv, SortPlaces
<1>3. LoadInv'
  <2>1. asked = None
    BY <1>1 DEF RecInv, LoadInv, Asking, SortPlaces
  <2>2. OneToOne(dump) /\ Image(dump) \cap read = {} /\ OneToOne(records) /\ Image(records) = read
    BY <1>1, <2>1 DEF RecInv, LoadInv, Loading
  <2>3. \A b \in Rec!Buckets : table[b] = <<>>
    BY <1>1, <2>1 DEF RecInv, LoadInv, Loading
  <2> QED
    BY <1>1, <2>1, <2>2, <2>3 DEF LoadInv, Loading
<1> QED
  BY <1>2, <1>3 DEF RecInv

LEMMA ReadRowKeeps ==
  ASSUME RecordAssumption, RecInv, Rec!ReadRow
  PROVE  RecInv'
<1> DEFINE x == Head(dump)
<1>1. /\ place = "read" /\ place' = "read" /\ dump # <<>> /\ dump' = Tail(dump)
      /\ UNCHANGED <<uid, date, heartbeat, table, asked, answer, unsorted>>
      /\ \/ read' = read \cup {x} /\ records' = Append(records, x)
         \/ read' = read /\ records' = records
  BY DEF Rec!ReadRow, Rec!NewRecord, Rec!Rest, Rec!dataVars
<1>2. asked = None
  BY <1>1 DEF RecInv, LoadInv, Asking, SortPlaces
<1>3. /\ OneToOne(dump) /\ Image(dump) \cap read = {} /\ OneToOne(records) /\ Image(records) = read
      /\ \A b \in Rec!Buckets : table[b] = <<>>
  BY <1>1, <1>2 DEF RecInv, LoadInv, Loading
<1>4. dump \in Seq(Ids) /\ records \in Seq(Ids) /\ read \in SUBSET Ids
  BY DEF RecInv, RecType
<1>5. /\ x \in Ids /\ Image(dump) = Image(Tail(dump)) \cup {x} /\ Tail(dump) \in Seq(Ids)
      /\ OneToOne(Tail(dump)) /\ x \notin Image(Tail(dump))
  BY <1>1, <1>3, <1>4, HeadTailIs
<1>6. /\ Append(records, x) \in Seq(Ids) /\ Image(Append(records, x)) = Image(records) \cup {x}
      /\ x \notin Image(records) => OneToOne(Append(records, x))
  BY <1>3, <1>4, <1>5, AppendIs
<1> HIDE DEF x
<1>7. RecType'
  BY <1>1, <1>4, <1>5, <1>6 DEF RecInv, RecType
<1>8. SortInv'
  BY <1>1 DEF SortInv, SortPlaces
<1>9. LoadInv'
  <2>1. (OneToOne(dump) /\ Image(dump) \cap read = {})'
    BY <1>1, <1>3, <1>5
  <2>2. (OneToOne(records) /\ Image(records) = read)'
    BY <1>1, <1>3, <1>5, <1>6
  <2>3. (\A b \in Rec!Buckets : table[b] = <<>>)'
    BY <1>1, <1>3
  <2> QED
    BY <1>1, <1>2, <2>1, <2>2, <2>3 DEF LoadInv, Loading
<1> QED
  BY <1>7, <1>8, <1>9 DEF RecInv

LEMMA ReadEndsKeeps ==
  ASSUME RecordAssumption, RecInv, Rec!ReadEnds
  PROVE  RecInv'
<1>1. /\ place = "read" /\ place' = "sort" /\ dump' = <<>>
      /\ UNCHANGED <<uid, date, heartbeat, read, records, table, asked, answer, unsorted>>
  BY DEF Rec!ReadEnds, Rec!Rest, Rec!dataVars
<1>2. RecType' /\ SortInv'
  BY <1>1 DEF RecInv, RecType, SortInv, SortPlaces
<1>3. asked = None
  BY <1>1 DEF RecInv, LoadInv, Asking, SortPlaces
<1>4. /\ OneToOne(records) /\ Image(records) = read
      /\ \A b \in Rec!Buckets : table[b] = <<>>
  BY <1>1, <1>3 DEF RecInv, LoadInv, Loading
<1>5. LoadInv'
  BY <1>1, <1>3, <1>4 DEF LoadInv, Loading
<1> QED
  BY <1>2, <1>5 DEF RecInv

LEMMA StartKeeps ==
  ASSUME RecordAssumption, RecInv, Rec!StartSort
  PROVE  RecInv'
<1>1. /\ place = "sort" /\ place' = "segment"
      /\ UNCHANGED <<uid, date, heartbeat, dump, read, records, table, asked, answer, unsorted>>
  BY DEF Rec!StartSort, Rec!BeginSort, Rec!dataVars
<1>2. RecType'
  BY <1>1 DEF RecInv, RecType
<1>3. SortInv'
  BY StartSortKeeps DEF RecInv
<1>4. LoadInv'
  <2>1. Beats' = Beats /\ Full' = Full
    BY <1>1, SameData
  <2> QED
    BY <1>1, <2>1 DEF RecInv, LoadInv, Loading, Asking, SortPlaces
<1> QED
  BY <1>2, <1>3, <1>4 DEF RecInv

LEMMA SortKeeps ==
  ASSUME RecordAssumption, RecInv, Rec!Sort
  PROVE  RecInv'
<1>1. /\ place \in SortPlaces /\ place' \in SortPlaces
      /\ UNCHANGED <<uid, date, heartbeat, dump, read, records, table, asked, answer, unsorted>>
  BY DEF Rec!Sort, Rec!SortStep, Rec!Segment, Rec!BeginScan, Rec!BeginInsert, Rec!Exchange,
         Rec!Split, Rec!SplitLast, Rec!InsertNext, Rec!EndSort, Rec!dataVars, SortPlaces
<1>2. RecType'
  BY <1>1 DEF RecInv, RecType
<1>3. SortInv'
  <2>1. Rec!List' = Rec!List
    BY <1>1 DEF Rec!List
  <2> QED
    BY <1>1, <2>1, SegmentKeeps, ExchangeKeeps, SplitKeeps, SplitLastKeeps, InsertNextKeeps, EndSortKeeps
       DEF RecInv, Rec!Sort, Rec!SortStep
<1>4. LoadInv'
  <2>1. Beats' = Beats /\ Full' = Full
    BY <1>1, SameData
  <2>2. asked = None => OneToOne(records) /\ Image(records) = read /\ \A b \in Rec!Buckets : table[b] = <<>>
    BY <1>1 DEF RecInv, LoadInv, Loading
  <2>3. asked # None => TableFine(table, Beats, uid, Beats)
    BY <1>1 DEF RecInv, LoadInv, SortPlaces
  <2>4. asked # None /\ Full => Image(answer) = {x \in Beats : uid[x] = asked} /\ OneToOne(answer)
    BY <1>1 DEF RecInv, LoadInv, Asking
  <2> QED
    BY <1>1, <2>1, <2>2, <2>3, <2>4 DEF LoadInv, Loading, Asking, SortPlaces
<1> QED
  BY <1>2, <1>3, <1>4 DEF RecInv

LEMMA NoSortKeeps ==
  ASSUME RecordAssumption, RecInv, Rec!NoSort
  PROVE  RecInv'
<1>1. /\ place = "sort" /\ place' = IF asked = None THEN "filter" ELSE "dump"
      /\ unsorted' = (unsorted \/ Rec!List # <<>>)
      /\ UNCHANGED <<uid, date, heartbeat, dump, read, records, table, asked, answer>>
  BY DEF Rec!NoSort, Rec!Done, Rec!Rest, Rec!dataVars
<1>2. RecType' /\ SortInv'
  BY <1>1 DEF RecInv, RecType, SortInv, SortPlaces
<1>3. LoadInv'
  <2>1. Beats' = Beats /\ Full' = Full
    BY <1>1, SameData
  <2>2. CASE asked = None
    <3>1. OneToOne(records) /\ Image(records) = read /\ \A b \in Rec!Buckets : table[b] = <<>>
      BY <1>1, <2>2 DEF RecInv, LoadInv, Loading
    <3> QED
      BY <1>1, <2>2, <3>1 DEF LoadInv, Loading
  <2>3. CASE asked # None
    <3>1. /\ TableFine(table, Beats, uid, Beats)
          /\ Full => Image(answer) = {x \in Beats : uid[x] = asked} /\ OneToOne(answer)
      BY <1>1, <2>3 DEF RecInv, LoadInv, Asking
    <3>2. unsorted' \/ Ordered(answer)
      <4>1. answer = <<>> => Ordered(answer)
        BY DEF Ordered
      <4> QED
        BY <1>1, <2>3, <4>1 DEF Rec!List
    <3>3. Ordered(answer) => Ordered(answer)'
      BY <1>1 DEF Ordered
    <3> QED
      BY <1>1, <2>1, <2>3, <3>1, <3>2, <3>3 DEF LoadInv, Asking
  <2> QED
    BY <2>2, <2>3
<1> QED
  BY <1>2, <1>3 DEF RecInv

LEMMA WriteBackKeeps ==
  ASSUME RecordAssumption, RecInv, Rec!WriteBack
  PROVE  RecInv'
<1> DEFINE c == Size
           list == [x \in 1..Rec!n |-> arr[x - 1]]
<1>1. /\ place = "sorted" /\ place' = IF asked = None THEN "filter" ELSE "dump"
      /\ UNCHANGED <<uid, date, heartbeat, dump, read, table, asked, unsorted>>
      /\ IF asked = None THEN records' = list /\ answer' = answer
                         ELSE answer' = list /\ records' = records
  BY DEF Rec!WriteBack, Rec!Done, Rec!dataVars
<1>2. /\ Size > 0 /\ arr \in [0..(Size - 1) -> Ids]
      /\ Image(arr) = Image(Rec!List) /\ (OneToOne(Rec!List) => OneToOne(arr))
      /\ InOrder(Size) /\ Size \in Nat
  BY <1>1, ListType DEF RecInv, SortInv, SortPlaces
<1>3. Rec!n = c /\ DOMAIN arr = 0..(c - 1)
  BY <1>2, ArraySize DEF Rec!n
<1>4. /\ list \in [1..c -> Ids] /\ DOMAIN list = 1..c
      /\ \A x \in 1..c : list[x] = arr[x - 1] /\ x - 1 \in 0..(c - 1)
  BY <1>2, <1>3
<1> HIDE DEF list
<1>5. list \in Seq(Ids)
  BY <1>2, <1>4, FunctionIsSeq
<1>6. Image(list) = Image(Rec!List)
  <2>1. \A x \in DOMAIN list : \E w \in DOMAIN arr : list[x] = arr[w]
    BY <1>3, <1>4
  <2>2. ASSUME NEW w \in DOMAIN arr PROVE \E x \in DOMAIN list : list[x] = arr[w]
    <3> DEFINE y == w + 1
    <3>1. y \in 1..c /\ y - 1 = w
      BY <1>2, <1>3
    <3> HIDE DEF y
    <3>2. y \in DOMAIN list /\ list[y] = arr[w]
      BY <1>4, <3>1
    <3> QED
      BY <3>2
  <2>3. Image(list) = Image(arr)
    BY <2>1, <2>2, SameImage
  <2> QED
    BY <1>2, <2>3
<1>7. ASSUME OneToOne(Rec!List) PROVE OneToOne(list)
  <2> SUFFICES ASSUME NEW x \in 1..c, NEW y \in 1..c, list[x] = list[y] PROVE x = y
    BY <1>4 DEF OneToOne
  <2>1. x - 1 = y - 1
    BY <1>2, <1>3, <1>4, <1>7 DEF OneToOne
  <2> QED
    BY <1>2, <2>1
<1>8. Ordered(list)
  <2> SUFFICES ASSUME NEW x \in 1..c, NEW y \in 1..c, x < y PROVE date[list[x]] <= date[list[y]]
    BY <1>4 DEF Ordered
  <2>1. x - 1 < y - 1
    BY <1>2
  <2> QED
    BY <1>2, <1>4, <2>1 DEF InOrder
<1>9. RecType'
  BY <1>1, <1>5 DEF RecInv, RecType
<1>10. SortInv'
  BY <1>1 DEF SortInv, SortPlaces
<1>11. LoadInv'
  <2>1. Beats' = Beats /\ Full' = Full
    BY <1>1, SameData
  <2>2. CASE asked = None
    <3>1. OneToOne(records) /\ Image(records) = read /\ \A b \in Rec!Buckets : table[b] = <<>>
      BY <1>1, <2>2 DEF RecInv, LoadInv, Loading, SortPlaces
    <3>2. (OneToOne(records) /\ Image(records) = read)'
      BY <1>1, <1>6, <1>7, <2>2, <3>1 DEF Rec!List
    <3> QED
      BY <1>1, <2>2, <3>1, <3>2 DEF LoadInv, Loading
  <2>3. CASE asked # None
    <3>1. /\ TableFine(table, Beats, uid, Beats)
          /\ Full => Image(answer) = {x \in Beats : uid[x] = asked} /\ OneToOne(answer)
      BY <1>1, <2>3 DEF RecInv, LoadInv, Asking, SortPlaces
    <3>2. Full => Image(answer') = {x \in Beats : uid[x] = asked} /\ OneToOne(answer')
      BY <1>1, <1>6, <1>7, <2>3, <3>1 DEF Rec!List
    <3>3. Ordered(answer)'
      BY <1>1, <1>8, <2>3 DEF Ordered
    <3> QED
      BY <1>1, <2>1, <2>3, <3>1, <3>2, <3>3 DEF LoadInv, Asking
  <2> QED
    BY <2>2, <2>3
<1> QED
  BY <1>9, <1>10, <1>11 DEF RecInv

LEMMA FilterKeeps ==
  ASSUME RecordAssumption, RecInv, Rec!Filter
  PROVE  RecInv'
<1> DEFINE set == {x \in Ids : heartbeat[x]}
           list == Rec!Kept(records, set)
<1>1. /\ place = "filter" /\ place' = "hash" /\ records' = list /\ dump' = list
      /\ UNCHANGED <<uid, date, heartbeat, read, table, asked, answer, unsorted>>
  BY DEF Rec!Filter, Rec!Rest, Rec!dataVars
<1>2. asked = None
  BY <1>1 DEF RecInv, LoadInv, Asking, SortPlaces
<1>3. /\ OneToOne(records) /\ Image(records) = read
      /\ \A b \in Rec!Buckets : table[b] = <<>>
  BY <1>1, <1>2 DEF RecInv, LoadInv, Loading
<1>4. records \in Seq(Ids) /\ read \in SUBSET Ids
  BY DEF RecInv, RecType
<1>5. list \in Seq(Ids) /\ Image(list) = Beats /\ OneToOne(list)
  <2>1. Beats = read \cap set
    BY <1>4 DEF Beats
  <2> HIDE DEF set
  <2> QED
    BY <1>3, <1>4, <2>1, KeptIs
<1> HIDE DEF list
<1>6. RecType'
  BY <1>1, <1>5 DEF RecInv, RecType
<1>7. SortInv'
  BY <1>1 DEF SortInv, SortPlaces
<1>8. LoadInv'
  <2>1. Beats' = Beats /\ Full' = Full
    BY <1>1, SameData
  <2>2. (OneToOne(dump) /\ Image(dump) \subseteq Beats)'
    BY <1>1, <1>5, <2>1
  <2>3. TableFine(table, {}, uid, Beats)
    <3>1. \A b \in Rec!Buckets : Image(table[b]) = {} /\ OneToOne(table[b])
      <4>1. Image(<<>>) = {} /\ OneToOne(<<>>)
        BY DEF Image, OneToOne
      <4> QED
        BY <1>3, <4>1
    <3> QED
      BY <3>1 DEF TableFine
  <2>4. Beats' \ Image(dump)' = {}
    BY <1>1, <1>5, <2>1
  <2>5. TableFine(table, Beats \ Image(dump), uid, Beats)'
    BY <1>1, <2>1, <2>3, <2>4
  <2> QED
    BY <1>1, <1>2, <2>2, <2>5 DEF LoadInv, Loading, SortPlaces
<1> QED
  BY <1>6, <1>7, <1>8 DEF RecInv

LEMMA HashKeeps ==
  ASSUME RecordAssumption, RecInv, Rec!HashNext
  PROVE  RecInv'
<1> DEFINE x == Head(dump)
           D == Beats \ Image(dump)
           P == Rec!Probes(uid[x])
           free == {p \in DOMAIN P : table[P[p]] = <<>> \/ uid[table[P[p]][1]] = uid[x]}
           first == Rec!Min(free)
<1>1. /\ place = "hash" /\ place' = "hash" /\ dump # <<>> /\ dump' = Tail(dump)
      /\ UNCHANGED <<uid, date, heartbeat, read, records, asked, answer, unsorted>>
  BY DEF Rec!HashNext, Rec!Rest, Rec!dataVars
<1>2. IF free = {} THEN table' = table ELSE table' = [table EXCEPT ![P[first]] = <<x>> \o @]
  <2>1. free = {p \in DOMAIN P : Rec!SameUid(P[p], uid[x], TRUE)}
    BY DEF Rec!SameUid
  <2> QED
    BY <2>1, Zenon DEF Rec!HashNext
<1>3. asked = None
  BY <1>1 DEF RecInv, LoadInv, Asking, SortPlaces
<1>4. OneToOne(dump) /\ Image(dump) \subseteq Beats /\ TableFine(table, D, uid, Beats)
  BY <1>1 DEF RecInv, LoadInv
<1>5. /\ dump \in Seq(Ids) /\ uid \in [Ids -> Uids] /\ Beats \in SUBSET Ids
      /\ table \in [Rec!Buckets -> Seq(Ids)]
  BY BeatsAre DEF RecInv, RecType
<1>6. /\ Image(dump) = Image(Tail(dump)) \cup {x} /\ Tail(dump) \in Seq(Ids)
      /\ OneToOne(Tail(dump)) /\ x \notin Image(Tail(dump)) /\ x \in Ids
  BY <1>1, <1>4, <1>5, HeadTailIs
<1>7. x \in Beats /\ x \notin D /\ D \in SUBSET Beats /\ D \cup {x} = Beats \ Image(Tail(dump))
  BY <1>4, <1>6
<1>8. uid[x] \in Uids
  BY <1>5, <1>6
<1>9. DOMAIN P = 1..(2 * H + 2)
  BY <1>8, ProbesAre
<1> HIDE DEF x, D
<1>10. table' \in [Rec!Buckets -> Seq(Ids)] /\ TableFine(table', D \cup {x}, uid, Beats)
  <2>1. CASE free = {}
    <3>1. \A q \in DOMAIN P : LET a == P[q] IN table[a] # <<>> /\ uid[table[a][1]] # uid[x]
      BY <2>1
    <3>2. TableFine(table, D \cup {x}, uid, Beats)
      BY <1>4, <1>5, <1>7, <3>1, NoneFree
    <3> QED
      BY <1>2, <1>5, <2>1, <3>2, Zenon
  <2>2. CASE free # {}
    <3>1. free \in SUBSET Int /\ \A p \in free : 1 <= p
      BY <1>9
    <3> DEFINE f == free
    <3>2. first \in free /\ \A p \in free : first <= p
      <4> HIDE DEF f
      <4>1. Rec!Min(f) \in f /\ \A p \in f : Rec!Min(f) <= p
        BY <2>2, <3>1, LeastIs, 1 \in Int DEF f
      <4> QED
        BY <4>1, Zenon DEF f
    <3> HIDE DEF first, f
    <3>3. first \in DOMAIN P /\ (table[P[first]] = <<>> \/ uid[table[P[first]][1]] = uid[x])
      BY <3>2
    <3>4. \A q \in DOMAIN P : table[P[q]] = <<>> \/ uid[table[P[q]][1]] = uid[x] => first <= q
      BY <3>2
    <3> DEFINE b == P[first]
    <3>5. table' = [table EXCEPT ![b] = <<x>> \o @] /\ b = Rec!Probes(uid[x])[first]
      BY <1>2, <2>2
    <3>6. table[b] = <<>> \/ uid[table[b][1]] = uid[x]
      BY <3>3
    <3>7. b \in Rec!Buckets /\ <<x>> \o table[b] \in Seq(Ids)
      BY <1>5, <1>6, <1>8, <1>9, <3>3, ProbesAre, PrependIs
    <3> HIDE DEF b
    <3>8. /\ table' \in [Rec!Buckets -> Seq(Ids)] /\ table'[b] = <<x>> \o table[b]
          /\ \A a \in Rec!Buckets : a # b => table'[a] = table[a]
      BY <1>5, <3>5, <3>7
    <3>9. TableFine(table', D \cup {x}, uid, Beats)
      BY <1>4, <1>5, <1>7, <3>3, <3>4, <3>5, <3>6, <3>8, AddedFine, ZenonT(60)
    <3> QED
      BY <3>8, <3>9
  <2> QED
    BY <2>1, <2>2
<1>11. RecType'
  BY <1>1, <1>6, <1>10 DEF RecInv, RecType
<1>12. SortInv'
  BY <1>1 DEF SortInv, SortPlaces
<1>13. LoadInv'
  <2>1. Beats' = Beats /\ Full' = Full
    BY <1>1, SameData
  <2>2. (OneToOne(dump) /\ Image(dump) \subseteq Beats)'
    BY <1>1, <1>4, <1>6, <2>1
  <2>3. TableFine(table, Beats \ Image(dump), uid, Beats)'
    BY <1>1, <1>7, <1>10, <2>1
  <2> QED
    BY <1>1, <1>3, <2>2, <2>3 DEF LoadInv, Loading, SortPlaces
<1> QED
  BY <1>11, <1>12, <1>13 DEF RecInv

LEMMA HashEndsKeeps ==
  ASSUME RecordAssumption, RecInv, Rec!HashEnds
  PROVE  RecInv'
<1>1. /\ place = "hash" /\ place' = "ask" /\ dump = <<>>
      /\ UNCHANGED <<uid, date, heartbeat, dump, read, records, table, asked, answer, unsorted>>
  BY DEF Rec!HashEnds, Rec!Rest, Rec!dataVars
<1>2. RecType' /\ SortInv'
  BY <1>1 DEF RecInv, RecType, SortInv, SortPlaces
<1>3. asked = None
  BY <1>1 DEF RecInv, LoadInv, Asking, SortPlaces
<1>4. TableFine(table, Beats, uid, Beats)
  <2>1. Image(dump) = {}
    BY <1>1, ElementsAre DEF RecInv, RecType
  <2>2. Beats \ Image(dump) = Beats
    BY <2>1
  <2> QED
    BY <1>1, <2>2 DEF RecInv, LoadInv
<1>5. LoadInv'
  <2>1. Beats' = Beats
    BY <1>1, SameData
  <2> QED
    BY <1>1, <1>3, <1>4, <2>1 DEF LoadInv, Loading, SortPlaces
<1> QED
  BY <1>2, <1>5 DEF RecInv

LEMMA SearchKeeps ==
  ASSUME RecordAssumption, RecInv, NEW u \in Uids, Rec!Search(u)
  PROVE  RecInv'
<1> DEFINE S == Rec!SearchOrder(u)
           hits == {p \in DOMAIN S : table[S[p]] # <<>> /\ uid[table[S[p]][1]] = u}
           first == Rec!Min(hits)
           mine == {x \in Beats : uid[x] = u}
<1>1. /\ place = "ask" /\ place' \in {"sort", "dump"} /\ (place' = "dump" => answer' = <<>>)
      /\ asked' = u /\ asked' # None
      /\ UNCHANGED <<uid, date, heartbeat, dump, read, table>>
      /\ \E set : records' = Rec!Kept(records, set)
  BY DEF Rec!Search, Rec!Rest, Rec!dataVars, RecordAssumption
<1>2. answer' = IF hits = {} THEN <<>> ELSE table[S[first]]
  <2>1. hits = {p \in DOMAIN S : Rec!SameUid(S[p], u, FALSE)}
    BY DEF Rec!SameUid
  <2> QED
    BY <2>1 DEF Rec!Search
<1>3. /\ TableFine(table, Beats, uid, Beats)
      /\ table \in [Rec!Buckets -> Seq(Ids)] /\ records \in Seq(Ids)
  BY <1>1 DEF RecInv, LoadInv, RecType
<1>4. /\ DOMAIN S = 1..(2 * H + 2) /\ (\A p \in DOMAIN S : S[p] \in Rec!Buckets)
      /\ \A b \in Rec!Buckets : \E p \in DOMAIN S : S[p] = b
  BY SearchOrderIs
<1> HIDE DEF S
<1>5. \A b \in Rec!Buckets : /\ table[b] \in Seq(Ids)
                             /\ table[b] # <<>> => table[b][1] \in Image(table[b])
                             /\ table[b] = <<>> => Image(table[b]) = {}
  BY <1>3, ElementsAre
\* All the heartbeats of this uid are in the bucket found.
<1>6. answer' \in Seq(Ids) /\ OneToOne(answer') /\ (Full => Image(answer') = mine)
  <2>1. CASE hits = {}
    <3>1. answer' = <<>> /\ <<>> \in Seq(Ids)
      BY <1>2, <2>1
    <3>2. OneToOne(answer') /\ Image(answer') = {}
      BY <3>1, ElementsAre
    <3>3. ASSUME Full, NEW x \in mine PROVE FALSE
      <4>1. PICK b \in Rec!Buckets : x \in Image(table[b])
        BY <1>3, <3>3 DEF TableFine, Full
      <4>2. PICK p \in DOMAIN S : S[p] = b
        BY <1>4
      <4>3. table[b] # <<>> /\ table[b][1] \in Image(table[b])
        BY <1>5, <4>1
      <4>4. uid[table[b][1]] = uid[x]
        BY <1>3, <4>1, <4>3 DEF TableFine
      <4> QED
        BY <2>1, <4>2, <4>3, <4>4
    <3> HIDE DEF mine
    <3> QED
      BY <3>1, <3>2, <3>3
  <2>2. CASE hits # {}
    <3>1. hits \in SUBSET Int /\ \A p \in hits : 1 <= p
      BY <1>4
    <3> DEFINE f == hits
    <3>2. first \in hits
      <4> HIDE DEF f
      <4>1. Rec!Min(f) \in f
        BY <2>2, <3>1, LeastIs, 1 \in Int DEF f
      <4> QED
        BY <4>1 DEF f
    <3> HIDE DEF first, f
    <3> DEFINE b == S[first]
    <3>3. b \in Rec!Buckets /\ table[b] # <<>> /\ uid[table[b][1]] = u /\ answer' = table[b]
      BY <1>2, <1>4, <2>2, <3>2
    <3> HIDE DEF b
    <3>4. table[b] \in Seq(Ids) /\ OneToOne(table[b]) /\ Image(table[b]) \subseteq Beats
      BY <1>3, <1>5, <3>3 DEF TableFine
    <3>5. table[b][1] \in Image(table[b])
      BY <1>5, <3>3
    <3>6. \A x \in Image(table[b]) : uid[x] = u
      BY <1>3, <3>3, <3>5 DEF TableFine
    <3>7. ASSUME Full, NEW x \in mine PROVE x \in Image(table[b])
      <4>1. PICK c \in Rec!Buckets : x \in Image(table[c])
        BY <1>3, <3>7 DEF TableFine, Full
      <4>2. b = c
        BY <1>3, <3>3, <3>5, <4>1 DEF TableFine
      <4> QED
        BY <4>1, <4>2
    <3>8. \A x \in Image(table[b]) : x \in mine
      BY <3>4, <3>6
    <3> HIDE DEF mine
    <3> QED
      BY <3>3, <3>4, <3>7, <3>8
  <2> QED
    BY <2>1, <2>2
<1>7. records' \in Seq(Ids)
  BY <1>1, <1>3, KeptIs
<1>8. RecType'
  BY <1>1, <1>6, <1>7 DEF RecInv, RecType
<1>9. SortInv'
  BY <1>1 DEF SortInv, SortPlaces
<1>10. LoadInv'
  <2>1. Beats' = Beats /\ Full' = Full
    BY <1>1, SameData
  <2>2. (Full => Image(answer) = {x \in Beats : uid[x] = asked} /\ OneToOne(answer))'
    BY <1>1, <1>6, <2>1
  <2>3. TableFine(table, Beats, uid, Beats)'
    BY <1>1, <1>3, <2>1
  <2>4. place' = "dump" => Ordered(answer)'
    BY <1>1 DEF Ordered
  <2> QED
    BY <1>1, <2>2, <2>3, <2>4 DEF LoadInv, Asking, SortPlaces
<1> QED
  BY <1>8, <1>9, <1>10 DEF RecInv

LEMMA DumpKeeps ==
  ASSUME RecordAssumption, RecInv, Rec!Dump
  PROVE  RecInv'
<1>1. /\ place = "dump" /\ place' = "ask" /\ records' = records \o answer /\ answer' = <<>>
      /\ UNCHANGED <<uid, date, heartbeat, dump, read, table, asked, unsorted>>
  BY DEF Rec!Dump, Rec!Rest, Rec!dataVars
<1>2. records' \in Seq(Ids) /\ answer' \in Seq(Ids)
  BY <1>1 DEF RecInv, RecType
<1>3. RecType' /\ SortInv'
  BY <1>1, <1>2 DEF RecInv, RecType, SortInv, SortPlaces
<1>4. asked # None /\ TableFine(table, Beats, uid, Beats)
  BY <1>1 DEF RecInv, LoadInv, Loading, SortPlaces
<1>5. LoadInv'
  <2>1. Beats' = Beats
    BY <1>1, SameData
  <2> QED
    BY <1>1, <1>4, <2>1 DEF LoadInv, Asking, SortPlaces
<1> QED
  BY <1>3, <1>5 DEF RecInv

LEMMA ExitKeeps ==
  ASSUME RecordAssumption, RecInv, Rec!Exit
  PROVE  RecInv'
<1>1. /\ place' = "end" /\ UNCHANGED <<uid, date, heartbeat, dump, read, asked, answer, unsorted>>
      /\ table' = [b \in Rec!Buckets |-> <<>>] /\ \E set : records' = Rec!Kept(records, set)
  BY DEF Rec!Exit, Rec!FreeContext, Rec!Rest, Rec!dataVars
<1>2. records' \in Seq(Ids)
  BY <1>1, KeptIs DEF RecInv, RecType
<1>3. table' \in [Rec!Buckets -> Seq(Ids)]
  <2>1. <<>> \in Seq(Ids)
    OBVIOUS
  <2> QED
    BY <1>1, <2>1
<1>4. RecType' /\ SortInv'
  BY <1>1, <1>2, <1>3 DEF RecInv, RecType, SortInv, SortPlaces
<1>5. LoadInv'
  BY <1>1 DEF LoadInv, Loading, Asking, SortPlaces
<1> QED
  BY <1>4, <1>5 DEF RecInv

LEMMA RecStays ==
  ASSUME RecordAssumption, RecInv, [Rec!Next]_(Rec!vars)
  PROVE  RecInv'
<1>1. CASE UNCHANGED Rec!vars
  <2>1. UNCHANGED <<uid, date, heartbeat, dump, read, records, table, asked, answer, unsorted,
                    arr, left, right, up, down, pivot, stack, place>>
    BY <1>1 DEF Rec!vars, Rec!dataVars, Rec!sortVars
  <2>2. Beats' = Beats /\ Full' = Full /\ Rec!List' = Rec!List /\ Size' = Size
    BY <2>1, SameData DEF Rec!List, Size
  <2>3. RecType' /\ SortInv'
    BY <2>1, <2>2 DEF RecInv, RecType, SortInv, InOrder
  <2>4. LoadInv'
    BY <2>1, <2>2 DEF RecInv, LoadInv, Ordered
  <2> QED
    BY <2>3, <2>4 DEF RecInv
<1> QED
  BY <1>1, OpenKeeps, ReadRowKeeps, ReadEndsKeeps, StartKeeps, SortKeeps, NoSortKeeps,
     WriteBackKeeps, FilterKeeps, HashKeeps, HashEndsKeeps, SearchKeeps, DumpKeeps, ExitKeeps
     DEF Rec!Next

\* Every heartbeat stays in one place of the list, the table and the answer, and
\* the array of a sort holds the list all the time.
THEOREM RecordsStayWhereTheyAre == RecordSpec => []RecInv
<1>1. RecordInit => RecInv
  BY RecordAssumption, RecInit
<1>2. RecInv /\ [Rec!Next]_(Rec!vars) => RecInv'
  BY RecordAssumption, RecStays
<1> QED
  BY <1>1, <1>2, PTL DEF RecordSpec

\* While the array is sorted the stack never needs more than its n places; at
\* the end the array holds the records of the list in the order of their dates.
THEOREM TheSortSorts == RecordSpec => []Sorted
<1>1. RecInv => Sorted
  <2> SUFFICES ASSUME RecInv, place \in SortPlaces PROVE Sorted
    BY DEF Sorted, Rec!Sorted, SortPlaces
  <2>1. /\ Size > 0 /\ arr \in [0..(Size - 1) -> Ids] /\ Image(arr) = Image(Rec!List) /\ Size \in Nat
        /\ place \in {"segment", "scan"} => Segments(stack, left, right, Size)
        /\ place = "insert" => stack = <<>>
        /\ place = "sorted" => InOrder(Size)
    BY ListType DEF RecInv, SortInv
  <2>2. Rec!n = Size /\ DOMAIN arr = 0..(Size - 1)
    BY <2>1, ArraySize DEF Rec!n
  <2>3. place \in {"segment", "scan", "insert"} => Len(stack) <= Rec!n
    <3>1. CASE place \in {"segment", "scan"}
      <4>1. Len(stack) <= Size
        BY <2>1, <3>1, SegmentsBound
      <4> QED
        BY <2>2, <4>1
    <3>2. CASE place = "insert"
      BY <2>1, <2>2, <3>2
    <3> QED
      BY <3>1, <3>2
  <2>4. {arr[x] : x \in DOMAIN arr} = Rec!ToSet(Rec!List) /\ Rec!n = Len(Rec!List)
    BY <2>1, <2>2 DEF Image, Rec!ToSet, Size
  <2>5. place = "sorted" => \A x, y \in DOMAIN arr : x < y => date[arr[x]] <= date[arr[y]]
    BY <2>1, <2>2 DEF InOrder
  <2> QED
    BY <2>3, <2>4, <2>5 DEF Sorted, Rec!Sorted
<1> QED
  BY <1>1, RecordsStayWhereTheyAre, PTL

\* What is dumped for a uid is every heartbeat of that uid, once, and by date
\* if no sort failed, as long as the table has a bucket for every uid.
THEOREM EveryRecordIsFound == RecordSpec => []AnswersAll
<1>1. RecInv => AnswersAll
  <2> SUFFICES ASSUME RecInv, place = "dump", Full
               PROVE  /\ Rec!ToSet(answer) = {x \in Beats : uid[x] = asked}
                      /\ Rec!IsInjective(answer)
                      /\ unsorted \/ Ordered(answer)
    BY RecordCardinality DEF AnswersAll, Rec!AnswersAll, Full, Beats, Ordered
  <2>1. asked # None /\ (unsorted \/ Ordered(answer))
    BY DEF RecInv, LoadInv, Loading, SortPlaces
  <2>2. Image(answer) = {x \in Beats : uid[x] = asked} /\ OneToOne(answer)
    BY <2>1 DEF RecInv, LoadInv, Asking
  <2> QED
    BY <2>1, <2>2 DEF Rec!ToSet, Image, Rec!IsInjective, OneToOne
<1> QED
  BY <1>1, RecordsStayWhereTheyAre, PTL

-----------------------------------------------------------------------------
(* The array of frombin                                                    *)

LEMMA BinCardinality == \A S : Bin!Cardinality(S) = Cardinality(S)
BY DEF Bin!Cardinality, Cardinality, Bin!IsFiniteSet, IsFiniteSet

\* The places of a text that are no line ends, and how many there are up to x.
Kept(s) == {x \in 1..Len(s) : s[x] # "\n"}
Upto(s, x) == {y \in Kept(s) : y <= x}
Stripped(s, t) ==
  /\ Len(t) = Cardinality(Kept(s))
  /\ \A x \in Kept(s) : t[Cardinality(Upto(s, x))] = s[x]

LEMMA StrippedIs ==
  ASSUME NEW S, NEW s \in Seq(S), NEW t
  PROVE  Bin!WithoutLineEnds(s, t) <=> Stripped(s, t)
<1>1. DOMAIN s = 1..Len(s)
  BY LenProperties
<1> QED
  BY <1>1, BinCardinality, Zenon DEF Bin!WithoutLineEnds, Stripped, Kept, Upto

\* Sets of places: two without a common one, and one moved by n.
LEMMA Apart ==
  ASSUME NEW S, NEW T, NEW U, IsFiniteSet(S), IsFiniteSet(T),
         \A x \in S : x \notin T, \A x : x \in U <=> x \in S \/ x \in T
  PROVE  Cardinality(U) = Cardinality(S) + Cardinality(T)
<1>1. U = S \cup T /\ S \cap T = {}
  OBVIOUS
<1>2. Cardinality(S \cup T) = Cardinality(S) + Cardinality(T) - Cardinality(S \cap T)
  BY FS_Union
<1>3. Cardinality({}) = 0
  BY FS_EmptySet
<1>4. Cardinality(S) \in Nat /\ Cardinality(T) \in Nat
  BY FS_CardinalityType
<1>5. Cardinality(S \cap T) = 0
  BY <1>1, <1>3, Zenon
<1>6. Cardinality(U) = Cardinality(S \cup T)
  BY <1>1, Zenon
<1> QED
  BY <1>2, <1>4, <1>5, <1>6

LEMMA Shifted ==
  ASSUME NEW n \in Int, NEW S, NEW T, IsFiniteSet(S), \A y \in S : y \in Int,
         \A x : x \in T <=> \E y \in S : x = n + y
  PROVE  IsFiniteSet(T) /\ Cardinality(T) = Cardinality(S)
<1> DEFINE f == [y \in S |-> n + y]
<1>1. f \in [S -> T] /\ \A y \in S : f[y] = n + y /\ y \in Int
  OBVIOUS
<1>2. \A x \in T : \E y \in S : x = n + y
  OBVIOUS
<1> HIDE DEF f
<1>3. \A y, z \in S : f[y] = f[z] => y = z
  <2> SUFFICES ASSUME NEW y \in S, NEW z \in S, f[y] = f[z] PROVE y = z
    OBVIOUS
  <2>1. y \in Int /\ z \in Int
    OBVIOUS
  <2>2. n + y = n + z
    BY <1>1
  <2> QED
    BY <2>1, <2>2
<1>4. \A x \in T : \E y \in S : f[y] = x
  BY <1>1, <1>2
<1>5. f \in Bijection(S, T)
  BY <1>1, <1>3, <1>4, Zenon DEF Bijection, Injection, Surjection, IsInjective
<1>6. ExistsBijection(S, T)
  BY <1>5 DEF ExistsBijection
<1> QED
  BY <1>6, FS_Bijection

LEMMA KeptOfBoth ==
  ASSUME NEW S, NEW s \in Seq(S), NEW r \in Seq(S)
  PROVE  /\ Cardinality(Kept(s)) \in Nat
         /\ Cardinality(Kept(s \o r)) = Cardinality(Kept(s)) + Cardinality(Kept(r))
         /\ \A x \in Kept(s) : /\ x \in Kept(s \o r) /\ Upto(s \o r, x) = Upto(s, x)
                               /\ Cardinality(Upto(s, x)) \in 1..Cardinality(Kept(s))
         /\ \A x \in Kept(r) : /\ Len(s) + x \in Kept(s \o r)
                               /\ Cardinality(Upto(s \o r, Len(s) + x)) = Cardinality(Kept(s)) + Cardinality(Upto(r, x))
                               /\ Cardinality(Upto(r, x)) \in 1..Cardinality(Kept(r))
         /\ \A z \in Kept(s \o r) : z \in Kept(s) \/ \E x \in Kept(r) : z = Len(s) + x
<1> DEFINE m == Len(s)
           n == Len(r)
           g == s \o r
           A == Kept(s)
           B == Kept(r)
           C == {m + y : y \in B}
<1>1. m \in Nat /\ n \in Nat /\ Len(g) = m + n
      /\ (\A x \in 1..m : g[x] = s[x]) /\ (\A x \in 1..n : g[m + x] = r[x])
  BY ConcatIs, LenProperties
<1>2. A \subseteq 1..m /\ B \subseteq 1..n /\ \A x : (x \in A <=> x \in 1..m /\ s[x] # "\n") /\ (x \in B <=> x \in 1..n /\ r[x] # "\n")
  BY DEF Kept
<1>3. \A x : x \in Kept(g) <=> x \in 1..(m + n) /\ g[x] # "\n"
  BY <1>1 DEF Kept
<1> HIDE DEF g, A, B, m, n
<1>4. Kept(g) = A \cup C
  <2>1. ASSUME NEW z \in Kept(g) PROVE z \in A \cup C
    <3>1. CASE z \in 1..m
      BY <1>1, <1>2, <1>3, <3>1
    <3>2. CASE z \notin 1..m
      <4>1. z - m \in 1..n /\ m + (z - m) = z
        BY <1>1, <1>3, <3>2
      <4>2. z - m \in B
        BY <1>1, <1>2, <1>3, <4>1
      <4> QED
        BY <4>1, <4>2
    <3> QED
      BY <3>1, <3>2
  <2>2. ASSUME NEW z \in A PROVE z \in Kept(g)
    BY <1>1, <1>2, <1>3
  <2>3. ASSUME NEW y \in B PROVE m + y \in Kept(g)
    <3>1. y \in 1..n /\ m + y \in 1..(m + n) /\ g[m + y] = r[y] /\ r[y] # "\n"
      BY <1>1, <1>2
    <3> QED
      BY <1>3, <3>1
  <2> QED
    BY <2>1, <2>2, <2>3
<1>5. IsFiniteSet(A) /\ IsFiniteSet(B) /\ Cardinality(A) \in Nat
  BY <1>1, <1>2, OneMore
<1>6. (\A y \in A : y \in Int) /\ (\A y \in B : y \in Int) /\ (\A x \in A : x \notin C)
      /\ (\A x : x \in C <=> \E y \in B : x = m + y)
      /\ (\A x : x \in Kept(g) <=> x \in A \/ x \in C)
  BY <1>1, <1>2, <1>4
<1> HIDE DEF C
<1>7. IsFiniteSet(C) /\ Cardinality(C) = Cardinality(B)
  <2>1. m \in Int
    BY <1>1
  <2> QED
    BY <1>5, <1>6, <2>1, Shifted, Zenon
<1>8. Cardinality(Kept(g)) = Cardinality(A) + Cardinality(B)
  BY <1>5, <1>6, <1>7, Apart
<1>9. \A x : x \in Kept(g) <=> x \in A \/ \E y \in B : x = m + y
  BY <1>6
<1>10. ASSUME NEW t, NEW x \in Kept(t), IsFiniteSet(Kept(t)), \A y \in Kept(t) : y \in Int
       PROVE  Cardinality(Upto(t, x)) \in 1..Cardinality(Kept(t))
  <2>1. Upto(t, x) \subseteq Kept(t) /\ x \in Upto(t, x)
    BY <1>10 DEF Upto
  <2>2. IsFiniteSet(Upto(t, x)) /\ Cardinality(Upto(t, x)) <= Cardinality(Kept(t))
    BY <1>10, <2>1, FS_Subset
  <2>3. Cardinality(Upto(t, x)) \in Nat /\ Cardinality(Kept(t)) \in Nat
    BY <1>10, <2>2, FS_CardinalityType
  <2>4. Cardinality(Upto(t, x)) # 0
    BY <2>1, <2>2, FS_EmptySet
  <2> QED
    BY <2>2, <2>3, <2>4
<1>11. ASSUME NEW x \in A
       PROVE  /\ x \in Kept(g) /\ Upto(g, x) = Upto(s, x)
              /\ Cardinality(Upto(s, x)) \in 1..Cardinality(A)
  <2>1. x \in Kept(g)
    BY <1>9
  <2>2. Upto(g, x) = {y \in A : y <= x}
    <3>1. \A y \in B : ~(m + y <= x)
      BY <1>1, <1>2
    <3> QED
      BY <1>9, <3>1 DEF Upto
  <2>3. Upto(s, x) = {y \in A : y <= x}
    BY DEF Upto, A
  <2>4. \A y \in A : y \in Int
    BY <1>2
  <2>5. Cardinality(Upto(s, x)) \in 1..Cardinality(A)
    BY <1>5, <1>10, <2>4 DEF A
  <2> QED
    BY <2>1, <2>2, <2>3, <2>5
<1>12. ASSUME NEW x \in B
       PROVE  /\ m + x \in Kept(g)
              /\ Cardinality(Upto(g, m + x)) = Cardinality(A) + Cardinality(Upto(r, x))
              /\ Cardinality(Upto(r, x)) \in 1..Cardinality(B)
  <2> DEFINE D == {y \in B : y <= x}
             E == {m + y : y \in D}
  <2>1. m + x \in Kept(g)
    BY <1>9
  <2>2. D \in SUBSET B /\ (\A y \in D : y \in Int)
        /\ (\A z : z \in E <=> \E y \in D : z = m + y)
    BY <1>6
  <2>3. (\A z \in A : z \notin E)
        /\ (\A z : z \in Upto(g, m + x) <=> z \in A \/ z \in E)
    <3>1. \A y \in A : y <= m + x
      BY <1>1, <1>2
    <3>2. \A y \in B : m + y <= m + x <=> y <= x
      BY <1>1, <1>2
    <3>3. \A z \in A : z \notin E
      BY <1>1, <1>2
    <3>4. \A z : z \in Upto(g, m + x) <=> z \in Kept(g) /\ z <= m + x
      BY DEF Upto
    <3> QED
      BY <1>9, <3>1, <3>2, <3>3, <3>4
  <2>4. Upto(r, x) = D
    BY DEF Upto, B
  <2> HIDE DEF D, E
  <2>5. IsFiniteSet(D)
    BY <1>5, <2>2, FS_Subset
  <2>6. IsFiniteSet(E) /\ Cardinality(E) = Cardinality(D)
    <3>1. m \in Int
      BY <1>1
    <3> QED
      BY <2>2, <2>5, <3>1, Shifted, Zenon
  <2>7. \A y \in B : y \in Int
    BY <1>2
  <2>8. Cardinality(Upto(r, x)) \in 1..Cardinality(B)
    BY <1>5, <1>10, <2>7 DEF B
  <2>9. Cardinality(Upto(g, m + x)) = Cardinality(A) + Cardinality(E)
    BY <1>5, <2>3, <2>6, Apart
  <2> QED
    BY <2>1, <2>4, <2>6, <2>8, <2>9
<1>13. \A z \in Kept(g) : z \in A \/ \E x \in B : z = m + x
  BY <1>9
<1> QED
  BY <1>5, <1>8, <1>11, <1>12, <1>13 DEF A, B, m, n, g

\* Two texts one behind the other are stripped one behind the other.
LEMMA StrippedBoth ==
  ASSUME NEW S, NEW s \in Seq(S), NEW r \in Seq(S), NEW t \in Seq(S), NEW u \in Seq(S),
         Stripped(s, t), Stripped(r, u)
  PROVE  Stripped(s \o r, t \o u)
<1> DEFINE c == Cardinality(Kept(s))
           d == Cardinality(Kept(r))
           g == s \o r
           h == t \o u
<1>1. /\ c \in Nat /\ Cardinality(Kept(g)) = c + d
      /\ \A x \in Kept(s) : Upto(g, x) = Upto(s, x) /\ Cardinality(Upto(s, x)) \in 1..c
      /\ \A x \in Kept(r) : /\ Cardinality(Upto(g, Len(s) + x)) = c + Cardinality(Upto(r, x))
                            /\ Cardinality(Upto(r, x)) \in 1..d
      /\ \A z \in Kept(g) : z \in Kept(s) \/ \E x \in Kept(r) : z = Len(s) + x
  BY KeptOfBoth, SMTT(30)
<1>2. /\ Len(t) = c /\ \A x \in Kept(s) : t[Cardinality(Upto(s, x))] = s[x]
      /\ Len(u) = d /\ \A x \in Kept(r) : u[Cardinality(Upto(r, x))] = r[x]
  BY DEF Stripped
<1>3. /\ Len(h) = Len(t) + Len(u)
      /\ \A x \in 1..Len(t) : h[x] = t[x]
      /\ \A x \in 1..Len(u) : h[Len(t) + x] = u[x]
  BY ConcatIs
<1>4. (\A x \in Kept(s) : g[x] = s[x]) /\ (\A x \in Kept(r) : g[Len(s) + x] = r[x])
  BY ConcatIs DEF Kept
<1> HIDE DEF c, d, g, h
<1>5. Len(h) = Cardinality(Kept(g))
  BY <1>1, <1>2, <1>3
<1>6. ASSUME NEW z \in Kept(g) PROVE h[Cardinality(Upto(g, z))] = g[z]
  <2>1. CASE z \in Kept(s)
    BY <1>1, <1>2, <1>3, <1>4, <2>1
  <2>2. CASE \E x \in Kept(r) : z = Len(s) + x
    <3>1. PICK x \in Kept(r) : z = Len(s) + x
      BY <2>2
    <3>2. h[c + Cardinality(Upto(r, x))] = u[Cardinality(Upto(r, x))]
      BY <1>1, <1>2, <1>3
    <3> QED
      BY <1>1, <1>2, <1>4, <3>1, <3>2
  <2> QED
    BY <1>1, <2>1, <2>2
<1> QED
  BY <1>5, <1>6 DEF Stripped, g, h

\* A text without line ends is left as it is, a line end disappears.
LEMMA NoLineEnds ==
  ASSUME NEW S, NEW s \in Seq(S), \A x \in 1..Len(s) : s[x] # "\n"
  PROVE  Stripped(s, s)
<1>1. Kept(s) = 1..Len(s) /\ Len(s) \in Nat
  BY LenProperties DEF Kept
<1>2. \A x \in 1..Len(s) : Upto(s, x) = 1..x
  BY <1>1 DEF Upto
<1>3. \A x \in Nat : Cardinality(1..x) = x
  BY FS_Interval
<1> QED
  BY <1>1, <1>2, <1>3 DEF Stripped

LEMMA OneUnit ==
  ASSUME NEW S, NEW u \in S
  PROVE  <<u>> \in Seq(S) /\ Len(<<u>>) = 1 /\ <<u>>[1] = u
OBVIOUS

LEMMA OneIsLeft ==
  ASSUME NEW u, u # "\n"
  PROVE  Stripped(<<u>>, <<u>>)
<1>1. <<u>> \in Seq({u}) /\ Len(<<u>>) = 1 /\ <<u>>[1] = u
  BY OneUnit
<1> DEFINE t == <<u>>
<1> HIDE DEF t
<1>2. \A x \in 1..Len(t) : t[x] # "\n"
  BY <1>1 DEF t
<1> QED
  BY <1>1, <1>2, NoLineEnds DEF t

Comma == <<",">>
LineEnd == <<"\n">>
Closing == <<"};">>
Units == HexBytes \cup {"\n", ",", "{", "};", "static unsigned char chinese_font[] = "}

\* How three sequences are put together does not matter.
LEMMA Regrouped == \A s, t, u \in Seq(Units) : (s \o t) \o u = s \o (t \o u)
BY ConcatAssociative

\* The bytes without the last comma.
Uncommaed(b) == SubSeq(Bin!Listed(b), 1, 2 * Len(b) - 1)

\* Each byte with its comma.
LEMMA ListedIs ==
  ASSUME NEW b \in Seq(HexBytes)
  PROVE  /\ Bin!Listed(b) \in Seq(Units) /\ Len(Bin!Listed(b)) = 2 * Len(b)
         /\ \A x \in 1..Len(b) : Bin!Listed(b)[2 * x - 1] = b[x] /\ Bin!Listed(b)[2 * x] = ","
         /\ \A z \in 1..(2 * Len(b)) : \E x \in 1..Len(b) : z = 2 * x - 1 \/ z = 2 * x
<1> DEFINE n == Len(b)
           L == [k \in 1..(2 * n) |-> IF k % 2 = 1 THEN b[(k + 1) \div 2] ELSE ","]
<1>1. n \in Nat /\ 2 * n \in Nat /\ \A x \in 1..n : b[x] \in HexBytes
  BY LenProperties, ElementOfSeq
<1>2. Bin!Listed(b) = L
  BY DEF Bin!Listed
<1>3. \A z \in 1..(2 * n) : \E x \in 1..n : z = 2 * x - 1 \/ z = 2 * x
  <2> SUFFICES ASSUME NEW z \in 1..(2 * n) PROVE \E x \in 1..n : z = 2 * x - 1 \/ z = 2 * x
    OBVIOUS
  <2>1. (z + 1) \div 2 \in 1..n
    BY <1>1
  <2>2. z = 2 * ((z + 1) \div 2) - 1 \/ z = 2 * ((z + 1) \div 2)
    BY <1>1
  <2> QED
    BY <2>1, <2>2
<1>4. \A x \in 1..n : /\ 2 * x - 1 \in 1..(2 * n) /\ (2 * x - 1) % 2 = 1 /\ ((2 * x - 1) + 1) \div 2 = x
                      /\ 2 * x \in 1..(2 * n) /\ (2 * x) % 2 = 0
  BY <1>1
<1>5. \A x \in 1..n : L[2 * x - 1] = b[x] /\ L[2 * x] = ","
  <2> SUFFICES ASSUME NEW x \in 1..n PROVE L[2 * x - 1] = b[x] /\ L[2 * x] = ","
    OBVIOUS
  <2> DEFINE k == 2 * x - 1
             l == 2 * x
  <2>1. k \in 1..(2 * n) /\ k % 2 = 1 /\ (k + 1) \div 2 = x /\ l \in 1..(2 * n) /\ ~(l % 2 = 1)
    BY <1>4
  <2> HIDE DEF k, l
  <2>2. L[k] = b[x]
    BY <2>1
  <2>3. L[l] = ","
    BY <2>1
  <2> QED
    BY <2>2, <2>3 DEF k, l
<1>6. \A z \in 1..(2 * n) : L[z] \in Units
  <2>1. \A z \in 1..(2 * n) : L[z] = "," \/ \E x \in 1..n : L[z] = b[x]
    BY <1>3, <1>5, ZenonT(60)
  <2> QED
    BY <1>1, <2>1 DEF Units
<1>7. L \in [1..(2 * n) -> Units]
  BY <1>6
<1>8. L \in Seq(Units) /\ Len(L) = 2 * n
  <2> HIDE DEF L
  <2> QED
    BY <1>1, <1>7, FunctionIsSeq
<1> QED
  BY <1>2, <1>3, <1>5, <1>8

LEMMA ListedBoth ==
  ASSUME NEW b \in Seq(HexBytes), NEW c \in Seq(HexBytes)
  PROVE  Bin!Listed(b \o c) = Bin!Listed(b) \o Bin!Listed(c)
<1> DEFINE m == Len(b)
           n == Len(c)
           d == b \o c
           LB == Bin!Listed(b)
           LC == Bin!Listed(c)
           LD == Bin!Listed(d)
           R == LB \o LC
<1>1. m \in Nat /\ n \in Nat /\ d \in Seq(HexBytes) /\ Len(d) = m + n
      /\ (\A x \in 1..m : d[x] = b[x]) /\ (\A x \in 1..n : d[m + x] = c[x])
  BY ConcatIs, LenProperties
<1>2. /\ LB \in Seq(Units) /\ Len(LB) = 2 * m
      /\ \A x \in 1..m : LB[2 * x - 1] = b[x] /\ LB[2 * x] = ","
  BY ListedIs
<1>3. /\ LC \in Seq(Units) /\ Len(LC) = 2 * n
      /\ \A x \in 1..n : LC[2 * x - 1] = c[x] /\ LC[2 * x] = ","
  BY ListedIs
<1> HIDE DEF d
<1>4. /\ LD \in Seq(Units) /\ Len(LD) = 2 * (m + n)
      /\ \A x \in 1..(m + n) : LD[2 * x - 1] = d[x] /\ LD[2 * x] = ","
      /\ \A z \in 1..(2 * (m + n)) : \E x \in 1..(m + n) : z = 2 * x - 1 \/ z = 2 * x
  <2>1. d \in Seq(HexBytes)
    BY <1>1
  <2>2. /\ LD \in Seq(Units) /\ Len(LD) = 2 * Len(d)
        /\ \A x \in 1..Len(d) : LD[2 * x - 1] = d[x] /\ LD[2 * x] = ","
        /\ \A z \in 1..(2 * Len(d)) : \E x \in 1..Len(d) : z = 2 * x - 1 \/ z = 2 * x
    BY <2>1, ListedIs
  <2>3. Len(d) = m + n
    BY <1>1
  <2> HIDE DEF LD
  <2> QED
    BY <2>2, <2>3
<1> HIDE DEF LB, LC, LD, m, n
<1>5. /\ R \in Seq(Units) /\ Len(R) = 2 * m + 2 * n
      /\ \A x \in 1..(2 * m) : R[x] = LB[x]
      /\ \A x \in 1..(2 * n) : R[2 * m + x] = LC[x]
  <2>1. LB \in Seq(Units) /\ LC \in Seq(Units)
    BY <1>2, <1>3
  <2>2. /\ R \in Seq(Units) /\ Len(R) = Len(LB) + Len(LC)
        /\ \A x \in 1..Len(LB) : R[x] = LB[x]
        /\ \A x \in 1..Len(LC) : R[Len(LB) + x] = LC[x]
    BY <2>1, ConcatIs
  <2>3. Len(LB) = 2 * m /\ Len(LC) = 2 * n
    BY <1>2, <1>3
  <2> HIDE DEF R
  <2> QED
    BY <2>2, <2>3
<1> HIDE DEF R
<1>6. \A x \in 1..(m + n) : R[2 * x - 1] = d[x] /\ R[2 * x] = ","
  <2> SUFFICES ASSUME NEW x \in 1..(m + n) PROVE R[2 * x - 1] = d[x] /\ R[2 * x] = ","
    OBVIOUS
  <2>1. CASE x <= m
    <3>1. x \in 1..m /\ 2 * x - 1 \in 1..(2 * m) /\ 2 * x \in 1..(2 * m)
      BY <1>1, <2>1
    <3> QED
      BY <1>1, <1>2, <1>5, <3>1
  <2>2. CASE ~(x <= m)
    <3> DEFINE y == x - m
    <3>1. /\ y \in 1..n /\ 2 * y - 1 \in 1..(2 * n) /\ 2 * y \in 1..(2 * n) /\ m + y = x
          /\ 2 * m + (2 * y - 1) = 2 * x - 1 /\ 2 * m + 2 * y = 2 * x
      BY <1>1, <2>2
    <3> HIDE DEF y
    <3>2. R[2 * m + (2 * y - 1)] = c[y] /\ R[2 * m + 2 * y] = ","
      BY <1>3, <1>5, <3>1
    <3>3. d[m + y] = c[y]
      BY <1>1, <3>1
    <3> QED
      BY <3>1, <3>2, <3>3
  <2> QED
    BY <2>1, <2>2
<1>7. Len(LD) = Len(R) /\ Len(LD) = 2 * (m + n)
  <2>1. m \in Nat /\ n \in Nat
    BY <1>1
  <2>2. Len(LD) = 2 * (m + n) /\ Len(R) = 2 * m + 2 * n
    BY <1>4, <1>5
  <2> QED
    BY <2>1, <2>2
<1>8. \A z \in 1..Len(LD) : LD[z] = R[z]
  <2> SUFFICES ASSUME NEW z \in 1..(2 * (m + n)) PROVE LD[z] = R[z]
    BY <1>7
  <2>1. PICK x \in 1..(m + n) : z = 2 * x - 1 \/ z = 2 * x
    BY <1>4
  <2>2. LD[2 * x - 1] = R[2 * x - 1] /\ LD[2 * x] = R[2 * x]
    BY <1>4, <1>6
  <2> QED
    BY <2>1, <2>2
<1>9. LD = R
  BY <1>4, <1>5, <1>7, <1>8, SeqEqual
<1> QED
  BY <1>9 DEF R, LD, LB, LC, d

LEMMA UncommaedIs ==
  ASSUME NEW b \in Seq(HexBytes), b # <<>>
  PROVE  Uncommaed(b) \in Seq(Units) /\ Bin!Listed(b) = Uncommaed(b) \o Comma
<1> DEFINE L == Bin!Listed(b)
           n == 2 * Len(b)
<1>1. Len(b) \in Nat \ {0}
  BY EmptySeq
<1>2. L \in Seq(Units) /\ Len(L) = n /\ L[n] = ","
  <2>1. /\ L \in Seq(Units) /\ Len(L) = 2 * Len(b)
        /\ \A x \in 1..Len(b) : L[2 * x] = ","
    BY ListedIs
  <2>2. Len(b) \in 1..Len(b)
    BY <1>1
  <2> QED
    BY <2>1, <2>2
<1> HIDE DEF L
<1>3. n \in Nat /\ n > 0
  BY <1>1
<1> HIDE DEF n
<1>4. SubSeq(L, 1, n) = SubSeq(L, 1, n - 1) \o <<L[n]>>
  <2>1. L \in Seq(Units) /\ Len(L) = n
    BY <1>2
  <2>2. 1 \in 1..n /\ n \in 1..n
    BY <1>3
  <2>3. 1 \in 1..Len(L) /\ n \in 1..Len(L)
    BY <2>1, <2>2, Zenon
  <2> QED
    BY <2>1, <2>2, <2>3, SubSeqRecursiveSecond, Zenon
<1>5. SubSeq(L, 1, n) = L
  BY <1>2, SubSeqFull
<1>6. \A x \in 1..(n - 1) : L[x] \in Units
  <2>1. \A x \in 1..(n - 1) : x \in 1..n
    BY <1>3
  <2>2. \A x \in 1..Len(L) : L[x] \in Units
    BY <1>2, ElementOfSeq
  <2> QED
    BY <1>2, <2>1, <2>2
<1>7. SubSeq(L, 1, n - 1) \in Seq(Units)
  <2>1. 1 \in Int /\ n - 1 \in Int
    BY <1>3
  <2> QED
    BY <1>6, <2>1, SubSeqProperties
<1>8. L = SubSeq(L, 1, n - 1) \o <<L[n]>>
  BY <1>4, <1>5
<1>9. <<L[n]>> = Comma
  BY <1>2 DEF Comma
<1>10. Uncommaed(b) = SubSeq(L, 1, n - 1)
  BY DEF Uncommaed, L, n
<1> QED
  BY <1>7, <1>8, <1>9, <1>10 DEF L

LEMMA SameFront ==
  ASSUME NEW S, NEW s \in Seq(S), NEW t \in Seq(S), NEW e \in S, Append(s, e) = Append(t, e)
  PROVE  s = t
BY AppendInjective

LEMMA UncommaedBoth ==
  ASSUME NEW b \in Seq(HexBytes), NEW c \in Seq(HexBytes), c # <<>>
  PROVE  Uncommaed(b \o c) = Bin!Listed(b) \o Uncommaed(c)
<1> DEFINE d == b \o c
<1>1. d \in Seq(HexBytes) /\ d # <<>>
  BY ConcatProperties, ConcatEqualIffEmpty
<1>2. Uncommaed(d) \in Seq(Units) /\ Bin!Listed(d) = Uncommaed(d) \o Comma
  BY <1>1, UncommaedIs
<1>3. Uncommaed(c) \in Seq(Units) /\ Bin!Listed(c) = Uncommaed(c) \o Comma
  BY UncommaedIs
<1>4. Bin!Listed(b) \in Seq(Units) /\ Comma \in Seq(Units)
  BY ListedIs, OneUnit DEF Units, Comma
<1>5. Bin!Listed(d) = Bin!Listed(b) \o Bin!Listed(c)
  BY ListedBoth
<1> HIDE DEF d
<1> DEFINE x == Uncommaed(d)
           y == Uncommaed(c)
           l == Bin!Listed(b)
           k == Comma
<1>6. x \o k = l \o (y \o k)
  BY <1>2, <1>3, <1>5
<1>7. x \in Seq(Units) /\ y \in Seq(Units) /\ l \in Seq(Units) /\ k \in Seq(Units)
  BY <1>2, <1>3, <1>4
<1> HIDE DEF x, y, l, k
<1>8. x \o k = (l \o y) \o k
  <2>1. (l \o y) \o k = l \o (y \o k)
    BY <1>7, Regrouped, Zenon
  <2> QED
    BY <1>6, <2>1
<1>9. l \o y \in Seq(Units)
  BY <1>7, ConcatProperties
<1>10. \A w \in Seq(Units) : Append(w, ",") = w \o k
  BY AppendIsConcat, ZenonT(60) DEF Units, Comma, k
<1> DEFINE v == l \o y
<1> HIDE DEF v
<1>11. Append(x, ",") = Append(v, ",")
  BY <1>7, <1>8, <1>9, <1>10 DEF v
<1>12. x = v
  <2>1. x \in Seq(Units) /\ v \in Seq(Units) /\ "," \in Units
    BY <1>7, <1>9 DEF Units, v
  <2> QED
    BY <1>11, <2>1, SameFront, Zenon
<1> QED
  BY <1>12, Zenon DEF x, y, l, d, v

\* Nothing of this has a line end.
LEMMA OnOneLine ==
  ASSUME FromBinAssumption, NEW b \in Seq(HexBytes)
  PROVE  /\ Stripped(Bin!Listed(b), Bin!Listed(b))
         /\ b # <<>> => Stripped(Uncommaed(b), Uncommaed(b))
<1> DEFINE L == Bin!Listed(b)
<1>1. /\ L \in Seq(Units) /\ Len(L) = 2 * Len(b) /\ Len(b) \in Nat
      /\ \A x \in 1..Len(b) : L[2 * x - 1] = b[x] /\ L[2 * x] = ","
      /\ \A z \in 1..(2 * Len(b)) : \E x \in 1..Len(b) : z = 2 * x - 1 \/ z = 2 * x
  BY ListedIs, LenProperties
<1>2. \A x \in 1..Len(b) : b[x] # "\n"
  BY ElementOfSeq DEF FromBinAssumption
<1> HIDE DEF L
<1>3. \A z \in 1..Len(L) : L[z] # "\n"
  BY <1>1, <1>2, ZenonT(60)
<1>4. Stripped(L, L)
  BY <1>1, <1>3, NoLineEnds
<1>5. ASSUME b # <<>> PROVE Stripped(Uncommaed(b), Uncommaed(b))
  <2> DEFINE u == Uncommaed(b)
  <2>1. u \in Seq(Units) /\ L = u \o Comma /\ Comma \in Seq(Units)
    BY <1>5, UncommaedIs, OneUnit DEF L, Units, Comma
  <2> HIDE DEF u
  <2>2. \A x \in 1..Len(u) : x \in 1..Len(L) /\ L[x] = u[x]
    <3>1. /\ Len(u) \in Nat /\ Len(Comma) \in Nat /\ Len(u \o Comma) = Len(u) + Len(Comma)
          /\ \A x \in 1..Len(u) : (u \o Comma)[x] = u[x]
      <4>1. u \in Seq(Units) /\ Comma \in Seq(Units)
        BY <2>1
      <4> QED
        BY <4>1, ConcatIs, LenProperties
    <3> QED
      BY <2>1, <3>1
  <2>3. \A x \in 1..Len(u) : u[x] # "\n"
    BY <1>3, <2>2
  <2>4. Stripped(u, u)
    BY <2>1, <2>3, NoLineEnds
  <2> QED
    BY <2>4 DEF u
<1> QED
  BY <1>4, <1>5 DEF L

LEMMA OpeningIs ==
  /\ Bin!Opening \in Seq(Units) /\ Bin!Title = Bin!Opening \o LineEnd /\ Stripped(Bin!Opening, Bin!Opening)
  /\ Comma \in Seq(Units) /\ LineEnd \in Seq(Units) /\ Closing \in Seq(Units)
  /\ Stripped(Comma, Comma) /\ Stripped(Closing, Closing) /\ Stripped(LineEnd, <<>>)
<1> DEFINE o == Bin!Opening
<1>1. Bin!Title = Bin!Opening \o LineEnd
  BY DEF Bin!Title, LineEnd
<1>3. Comma \in Seq(Units) /\ LineEnd \in Seq(Units) /\ Closing \in Seq(Units)
  BY OneUnit DEF Units, Comma, LineEnd, Closing
<1>4. Stripped(Comma, Comma) /\ Stripped(Closing, Closing)
  BY OneIsLeft DEF Comma, Closing
<1>5. o \in Seq(Units)
  BY DEF Bin!Opening, Units
<1>6. Len(o) = 2 /\ o[1] # "\n" /\ o[2] # "\n"
  BY DEF Bin!Opening
<1> HIDE DEF o
<1>7. \A x \in 1..2 : o[x] # "\n"
  BY <1>6
<1>8. \A x \in 1..Len(o) : o[x] # "\n"
  BY <1>6, <1>7
<1>9. Stripped(o, o)
  BY <1>5, <1>8, NoLineEnds
<1>10. Stripped(LineEnd, <<>>)
  <2>1. Kept(LineEnd) = {}
    BY DEF Kept, LineEnd
  <2>2. Len(<<>>) = 0
    OBVIOUS
  <2> QED
    BY <2>1, <2>2, FS_EmptySet DEF Stripped
<1> QED
  BY <1>1, <1>3, <1>4, <1>5, <1>9, <1>10 DEF o

\* The bytes that have become units, and what will be in the file when write()
\* has taken all of them.
SoFar == SubSeq(input, 1, taken - Len(chunk))
Whole == out \o todo

BinType ==
  /\ input \in Seq(HexBytes) /\ taken \in 0..Len(input)
  /\ chunk \in Seq(HexBytes) /\ Len(chunk) <= taken
  /\ chunk = SubSeq(input, taken - Len(chunk) + 1, taken)
  /\ out \in Seq(Units) /\ todo \in Seq(Units)
  /\ stage \in {"read", "end", "done", "failed"}

\* The array is open, and there is something to cut off if it has a byte.
Open(w, b) ==
  /\ Stripped(w, Bin!Opening \o Bin!Listed(b))
  /\ b # <<>> => \E x \in Seq(Units) : /\ w = x \o (Comma \o LineEnd)
                                       /\ Stripped(x, Bin!Opening \o Uncommaed(b))

BinInv ==
  /\ BinType
  /\ stage = "read" \/ (stage = "end" /\ todo = <<>>) => Open(Whole, SoFar)
  /\ stage \in {"end", "done"} => chunk = <<>> /\ (cut \/ taken = Len(input))
  /\ (stage = "end" /\ todo # <<>>) \/ stage = "done" =>
       (taken > 0 => Stripped(Whole, Bin!Array(SubSeq(input, 1, taken))))
  /\ stage = "done" => todo = <<>>

LEMMA SoFarIs ==
  ASSUME BinType
  PROVE  /\ SoFar \in Seq(HexBytes) /\ Len(SoFar) = taken - Len(chunk)
         /\ Len(chunk) \in Nat /\ Len(input) \in Nat /\ taken \in Nat
<1>1. Len(chunk) \in Nat /\ Len(input) \in Nat /\ taken \in Nat /\ taken <= Len(input) /\ Len(chunk) <= taken
  BY LenProperties DEF BinType
<1> DEFINE n == taken - Len(chunk)
<1>2. n \in Nat /\ 1 \in Int /\ n \in Int /\ n <= Len(input)
  BY <1>1
<1> HIDE DEF n
<1>3. \A x \in 1..n : input[x] \in HexBytes
  <2>1. \A x \in 1..n : x \in 1..Len(input)
    BY <1>1, <1>2
  <2>2. \A x \in 1..Len(input) : input[x] \in HexBytes
    BY ElementOfSeq DEF BinType
  <2> QED
    BY <2>1, <2>2
<1>4. SubSeq(input, 1, n) \in Seq(HexBytes) /\ Len(SubSeq(input, 1, n)) = IF 1 <= n THEN n - 1 + 1 ELSE 0
  BY <1>2, <1>3, SubSeqProperties
<1> QED
  BY <1>1, <1>2, <1>4 DEF SoFar, n

LEMMA PartOfPart ==
  ASSUME NEW S, NEW s \in Seq(S), NEW k \in 1..Len(s), NEW l \in 1..Len(s),
         NEW m \in 1..(l - k + 1), NEW n \in 1..(l - k + 1)
  PROVE  SubSeq(SubSeq(s, k, l), m, n) = SubSeq(s, k + m - 1, k + n - 1)
<1> DEFINE p == SubSeq(s, k, l)
           q == SubSeq(p, m, n)
           r == SubSeq(s, k + m - 1, k + n - 1)
           c == l - k + 1
<1>1. \A x \in 1..Len(s) : s[x] \in S
  BY ElementOfSeq
<1>2. k \in Int /\ l \in Int /\ m \in Int /\ n \in Int /\ Len(s) \in Nat /\ k <= l
      /\ 1 <= k /\ l <= Len(s) /\ 1 <= m /\ m <= c /\ 1 <= n /\ n <= c /\ c \in Nat
  BY LenProperties
<1>3. (\A x \in k..l : x \in 1..Len(s)) /\ (\A x \in (k + m - 1)..(k + n - 1) : x \in 1..Len(s))
  BY <1>2
<1>4. \A x \in 1..(l - k + 1) : p[x] = s[k + x - 1]
  <2>1. \A x \in k..l : s[x] \in S
    BY <1>1, <1>3
  <2> QED
    BY <1>2, <2>1, SubSeqProperties
<1>5. r \in Seq(S) /\ Len(r) = (IF k + m - 1 <= k + n - 1 THEN k + n - 1 - (k + m - 1) + 1 ELSE 0)
      /\ \A x \in 1..(k + n - 1 - (k + m - 1) + 1) : r[x] = s[k + m - 1 + x - 1]
  <2>1. \A x \in (k + m - 1)..(k + n - 1) : s[x] \in S
    BY <1>1, <1>3
  <2>2. k + m - 1 \in Int /\ k + n - 1 \in Int
    BY <1>2
  <2> QED
    BY <2>1, <2>2, SubSeqProperties
<1> HIDE DEF p, r
<1>6. q \in Seq(S) /\ Len(q) = (IF m <= n THEN n - m + 1 ELSE 0)
      /\ \A x \in 1..(n - m + 1) : q[x] = p[m + x - 1]
  <2>1. \A x \in m..n : x \in 1..c /\ k + x - 1 \in 1..Len(s)
    BY <1>2
  <2>2. \A x \in m..n : p[x] \in S
    BY <1>1, <1>4, <2>1
  <2> QED
    BY <1>2, <2>2, SubSeqProperties
<1> HIDE DEF q
<1>7. Len(q) = Len(r) /\ \A x \in 1..Len(q) : x \in 1..(n - m + 1)
  BY <1>2, <1>5, <1>6
<1>8. ASSUME NEW x \in 1..(n - m + 1) PROVE q[x] = r[x]
  <2>1. m + x - 1 \in 1..c /\ k + (m + x - 1) - 1 = k + m - 1 + x - 1
        /\ x \in 1..(k + n - 1 - (k + m - 1) + 1)
    BY <1>2
  <2>2. q[x] = p[m + x - 1] /\ r[x] = s[k + m - 1 + x - 1]
    BY <1>5, <1>6, <2>1
  <2>3. p[m + x - 1] = s[k + (m + x - 1) - 1]
    BY <1>4, <2>1
  <2> QED
    BY <2>1, <2>2, <2>3
<1>9. q = r
  BY <1>5, <1>6, <1>7, <1>8, SeqEqual
<1> QED
  BY <1>9 DEF p, q, r

\* The bytes of a line follow those before it, and leave the others.
LEMMA LineTaken ==
  ASSUME BinType, NEW size \in 1..Len(chunk), NEW n, n = taken - Len(chunk)
  PROVE  /\ SubSeq(chunk, 1, size) = SubSeq(input, n + 1, n + size)
         /\ SubSeq(chunk, size + 1, Len(chunk)) = SubSeq(input, n + size + 1, taken)
         /\ SubSeq(chunk, 1, size) \in Seq(HexBytes) /\ SubSeq(chunk, 1, size) # <<>>
         /\ SubSeq(chunk, size + 1, Len(chunk)) \in Seq(HexBytes)
         /\ Len(SubSeq(chunk, size + 1, Len(chunk))) = Len(chunk) - size
         /\ SubSeq(input, 1, n + size) = SoFar \o SubSeq(chunk, 1, size)
<1> DEFINE c == Len(chunk)
<1>1. /\ c \in Nat /\ Len(input) \in Nat /\ taken \in Nat /\ taken <= Len(input) /\ c <= taken
      /\ size \in Nat /\ 1 <= size /\ size <= c /\ n \in Nat /\ n + c = taken
  BY SoFarIs DEF BinType
<1>2. chunk = SubSeq(input, n + 1, taken) /\ input \in Seq(HexBytes) /\ chunk \in Seq(HexBytes)
  BY DEF BinType
<1>3. \A x \in 1..c : chunk[x] \in HexBytes
  BY <1>2, ElementOfSeq
<1> HIDE DEF c
<1>4. SubSeq(chunk, 1, size) = SubSeq(input, n + 1, n + size)
  <2>1. n + 1 \in 1..Len(input) /\ taken \in 1..Len(input)
        /\ 1 \in 1..(taken - (n + 1) + 1) /\ size \in 1..(taken - (n + 1) + 1)
    BY <1>1
  <2>2. SubSeq(SubSeq(input, n + 1, taken), 1, size) = SubSeq(input, (n + 1) + 1 - 1, (n + 1) + size - 1)
    <3> DEFINE k == n + 1
    <3>1. /\ k \in 1..Len(input) /\ taken \in 1..Len(input)
          /\ 1 \in 1..(taken - k + 1) /\ size \in 1..(taken - k + 1) /\ input \in Seq(HexBytes)
      BY <1>2, <2>1
    <3> HIDE DEF k
    <3>2. SubSeq(SubSeq(input, k, taken), 1, size) = SubSeq(input, k + 1 - 1, k + size - 1)
      BY <3>1, PartOfPart
    <3> QED
      BY <3>2 DEF k
  <2>3. (n + 1) + 1 - 1 = n + 1 /\ (n + 1) + size - 1 = n + size
    BY <1>1
  <2> QED
    BY <1>2, <2>2, <2>3
<1>5. SubSeq(chunk, size + 1, c) = SubSeq(input, n + size + 1, taken)
  <2>1. CASE size = c
    <3>1. size + 1 \in Int /\ c \in Int /\ c < size + 1 /\ n + size + 1 \in Int /\ taken \in Int /\ taken < n + size + 1
      BY <1>1, <2>1
    <3>2. SubSeq(chunk, size + 1, c) = <<>>
      BY <3>1, SubSeqEmpty
    <3>3. SubSeq(input, n + size + 1, taken) = <<>>
      BY <3>1, SubSeqEmpty
    <3> QED
      BY <3>2, <3>3
  <2>2. CASE size # c
    <3>1. n + 1 \in 1..Len(input) /\ taken \in 1..Len(input)
          /\ size + 1 \in 1..(taken - (n + 1) + 1) /\ c \in 1..(taken - (n + 1) + 1)
      BY <1>1, <2>2
    <3>2. SubSeq(SubSeq(input, n + 1, taken), size + 1, c) = SubSeq(input, (n + 1) + (size + 1) - 1, (n + 1) + c - 1)
      <4> DEFINE k == n + 1
                 l == size + 1
      <4>1. /\ k \in 1..Len(input) /\ taken \in 1..Len(input)
            /\ l \in 1..(taken - k + 1) /\ c \in 1..(taken - k + 1) /\ input \in Seq(HexBytes)
        BY <1>2, <3>1
      <4> HIDE DEF k, l
      <4>2. SubSeq(SubSeq(input, k, taken), l, c) = SubSeq(input, k + l - 1, k + c - 1)
        BY <4>1, PartOfPart
      <4> QED
        BY <4>2 DEF k, l
    <3>3. (n + 1) + (size + 1) - 1 = n + size + 1 /\ (n + 1) + c - 1 = taken
      BY <1>1
    <3> QED
      BY <1>2, <3>2, <3>3
  <2> QED
    BY <2>1, <2>2
<1>6. SubSeq(chunk, 1, size) \in Seq(HexBytes) /\ Len(SubSeq(chunk, 1, size)) = IF 1 <= size THEN size - 1 + 1 ELSE 0
  <2>1. 1 \in Int /\ size \in Int /\ \A x \in 1..size : x \in 1..c
    BY <1>1
  <2>2. \A x \in 1..size : chunk[x] \in HexBytes
    BY <1>3, <2>1
  <2> QED
    BY <2>1, <2>2, SubSeqProperties
<1>7. /\ SubSeq(chunk, size + 1, c) \in Seq(HexBytes)
      /\ Len(SubSeq(chunk, size + 1, c)) = IF size + 1 <= c THEN c - (size + 1) + 1 ELSE 0
  <2>1. size + 1 \in Int /\ c \in Int /\ \A x \in (size + 1)..c : x \in 1..c
    BY <1>1
  <2>2. \A x \in (size + 1)..c : chunk[x] \in HexBytes
    BY <1>3, <2>1
  <2> QED
    BY <2>1, <2>2, SubSeqProperties
<1>8. SubSeq(chunk, 1, size) # <<>>
  <2>1. Len(SubSeq(chunk, 1, size)) = size
    BY <1>1, <1>6
  <2> QED
    BY <1>1, <2>1
<1>9. SubSeq(input, 1, n + size) = SoFar \o SubSeq(chunk, 1, size)
  <2>1. 1 \in 1..(Len(input) + 1) /\ n \in (1 - 1)..Len(input) /\ n + size \in n..Len(input)
    BY <1>1
  <2>2. SubSeq(input, 1, n) \o SubSeq(input, n + 1, n + size) = SubSeq(input, 1, n + size)
    BY <1>2, <2>1, ConcatAdjacentSubSeq
  <2>3. SoFar = SubSeq(input, 1, n)
    BY DEF SoFar
  <2> QED
    BY <1>4, <2>2, <2>3
<1>10. Len(SubSeq(chunk, size + 1, c)) = c - size
  BY <1>1, <1>7
<1> QED
  BY <1>4, <1>5, <1>6, <1>7, <1>8, <1>9, <1>10 DEF c

\* One line more.
LEMMA LineOpen ==
  ASSUME FromBinAssumption, NEW w \in Seq(Units), NEW b \in Seq(HexBytes), NEW c \in Seq(HexBytes),
         c # <<>>, Open(w, b)
  PROVE  Open(w \o (Bin!Listed(c) \o LineEnd), b \o c)
<1> DEFINE o == Bin!Opening
           L == Bin!Listed(c)
           u == Uncommaed(c)
           before == o \o Bin!Listed(b)
           x == w \o u
           d == b \o c
<1>1. /\ o \in Seq(Units) /\ Comma \in Seq(Units) /\ LineEnd \in Seq(Units)
      /\ Stripped(Comma, Comma) /\ Stripped(LineEnd, <<>>) /\ <<>> \in Seq(Units)
  BY OpeningIs, EmptySeq
<1>2. u \in Seq(Units) /\ L \in Seq(Units) /\ L = u \o Comma /\ Bin!Listed(b) \in Seq(Units)
  BY UncommaedIs, ListedIs
<1>3. Stripped(u, u) /\ Stripped(L, L) /\ Stripped(w, before)
  BY OnOneLine DEF Open
<1>4. Bin!Listed(d) = Bin!Listed(b) \o L /\ Uncommaed(d) = Bin!Listed(b) \o u
  BY ListedBoth, UncommaedBoth
<1> DEFINE lb == Bin!Listed(b)
<1> HIDE DEF o, L, u, lb
<1>12. o \in Seq(Units) /\ lb \in Seq(Units) /\ L \in Seq(Units) /\ u \in Seq(Units)
  BY <1>1, <1>2, Zenon DEF lb
<1>5. before \in Seq(Units)
  BY <1>1, <1>2, ConcatProperties DEF lb
<1>6. o \o Bin!Listed(d) = before \o L /\ o \o Uncommaed(d) = before \o u
  <2>2. (o \o lb) \o L = o \o (lb \o L) /\ (o \o lb) \o u = o \o (lb \o u)
    <3>1. \A s \in Seq(Units) : (o \o lb) \o s = o \o (lb \o s)
      <4>1. o \in Seq(Units) /\ lb \in Seq(Units)
        BY <1>12
      <4> HIDE DEF before, x, d
      <4> QED
        BY <4>1, Regrouped
    <3> QED
      BY <1>12, <3>1, Zenon
  <2> QED
    BY <1>4, <2>2 DEF lb
<1> HIDE DEF before
<1>7. Stripped(w \o L, before \o L) /\ Stripped(x, before \o u)
  BY <1>2, <1>3, <1>5, StrippedBoth
<1>8. w \o L \in Seq(Units) /\ before \o L \in Seq(Units) /\ x \in Seq(Units)
      /\ Comma \o LineEnd \in Seq(Units)
  BY <1>1, <1>2, <1>5, ConcatProperties
<1>9. Stripped(w \o (L \o LineEnd), before \o L)
  <2> DEFINE a == w \o L
             e == before \o L
  <2>1. a \in Seq(Units) /\ e \in Seq(Units) /\ Stripped(a, e)
    BY <1>7, <1>8
  <2>2. a \o LineEnd = w \o (L \o LineEnd)
    <3>1. L \in Seq(Units) /\ LineEnd \in Seq(Units) /\ w \in Seq(Units)
      BY <1>1, <1>2
    <3> QED
      BY <3>1, Regrouped, Zenon
  <2> HIDE DEF a, e
  <2>3. Stripped(a \o LineEnd, e \o <<>>)
    BY <1>1, <2>1, StrippedBoth
  <2>4. e \o <<>> = e
    BY <2>1, ConcatEmptySeq
  <2> QED
    BY <2>2, <2>3, <2>4 DEF e
<1>10. w \o (L \o LineEnd) = x \o (Comma \o LineEnd)
  <2>1. (u \o Comma) \o LineEnd = u \o (Comma \o LineEnd)
    <3>1. /\ u \in Seq(Units) /\ Comma \in Seq(Units) /\ LineEnd \in Seq(Units)
          /\ w \in Seq(Units)
      BY <1>1, <1>2
    <3> QED
      BY <3>1, Regrouped, SMTT(30)
  <2> DEFINE k == Comma \o LineEnd
  <2>2. k \in Seq(Units)
    BY <1>8
  <2> HIDE DEF k
  <2>3. (w \o u) \o k = w \o (u \o k)
    <3>1. w \in Seq(Units) /\ u \in Seq(Units) /\ k \in Seq(Units)
      BY <1>2, <2>2
    <3> QED
      BY <3>1, Regrouped, Zenon
  <2> QED
    BY <1>2, <2>1, <2>3 DEF k
<1> QED
  BY <1>6, <1>7, <1>8, <1>9, <1>10 DEF Open, o, L

LEMMA BinInitially == FromBinAssumption /\ MCInit => BinInv
<1> SUFFICES ASSUME FromBinAssumption, MCInit PROVE BinInv
  OBVIOUS
<1>1. taken = 0 /\ chunk = <<>> /\ todo = Bin!Title /\ out = <<>> /\ stage = "read" /\ cut = FALSE
  BY DEF MCInit, Bin!Init
<1>2. <<>> \in Seq(HexBytes) /\ <<>> \in Seq(Units) /\ Len(<<>>) = 0
  OBVIOUS
<1>3. input \in Seq(HexBytes)
  BY <1>2 DEF MCInit, FromBinAssumption
<1>4. Bin!Title \in Seq(Units) /\ Stripped(Bin!Title, Bin!Opening \o <<>>)
  BY <1>2, OpeningIs, StrippedBoth, ConcatProperties
<1>5. BinType
  <2>1. 0 \in 0..Len(input) /\ Len(input) \in Nat
    BY <1>3, LenProperties
  <2>2. SubSeq(input, 0 - 0 + 1, 0) = <<>>
    BY SubSeqEmpty
  <2> QED
    BY <1>1, <1>2, <1>3, <1>4, <2>1, <2>2 DEF BinType
<1>6. SoFar = <<>>
  <2>1. SubSeq(input, 1, 0) = <<>>
    BY SubSeqEmpty
  <2> QED
    BY <1>1, <1>2, <2>1 DEF SoFar
<1>7. Bin!Listed(<<>>) = <<>>
  <2>1. Bin!Listed(<<>>) \in Seq(Units) /\ Len(Bin!Listed(<<>>)) = 2 * 0
    BY <1>2, ListedIs
  <2> QED
    BY <2>1, EmptySeq
<1>8. Whole = Bin!Title
  BY <1>1, <1>4, ConcatEmptySeq DEF Whole
<1>9. Open(Whole, SoFar)
  BY <1>4, <1>6, <1>7, <1>8 DEF Open
<1> QED
  BY <1>1, <1>5, <1>9 DEF BinInv

LEMMA BinReadKeeps ==
  ASSUME BinInv, NEW n \in Nat, n > 0, Bin!Read(n)
  PROVE  BinInv'
<1>1. /\ stage = "read" /\ stage' = "read" /\ todo = <<>> /\ chunk = <<>> /\ n <= Len(input) - taken
      /\ chunk' = SubSeq(input, taken + 1, taken + n) /\ taken' = taken + n
      /\ UNCHANGED <<input, todo, out, cut>>
  BY DEF Bin!Read
<1>2. BinType
  BY DEF BinInv
<1>3. Len(input) \in Nat /\ taken \in Nat /\ Len(chunk) = 0 /\ input \in Seq(HexBytes)
  BY <1>1, <1>2, SoFarIs DEF BinType
<1>4. chunk' \in Seq(HexBytes) /\ Len(chunk') = n
  <2>1. \A x \in (taken + 1)..(taken + n) : x \in 1..Len(input)
    BY <1>1, <1>3
  <2>2. \A x \in (taken + 1)..(taken + n) : input[x] \in HexBytes
    BY <1>3, <2>1, ElementOfSeq
  <2> DEFINE a == taken + 1
             b == taken + n
  <2>3. a \in Int /\ b \in Int /\ a <= b /\ b - a + 1 = n
    BY <1>3
  <2> HIDE DEF a, b
  <2>4. SubSeq(input, a, b) \in Seq(HexBytes) /\ Len(SubSeq(input, a, b)) = IF a <= b THEN b - a + 1 ELSE 0
    BY <2>2, <2>3, SubSeqProperties DEF a, b
  <2> QED
    BY <1>1, <2>3, <2>4 DEF a, b
<1>5. (taken - Len(chunk) = taken)' = (taken' - n = taken') /\ taken' - n = taken /\ taken - Len(chunk) = taken
  BY <1>1, <1>3, <1>4
<1>6. SoFar' = SoFar /\ Whole' = Whole
  BY <1>1, <1>3, <1>4, <1>5 DEF SoFar, Whole
<1>7. BinType'
  <2>1. taken' \in 0..Len(input) /\ n <= taken'
    BY <1>1, <1>3
  <2> QED
    BY <1>1, <1>2, <1>3, <1>4, <1>5, <2>1 DEF BinType
<1>8. Open(Whole, SoFar)'
  BY <1>1, <1>6 DEF BinInv, Open
<1> QED
  BY <1>1, <1>7, <1>8 DEF BinInv

LEMMA BinReadEndsKeeps ==
  ASSUME BinInv, Bin!ReadEnds
  PROVE  BinInv'
<1>1. /\ stage = "read" /\ stage' = "end" /\ todo = <<>> /\ chunk = <<>>
      /\ cut' \/ taken = Len(input)
      /\ UNCHANGED <<input, taken, chunk, todo, out>>
  BY DEF Bin!ReadEnds
<1>2. BinType' /\ SoFar' = SoFar /\ Whole' = Whole
  BY <1>1 DEF BinInv, BinType, SoFar, Whole
<1>3. Open(Whole, SoFar)'
  BY <1>1, <1>2 DEF BinInv, Open
<1> QED
  BY <1>1, <1>2, <1>3 DEF BinInv

LEMMA LineKeeps ==
  ASSUME FromBinAssumption, BinInv, Bin!Line
  PROVE  BinInv'
<1> DEFINE size == Bin!Least(Len(chunk), LineSize)
           p == SubSeq(chunk, 1, size)
           n == taken - Len(chunk)
<1>1. /\ stage = "read" /\ stage' = "read" /\ todo = <<>> /\ chunk # <<>>
      /\ todo' = Bin!Listed(p) \o LineEnd /\ chunk' = SubSeq(chunk, size + 1, Len(chunk))
      /\ UNCHANGED <<input, taken, out, cut>>
  BY DEF Bin!Line, LineEnd
<1>2. BinType /\ Open(Whole, SoFar)
  BY <1>1 DEF BinInv
<1>3. Len(chunk) \in Nat /\ taken \in Nat /\ Len(chunk) <= taken /\ SoFar \in Seq(HexBytes)
  BY <1>2, SoFarIs DEF BinType
<1>4. size \in 1..Len(chunk)
  <2>1. Len(chunk) # 0
    BY <1>1, <1>2, EmptySeq DEF BinType
  <2> QED
    BY <1>3, <2>1 DEF Bin!Least, FromBinAssumption
<1> HIDE DEF size, n
<1>5. /\ SubSeq(chunk, size + 1, Len(chunk)) = SubSeq(input, n + size + 1, taken)
      /\ p \in Seq(HexBytes) /\ p # <<>>
      /\ SubSeq(chunk, size + 1, Len(chunk)) \in Seq(HexBytes)
      /\ Len(SubSeq(chunk, size + 1, Len(chunk))) = Len(chunk) - size
      /\ SubSeq(input, 1, n + size) = SoFar \o p
  BY <1>2, <1>4, LineTaken DEF n
<1> HIDE DEF p
<1>6. Len(chunk') = Len(chunk) - size /\ chunk' \in Seq(HexBytes)
  BY <1>1, <1>5
<1>7. taken' - Len(chunk') = n + size
  <2>1. taken' = taken /\ Len(chunk') = Len(chunk) - size /\ n = taken - Len(chunk)
    BY <1>1, <1>6 DEF n
  <2>2. taken \in Int /\ Len(chunk) \in Int /\ size \in Int
    BY <1>3, <1>4
  <2> QED
    BY <2>1, <2>2
<1>8. SoFar' = SoFar \o p
  BY <1>1, <1>5, <1>7 DEF SoFar
<1>9. Whole' = Whole \o (Bin!Listed(p) \o LineEnd) /\ Whole \in Seq(Units) /\ todo' \in Seq(Units)
  <2>1. out \in Seq(Units) /\ out \o <<>> = out
    BY <1>2, ConcatEmptySeq DEF BinType
  <2>2. Bin!Listed(p) \o LineEnd \in Seq(Units)
    BY <1>5, ListedIs, OpeningIs, ConcatProperties
  <2> QED
    BY <1>1, <2>1, <2>2 DEF Whole
<1>10. Open(Whole, SoFar)'
  <2>1. Open(Whole \o (Bin!Listed(p) \o LineEnd), SoFar \o p)
    BY <1>2, <1>3, <1>5, <1>9, LineOpen
  <2> QED
    BY <1>8, <1>9, <2>1 DEF Open
<1>11. BinType'
  <2>1. Len(chunk') <= taken'
    BY <1>1, <1>3, <1>4, <1>6
  <2>2. chunk' = SubSeq(input', taken' - Len(chunk') + 1, taken')
    BY <1>1, <1>5, <1>7
  <2> QED
    BY <1>1, <1>2, <1>6, <1>9, <2>1, <2>2 DEF BinType
<1> QED
  BY <1>1, <1>10, <1>11 DEF BinInv

LEMMA WriteKeeps ==
  ASSUME BinInv, NEW n \in 1..Len(todo), Bin!Write(n)
  PROVE  BinInv'
<1> DEFINE a == SubSeq(todo, 1, n)
           b == SubSeq(todo, n + 1, Len(todo))
<1>1. /\ todo # <<>> /\ out' = out \o a /\ todo' = b
      /\ stage' = IF stage = "end" /\ todo' = <<>> THEN "done" ELSE stage
      /\ UNCHANGED <<input, taken, chunk, cut>>
  BY DEF Bin!Write
<1>2. BinType
  BY DEF BinInv
<1>3. out \in Seq(Units) /\ todo \in Seq(Units) /\ Len(todo) \in Nat
  BY <1>2, LenProperties DEF BinType
<1>4. a \in Seq(Units) /\ b \in Seq(Units) /\ a \o b = todo
  <2>1. \A x \in 1..Len(todo) : todo[x] \in Units
    BY <1>3, ElementOfSeq
  <2>2. (\A x \in 1..n : todo[x] \in Units) /\ (\A x \in (n + 1)..Len(todo) : todo[x] \in Units)
    BY <1>3, <2>1
  <2>3. 1 \in Int /\ n \in Int /\ n + 1 \in Int /\ Len(todo) \in Int
    BY <1>3
  <2>4. a \in Seq(Units) /\ b \in Seq(Units)
    BY <2>2, <2>3, SubSeqProperties
  <2>5. 1 \in 1..(Len(todo) + 1) /\ n \in (1 - 1)..Len(todo) /\ Len(todo) \in n..Len(todo)
    BY <1>3
  <2>6. a \o b = SubSeq(todo, 1, Len(todo))
    BY <1>3, <2>5, ConcatAdjacentSubSeq
  <2>7. SubSeq(todo, 1, Len(todo)) = todo
    BY <1>3, SubSeqFull
  <2> QED
    BY <2>4, <2>6, <2>7
<1> HIDE DEF a, b
<1>5. Whole' = Whole /\ out' \in Seq(Units)
  <2>1. (out \o a) \o b = out \o (a \o b) /\ out \o a \in Seq(Units)
    <3>1. out \in Seq(Units) /\ a \in Seq(Units) /\ b \in Seq(Units)
      BY <1>3, <1>4
    <3> QED
      BY <3>1, ConcatAssociative, ConcatProperties
  <2> QED
    BY <1>1, <1>4, <2>1 DEF Whole
<1>6. SoFar' = SoFar
  BY <1>1 DEF SoFar
<1>7. BinType'
  BY <1>1, <1>2, <1>4, <1>5 DEF BinType
<1>8. stage # "done"
  BY <1>1 DEF BinInv
<1>9. CASE stage = "read"
  BY <1>1, <1>5, <1>6, <1>7, <1>9 DEF BinInv, Open
<1>10. CASE stage = "end"
  <2>1. chunk = <<>> /\ (cut \/ taken = Len(input))
        /\ (taken > 0 => Stripped(Whole, Bin!Array(SubSeq(input, 1, taken))))
    BY <1>1, <1>10 DEF BinInv
  <2>2. (taken > 0 => Stripped(Whole, Bin!Array(SubSeq(input, 1, taken))))'
    BY <1>1, <1>5, <2>1 DEF Bin!Array, Bin!Opening, Bin!Listed
  <2>3. (todo' = <<>> /\ stage' = "done") \/ (todo' # <<>> /\ stage' = "end")
    BY <1>1, <1>10
  <2> QED
    BY <1>1, <1>7, <2>1, <2>2, <2>3 DEF BinInv
<1>11. CASE stage = "failed"
  BY <1>1, <1>7, <1>11 DEF BinInv
<1> QED
  BY <1>2, <1>8, <1>9, <1>10, <1>11 DEF BinType

LEMMA WriteFailsKeeps ==
  ASSUME BinInv, Bin!WriteFails
  PROVE  BinInv'
<1>1. /\ stage' = "failed" /\ todo' = <<>>
      /\ UNCHANGED <<input, taken, chunk, out, cut>>
  BY DEF Bin!WriteFails
<1>2. <<>> \in Seq(Units)
  OBVIOUS
<1> QED
  BY <1>1, <1>2 DEF BinInv, BinType

\* What Close writes.
End == <<"\n", "};", "\n">>

LEMMA EndIs == End \in Seq(Units) /\ End # <<>> /\ Stripped(End, Closing)
<1>1. Len(End) = 3 /\ End[1] = "\n" /\ End[2] = "};" /\ End[3] = "\n" /\ End # <<>>
  BY DEF End
<1>2. End \in Seq(Units)
  BY DEF End, Units
<1>3. Kept(End) = {2}
  <2>1. \A x : x \in 1..3 <=> x \in {1, 2, 3}
    OBVIOUS
  <2> QED
    BY <1>1, <2>1 DEF Kept
<1>4. Upto(End, 2) = {2}
  BY <1>3 DEF Upto
<1>5. Cardinality({2}) = 1
  BY FS_Singleton
<1>6. Len(Closing) = 1 /\ Closing[1] = "};"
  BY DEF Closing
<1> QED
  BY <1>1, <1>2, <1>3, <1>4, <1>5, <1>6 DEF Stripped

\* The two units that Close writes over are the last ones.
LEMMA CutOff ==
  ASSUME NEW x \in Seq(Units), NEW w, w = x \o (Comma \o LineEnd)
  PROVE  SubSeq(w, 1, Len(w) - 2) = x
<1> DEFINE k == Comma \o LineEnd
<1>1. k \in Seq(Units) /\ Len(k) = 2
  <2>1. Comma \in Seq(Units) /\ LineEnd \in Seq(Units)
    BY OpeningIs
  <2>2. k \in Seq(Units) /\ Len(k) = Len(Comma) + Len(LineEnd)
    BY <2>1, ConcatProperties
  <2>3. Len(Comma) = 1 /\ Len(LineEnd) = 1
    BY DEF Comma, LineEnd
  <2> QED
    BY <2>2, <2>3
<1> HIDE DEF k
<1>2. Len(x \o k) = Len(x) + Len(k) /\ Len(x) \in Nat
  BY <1>1, ConcatProperties, LenProperties
<1>3. Len(w) - 2 = Len(x)
  BY <1>1, <1>2 DEF k
<1>4. SubSeq(x \o k, 1, Len(x)) = x
  <2>1. CASE x = <<>>
    <3>1. Len(x) = 0
      BY <2>1
    <3>2. SubSeq(x \o k, 1, 0) = <<>>
      BY SubSeqEmpty
    <3> QED
      BY <2>1, <3>1, <3>2
  <2>2. CASE x # <<>>
    <3>1. Len(x) # 0
      BY <2>2, EmptySeq
    <3>2. 1 \in 1..Len(x) /\ Len(x) \in 1..Len(x)
      BY <1>2, <3>1
    <3>3. SubSeq(x \o k, 1, Len(x)) = SubSeq(x, 1, Len(x))
      BY <1>1, <3>2, SubSeqOfConcat1
    <3> QED
      BY <3>3, SubSeqFull
  <2> QED
    BY <2>1, <2>2
<1> QED
  BY <1>3, <1>4 DEF k

LEMMA CloseKeeps ==
  ASSUME BinInv, Bin!Close
  PROVE  BinInv'
<1>1. /\ stage = "end" /\ stage' = "end" /\ todo = <<>>
      /\ out' = SubSeq(out, 1, Len(out) - 2) /\ todo' = End
      /\ UNCHANGED <<input, taken, chunk, cut>>
  BY DEF Bin!Close, End
<1>2. BinType /\ Open(Whole, SoFar) /\ chunk = <<>> /\ (cut \/ taken = Len(input))
  BY <1>1 DEF BinInv
<1>3. out \in Seq(Units) /\ Len(out) \in Nat /\ Whole = out
  BY <1>1, <1>2, LenProperties, ConcatEmptySeq DEF BinType, Whole
<1>4. out' \in Seq(Units)
  <2>1. \A y \in 1..Len(out) : out[y] \in Units
    BY <1>3, ElementOfSeq
  <2>2. \A y \in 1..(Len(out) - 2) : out[y] \in Units
    BY <1>3, <2>1
  <2>3. 1 \in Int /\ Len(out) - 2 \in Int
    BY <1>3
  <2>4. SubSeq(out, 1, Len(out) - 2) \in Seq(Units)
    BY <2>2, <2>3, SubSeqProperties
  <2> QED
    BY <1>1, <2>4
<1>5. BinType'
  BY <1>1, <1>2, <1>4, EndIs DEF BinType
<1>6. ASSUME taken > 0 PROVE Stripped(out' \o End, Bin!Array(SubSeq(input, 1, taken)))
  <2>1. SoFar = SubSeq(input, 1, taken) /\ Len(SoFar) = taken /\ SoFar \in Seq(HexBytes)
    <3>1. Len(chunk) = 0 /\ taken \in Nat
      BY <1>2, SoFarIs
    <3>2. taken - Len(chunk) = taken
      BY <3>1
    <3> QED
      BY <1>2, <3>2, SoFarIs DEF SoFar
  <2>2. SoFar # <<>>
    <3>1. Len(<<>>) = 0
      OBVIOUS
    <3>2. Len(SoFar) = taken
      BY <2>1
    <3> QED
      BY <1>6, <3>1, <3>2
  <2>3. PICK x \in Seq(Units) : out = x \o (Comma \o LineEnd) /\ Stripped(x, Bin!Opening \o Uncommaed(SoFar))
    BY <1>2, <1>3, <2>2 DEF Open
  <2>4. out' = x
    BY <1>1, <2>3, CutOff
  <2> DEFINE t == Bin!Opening \o Uncommaed(SoFar)
  <2>5. t \in Seq(Units) /\ Closing \in Seq(Units)
    BY <2>1, <2>2, OpeningIs, UncommaedIs, ConcatProperties
  <2>6. Bin!Array(SoFar) = t \o Closing
    BY DEF Bin!Array, Uncommaed, Closing
  <2> HIDE DEF t
  <2>7. Stripped(x, t)
    BY <2>3 DEF t
  <2>8. Stripped(x \o End, t \o Closing)
    BY <2>5, <2>7, EndIs, StrippedBoth
  <2> QED
    BY <2>1, <2>4, <2>6, <2>8
<1>7. (taken > 0 => Stripped(Whole, Bin!Array(SubSeq(input, 1, taken))))'
  BY <1>1, <1>6 DEF Whole, Bin!Array, Bin!Opening, Bin!Listed
<1>8. todo' # <<>>
  BY <1>1, EndIs
<1> QED
  BY <1>1, <1>2, <1>5, <1>7, <1>8 DEF BinInv

LEMMA BinPreserved == FromBinAssumption /\ BinInv /\ [Bin!Next]_binVars => BinInv'
<1> SUFFICES ASSUME FromBinAssumption, BinInv, [Bin!Next]_binVars PROVE BinInv'
  OBVIOUS
<1>1. CASE \E n \in 1..BufSize : Bin!Read(n)
  <2>1. PICK n \in 1..BufSize : Bin!Read(n)
    BY <1>1
  <2>2. n \in Nat /\ n > 0
    BY DEF FromBinAssumption
  <2> QED
    BY <2>1, <2>2, BinReadKeeps
<1>2. CASE Bin!ReadEnds
  BY <1>2, BinReadEndsKeeps
<1>3. CASE Bin!Line
  BY <1>3, LineKeeps
<1>4. CASE \E n \in 1..Len(todo) : Bin!Write(n)
  BY <1>4, WriteKeeps
<1>5. CASE Bin!WriteFails
  BY <1>5, WriteFailsKeeps
<1>6. CASE Bin!Close
  BY <1>6, CloseKeeps
<1>7. CASE UNCHANGED binVars
  BY <1>7 DEF BinInv, BinType, Open, SoFar, Whole, binVars, Bin!Array, Bin!Opening, Bin!Listed
<1> QED
  BY <1>1, <1>2, <1>3, <1>4, <1>5, <1>6, <1>7 DEF Bin!Next

\* However read() and write() cut the data, the array that frombin writes has
\* the bytes it has read, each once and in order, a comma between two of them.
THEOREM TheArrayIsRight == MCSpec => []ArrayRight
<1>1. MCInit => BinInv
  BY FromBinAssumption, BinInitially
<1>2. BinInv /\ [MCNext]_MCvars => BinInv'
  <2> SUFFICES ASSUME BinInv, [MCNext]_MCvars PROVE BinInv'
    OBVIOUS
  <2>1. [Bin!Next]_binVars
    BY DEF MCNext, MCvars, Only, binVars
  <2> QED
    BY <2>1, FromBinAssumption, BinPreserved
<1>3. BinInv => ArrayRight
  <2> SUFFICES ASSUME BinInv, stage = "done", taken > 0
               PROVE  /\ cut \/ taken = Len(input)
                      /\ Bin!WithoutLineEnds(out, Bin!Array(SubSeq(input, 1, taken)))
    BY DEF ArrayRight, Bin!ArrayRight
  <2>1. out \in Seq(Units) /\ todo = <<>> /\ (cut \/ taken = Len(input))
        /\ Stripped(Whole, Bin!Array(SubSeq(input, 1, taken)))
    BY DEF BinInv, BinType
  <2>2. Whole = out
    BY <2>1, ConcatEmptySeq DEF Whole
  <2> QED
    BY <2>1, <2>2, StrippedIs
<1> QED
  BY <1>1, <1>2, <1>3, PTL DEF MCSpec

-----------------------------------------------------------------------------
(* The video of har                                                        *)

LEMMA FilmCardinality == \A S : Film!Cardinality(S) = Cardinality(S)
BY DEF Film!Cardinality, Cardinality, Film!IsFiniteSet, IsFiniteSet

\* A bit is what is left of a division by its weight.
LEMMA BitsAre ==
  ASSUME NEW v
  PROVE  /\ Film!Bit(v, 0) = (v \div 128) % 2 /\ Film!Bit(v, 1) = (v \div 64) % 2
         /\ Film!Bit(v, 2) = (v \div 32) % 2 /\ Film!Bit(v, 3) = (v \div 16) % 2
         /\ Film!Bit(v, 4) = (v \div 8) % 2 /\ Film!Bit(v, 5) = (v \div 4) % 2
         /\ Film!Bit(v, 6) = (v \div 2) % 2 /\ Film!Bit(v, 7) = (v \div 1) % 2
<1> DEFINE W == Film!Weights
<1>1. W[0 + 1] = 128 /\ W[1 + 1] = 64 /\ W[2 + 1] = 32 /\ W[3 + 1] = 16
  BY DEF Film!Weights
<1>2. W[4 + 1] = 8 /\ W[5 + 1] = 4 /\ W[6 + 1] = 2 /\ W[7 + 1] = 1
  BY DEF Film!Weights
<1>3. \A b : Film!Bit(v, b) = (v \div W[b + 1]) % 2
  BY Zenon DEF Film!Bit
<1> HIDE DEF W
<1>4. /\ Film!Bit(v, 0) = (v \div W[0 + 1]) % 2 /\ Film!Bit(v, 1) = (v \div W[1 + 1]) % 2
      /\ Film!Bit(v, 2) = (v \div W[2 + 1]) % 2 /\ Film!Bit(v, 3) = (v \div W[3 + 1]) % 2
      /\ Film!Bit(v, 4) = (v \div W[4 + 1]) % 2 /\ Film!Bit(v, 5) = (v \div W[5 + 1]) % 2
      /\ Film!Bit(v, 6) = (v \div W[6 + 1]) % 2 /\ Film!Bit(v, 7) = (v \div W[7 + 1]) % 2
  BY <1>3, Zenon
<1> QED
  BY <1>1, <1>2, <1>4

\* The high bits stay when something is put below them.
LEMMA HighBits ==
  ASSUME NEW v \in 0..255, NEW d \in Nat
  PROVE  /\ v % 4 = 0 /\ d < 4 => \A b \in 0..5 : Film!Bit(v + d, b) = Film!Bit(v, b)
         /\ v % 16 = 0 /\ d < 16 => \A b \in 0..3 : Film!Bit(v + d, b) = Film!Bit(v, b)
         /\ v % 64 = 0 /\ d < 64 => \A b \in 0..1 : Film!Bit(v + d, b) = Film!Bit(v, b)
<1>1. ASSUME v % 4 = 0, d < 4
      PROVE  /\ (v + d) \div 128 = v \div 128 /\ (v + d) \div 64 = v \div 64
             /\ (v + d) \div 32 = v \div 32 /\ (v + d) \div 16 = v \div 16
             /\ (v + d) \div 8 = v \div 8 /\ (v + d) \div 4 = v \div 4
  BY <1>1
<1>2. ASSUME v % 16 = 0, d < 16
      PROVE  /\ (v + d) \div 128 = v \div 128 /\ (v + d) \div 64 = v \div 64
             /\ (v + d) \div 32 = v \div 32 /\ (v + d) \div 16 = v \div 16
  BY <1>2
<1>3. ASSUME v % 64 = 0, d < 64
      PROVE  (v + d) \div 128 = v \div 128 /\ (v + d) \div 64 = v \div 64
  BY <1>3
<1>4. \A b \in 0..5 : b \in {0, 1, 2, 3, 4, 5}
  OBVIOUS
<1>5. \A b \in 0..3 : b \in {0, 1, 2, 3}
  OBVIOUS
<1>6. \A b \in 0..1 : b \in {0, 1}
  OBVIOUS
<1>7. ASSUME v % 4 = 0, d < 4, NEW b \in 0..5 PROVE Film!Bit(v + d, b) = Film!Bit(v, b)
  <2> DEFINE w == v + d
  <2>1. /\ Film!Bit(v, 0) = (v \div 128) % 2 /\ Film!Bit(v, 1) = (v \div 64) % 2
        /\ Film!Bit(v, 2) = (v \div 32) % 2 /\ Film!Bit(v, 3) = (v \div 16) % 2
        /\ Film!Bit(v, 4) = (v \div 8) % 2 /\ Film!Bit(v, 5) = (v \div 4) % 2
    BY BitsAre
  <2>2. /\ Film!Bit(w, 0) = (w \div 128) % 2 /\ Film!Bit(w, 1) = (w \div 64) % 2
        /\ Film!Bit(w, 2) = (w \div 32) % 2 /\ Film!Bit(w, 3) = (w \div 16) % 2
        /\ Film!Bit(w, 4) = (w \div 8) % 2 /\ Film!Bit(w, 5) = (w \div 4) % 2
    BY BitsAre, ZenonT(60)
  <2>3. /\ w \div 128 = v \div 128 /\ w \div 64 = v \div 64
        /\ w \div 32 = v \div 32 /\ w \div 16 = v \div 16
        /\ w \div 8 = v \div 8 /\ w \div 4 = v \div 4
    BY <1>1, <1>7
  <2> HIDE DEF w
  <2> QED
    BY <1>4, <2>1, <2>2, <2>3 DEF w
<1>8. ASSUME v % 16 = 0, d < 16, NEW b \in 0..3 PROVE Film!Bit(v + d, b) = Film!Bit(v, b)
  BY <1>2, <1>5, <1>8, BitsAre
<1>9. ASSUME v % 64 = 0, d < 64, NEW b \in 0..1 PROVE Film!Bit(v + d, b) = Film!Bit(v, b)
  BY <1>3, <1>6, <1>9, BitsAre
<1> QED
  BY <1>7, <1>8, <1>9

\* The six bits of a code where Put puts them.
LEMMA CodeBits ==
  ASSUME NEW c \in 0..63, NEW v \in 0..255
  PROVE  /\ \A b \in 0..5 : Film!Bit(c * 4, b) = Film!Bit(c, b + 2)
         /\ v % 4 = 0 => \A b \in 0..1 : Film!Bit(v + c \div 16, b + 6) = Film!Bit(c, b + 2)
         /\ \A b \in 2..5 : Film!Bit((c % 16) * 16, b - 2) = Film!Bit(c, b + 2)
         /\ v % 16 = 0 => \A b \in 0..3 : Film!Bit(v + c \div 4, b + 4) = Film!Bit(c, b + 2)
         /\ \A b \in 4..5 : Film!Bit((c % 4) * 64, b - 4) = Film!Bit(c, b + 2)
         /\ v % 64 = 0 => \A b \in 0..5 : Film!Bit(v + c, b + 2) = Film!Bit(c, b + 2)
<1> DEFINE f(b) == Film!Bit(c, b)
<1>1. /\ f(2) = (c \div 32) % 2 /\ f(3) = (c \div 16) % 2 /\ f(4) = (c \div 8) % 2
      /\ f(5) = (c \div 4) % 2 /\ f(6) = (c \div 2) % 2 /\ f(7) = (c \div 1) % 2
  BY BitsAre
<1>2. ASSUME NEW b \in 0..5 PROVE Film!Bit(c * 4, b) = Film!Bit(c, b + 2)
  <2>1. b \in {0, 1, 2, 3, 4, 5}
    OBVIOUS
  <2> DEFINE w == c * 4
  <2>2. /\ w \div 128 = c \div 32 /\ w \div 64 = c \div 16 /\ w \div 32 = c \div 8
        /\ w \div 16 = c \div 4 /\ w \div 8 = c \div 2 /\ w \div 4 = c \div 1
    OBVIOUS
  <2>3. /\ Film!Bit(w, 0) = (w \div 128) % 2 /\ Film!Bit(w, 1) = (w \div 64) % 2
        /\ Film!Bit(w, 2) = (w \div 32) % 2 /\ Film!Bit(w, 3) = (w \div 16) % 2
        /\ Film!Bit(w, 4) = (w \div 8) % 2 /\ Film!Bit(w, 5) = (w \div 4) % 2
    BY BitsAre
  <2> HIDE DEF w
  <2> QED
    BY <1>1, <2>1, <2>2, <2>3 DEF w
<1>3. ASSUME v % 4 = 0, NEW b \in 0..1 PROVE Film!Bit(v + c \div 16, b + 6) = Film!Bit(c, b + 2)
  <2>1. b \in {0, 1}
    OBVIOUS
  <2> DEFINE w == v + c \div 16
  <2>2. (w \div 2) % 2 = (c \div 32) % 2 /\ (w \div 1) % 2 = (c \div 16) % 2
    BY <1>3
  <2>3. Film!Bit(w, 6) = (w \div 2) % 2 /\ Film!Bit(w, 7) = (w \div 1) % 2
    BY BitsAre
  <2> HIDE DEF w
  <2> QED
    BY <1>1, <2>1, <2>2, <2>3 DEF w
<1>4. ASSUME NEW b \in 2..5 PROVE Film!Bit((c % 16) * 16, b - 2) = Film!Bit(c, b + 2)
  <2>1. b \in {2, 3, 4, 5}
    OBVIOUS
  <2> DEFINE w == (c % 16) * 16
  <2>2. /\ (w \div 128) % 2 = (c \div 8) % 2 /\ (w \div 64) % 2 = (c \div 4) % 2
        /\ (w \div 32) % 2 = (c \div 2) % 2 /\ (w \div 16) % 2 = (c \div 1) % 2
    OBVIOUS
  <2>3. /\ Film!Bit(w, 0) = (w \div 128) % 2 /\ Film!Bit(w, 1) = (w \div 64) % 2
        /\ Film!Bit(w, 2) = (w \div 32) % 2 /\ Film!Bit(w, 3) = (w \div 16) % 2
    BY BitsAre
  <2> HIDE DEF w
  <2> QED
    BY <1>1, <2>1, <2>2, <2>3 DEF w
<1>5. ASSUME v % 16 = 0, NEW b \in 0..3 PROVE Film!Bit(v + c \div 4, b + 4) = Film!Bit(c, b + 2)
  <2>1. b \in {0, 1, 2, 3}
    OBVIOUS
  <2> DEFINE w == v + c \div 4
  <2>2. /\ (w \div 8) % 2 = (c \div 32) % 2 /\ (w \div 4) % 2 = (c \div 16) % 2
        /\ (w \div 2) % 2 = (c \div 8) % 2 /\ (w \div 1) % 2 = (c \div 4) % 2
    BY <1>5, SMTT(30)
  <2>3. /\ Film!Bit(w, 4) = (w \div 8) % 2 /\ Film!Bit(w, 5) = (w \div 4) % 2
        /\ Film!Bit(w, 6) = (w \div 2) % 2 /\ Film!Bit(w, 7) = (w \div 1) % 2
    BY BitsAre
  <2> HIDE DEF w
  <2> QED
    BY <1>1, <2>1, <2>2, <2>3 DEF w
<1>6. ASSUME NEW b \in 4..5 PROVE Film!Bit((c % 4) * 64, b - 4) = Film!Bit(c, b + 2)
  <2>1. b \in {4, 5}
    OBVIOUS
  <2> DEFINE w == (c % 4) * 64
  <2>2. (w \div 128) % 2 = (c \div 2) % 2 /\ (w \div 64) % 2 = (c \div 1) % 2
    OBVIOUS
  <2>3. Film!Bit(w, 0) = (w \div 128) % 2 /\ Film!Bit(w, 1) = (w \div 64) % 2
    BY BitsAre
  <2> HIDE DEF w
  <2> QED
    BY <1>1, <2>1, <2>2, <2>3 DEF w
<1>7. ASSUME v % 64 = 0, NEW b \in 0..5 PROVE Film!Bit(v + c, b + 2) = Film!Bit(c, b + 2)
  <2>1. b \in {0, 1, 2, 3, 4, 5}
    OBVIOUS
  <2> DEFINE w == v + c
  <2>2. /\ (w \div 32) % 2 = (c \div 32) % 2 /\ (w \div 16) % 2 = (c \div 16) % 2
        /\ (w \div 8) % 2 = (c \div 8) % 2 /\ (w \div 4) % 2 = (c \div 4) % 2
        /\ (w \div 2) % 2 = (c \div 2) % 2 /\ (w \div 1) % 2 = (c \div 1) % 2
    BY <1>7
  <2>3. /\ Film!Bit(w, 2) = (w \div 32) % 2 /\ Film!Bit(w, 3) = (w \div 16) % 2
        /\ Film!Bit(w, 4) = (w \div 8) % 2 /\ Film!Bit(w, 5) = (w \div 4) % 2
        /\ Film!Bit(w, 6) = (w \div 2) % 2 /\ Film!Bit(w, 7) = (w \div 1) % 2
    BY BitsAre
  <2> HIDE DEF w
  <2> QED
    BY <1>1, <2>1, <2>2, <2>3 DEF w
<1> QED
  BY <1>2, <1>3, <1>4, <1>5, <1>6, <1>7

LEMMA CodeIs == \A c : c \in Film!Coded => Film!Code(c) \in 0..63
<1>1. ASSUME NEW c, c \in Film!Coded PROVE Film!Code(c) \in 0..63
  <2>1. \/ c \in 65..90 \/ c \in 97..122 \/ c \in 48..57
        \/ c = 43 \/ c = 95 \/ c = 47 \/ c = 45 \/ c = 61
    BY <1>1 DEF Film!Coded
  <2>2. CASE c \in 65..90
    BY <2>2 DEF Film!Code
  <2>3. CASE c \in 97..122
    BY <2>3 DEF Film!Code
  <2>4. CASE c \in 48..57
    BY <2>4 DEF Film!Code
  <2>5. CASE c = 43
    BY <2>5 DEF Film!Code
  <2>6. CASE c = 95
    BY <2>6 DEF Film!Code
  <2>7. CASE c = 47
    BY <2>7 DEF Film!Code
  <2>8. CASE c = 45
    BY <2>8 DEF Film!Code
  <2>9. CASE c = 61
    BY <2>9 DEF Film!Code
  <2> QED
    BY <2>1, <2>2, <2>3, <2>4, <2>5, <2>6, <2>7, <2>8, <2>9
<1> QED
  BY <1>1

\* Codes up to a place of a text, the padding included.
CodeRank(t, x) == Film!Cardinality({y \in Film!Places(t) : y <= x})

\* A character more of a text is a code more of it, or it is not a code.
LEMMA RankStep ==
  ASSUME NEW t \in Seq(Int), NEW x \in 0..(Len(t) - 1)
  PROVE  /\ t[x + 1] \in Film!Coded => CodeRank(t, x + 1) = CodeRank(t, x) + 1
         /\ t[x + 1] \notin Film!Coded => CodeRank(t, x + 1) = CodeRank(t, x)
<1> DEFINE T == {y \in Film!Places(t) : y <= x}
           U == {y \in Film!Places(t) : y <= x + 1}
<1>1. Len(t) \in Nat /\ DOMAIN t = 1..Len(t) /\ x \in Nat
  BY LenProperties
<1>2. Film!Places(t) = {y \in 1..Len(t) : t[y] \in Film!Coded}
  BY <1>1 DEF Film!Places
<1>3. T \subseteq 1..x
  BY <1>1, <1>2
<1>4. t[x + 1] \in Film!Coded => U = T \cup {x + 1}
  BY <1>1, <1>2
<1>5. t[x + 1] \notin Film!Coded => U = T
  BY <1>1, <1>2
<1>6. CodeRank(t, x) = Cardinality(T) /\ CodeRank(t, x + 1) = Cardinality(U)
  BY FilmCardinality DEF CodeRank
<1> HIDE DEF T, U
<1>7. Cardinality(T \cup {x + 1}) = Cardinality(T) + 1
  <2>1. IsFiniteSet(1..x)
    BY <1>1, FS_Interval
  <2>2. IsFiniteSet(T)
    BY <1>3, <2>1, FS_Subset
  <2>3. x + 1 \notin T
    BY <1>1, <1>3
  <2> QED
    BY <2>2, <2>3, FS_AddElement, Zenon
<1> QED
  BY <1>4, <1>5, <1>6, <1>7

LEMMA RankIs ==
  ASSUME NEW t \in Seq(Int)
  PROVE  /\ \A x \in 0..Len(t) : CodeRank(t, x) \in Nat
         /\ \A x \in 0..Len(t), y \in 0..Len(t) : x <= y => CodeRank(t, x) <= CodeRank(t, y)
         /\ \A x \in Film!Places(t) : x \in 1..Len(t) /\ CodeRank(t, x) \in Nat \ {0}
         /\ CodeRank(t, 0) = 0
         /\ CodeRank(t, Len(t)) = Film!Cardinality(Film!Places(t))
<1> DEFINE T(x) == {y \in Film!Places(t) : y <= x}
<1>1. Len(t) \in Nat /\ DOMAIN t = 1..Len(t)
  BY LenProperties
<1>2. Film!Places(t) = {y \in 1..Len(t) : t[y] \in Film!Coded}
  BY <1>1 DEF Film!Places
<1>3. \A x : CodeRank(t, x) = Cardinality(T(x))
  BY FilmCardinality DEF CodeRank
<1>4. IsFiniteSet(1..Len(t))
  BY <1>1, FS_Interval
<1>5. \A x : T(x) \subseteq 1..Len(t)
  BY <1>1, <1>2
<1> HIDE DEF T
<1>6. \A x : IsFiniteSet(T(x)) /\ Cardinality(T(x)) \in Nat
  BY <1>4, <1>5, FS_Subset, FS_CardinalityType
<1>7. ASSUME NEW x \in 0..Len(t), NEW y \in 0..Len(t), x <= y
      PROVE  CodeRank(t, x) <= CodeRank(t, y)
  <2>1. T(x) \subseteq T(y)
    BY <1>1, <1>2, <1>7 DEF T
  <2>2. Cardinality(T(x)) <= Cardinality(T(y))
    BY <1>6, <2>1, FS_Subset
  <2> QED
    BY <1>3, <2>2
<1>8. ASSUME NEW x \in Film!Places(t)
      PROVE  x \in 1..Len(t) /\ CodeRank(t, x) \in Nat \ {0}
  <2>1. x \in T(x) /\ x \in 1..Len(t)
    BY <1>1, <1>2 DEF T
  <2>2. Cardinality(T(x)) # 0
    BY <1>6, <2>1, FS_EmptySet
  <2> QED
    BY <1>3, <1>6, <2>1, <2>2
<1>9. T(0) = {}
  BY <1>1, <1>2 DEF T
<1>10. T(Len(t)) = Film!Places(t)
  BY <1>1, <1>2 DEF T
<1>11. CodeRank(t, 0) = 0
  BY <1>3, <1>9, FS_EmptySet
<1>12. CodeRank(t, Len(t)) = Film!Cardinality(Film!Places(t))
  BY <1>3, <1>10, FilmCardinality
<1> QED
  BY <1>3, <1>6, <1>7, <1>8, <1>11, <1>12

\* The last member of a sequence is another one, and one more may follow.
Replaced(w, o, u) ==
  /\ w \in Seq(Int) /\ Len(w) = Len(o) /\ w[Len(o)] = u
  /\ \A k \in 1..(Len(o) - 1) : w[k] = o[k]
AndMore(w, o, u, v) ==
  /\ w \in Seq(Int) /\ Len(w) = Len(o) + 1 /\ w[Len(o)] = u /\ w[Len(o) + 1] = v
  /\ \A k \in 1..(Len(o) - 1) : w[k] = o[k]

LEMMA FrontAnd ==
  ASSUME NEW s \in Seq(Int), s # <<>>, NEW u, NEW v, u \in Int, v \in Int
  PROVE  /\ Replaced(SubSeq(s, 1, Len(s) - 1) \o <<u>>, s, u)
         /\ AndMore(SubSeq(s, 1, Len(s) - 1) \o <<u, v>>, s, u, v)
<1>1. Len(s) \in Nat /\ Len(s) # 0
  BY EmptySeq, LenProperties
<1> DEFINE f == SubSeq(s, 1, Len(s) - 1)
<1>2. f \in Seq(Int) /\ Len(f) = Len(s) - 1 /\ \A k \in 1..(Len(s) - 1) : f[k] = s[k]
  <2>1. 1 \in Int /\ Len(s) - 1 \in Int /\ \A x \in 1..(Len(s) - 1) : x \in 1..Len(s)
    BY <1>1
  <2>2. \A x \in 1..(Len(s) - 1) : s[x] \in Int
    BY <2>1, ElementOfSeq
  <2>3. /\ f \in Seq(Int)
        /\ Len(f) = IF 1 <= Len(s) - 1 THEN Len(s) - 1 - 1 + 1 ELSE 0
        /\ \A x \in 1..(Len(s) - 1 - 1 + 1) : f[x] = s[1 + x - 1]
    BY <2>1, <2>2, SubSeqProperties
  <2> HIDE DEF f
  <2>4. ASSUME NEW k \in 1..(Len(s) - 1) PROVE f[k] = s[k]
    <3>1. k \in 1..(Len(s) - 1 - 1 + 1) /\ 1 + k - 1 = k
      BY <1>1
    <3>2. f[k] = s[1 + k - 1]
      BY <2>3, <3>1
    <3> QED
      BY <3>1, <3>2
  <2> DEFINE l == Len(s)
  <2>5. Len(f) = IF 1 <= l - 1 THEN l - 1 - 1 + 1 ELSE 0
    BY <2>3
  <2>6. l \in Nat /\ l # 0
    BY <1>1
  <2> HIDE DEF l
  <2>7. Len(f) = l - 1
    BY <2>5, <2>6
  <2>8. Len(f) = Len(s) - 1
    BY <2>7 DEF l
  <2> QED
    BY <2>3, <2>4, <2>8
<1> HIDE DEF f
<1>3. <<u>> \in Seq(Int) /\ Len(<<u>>) = 1 /\ <<u>>[1] = u
  OBVIOUS
<1>4. <<u, v>> \in Seq(Int) /\ Len(<<u, v>>) = 2 /\ <<u, v>>[1] = u /\ <<u, v>>[2] = v
  OBVIOUS
<1>5. /\ f \o <<u>> \in Seq(Int) /\ Len(f \o <<u>>) = Len(f) + 1
      /\ \A k \in 1..Len(f) : (f \o <<u>>)[k] = f[k]
      /\ (f \o <<u>>)[Len(f) + 1] = u
  <2> DEFINE w == <<u>>
  <2>1. w \in Seq(Int) /\ Len(w) = 1 /\ w[1] = u
    BY <1>3
  <2> HIDE DEF w
  <2>2. /\ f \o w \in Seq(Int) /\ Len(f \o w) = Len(f) + Len(w)
        /\ \A k \in 1..Len(f) : (f \o w)[k] = f[k]
        /\ \A k \in 1..Len(w) : (f \o w)[Len(f) + k] = w[k]
    <3>1. f \in Seq(Int) /\ w \in Seq(Int)
      BY <1>2, <2>1
    <3> QED
      BY <3>1, ConcatIs
  <2>3. 1 \in 1..Len(w)
    BY <2>1
  <2> QED
    BY <2>1, <2>2, <2>3 DEF w
<1>6. /\ f \o <<u, v>> \in Seq(Int) /\ Len(f \o <<u, v>>) = Len(f) + 2
      /\ \A k \in 1..Len(f) : (f \o <<u, v>>)[k] = f[k]
      /\ (f \o <<u, v>>)[Len(f) + 1] = u /\ (f \o <<u, v>>)[Len(f) + 2] = v
  <2> DEFINE w == <<u, v>>
  <2>1. w \in Seq(Int) /\ Len(w) = 2 /\ w[1] = u /\ w[2] = v
    BY <1>4
  <2> HIDE DEF w
  <2>2. /\ f \o w \in Seq(Int) /\ Len(f \o w) = Len(f) + Len(w)
        /\ \A k \in 1..Len(f) : (f \o w)[k] = f[k]
        /\ \A k \in 1..Len(w) : (f \o w)[Len(f) + k] = w[k]
    <3>1. f \in Seq(Int) /\ w \in Seq(Int)
      BY <1>2, <2>1
    <3> QED
      BY <3>1, ConcatIs
  <2>3. 1 \in 1..Len(w) /\ 2 \in 1..Len(w)
    BY <2>1
  <2> QED
    BY <2>1, <2>2, <2>3 DEF w
<1>7. Len(f) + 1 = Len(s) /\ Len(f) + 2 = Len(s) + 1 /\ 1..Len(f) = 1..(Len(s) - 1)
  BY <1>1, <1>2
<1>8. Replaced(f \o <<u>>, s, u)
  <2> DEFINE w == f \o <<u>>
  <2> HIDE DEF w
  <2>1. w \in Seq(Int) /\ Len(w) = Len(s) /\ w[Len(s)] = u
    BY <1>1, <1>5, <1>7 DEF w
  <2> QED
    BY <1>2, <1>5, <1>7, <2>1 DEF w, Replaced
<1>9. AndMore(f \o <<u, v>>, s, u, v)
  <2> DEFINE w == f \o <<u, v>>
  <2> HIDE DEF w
  <2>1. w \in Seq(Int) /\ Len(w) = Len(s) + 1 /\ w[Len(s)] = u /\ w[Len(s) + 1] = v
    BY <1>1, <1>6, <1>7 DEF w
  <2> QED
    BY <1>2, <1>6, <1>7, <2>1 DEF w, AndMore
<1> QED
  BY <1>8, <1>9 DEF f

\* What the bits that are still open in the last byte say of it.
LastOpen(v, open) ==
  open # 0 => /\ v \in 0..255
              /\ open = 6 => v % 4 = 0
              /\ open = 4 => v % 16 = 0
              /\ open = 2 => v % 64 = 0

\* n codes are in the bytes.
Holds(o, n) ==
  /\ o \in Seq(Int) /\ Len(o) = ((6 * n) \div 8) + 1
  /\ \A k \in 1..(Len(o) - 1) : o[k] \in 0..255
  /\ LastOpen(o[Len(o)], (6 * n) % 8)

BitOf(o, p) == Film!Bit(o[(p \div 8) + 1], p % 8)

\* Where a bit of the last byte is, and of the one behind it.
LEMMA LastBits ==
  ASSUME NEW o, NEW l \in Nat \ {0}, NEW e \in 0..15
  PROVE  /\ e < 8 => BitOf(o, 8 * (l - 1) + e) = Film!Bit(o[l], e)
         /\ e >= 8 => BitOf(o, 8 * (l - 1) + e) = Film!Bit(o[l + 1], e - 8)
<1> DEFINE p == 8 * (l - 1) + e
<1>1. e < 8 => (p \div 8) + 1 = l /\ p % 8 = e
  OBVIOUS
<1>2. e >= 8 => (p \div 8) + 1 = l + 1 /\ p % 8 = e - 8
  OBVIOUS
<1>3. BitOf(o, p) = Film!Bit(o[(p \div 8) + 1], p % 8)
  BY Zenon DEF BitOf
<1> HIDE DEF p
<1>4. e < 8 => BitOf(o, p) = Film!Bit(o[l], e)
  BY <1>1, <1>3
<1>5. e >= 8 => BitOf(o, p) = Film!Bit(o[l + 1], e - 8)
  BY <1>2, <1>3
<1> QED
  BY <1>4, <1>5 DEF p

\* The bits before stay when the bytes before do and the high bits of the last.
LEMMA OldBits ==
  ASSUME NEW o, NEW w, NEW l \in Nat \ {0}, NEW u \in 0..7,
         \A k \in 1..(l - 1) : w[k] = o[k],
         \A e \in 0..(u - 1) : Film!Bit(w[l], e) = Film!Bit(o[l], e)
  PROVE  \A p \in 0..(8 * (l - 1) + u - 1) : BitOf(w, p) = BitOf(o, p)
<1> SUFFICES ASSUME NEW p \in 0..(8 * (l - 1) + u - 1) PROVE BitOf(w, p) = BitOf(o, p)
  OBVIOUS
<1>1. CASE p < 8 * (l - 1)
  <2>1. (p \div 8) + 1 \in 1..(l - 1)
    BY <1>1
  <2>2. w[(p \div 8) + 1] = o[(p \div 8) + 1]
    BY <2>1
  <2> QED
    BY <2>2, Zenon DEF BitOf
<1>2. CASE ~(p < 8 * (l - 1))
  <2> DEFINE e == p - 8 * (l - 1)
  <2>1. e \in 0..(u - 1) /\ e \in 0..15 /\ e < 8 /\ p = 8 * (l - 1) + e
    BY <1>2
  <2> HIDE DEF e
  <2>2. BitOf(w, 8 * (l - 1) + e) = Film!Bit(w[l], e)
    BY <2>1, LastBits
  <2>3. BitOf(o, 8 * (l - 1) + e) = Film!Bit(o[l], e)
    BY <2>1, LastBits
  <2>4. Film!Bit(w[l], e) = Film!Bit(o[l], e)
    BY <2>1
  <2> QED
    BY <2>1, <2>2, <2>3, <2>4
<1> QED
  BY <1>1, <1>2

\* Where n codes end, and where one code more does.
LEMMA CodesEnd ==
  ASSUME NEW n \in Nat
  PROVE  LET u == (6 * n) % 8
             l == ((6 * n) \div 8) + 1
         IN  /\ u \in {0, 2, 4, 6} /\ l \in Nat \ {0} /\ 6 * n = 8 * (l - 1) + u
             /\ u = 0 => (6 * (n + 1)) % 8 = 6 /\ ((6 * (n + 1)) \div 8) + 1 = l
             /\ u = 6 => (6 * (n + 1)) % 8 = 4 /\ ((6 * (n + 1)) \div 8) + 1 = l + 1
             /\ u = 4 => (6 * (n + 1)) % 8 = 2 /\ ((6 * (n + 1)) \div 8) + 1 = l + 1
             /\ u = 2 => (6 * (n + 1)) % 8 = 0 /\ ((6 * (n + 1)) \div 8) + 1 = l + 1
<1> DEFINE u == (6 * n) % 8
           q == (6 * n) \div 8
           m == 6 * (n + 1)
<1>1. q \in Nat /\ u \in 0..7 /\ 6 * n = 8 * q + u
  OBVIOUS
<1>2. m = 8 * q + u + 6 /\ m \in Nat
  BY <1>1
<1>3. u = 2 * (3 * n - 4 * q)
  BY <1>1
<1> HIDE DEF u, q, m
<1>4. u \in {0, 2, 4, 6}
  <2>1. 3 * n - 4 * q \in Int
    BY <1>1
  <2> QED
    BY <1>1, <1>3, <2>1
<1>5. /\ u = 0 => m % 8 = 6 /\ (m \div 8) + 1 = q + 1
      /\ u = 6 => m % 8 = 4 /\ (m \div 8) + 1 = q + 1 + 1
      /\ u = 4 => m % 8 = 2 /\ (m \div 8) + 1 = q + 1 + 1
      /\ u = 2 => m % 8 = 0 /\ (m \div 8) + 1 = q + 1 + 1
  BY <1>1, <1>2
<1>6. 6 * n = 8 * (q + 1 - 1) + u /\ q + 1 \in Nat \ {0}
  BY <1>1, <1>4
<1> QED
  BY <1>4, <1>5, <1>6 DEF u, q, m

\* The bytes w hold what o does and the code c behind it.
Taken(w, o, n, c) ==
  /\ Holds(w, n + 1)
  /\ \A p \in 0..(6 * n - 1) : BitOf(w, p) = BitOf(o, p)
  /\ \A b \in 0..5 : BitOf(w, 6 * n + b) = Film!Bit(c, b + 2)

\* A byte is replaced, and there is room in it for more.
LEMMA OneByte ==
  ASSUME NEW n \in Nat, NEW o, Holds(o, n), NEW c \in 0..63, (6 * n) % 8 = 0,
         NEW w \in Seq(Int), Len(w) = Len(o), w[Len(o)] = c * 4,
         \A k \in 1..(Len(o) - 1) : w[k] = o[k]
  PROVE  Taken(w, o, n, c)
<1> DEFINE l == Len(o)
           v == c * 4
<1>1. l = ((6 * n) \div 8) + 1 /\ \A k \in 1..(l - 1) : o[k] \in 0..255
  BY DEF Holds
<1>2. v \in 0..255 /\ v % 4 = 0
  OBVIOUS
<1>3. \A b \in 0..5 : Film!Bit(v, b) = Film!Bit(c, b + 2)
  <2>1. 0 \in 0..255
    OBVIOUS
  <2> QED
    BY <2>1, CodeBits, ZenonT(60)
<1> HIDE DEF v
<1>4. Len(w) = l /\ w[l] = v /\ \A k \in 1..(l - 1) : w[k] = o[k]
  BY DEF v
<1> HIDE DEF l
<1>5. /\ l \in Nat \ {0} /\ 6 * n = 8 * (l - 1)
      /\ (6 * (n + 1)) % 8 = 6 /\ ((6 * (n + 1)) \div 8) + 1 = l
  BY <1>1, CodesEnd
<1>6. Holds(w, n + 1)
  <2>1. \A k \in 1..(l - 1) : w[k] \in 0..255
    BY <1>1, <1>4
  <2>2. LastOpen(v, 6)
    BY <1>2 DEF LastOpen
  <2> QED
    BY <1>4, <1>5, <2>1, <2>2 DEF Holds
<1>7. \A p \in 0..(6 * n - 1) : BitOf(w, p) = BitOf(o, p)
  <2>1. 0 \in 0..7 /\ \A e \in 0..(0 - 1) : Film!Bit(w[l], e) = Film!Bit(o[l], e)
    OBVIOUS
  <2>2. \A p \in 0..(8 * (l - 1) + 0 - 1) : BitOf(w, p) = BitOf(o, p)
    BY <1>4, <1>5, <2>1, OldBits
  <2> QED
    BY <1>5, <2>2
<1>8. ASSUME NEW b \in 0..5 PROVE BitOf(w, 6 * n + b) = Film!Bit(c, b + 2)
  <2>1. b \in 0..15 /\ b < 8
    OBVIOUS
  <2>2. BitOf(w, 8 * (l - 1) + b) = Film!Bit(w[l], b)
    BY <1>5, <2>1, LastBits
  <2> QED
    BY <1>3, <1>4, <1>5, <2>2
<1> QED
  BY <1>6, <1>7, <1>8 DEF Taken

\* The byte is filled, and another one follows.
LEMMA TwoBytes ==
  ASSUME NEW n \in Nat, NEW o, Holds(o, n), NEW c \in 0..63,
         NEW u, u = (6 * n) % 8, u # 0,
         NEW v \in 0..255, NEW v2 \in Int,
         NEW w \in Seq(Int), Len(w) = Len(o) + 1, w[Len(o)] = v, w[Len(o) + 1] = v2,
         \A k \in 1..(Len(o) - 1) : w[k] = o[k],
         \A e \in 0..(u - 1) : Film!Bit(v, e) = Film!Bit(o[Len(o)], e),
         \A b \in 0..5 : u + b < 8 => Film!Bit(v, u + b) = Film!Bit(c, b + 2),
         \A b \in 0..5 : u + b >= 8 => Film!Bit(v2, u + b - 8) = Film!Bit(c, b + 2),
         LastOpen(v2, (6 * (n + 1)) % 8)
  PROVE  Taken(w, o, n, c)
<1> DEFINE l == Len(o)
<1>1. l = ((6 * n) \div 8) + 1 /\ \A k \in 1..(l - 1) : o[k] \in 0..255
  BY DEF Holds
<1>2. /\ Len(w) = l + 1 /\ w[l] = v /\ w[l + 1] = v2 /\ \A k \in 1..(l - 1) : w[k] = o[k]
      /\ \A e \in 0..(u - 1) : Film!Bit(v, e) = Film!Bit(o[l], e)
      /\ \A b \in 0..5 : u + b < 8 => Film!Bit(v, u + b) = Film!Bit(c, b + 2)
      /\ \A b \in 0..5 : u + b >= 8 => Film!Bit(v2, u + b - 8) = Film!Bit(c, b + 2)
  OBVIOUS
<1>3. u = (6 * n) % 8 /\ u # 0
  OBVIOUS
<1> HIDE DEF l
<1>4. /\ l \in Nat \ {0} /\ 6 * n = 8 * (l - 1) + u /\ u \in {2, 4, 6}
      /\ ((6 * (n + 1)) \div 8) + 1 = l + 1
  BY <1>1, <1>3, CodesEnd
<1>5. Holds(w, n + 1)
  <2>1. ASSUME NEW k \in 1..l PROVE w[k] \in 0..255
    <3>1. k \in 1..(l - 1) \/ k = l
      BY <1>4
    <3> QED
      BY <1>1, <1>2, <3>1
  <2>2. \A k \in 1..(Len(w) - 1) : w[k] \in 0..255
    BY <1>2, <1>4, <2>1
  <2>3. Len(w) = ((6 * (n + 1)) \div 8) + 1 /\ w[Len(w)] = v2
    BY <1>2, <1>4
  <2>4. LastOpen(w[Len(w)], (6 * (n + 1)) % 8)
    BY <2>3, Zenon
  <2> QED
    BY <2>2, <2>3, <2>4, Zenon DEF Holds
<1>6. \A p \in 0..(6 * n - 1) : BitOf(w, p) = BitOf(o, p)
  <2>1. u \in 0..7 /\ \A e \in 0..(u - 1) : Film!Bit(w[l], e) = Film!Bit(o[l], e)
    BY <1>2, <1>4
  <2>2. \A p \in 0..(8 * (l - 1) + u - 1) : BitOf(w, p) = BitOf(o, p)
    BY <1>2, <1>4, <2>1, OldBits, ZenonT(60)
  <2> QED
    BY <1>4, <2>2
<1>7. ASSUME NEW b \in 0..5 PROVE BitOf(w, 6 * n + b) = Film!Bit(c, b + 2)
  <2> DEFINE z == u + b
  <2>1. z \in 0..15 /\ 6 * n + b = 8 * (l - 1) + z
    BY <1>4
  <2>2. /\ z < 8 => Film!Bit(v, z) = Film!Bit(c, b + 2)
        /\ z >= 8 => Film!Bit(v2, z - 8) = Film!Bit(c, b + 2)
    <3>1. u + b < 8 => Film!Bit(v, u + b) = Film!Bit(c, b + 2)
      BY <1>2
    <3>2. u + b >= 8 => Film!Bit(v2, u + b - 8) = Film!Bit(c, b + 2)
      BY <1>2
    <3> QED
      BY <3>1, <3>2
  <2> HIDE DEF z
  <2>3. /\ z < 8 => BitOf(w, 8 * (l - 1) + z) = Film!Bit(w[l], z)
        /\ z >= 8 => BitOf(w, 8 * (l - 1) + z) = Film!Bit(w[l + 1], z - 8)
    <3>1. l \in Nat \ {0} /\ z \in 0..15
      BY <1>4, <2>1, Zenon
    <3> QED
      BY <3>1, LastBits, ZenonT(60)
  <2>4. z < 8 \/ z >= 8
    BY <2>1
  <2> QED
    BY <1>2, <2>1, <2>2, <2>3, <2>4, Zenon
<1> QED
  BY <1>5, <1>6, <1>7 DEF Taken

LEMMA PutIs ==
  ASSUME NEW o \in Seq(Int), o # <<>>, o[Len(o)] \in Int, NEW c \in 0..63
  PROVE  /\ prefix = 0 => Replaced(Film!Put(c, o), o, c * 4)
         /\ prefix = 6 => AndMore(Film!Put(c, o), o, o[Len(o)] + c \div 16, (c % 16) * 16)
         /\ prefix = 4 => AndMore(Film!Put(c, o), o, o[Len(o)] + c \div 4, (c % 4) * 64)
         /\ prefix = 2 => AndMore(Film!Put(c, o), o, o[Len(o)] + c, Film!Old)
<1> DEFINE f == SubSeq(o, 1, Len(o) - 1)
           last == o[Len(o)]
           w == Film!Put(c, o)
<1>1. ASSUME prefix = 0 PROVE w = f \o <<c * 4>>
  BY <1>1 DEF Film!Put
<1>2. ASSUME prefix = 6 PROVE w = f \o <<last + c \div 16, (c % 16) * 16>>
  BY <1>2 DEF Film!Put
<1>3. ASSUME prefix = 4 PROVE w = f \o <<last + c \div 4, (c % 4) * 64>>
  BY <1>3 DEF Film!Put
<1>4. ASSUME prefix = 2 PROVE w = f \o <<last + c, Film!Old>>
  BY <1>4 DEF Film!Put
<1>5. /\ c * 4 \in Int /\ last + c \div 16 \in Int /\ (c % 16) * 16 \in Int
      /\ last + c \div 4 \in Int /\ (c % 4) * 64 \in Int /\ last + c \in Int
      /\ Film!Old \in Int
  BY DEF Film!Old
<1>6. /\ Replaced(f \o <<c * 4>>, o, c * 4)
      /\ AndMore(f \o <<last + c \div 16, (c % 16) * 16>>, o, last + c \div 16, (c % 16) * 16)
      /\ AndMore(f \o <<last + c \div 4, (c % 4) * 64>>, o, last + c \div 4, (c % 4) * 64)
      /\ AndMore(f \o <<last + c, Film!Old>>, o, last + c, Film!Old)
  BY <1>5, FrontAnd, Zenon
<1> QED
  BY <1>1, <1>2, <1>3, <1>4, <1>6, Zenon

\* What Put puts into a byte is one, and there is room for it.
LEMMA PartsAre ==
  ASSUME NEW c \in 0..63
  PROVE  /\ c \div 16 \in 0..3 /\ c \div 4 \in 0..15
         /\ (c % 16) * 16 \in 0..255 /\ ((c % 16) * 16) % 16 = 0
         /\ (c % 4) * 64 \in 0..255 /\ ((c % 4) * 64) % 64 = 0
<1>1. c \div 16 \in 0..3 /\ c \div 4 \in 0..15
  OBVIOUS
<1>2. (c % 16) * 16 \in 0..255 /\ ((c % 16) * 16) % 16 = 0
  OBVIOUS
<1>3. (c % 4) * 64 \in 0..255 /\ ((c % 4) * 64) % 64 = 0
  OBVIOUS
<1> QED
  BY <1>1, <1>2, <1>3

LEMMA RoomIs ==
  ASSUME NEW v \in 0..255
  PROVE  /\ v % 4 = 0 => v \in 0..252
         /\ v % 16 = 0 => v \in 0..240
         /\ v % 64 = 0 => v \in 0..192
<1>1. v % 4 = 0 => v <= 252
  OBVIOUS
<1>2. v % 16 = 0 => v <= 240
  OBVIOUS
<1>3. v % 64 = 0 => v <= 192
  OBVIOUS
<1> QED
  BY <1>1, <1>2, <1>3

\* What Put makes of the bytes of n codes.
LEMMA PutTakes ==
  ASSUME NEW n \in Nat, NEW o, Holds(o, n), prefix = (6 * n) % 8, NEW c \in 0..63
  PROVE  Taken(Film!Put(c, o), o, n, c)
<1> DEFINE l == Len(o)
           last == o[l]
           w == Film!Put(c, o)
<1>1. /\ o \in Seq(Int) /\ l = ((6 * n) \div 8) + 1 /\ LastOpen(last, prefix)
  BY DEF Holds
<1>2. prefix \in {0, 2, 4, 6} /\ l \in Nat \ {0}
  BY <1>1, CodesEnd
<1>3. o # <<>> /\ last \in Int
  <2>1. Len(<<>>) = 0
    BY EmptySeq
  <2>2. l \in 1..Len(o)
    BY <1>2
  <2> QED
    BY <1>1, <1>2, <2>1, <2>2, ElementOfSeq
<1>4. /\ prefix = 0 => Replaced(w, o, c * 4)
      /\ prefix = 6 => AndMore(w, o, last + c \div 16, (c % 16) * 16)
      /\ prefix = 4 => AndMore(w, o, last + c \div 4, (c % 4) * 64)
      /\ prefix = 2 => AndMore(w, o, last + c, Film!Old)
  BY <1>1, <1>3, PutIs
<1>5. CASE prefix = 0
  <2>1. Replaced(w, o, c * 4) /\ (6 * n) % 8 = 0
    BY <1>4, <1>5
  <2> HIDE DEF w
  <2> QED
    BY <1>1, <2>1, OneByte, Zenon DEF Replaced, w
<1>6. \A v \in 0..255, v2 \in Int :
         /\ AndMore(w, o, v, v2) /\ prefix # 0
         /\ \A e \in 0..(prefix - 1) : Film!Bit(v, e) = Film!Bit(last, e)
         /\ \A b \in 0..5 : prefix + b < 8 => Film!Bit(v, prefix + b) = Film!Bit(c, b + 2)
         /\ \A b \in 0..5 : prefix + b >= 8 => Film!Bit(v2, prefix + b - 8) = Film!Bit(c, b + 2)
         /\ LastOpen(v2, (6 * (n + 1)) % 8)
         => Taken(w, o, n, c)
  <2> HIDE DEF w
  <2> QED
    BY TwoBytes, ZenonT(60) DEF AndMore
<1> HIDE DEF w, l, last
<1>7. CASE prefix = 6
  <2> DEFINE v == last + c \div 16
             v2 == (c % 16) * 16
  <2>1. last \in 0..255 /\ last % 4 = 0
    BY <1>1, <1>7 DEF LastOpen
  <2>2. v \in 0..255 /\ v2 \in 0..255 /\ v2 % 16 = 0 /\ c \div 16 \in Nat /\ c \div 16 < 4
    <3>1. c \div 16 \in 0..3
      BY PartsAre
    <3>2. last \in 0..252
      BY <2>1, RoomIs
    <3>3. v \in 0..255
      BY <3>1, <3>2
    <3>4. v2 \in 0..255 /\ v2 % 16 = 0
      BY PartsAre
    <3> QED
      BY <3>1, <3>3, <3>4
  <2>3. \A e \in 0..5 : Film!Bit(v, e) = Film!Bit(last, e)
    BY <2>1, <2>2, HighBits
  <2>4. \A b \in 0..1 : Film!Bit(v, b + 6) = Film!Bit(c, b + 2)
    BY <2>1, CodeBits, Zenon
  <2>5. \A b \in 2..5 : Film!Bit(v2, b - 2) = Film!Bit(c, b + 2)
    BY <2>1, CodeBits, ZenonT(60)
  <2>6. AndMore(w, o, v, v2)
    BY <1>4, <1>7
  <2>7. (6 * (n + 1)) % 8 = 4
    BY <1>7, CodesEnd
  <2> HIDE DEF v, v2
  <2>8. LastOpen(v2, (6 * (n + 1)) % 8)
    BY <2>2, <2>7 DEF LastOpen
  <2>9. \A e \in 0..(prefix - 1) : Film!Bit(v, e) = Film!Bit(last, e)
    BY <1>7, <2>3
  <2>10. \A b \in 0..5 : prefix + b < 8 => b \in 0..1 /\ prefix + b = b + 6
    BY <1>7
  <2>11. \A b \in 0..5 : prefix + b >= 8 => b \in 2..5 /\ prefix + b - 8 = b - 2
    BY <1>7
  <2>12. \A b \in 0..5 : prefix + b < 8 => Film!Bit(v, prefix + b) = Film!Bit(c, b + 2)
    BY <2>4, <2>10
  <2>13. \A b \in 0..5 : prefix + b >= 8 => Film!Bit(v2, prefix + b - 8) = Film!Bit(c, b + 2)
    BY <2>5, <2>11
  <2>14. v2 \in Int
    BY <2>2
  <2>15. prefix # 0
    BY <1>7
  <2> QED
    BY <1>6, <2>2, <2>6, <2>8, <2>9, <2>12, <2>13, <2>14, <2>15, Zenon DEF w
<1>8. CASE prefix = 4
  <2> DEFINE v == last + c \div 4
             v2 == (c % 4) * 64
  <2>1. last \in 0..255 /\ last % 16 = 0
    BY <1>1, <1>8 DEF LastOpen
  <2>2. v \in 0..255 /\ v2 \in 0..255 /\ v2 % 64 = 0 /\ c \div 4 \in Nat /\ c \div 4 < 16
    <3>1. c \div 4 \in 0..15
      BY PartsAre
    <3>2. last \in 0..240
      BY <2>1, RoomIs
    <3>3. v \in 0..255
      BY <3>1, <3>2
    <3>4. v2 \in 0..255 /\ v2 % 64 = 0
      BY PartsAre
    <3> QED
      BY <3>1, <3>3, <3>4
  <2>3. \A e \in 0..3 : Film!Bit(v, e) = Film!Bit(last, e)
    BY <2>1, <2>2, HighBits
  <2>4. \A b \in 0..3 : Film!Bit(v, b + 4) = Film!Bit(c, b + 2)
    BY <2>1, CodeBits, Zenon
  <2>5. \A b \in 4..5 : Film!Bit(v2, b - 4) = Film!Bit(c, b + 2)
    BY <2>1, CodeBits, ZenonT(60)
  <2>6. AndMore(w, o, v, v2)
    BY <1>4, <1>8
  <2>7. (6 * (n + 1)) % 8 = 2
    BY <1>8, CodesEnd
  <2> HIDE DEF v, v2
  <2>8. LastOpen(v2, (6 * (n + 1)) % 8)
    BY <2>2, <2>7 DEF LastOpen
  <2>9. \A e \in 0..(prefix - 1) : Film!Bit(v, e) = Film!Bit(last, e)
    BY <1>8, <2>3
  <2>10. \A b \in 0..5 : prefix + b < 8 => b \in 0..3 /\ prefix + b = b + 4
    BY <1>8
  <2>11. \A b \in 0..5 : prefix + b >= 8 => b \in 4..5 /\ prefix + b - 8 = b - 4
    BY <1>8
  <2>12. \A b \in 0..5 : prefix + b < 8 => Film!Bit(v, prefix + b) = Film!Bit(c, b + 2)
    BY <2>4, <2>10
  <2>13. \A b \in 0..5 : prefix + b >= 8 => Film!Bit(v2, prefix + b - 8) = Film!Bit(c, b + 2)
    BY <2>5, <2>11
  <2>14. v2 \in Int
    BY <2>2
  <2>15. prefix # 0
    BY <1>8
  <2> QED
    BY <1>6, <2>2, <2>6, <2>8, <2>9, <2>12, <2>13, <2>14, <2>15, Zenon DEF w
<1>9. CASE prefix = 2
  <2> DEFINE v == last + c
             v2 == Film!Old
  <2>1. last \in 0..255 /\ last % 64 = 0
    BY <1>1, <1>9 DEF LastOpen
  <2>2. v \in 0..255 /\ v2 \in Int
    <3>1. last \in 0..192
      BY <2>1, RoomIs
    <3>2. v \in 0..255
      BY <3>1
    <3> QED
      BY <3>2 DEF Film!Old
  <2>3. \A e \in 0..1 : Film!Bit(v, e) = Film!Bit(last, e)
    <3>1. c \in Nat /\ c < 64
      OBVIOUS
    <3> QED
      BY <2>1, <3>1, HighBits
  <2>4. \A b \in 0..5 : Film!Bit(v, b + 2) = Film!Bit(c, b + 2)
    BY <2>1, CodeBits, Zenon
  <2>6. AndMore(w, o, v, v2)
    BY <1>4, <1>9
  <2>7. (6 * (n + 1)) % 8 = 0
    BY <1>9, CodesEnd
  <2> HIDE DEF v, v2
  <2>8. LastOpen(v2, (6 * (n + 1)) % 8)
    BY <2>7 DEF LastOpen
  <2>9. \A e \in 0..(prefix - 1) : Film!Bit(v, e) = Film!Bit(last, e)
    BY <1>9, <2>3
  <2>10. \A b \in 0..5 : prefix + b = b + 2 /\ ~(prefix + b >= 8)
    BY <1>9
  <2>12. \A b \in 0..5 : prefix + b < 8 => Film!Bit(v, prefix + b) = Film!Bit(c, b + 2)
    BY <2>4, <2>10
  <2>13. \A b \in 0..5 : prefix + b >= 8 => Film!Bit(v2, prefix + b - 8) = Film!Bit(c, b + 2)
    BY <2>10
  <2>15. prefix # 0
    BY <1>9
  <2> QED
    BY <1>6, <2>2, <2>6, <2>8, <2>9, <2>12, <2>13, <2>15, Zenon DEF w
<1> QED
  BY <1>2, <1>5, <1>7, <1>8, <1>9

\* The first i characters of a text are in the output.
Decoding(t) ==
  /\ i \in 0..Len(t)
  /\ \A k \in 1..i : t[k] \in Film!Coded \cup Film!Skip
  /\ Holds(output, CodeRank(t, i)) /\ prefix = (6 * CodeRank(t, i)) % 8
  /\ CodeRank(t, i) = 0 \/ (6 * (CodeRank(t, i) - 1)) \div 8 < MaxSize
  /\ \A x \in Film!Places(t), b \in 0..5 :
       x <= i => BitOf(output, 6 * (CodeRank(t, x) - 1) + b) = Film!Bit(Film!Code(t[x]), b + 2)

Session == [video : BOOLEAN, text : Seq(Int)]

HarInv ==
  /\ entries \in Seq(Session) /\ entry \in Nat \ {0}
  /\ phase \in {"entry", "decode"} =>
       /\ video = <<>>
       /\ \A k \in DOMAIN entries : k < entry => ~Film!Decodable(entries[k])
  /\ phase = "decode" =>
       /\ entry \in DOMAIN entries
       /\ entries[entry].video /\ Decoding(entries[entry].text)
  /\ FirstVideo

LEMMA HarInitially == HarAssumption /\ MCInit => HarInv
<1> SUFFICES ASSUME HarAssumption, MCInit PROVE HarInv
  OBVIOUS
<1>1. /\ entry = 1 /\ video = <<>> /\ phase = "entry"
      /\ entries \in (IF program = "har" THEN Sessions ELSE {<<>>})
  BY DEF MCInit, Film!Init
<1>2. entries \in Seq(Session)
  <2>1. CASE program = "har"
    BY <1>1, <2>1 DEF HarAssumption, Session
  <2>2. CASE program # "har"
    <3>1. entries = <<>>
      BY <1>1, <2>2
    <3> QED
      BY <3>1, EmptySeq
  <2> QED
    BY <2>1, <2>2
<1>3. \A k \in DOMAIN entries : ~(k < 1)
  <2>1. DOMAIN entries = 1..Len(entries) /\ Len(entries) \in Nat
    BY <1>2, LenProperties
  <2> QED
    BY <2>1
<1>4. FirstVideo
  BY <1>1 DEF FirstVideo, Film!FirstVideo
<1> QED
  BY <1>1, <1>2, <1>3, <1>4 DEF HarInv

\* An entry that cannot be decoded is left behind.
LEMMA NextEntryKeeps ==
  ASSUME HarInv, phase \in {"entry", "decode"}, Film!NextEntry,
         entry \in DOMAIN entries => ~Film!Decodable(entries[entry])
  PROVE  HarInv'
<1>1. entry' = entry + 1 /\ phase' = "entry" /\ UNCHANGED <<entries, video>>
  BY DEF Film!NextEntry
<1>2. /\ entries \in Seq(Session) /\ entry \in Nat \ {0} /\ video = <<>>
      /\ \A k \in DOMAIN entries : k < entry => ~Film!Decodable(entries[k])
  BY DEF HarInv
<1>3. DOMAIN entries = 1..Len(entries)
  BY <1>2, LenProperties
<1>4. ASSUME NEW k \in DOMAIN entries, k < entry + 1 PROVE ~Film!Decodable(entries[k])
  <2>1. k < entry \/ k = entry
    BY <1>2, <1>3, <1>4
  <2> QED
    BY <1>2, <1>4, <2>1
<1>5. phase' # "decode" /\ entry + 1 \in Nat \ {0}
  BY <1>1, <1>2
<1>6. FirstVideo'
  BY <1>1 DEF FirstVideo, Film!FirstVideo
<1>7. (\A k \in DOMAIN entries : k < entry => ~Film!Decodable(entries[k]))'
  BY <1>1, <1>4
<1> QED
  BY <1>1, <1>2, <1>5, <1>6, <1>7, Zenon DEF HarInv

LEMMA OtherEntryKeeps == HarInv /\ Film!OtherEntry => HarInv'
<1> SUFFICES ASSUME HarInv, Film!OtherEntry PROVE HarInv'
  OBVIOUS
<1>1. phase = "entry" /\ ~entries[entry].video /\ Film!NextEntry
  BY DEF Film!OtherEntry
<1>2. ~Film!Decodable(entries[entry])
  BY <1>1 DEF Film!Decodable
<1> QED
  BY <1>1, <1>2, NextEntryKeeps

LEMMA VideoKeeps == HarInv /\ Film!Video => HarInv'
<1> SUFFICES ASSUME HarInv, Film!Video PROVE HarInv'
  OBVIOUS
<1>1. /\ phase = "entry" /\ entry <= Len(entries) /\ entries[entry].video
      /\ phase' = "decode" /\ i' = 0 /\ prefix' = 0 /\ output' = <<Film!Old>>
      /\ UNCHANGED <<entries, entry, video>>
  BY DEF Film!Video
<1>2. entries \in Seq(Session) /\ entry \in Nat \ {0}
  BY DEF HarInv
<1>3. DOMAIN entries = 1..Len(entries) /\ Len(entries) \in Nat
  BY <1>2, LenProperties
<1>4. entry \in DOMAIN entries
  BY <1>1, <1>2, <1>3
<1> DEFINE t == entries[entry].text
<1>5. t \in Seq(Int)
  <2>1. entries[entry] \in Session
    BY <1>2, <1>3, <1>4, ElementOfSeq
  <2> QED
    BY <2>1 DEF Session
<1> HIDE DEF t
<1>6. CodeRank(t, 0) = 0 /\ Len(t) \in Nat
  BY <1>5, RankIs, LenProperties
<1>7. Holds(<<Film!Old>>, 0)
  <2>1. <<Film!Old>> \in Seq(Int) /\ Len(<<Film!Old>>) = 1
    BY DEF Film!Old
  <2>2. (6 * 0) \div 8 + 1 = 1 /\ (6 * 0) % 8 = 0
    OBVIOUS
  <2> QED
    BY <2>1, <2>2 DEF Holds, LastOpen
<1>8. \A x \in Film!Places(t) : ~(x <= 0)
  BY <1>5, <1>6, RankIs
<1>9. Decoding(t)'
  <2>1. t' = t
    BY <1>1 DEF t
  <2>2. /\ 0 \in 0..Len(t) /\ 1..0 = {}
        /\ (6 * 0) % 8 = 0
    BY <1>6
  <2> QED
    BY <1>1, <1>6, <1>7, <1>8, <2>1, <2>2 DEF Decoding
<1>10. FirstVideo'
  BY <1>1 DEF FirstVideo, Film!FirstVideo
<1> QED
  BY <1>1, <1>4, <1>9, <1>10 DEF HarInv, t

LEMMA NoMoreKeeps == HarInv /\ Film!NoMore => HarInv'
<1> SUFFICES ASSUME HarInv, Film!NoMore PROVE HarInv'
  OBVIOUS
<1>1. /\ phase = "entry" /\ entry > Len(entries) /\ phase' = "done"
      /\ UNCHANGED <<entries, entry, video>>
  BY DEF Film!NoMore
<1>2. /\ entries \in Seq(Session) /\ entry \in Nat \ {0} /\ video = <<>>
      /\ \A k \in DOMAIN entries : k < entry => ~Film!Decodable(entries[k])
  BY <1>1 DEF HarInv
<1>3. DOMAIN entries = 1..Len(entries) /\ Len(entries) \in Nat
  BY <1>2, LenProperties
<1>4. \A k \in DOMAIN entries : ~Film!Decodable(entries[k])
  BY <1>1, <1>2, <1>3
<1>5. {k \in DOMAIN entries : Film!Decodable(entries[k])} = {}
  BY <1>4, Zenon
<1>6. Film!FirstVideo'
  BY <1>1, <1>2, <1>5 DEF Film!FirstVideo
<1>7. phase' # "entry" /\ phase' # "decode"
  BY <1>1
<1> QED
  BY <1>1, <1>2, <1>6, <1>7 DEF HarInv, FirstVideo

\* Where the decoder is.
LEMMA AtText ==
  ASSUME HarInv, phase = "decode"
  PROVE  LET t == entries[entry].text
         IN  /\ Film!Text = t /\ t \in Seq(Int) /\ entries[entry].video
             /\ DOMAIN t = 1..Len(t) /\ Len(t) \in Nat
             /\ i \in 0..Len(t) /\ i \in Nat /\ Decoding(t)
             /\ entries \in Seq(Session) /\ entry \in DOMAIN entries
<1>1. entries \in Seq(Session) /\ entry \in DOMAIN entries /\ entry \in Nat \ {0}
      /\ entries[entry].video /\ Decoding(entries[entry].text)
  BY DEF HarInv
<1>2. DOMAIN entries = 1..Len(entries)
  BY <1>1, LenProperties
<1>3. entries[entry] \in Session
  BY <1>1, <1>2, ElementOfSeq
<1>4. entries[entry].text \in Seq(Int)
  BY <1>3 DEF Session
<1>5. DOMAIN entries[entry].text = 1..Len(entries[entry].text) /\ Len(entries[entry].text) \in Nat
  BY <1>4, LenProperties
<1>6. i \in 0..Len(entries[entry].text)
  BY <1>1 DEF Decoding
<1>7. i \in Nat
  BY <1>5, <1>6
<1> QED
  BY <1>1, <1>4, <1>5, <1>6, <1>7, Zenon DEF Film!Text

\* The decoder goes on with the same text.
LEMMA StillDecoding ==
  ASSUME HarInv, phase = "decode", UNCHANGED <<entries, entry, video, phase>>,
         Decoding(entries[entry].text)'
  PROVE  HarInv'
<1>1. phase' = "decode" /\ phase' # "done"
  OBVIOUS
<1>2. FirstVideo'
  BY <1>1 DEF FirstVideo, Film!FirstVideo
<1> QED
  BY <1>1, <1>2 DEF HarInv

LEMMA SkippedKeeps == HarInv /\ Film!Skipped => HarInv'
<1> SUFFICES ASSUME HarInv, Film!Skipped PROVE HarInv'
  OBVIOUS
<1> DEFINE t == entries[entry].text
<1>1. /\ phase = "decode" /\ i < Len(Film!Text) /\ Film!Text[i + 1] \in Film!Skip
      /\ i' = i + 1 /\ UNCHANGED <<entries, entry, prefix, output, video, phase>>
  BY DEF Film!Skipped
<1>2. /\ Film!Text = t /\ t \in Seq(Int) /\ Len(t) \in Nat /\ i \in Nat /\ Decoding(t)
      /\ DOMAIN t = 1..Len(t)
  BY <1>1, AtText, Zenon
<1>3. t' = t
  BY <1>1
<1> HIDE DEF t
<1>4. t[i + 1] \in Film!Skip /\ t[i + 1] \notin Film!Coded /\ i \in 0..(Len(t) - 1) /\ i + 1 \in 0..Len(t)
  <2>1. \A c \in Film!Skip : c \notin Film!Coded
    BY DEF Film!Skip, Film!Coded
  <2>2. t[i + 1] \in Film!Skip /\ i < Len(t)
    BY <1>1, <1>2, Zenon
  <2>3. i \in 0..(Len(t) - 1) /\ i + 1 \in 0..Len(t)
    BY <1>2, <2>2
  <2> QED
    BY <2>1, <2>2, <2>3, Zenon
<1>5. CodeRank(t, i + 1) = CodeRank(t, i)
  BY <1>2, <1>4, RankStep
<1>6. \A k \in 1..(i + 1) : t[k] \in Film!Coded \cup Film!Skip
  <2>1. \A k \in 1..(i + 1) : k \in 1..i \/ k = i + 1
    BY <1>2
  <2> QED
    BY <1>2, <1>4, <2>1 DEF Decoding
<1>7. ASSUME NEW x \in Film!Places(t), x <= i + 1 PROVE x <= i
  <2>1. x # i + 1 /\ x \in 1..Len(t)
    BY <1>2, <1>4 DEF Film!Places
  <2> QED
    BY <1>2, <1>7, <2>1
<1>8. Decoding(t)'
  <2>1. \A x \in Film!Places(t), b \in 0..5 :
          x <= i + 1 => BitOf(output, 6 * (CodeRank(t, x) - 1) + b) = Film!Bit(Film!Code(t[x]), b + 2)
    BY <1>2, <1>7 DEF Decoding
  <2>2. /\ Holds(output, CodeRank(t, i + 1)) /\ prefix = (6 * CodeRank(t, i + 1)) % 8
        /\ CodeRank(t, i + 1) = 0 \/ (6 * (CodeRank(t, i + 1) - 1)) \div 8 < MaxSize
    BY <1>2, <1>5, Zenon DEF Decoding
  <2>3. i' = i + 1 /\ prefix' = prefix /\ output' = output
    BY <1>1
  <2> QED
    BY <1>3, <1>4, <1>6, <2>1, <2>2, <2>3, Zenon DEF Decoding
<1> QED
  BY <1>1, <1>8, StillDecoding, Zenon DEF t

LEMMA DecodeKeeps == HarInv /\ Film!Decode => HarInv'
<1> SUFFICES ASSUME HarInv, Film!Decode PROVE HarInv'
  OBVIOUS
<1> DEFINE t == entries[entry].text
           n == CodeRank(t, i)
           c == Film!Code(t[i + 1])
<1>1. /\ phase = "decode" /\ i < Len(Film!Text) /\ Film!Text[i + 1] \in Film!Coded
      /\ Len(output) <= MaxSize /\ output' = Film!Put(Film!Code(Film!Text[i + 1]), output)
      /\ prefix' = (prefix + 6) % 8
      /\ i' = i + 1 /\ UNCHANGED <<entries, entry, video, phase>>
  BY DEF Film!Decode
<1>2. /\ Film!Text = t /\ t \in Seq(Int) /\ Len(t) \in Nat /\ i \in Nat /\ Decoding(t)
      /\ DOMAIN t = 1..Len(t)
  BY <1>1, AtText, Zenon
<1>3. t' = t
  BY <1>1
<1> HIDE DEF t
<1>4. t[i + 1] \in Film!Coded /\ i \in 0..(Len(t) - 1) /\ i + 1 \in 0..Len(t) /\ i \in 0..Len(t)
  BY <1>1, <1>2
<1>5. CodeRank(t, i + 1) = n + 1 /\ n \in Nat
  BY <1>2, <1>4, RankStep, RankIs
<1>6. c \in 0..63
  BY <1>4, CodeIs
<1>7. Holds(output, n) /\ prefix = (6 * n) % 8
  BY <1>2 DEF Decoding
<1>8. output' = Film!Put(c, output)
  BY <1>1, <1>2
<1> HIDE DEF n, c
<1>9. Taken(output', output, n, c)
  BY <1>5, <1>6, <1>7, <1>8, PutTakes
<1>10. \A k \in 1..(i + 1) : t[k] \in Film!Coded \cup Film!Skip
  <2>1. \A k \in 1..(i + 1) : k \in 1..i \/ k = i + 1
    BY <1>2
  <2> QED
    BY <1>2, <1>4, <2>1 DEF Decoding
<1>11. prefix' = (6 * (n + 1)) % 8
  BY <1>1, <1>5, <1>7
<1>12. (6 * (n + 1 - 1)) \div 8 < MaxSize
  <2>1. Len(output) = ((6 * n) \div 8) + 1
    BY <1>7 DEF Holds
  <2>2. MaxSize \in Nat
    BY HarAssumption
  <2> QED
    BY <1>1, <1>5, <2>1, <2>2
<1>13. ASSUME NEW x \in Film!Places(t), NEW b \in 0..5, x <= i + 1
       PROVE  BitOf(output', 6 * (CodeRank(t, x) - 1) + b) = Film!Bit(Film!Code(t[x]), b + 2)
  <2>1. x \in 1..Len(t) /\ CodeRank(t, x) \in Nat \ {0}
    BY <1>2, RankIs
  <2>2. CASE x = i + 1
    <3>1. CodeRank(t, x) = n + 1 /\ Film!Code(t[x]) = c
      BY <1>5, <2>2 DEF c
    <3>2. 6 * (CodeRank(t, x) - 1) + b = 6 * n + b
      BY <1>5, <3>1
    <3> QED
      BY <1>9, <3>1, <3>2 DEF Taken
  <2>3. CASE x # i + 1
    <3>1. x <= i /\ x \in 0..Len(t)
      BY <1>2, <1>13, <2>1, <2>3
    <3>2. CodeRank(t, x) <= n
      BY <1>2, <1>4, <3>1, RankIs DEF n
    <3> DEFINE p == 6 * (CodeRank(t, x) - 1) + b
    <3>3. p \in 0..(6 * n - 1)
      BY <1>5, <2>1, <3>2
    <3>4. BitOf(output, p) = Film!Bit(Film!Code(t[x]), b + 2)
      BY <1>2, <3>1 DEF Decoding
    <3> HIDE DEF p
    <3>5. BitOf(output', p) = BitOf(output, p)
      BY <1>9, <3>3 DEF Taken
    <3> QED
      BY <3>4, <3>5 DEF p
  <2> QED
    BY <2>2, <2>3
<1>14. Decoding(t)'
  <2>1. Holds(output', n + 1)
    BY <1>9 DEF Taken
  <2>2. \A x \in Film!Places(t), b \in 0..5 :
          x <= i + 1 => BitOf(output', 6 * (CodeRank(t, x) - 1) + b) = Film!Bit(Film!Code(t[x]), b + 2)
    BY <1>13
  <2>3. i' = i + 1
    BY <1>1
  <2>4. /\ Holds(output', CodeRank(t, i + 1)) /\ prefix' = (6 * CodeRank(t, i + 1)) % 8
        /\ (6 * (CodeRank(t, i + 1) - 1)) \div 8 < MaxSize
    BY <1>5, <1>11, <1>12, <2>1
  <2> QED
    BY <1>3, <1>4, <1>10, <2>2, <2>3, <2>4, Zenon DEF Decoding
<1> QED
  BY <1>1, <1>14, StillDecoding, Zenon DEF t

LEMMA DecodeFailsKeeps == HarInv /\ Film!DecodeFails => HarInv'
<1> SUFFICES ASSUME HarInv, Film!DecodeFails PROVE HarInv'
  OBVIOUS
<1> DEFINE t == entries[entry].text
           n == CodeRank(t, i)
           all == Film!Cardinality(Film!Places(t))
<1>1. /\ phase = "decode" /\ i < Len(Film!Text) /\ Film!Text[i + 1] \notin Film!Skip
      /\ Film!Text[i + 1] \notin Film!Coded \/ Len(output) > MaxSize
      /\ Film!NextEntry
  BY DEF Film!DecodeFails
<1>2. /\ Film!Text = t /\ t \in Seq(Int) /\ Len(t) \in Nat /\ i \in Nat /\ Decoding(t)
      /\ DOMAIN t = 1..Len(t)
  BY <1>1, AtText, Zenon
<1>3. ~Film!Decodable(entries[entry])
  <2> HIDE DEF t
  <2>1. i + 1 \in DOMAIN t /\ i \in 0..(Len(t) - 1) /\ i + 1 \in 0..Len(t) /\ i \in 0..Len(t)
    BY <1>1, <1>2
  <2>2. CASE t[i + 1] \notin Film!Coded
    <3>1. t[i + 1] \notin Film!Coded \cup Film!Skip
      BY <1>1, <1>2, <2>2
    <3> QED
      BY <2>1, <3>1, Zenon DEF Film!Decodable, t
  <2>3. CASE t[i + 1] \in Film!Coded
    <3>1. Len(output) > MaxSize
      BY <1>1, <1>2, <2>3
    <3>2. CodeRank(t, i + 1) = n + 1 /\ n \in Nat
      BY <1>2, <2>1, <2>3, RankStep, RankIs
    <3>3. CodeRank(t, i + 1) <= CodeRank(t, Len(t)) /\ CodeRank(t, Len(t)) \in Nat
      <4>1. Len(t) \in 0..Len(t) /\ i + 1 <= Len(t)
        BY <1>2, <2>1
      <4> QED
        BY <1>2, <2>1, <4>1, RankIs
    <3>4. CodeRank(t, Len(t)) = all
      BY <1>2, RankIs
    <3>5. Len(output) = ((6 * n) \div 8) + 1
      BY <1>2 DEF Decoding, Holds
    <3>6. MaxSize \in Nat
      BY HarAssumption
    <3> HIDE DEF n, all
    <3>7. n + 1 <= all /\ all \in Nat
      BY <3>2, <3>3, <3>4
    <3>8. ~((6 * (all - 1)) \div 8 < MaxSize)
      BY <3>1, <3>2, <3>5, <3>6, <3>7
    <3> QED
      BY <3>8, Zenon DEF Film!Decodable, all, t
  <2> QED
    BY <2>2, <2>3
<1> QED
  BY <1>1, <1>3, NextEntryKeeps

\* The parts of two sequences, one behind the other.
LEMMA BehindIs ==
  ASSUME NEW h \in Seq(Int), NEW o \in Seq(Int), NEW m \in 0..Len(o)
  PROVE  LET f == h \o o
             r == SubSeq(f, Len(h) + 1, Len(h) + m)
         IN  /\ Len(f) = Len(h) + Len(o) /\ SubSeq(f, 1, Len(h)) = h
             /\ r \in Seq(Int) /\ Len(r) = m /\ \A k \in 1..m : r[k] = o[k]
<1> DEFINE f == h \o o
           l == Len(h)
           p == SubSeq(f, 1, l)
           r == SubSeq(f, l + 1, l + m)
<1>1. /\ f \in Seq(Int) /\ Len(f) = l + Len(o)
      /\ \A x \in 1..l : f[x] = h[x]
      /\ \A x \in 1..Len(o) : f[l + x] = o[x]
  BY ConcatIs
<1>2. l \in Nat /\ Len(o) \in Nat /\ m \in Nat /\ m <= Len(o)
  <2>1. l \in Nat /\ Len(o) \in Nat
    BY LenProperties
  <2> QED
    BY <2>1
<1> HIDE DEF f, l
<1>3. \A x \in 1..(l + Len(o)) : f[x] \in Int
  BY <1>1, ElementOfSeq
<1>4. /\ p \in Seq(Int) /\ Len(p) = IF 1 <= l THEN l - 1 + 1 ELSE 0
      /\ \A x \in 1..(l - 1 + 1) : p[x] = f[1 + x - 1]
  <2>1. 1 \in Int /\ l \in Int /\ \A x \in 1..l : x \in 1..(l + Len(o))
    BY <1>2
  <2>2. \A x \in 1..l : f[x] \in Int
    BY <1>3, <2>1
  <2> QED
    BY <2>1, <2>2, SubSeqProperties
<1>5. /\ r \in Seq(Int) /\ Len(r) = IF l + 1 <= l + m THEN l + m - (l + 1) + 1 ELSE 0
      /\ \A x \in 1..(l + m - (l + 1) + 1) : r[x] = f[l + 1 + x - 1]
  <2>1. l + 1 \in Int /\ l + m \in Int /\ \A x \in (l + 1)..(l + m) : x \in 1..(l + Len(o))
    BY <1>2
  <2> DEFINE a == l + 1
             z == l + m
  <2>2. \A x \in a..z : f[x] \in Int
    BY <1>3, <2>1
  <2>3. a \in Int /\ z \in Int
    BY <2>1
  <2> HIDE DEF a, z
  <2>4. /\ SubSeq(f, a, z) \in Seq(Int)
        /\ Len(SubSeq(f, a, z)) = IF a <= z THEN z - a + 1 ELSE 0
        /\ \A x \in 1..(z - a + 1) : SubSeq(f, a, z)[x] = f[a + x - 1]
    BY <2>2, <2>3, SubSeqProperties
  <2>5. r = SubSeq(f, a, z) /\ a = l + 1 /\ z = l + m
    BY DEF a, z
  <2> HIDE DEF r
  <2>6. /\ r \in Seq(Int) /\ Len(r) = IF a <= z THEN z - a + 1 ELSE 0
        /\ \A x \in 1..(z - a + 1) : r[x] = f[a + x - 1]
    BY <2>4, <2>5, Zenon
  <2>7. r \in Seq(Int) /\ Len(r) = IF l + 1 <= l + m THEN l + m - (l + 1) + 1 ELSE 0
    BY <1>2, <2>5, <2>6
  <2>8. \A x \in 1..(l + m - (l + 1) + 1) : r[x] = f[l + 1 + x - 1]
    BY <1>2, <2>5, <2>6
  <2> QED
    BY <2>7, <2>8
<1> HIDE DEF p, r
<1>6. Len(p) = l /\ Len(r) = m
  BY <1>2, <1>4, <1>5
<1>7. ASSUME NEW x \in 1..l PROVE p[x] = h[x]
  <2>1. x \in 1..(l - 1 + 1) /\ 1 + x - 1 = x
    BY <1>2
  <2>2. p[x] = f[1 + x - 1]
    BY <1>4, <2>1
  <2> QED
    BY <1>1, <2>1, <2>2
<1>8. ASSUME NEW x \in 1..m PROVE r[x] = o[x]
  <2>1. x \in 1..(l + m - (l + 1) + 1) /\ l + 1 + x - 1 = l + x /\ x \in 1..Len(o)
    BY <1>2
  <2>2. r[x] = f[l + 1 + x - 1]
    BY <1>5, <2>1
  <2> QED
    BY <1>1, <2>1, <2>2
<1>9. p = h
  <2>1. Len(p) = Len(h) /\ \A x \in 1..Len(p) : p[x] = h[x]
    BY <1>6, <1>7 DEF l
  <2> QED
    BY <1>4, <2>1, SeqEqual
<1> QED
  BY <1>1, <1>5, <1>6, <1>8, <1>9, Zenon DEF f, l, p, r

\* The data is among the codes; with the padding behind it the codes up to a
\* place of the data are data.
LEMMA DataIs ==
  ASSUME NEW t \in Seq(Int)
  PROVE  /\ Film!Data(t) \subseteq Film!Places(t)
         /\ Film!VideoSize(t) \in Nat /\ Film!VideoSize(t) <= Film!Size(t)
         /\ Film!Base64(t) => \A x \in Film!Data(t) : Film!Rank(t, x) = CodeRank(t, x)
<1> DEFINE D == Film!Data(t)
           P == Film!Places(t)
<1>1. Len(t) \in Nat /\ DOMAIN t = 1..Len(t)
  BY LenProperties
<1>2. D \subseteq P /\ P \subseteq 1..Len(t)
  BY <1>1 DEF Film!Data, Film!Places
<1>3. Film!Base64(t) => \A x \in D, y \in P \ D : x < y
  BY DEF Film!Base64
<1>4. /\ Film!VideoSize(t) = (6 * Cardinality(D)) \div 8
      /\ Film!Size(t) = (6 * Cardinality(P)) \div 8
  BY FilmCardinality DEF Film!VideoSize, Film!Size
<1>5. \A x : Film!Rank(t, x) = Film!Cardinality({y \in D : y <= x})
  BY DEF Film!Rank
<1>6. \A x : CodeRank(t, x) = Film!Cardinality({y \in P : y <= x})
  BY DEF CodeRank
<1> HIDE DEF D, P
<1>7. Cardinality(D) \in Nat /\ Cardinality(P) \in Nat /\ Cardinality(D) <= Cardinality(P)
  <2>1. IsFiniteSet(1..Len(t))
    BY <1>1, FS_Interval
  <2>2. IsFiniteSet(P)
    BY <1>2, <2>1, FS_Subset
  <2> QED
    BY <1>2, <2>2, FS_Subset, FS_CardinalityType
<1>8. Film!VideoSize(t) \in Nat /\ Film!VideoSize(t) <= Film!Size(t)
  <2> DEFINE a == Cardinality(D)
             b == Cardinality(P)
  <2>1. a \in Nat /\ b \in Nat /\ a <= b
    BY <1>7
  <2> HIDE DEF a, b
  <2>2. (6 * a) \div 8 \in Nat /\ (6 * a) \div 8 <= (6 * b) \div 8
    BY <2>1
  <2> QED
    BY <1>4, <2>2 DEF a, b
<1>9. ASSUME Film!Base64(t), NEW x \in D PROVE Film!Rank(t, x) = CodeRank(t, x)
  <2>1. ASSUME NEW y \in P, y <= x PROVE y \in D
    <3>1. x \in Nat /\ y \in Nat
      BY <1>2
    <3> QED
      BY <1>3, <1>9, <2>1, <3>1
  <2>2. {y \in D : y <= x} = {y \in P : y <= x}
    BY <1>2, <2>1
  <2> QED
    BY <1>5, <1>6, <2>2
<1> QED
  BY <1>2, <1>8, <1>9 DEF D, P

\* At the end of a text its bytes are what FirstVideo asks for.
LEMMA AllDecoded ==
  ASSUME NEW t \in Seq(Int), Decoding(t), i = Len(t)
  PROVE  LET f == Film!Header \o output
         IN  /\ Len(f) = 4 + Film!Size(t) + 1
             /\ SubSeq(f, 1, 4) = Film!Header
             /\ Film!Base64(t) => Film!Decoded(t, SubSeq(f, 5, 4 + Film!VideoSize(t)))
             /\ (6 * (Film!Cardinality(Film!Places(t)) - 1)) \div 8 < MaxSize
<1> DEFINE n == CodeRank(t, i)
           m == Film!Size(t)
           u == Film!VideoSize(t)
           h == Film!Header
           r == SubSeq(h \o output, 5, 4 + u)
<1>1. n = Film!Cardinality(Film!Places(t)) /\ n \in Nat /\ Len(t) \in Nat
  <2>1. Len(t) \in Nat /\ Len(t) \in 0..Len(t)
    BY LenProperties
  <2> QED
    BY <2>1, RankIs
<1>2. m = (6 * n) \div 8
  BY <1>1 DEF Film!Size
<1>3. Holds(output, n) /\ (n = 0 \/ (6 * (n - 1)) \div 8 < MaxSize)
  BY DEF Decoding
<1>4. MaxSize \in Nat
  BY HarAssumption
<1>5. h \in Seq(Int) /\ Len(h) = 4
  BY DEF Film!Header
<1>0. u \in Nat /\ u <= m
  BY DataIs
<1> HIDE DEF n, m, u, h
<1>6. /\ output \in Seq(Int) /\ Len(output) = m + 1 /\ m \in Nat
      /\ \A k \in 1..m : output[k] \in 0..255
  <2>1. /\ output \in Seq(Int) /\ Len(output) = ((6 * n) \div 8) + 1
        /\ \A k \in 1..(Len(output) - 1) : output[k] \in 0..255
    BY <1>3 DEF Holds
  <2>2. m \in Nat
    BY <1>1, <1>2
  <2>3. Len(output) = m + 1
    BY <1>2, <2>1
  <2>4. Len(output) - 1 = m
    BY <2>2, <2>3
  <2> QED
    BY <2>1, <2>2, <2>3, <2>4
<1>7. (6 * (n - 1)) \div 8 < MaxSize
  <2>1. \A k \in Int : k < 0 => k \div 8 < 0
    OBVIOUS
  <2>2. 6 * (0 - 1) \in Int /\ 6 * (0 - 1) < 0
    OBVIOUS
  <2>3. (6 * (0 - 1)) \div 8 < 0
    BY <2>1, <2>2, Zenon
  <2>4. n = 0 => (6 * (n - 1)) \div 8 < MaxSize
    <3>1. (6 * (0 - 1)) \div 8 \in Int
      BY <2>2
    <3> DEFINE d == (6 * (0 - 1)) \div 8
    <3> HIDE DEF d
    <3>2. d < MaxSize
      BY <1>4, <2>3, <3>1 DEF d
    <3> QED
      BY <3>2 DEF d
  <2> QED
    BY <1>3, <2>4
<1>8. /\ Len(h \o output) = 4 + m + 1 /\ SubSeq(h \o output, 1, 4) = h
      /\ r \in Seq(Int) /\ Len(r) = u /\ \A k \in 1..u : r[k] = output[k]
  <2>1. u \in 0..Len(output)
    BY <1>0, <1>6
  <2>2. h \in Seq(Int) /\ output \in Seq(Int)
    BY <1>5, <1>6
  <2> DEFINE s == SubSeq(h \o output, Len(h) + 1, Len(h) + u)
  <2>3. /\ Len(h \o output) = Len(h) + Len(output) /\ SubSeq(h \o output, 1, Len(h)) = h
        /\ s \in Seq(Int) /\ Len(s) = u /\ \A k \in 1..u : s[k] = output[k]
    BY <2>1, <2>2, BehindIs, Zenon
  <2>4. s = r
    BY <1>5
  <2>5. SubSeq(h \o output, 1, 4) = h
    BY <1>5, <2>3
  <2> HIDE DEF r, s
  <2>6. Len(h \o output) = 4 + m + 1
    BY <1>5, <1>6, <2>3
  <2> QED
    BY <2>3, <2>4, <2>5, <2>6, Zenon
<1> HIDE DEF r
<1>9. DOMAIN r = 1..u /\ \A k \in 1..u : r[k] \in 0..255
  <2>1. \A k \in 1..u : k \in 1..m
    BY <1>0, <1>6
  <2> QED
    BY <1>6, <1>8, <2>1, LenProperties
<1>10. ASSUME Film!Base64(t), NEW x \in Film!Data(t), NEW b \in 0..5
       PROVE  LET p == 6 * (Film!Rank(t, x) - 1) + b
              IN  p < 8 * u => Film!Bit(r[(p \div 8) + 1], p % 8) = Film!Bit(Film!Code(t[x]), b + 2)
  <2> DEFINE p == 6 * (CodeRank(t, x) - 1) + b
  <2>1. x \in Film!Places(t) /\ Film!Rank(t, x) = CodeRank(t, x)
    BY <1>10, DataIs
  <2>2. x \in 1..Len(t) /\ CodeRank(t, x) \in Nat \ {0}
    BY <2>1, RankIs
  <2>3. BitOf(output, p) = Film!Bit(Film!Code(t[x]), b + 2)
    <3>1. x <= i
      BY <1>1, <2>2
    <3> QED
      BY <2>1, <3>1 DEF Decoding
  <2>4. p \in Nat
    BY <2>2
  <2> HIDE DEF p
  <2>5. p < 8 * u => (p \div 8) + 1 \in 1..u
    BY <1>0, <2>4
  <2>6. p < 8 * u => r[(p \div 8) + 1] = output[(p \div 8) + 1]
    BY <1>8, <2>5
  <2>7. p < 8 * u => Film!Bit(r[(p \div 8) + 1], p % 8) = Film!Bit(Film!Code(t[x]), b + 2)
    BY <2>3, <2>6, Zenon DEF BitOf
  <2> QED
    BY <2>1, <2>7, Zenon DEF p
<1>11. Film!Base64(t) => Film!Decoded(t, r)
  BY <1>8, <1>9, <1>10 DEF Film!Decoded, u
<1> QED
  BY <1>1, <1>7, <1>8, <1>11 DEF h, m, u, r

LEMMA ExtractKeeps == HarInv /\ Film!Extract => HarInv'
<1> SUFFICES ASSUME HarInv, Film!Extract PROVE HarInv'
  OBVIOUS
<1> DEFINE t == entries[entry].text
           good == {k \in DOMAIN entries : Film!Decodable(entries[k])}
<1>1. /\ phase = "decode" /\ i = Len(Film!Text)
      /\ \/ video' = Film!Header \o output /\ phase' = "done"
         \/ phase' = "failed"
      /\ UNCHANGED <<entries, entry>>
  BY DEF Film!Extract
<1>2. /\ Film!Text = t /\ t \in Seq(Int) /\ Decoding(t) /\ DOMAIN t = 1..Len(t)
      /\ entries[entry].video /\ entry \in DOMAIN entries /\ entries \in Seq(Session)
  BY <1>1, AtText, Zenon
<1>3. /\ entry \in Nat \ {0}
      /\ \A k \in DOMAIN entries : k < entry => ~Film!Decodable(entries[k])
  BY <1>1 DEF HarInv
<1>4. phase' # "entry" /\ phase' # "decode"
  BY <1>1
<1>5. ASSUME phase' = "done" PROVE Film!FirstVideo'
  <2> DEFINE f == Film!Header \o output
  <2>1. /\ Len(f) = 4 + Film!Size(t) + 1 /\ SubSeq(f, 1, 4) = Film!Header
        /\ Film!Base64(t) => Film!Decoded(t, SubSeq(f, 5, 4 + Film!VideoSize(t)))
        /\ (6 * (Film!Cardinality(Film!Places(t)) - 1)) \div 8 < MaxSize
    <3>1. i = Len(t)
      BY <1>1, <1>2
    <3> HIDE DEF t
    <3> QED
      BY <1>2, <3>1, AllDecoded, Zenon
  <2>2. Film!Decodable(entries[entry])
    <3>1. \A k \in 1..Len(t) : t[k] \in Film!Coded \cup Film!Skip
      BY <1>1, <1>2 DEF Decoding
    <3> QED
      BY <1>2, <2>1, <3>1, Zenon DEF Film!Decodable
  <2>3. entry \in good /\ \A k \in good : ~(k < entry)
    BY <1>2, <1>3, <2>2, Zenon
  <2>4. \A k \in good : k \in Nat
    <3>1. DOMAIN entries = 1..Len(entries) /\ Len(entries) \in Nat
      BY <1>2, LenProperties
    <3> QED
      BY <3>1
  <2> HIDE DEF good
  <2>5. \A k \in good : entry <= k
    BY <1>3, <2>3, <2>4
  <2>6. Film!Min(good) = entry
    <3>1. \E k \in good : \A l \in good : k <= l
      BY <2>3, <2>5
    <3>2. Film!Min(good) \in good /\ \A l \in good : Film!Min(good) <= l
      BY <3>1, Zenon DEF Film!Min
    <3> DEFINE low == Film!Min(good)
    <3>3. low \in Nat /\ low <= entry /\ entry <= low
      BY <2>3, <2>4, <2>5, <3>2
    <3> HIDE DEF low
    <3>4. low = entry
      BY <1>3, <3>3
    <3> QED
      BY <3>4 DEF low
  <2>7. video' = f /\ good # {}
    BY <1>1, <1>5, <2>3
  <2> HIDE DEF f, t
  <2>8. entries[Film!Min(good)].text = t
    BY <2>6, Zenon DEF t
  <2>9. /\ Len(video') = 4 + Film!Size(t) + 1 /\ SubSeq(video', 1, 4) = Film!Header
        /\ Film!Base64(t) => Film!Decoded(t, SubSeq(video', 5, 4 + Film!VideoSize(t)))
    BY <2>1, <2>7
  <2> QED
    BY <1>1, <2>7, <2>8, <2>9, Zenon DEF Film!FirstVideo, good
<1>6. ASSUME phase' # "done" PROVE Film!FirstVideo'
  BY <1>6 DEF Film!FirstVideo
<1> QED
  BY <1>1, <1>2, <1>3, <1>4, <1>5, <1>6, Zenon DEF HarInv, FirstVideo

LEMMA HarPreserved == HarInv /\ [Film!Next]_filmVars => HarInv'
<1>1. HarInv /\ UNCHANGED filmVars => HarInv'
  BY DEF filmVars, HarInv, Decoding, FirstVideo, Film!FirstVideo
<1> QED
  BY <1>1, OtherEntryKeeps, VideoKeeps, NoMoreKeeps, SkippedKeeps, DecodeKeeps,
     DecodeFailsKeeps, ExtractKeeps DEF Film!Next

(***************************************************************************)
(* har: whatever stands in the session and however large the buffer is,    *)
(* the file begins with the header and the bytes of the first video that   *)
(* can be decoded, as base64 defines them, bit for bit; what the padding   *)
(* and line 147 write behind them has the length FirstVideo states.        *)
(***************************************************************************)
THEOREM TheFirstVideoIsTakenOut == MCSpec => []FirstVideo
<1>1. MCInit => HarInv
  BY HarInitially, HarAssumption
<1>2. HarInv /\ [MCNext]_MCvars => HarInv'
  <2>1. [MCNext]_MCvars => [Film!Next]_filmVars
    BY DEF MCNext, MCvars, Only, filmVars
  <2> QED
    BY <2>1, HarPreserved
<1>3. HarInv => FirstVideo
  BY DEF HarInv
<1> QED
  BY <1>1, <1>2, <1>3, PTL DEF MCSpec
=============================================================================

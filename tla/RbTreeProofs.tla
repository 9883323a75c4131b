---------------------------- MODULE RbTreeProofs ----------------------------
(***************************************************************************)
(* The tree of RbTree is a red-black tree between calls, and as near to    *)
(* one as the comments of src/rbtree.c say in every turn of the two loops, *)
(* for any number of nodes.  A tree T over the nodes M is Sound when it is *)
(* linked, a function gives each node the number of black nodes on all     *)
(* paths below it (but for the debt, a side one black node short), and red *)
(* is under red at most at one node.  Each rotation moves three or five    *)
(* links and is shown to preserve this by looking at the few nodes that it *)
(* replaces; a node with two kids is taken out as its successor, which     *)
(* then takes its place.  The second half shows that the tree is the timer *)
(* queue: the list of its nodes from left to right is in the order of      *)
(* expiry, and each step changes it as TimerQueue says or not at all.      *)
(***************************************************************************)
EXTENDS RbTree, FiniteSetTheorems, WellFoundedInduction, SequenceTheorems, TLAPS

-----------------------------------------------------------------------------
(* Trees, and what makes them right *)

Colors == {"red", "black"}
Ptr == Nodes \cup {Nil}
Tree == [root : Ptr, kid : [Nodes -> [Sides -> Ptr]], parent : [Nodes -> Ptr],
         color : [Nodes -> Colors]]

\* The nodes of M are linked: child and parent pointers mirror each other.
Linked(T, M) ==
  /\ \A n \in M, d \in Sides : T.kid[n][d] # Nil => T.kid[n][d] \in M /\ T.parent[T.kid[n][d]] = n
  /\ \A n \in M : IF T.parent[n] = Nil THEN T.root = n
                  ELSE T.parent[n] \in M /\ \E d \in Sides : T.kid[T.parent[n]][d] = n
  /\ \A n \in M : T.kid[n]["l"] # Nil => T.kid[n]["l"] # T.kid[n]["r"]
  /\ \A n \in M : T.parent[n] # n
  /\ T.root # Nil => T.root \in M /\ T.parent[T.root] = Nil

Weight(T, n) == IF T.color[n] = "red" THEN 0 ELSE 1
Debt(o, n, d) == IF o = <<n, d>> THEN 1 ELSE 0

\* h gives every node the number of black nodes on all paths down from it, when
\* o is one short.
Even(T, M, h, o) ==
  /\ h \in [Ptr -> Nat] /\ h[Nil] = 0
  /\ \A n \in M, d \in Sides : h[n] = h[T.kid[n][d]] + Weight(T, n) + Debt(o, n, d)

\* Only one node may be red under a red one.
RedOnly(T, M, x) == \A n \in M : IsRed(T, n) /\ IsRed(T, T.parent[n]) => n = x

-----------------------------------------------------------------------------
(* The assignments *)

KidSet(T, U, n, d, m) ==
  /\ U \in Tree /\ U.root = T.root /\ U.parent = T.parent /\ U.color = T.color
  /\ \A x \in Nodes, e \in Sides : U.kid[x][e] = IF x = n /\ e = d THEN m ELSE T.kid[x][e]

ParentSet(T, U, n, p) ==
  /\ U \in Tree /\ U.root = T.root /\ U.kid = T.kid /\ U.color = T.color
  /\ \A x \in Nodes : U.parent[x] = IF x = n THEN p ELSE T.parent[x]

ParentColorSet(T, U, n, p, c) ==
  /\ U \in Tree /\ U.root = T.root /\ U.kid = T.kid
  /\ \A x \in Nodes : U.parent[x] = IF x = n THEN p ELSE T.parent[x]
  /\ \A x \in Nodes : U.color[x] = IF x = n THEN c ELSE T.color[x]

ChildSet(T, U, old, new, p) ==
  /\ U \in Tree /\ U.root = (IF p = Nil THEN new ELSE T.root)
  /\ U.parent = T.parent /\ U.color = T.color
  /\ \A x \in Nodes, e \in Sides :
       U.kid[x][e] = IF x = p /\ e = (IF T.kid[x]["l"] = old THEN "l" ELSE "r")
                     THEN new ELSE T.kid[x][e]

LEMMA SetKidIs ==
  ASSUME NEW T \in Tree, NEW n \in Nodes, NEW d \in Sides, NEW m \in Ptr
  PROVE  KidSet(T, SetKid(T, n, d, m), n, d, m)
  BY DEF KidSet, SetKid, Tree

LEMMA SetParentIs ==
  ASSUME NEW T \in Tree, NEW n \in Nodes, NEW p \in Ptr
  PROVE  ParentSet(T, SetParent(T, n, p), n, p)
  BY DEF ParentSet, SetParent, Tree

LEMMA SetParentColorIs ==
  ASSUME NEW T \in Tree, NEW n \in Nodes, NEW p \in Ptr, NEW c \in Colors
  PROVE  ParentColorSet(T, SetParentColor(T, n, p, c), n, p, c)
  BY DEF ParentColorSet, SetParentColor, Tree

LEMMA MayParentColorIs ==
  ASSUME NEW T \in Tree, NEW n \in Ptr, NEW p \in Ptr, NEW c \in Colors
  PROVE  ParentColorSet(T, MayParentColor(T, n, p, c), n, p, c)
<1>1. CASE n = Nil
  BY <1>1, NodesAssumption DEF ParentColorSet, MayParentColor
<1>2. CASE n \in Nodes
  BY <1>2, NodesAssumption, SetParentColorIs DEF MayParentColor
<1> QED
  BY <1>1, <1>2 DEF Ptr

LEMMA MayParentIs ==
  ASSUME NEW T \in Tree, NEW n \in Ptr, NEW p \in Ptr
  PROVE  ParentSet(T, MayParent(T, n, p), n, p)
<1>1. CASE n = Nil
  BY <1>1, NodesAssumption DEF ParentSet, MayParent
<1>2. CASE n \in Nodes
  BY <1>2, NodesAssumption, SetParentIs DEF MayParent
<1> QED
  BY <1>1, <1>2 DEF Ptr

LEMMA ChangeChildIs ==
  ASSUME NEW T \in Tree, NEW old, NEW new \in Ptr, NEW p \in Ptr
  PROVE  ChildSet(T, ChangeChild(T, old, new, p), old, new, p)
<1> DEFINE U == ChangeChild(T, old, new, p)
<1>1. CASE p = Nil
  BY <1>1, NodesAssumption DEF ChangeChild, ChildSet, Tree
<1>2. CASE p \in Nodes
  <2> DEFINE d == IF T.kid[p]["l"] = old THEN "l" ELSE "r"
  <2>1. d \in Sides
    BY DEF Sides
  <2>2. p # Nil /\ U = SetKid(T, p, d, new)
    BY <1>2, NodesAssumption DEF ChangeChild
  <2> HIDE DEF U
  <2>3. KidSet(T, U, p, d, new)
    <3> HIDE DEF d
    <3> QED
      BY <1>2, <2>1, <2>2, SetKidIs
  <2> QED
    BY <1>2, <2>2, <2>3 DEF KidSet, ChildSet, U
<1> QED
  BY <1>1, <1>2 DEF Ptr

\* The parent of a linked node has it on one side.
LEMMA ChangedChild ==
  ASSUME NEW T \in Tree, NEW M \in SUBSET Nodes, Linked(T, M), NEW old \in M,
         NEW x \in M, NEW e \in Sides
  PROVE  (x = T.parent[old] /\ e = (IF T.kid[x]["l"] = old THEN "l" ELSE "r"))
           <=> T.kid[x][e] = old
<1>1. CASE T.kid[x][e] = old
  <2>1. T.parent[old] = x
    BY <1>1, NodesAssumption DEF Linked
  <2>2. e = "l" \/ (e = "r" /\ T.kid[x]["l"] # old)
    BY <1>1, NodesAssumption DEF Linked, Sides
  <2> QED
    BY <1>1, <2>1, <2>2
<1>2. CASE x = T.parent[old] /\ e = (IF T.kid[x]["l"] = old THEN "l" ELSE "r")
  <2>1. x # Nil
    BY NodesAssumption
  <2>2. \E d \in Sides : T.kid[x][d] = old
    BY <1>2, <2>1 DEF Linked
  <2> QED
    BY <1>2, <2>2 DEF Sides
<1> QED
  BY <1>1, <1>2

-----------------------------------------------------------------------------
(* A rotation moves three links: p goes down to the other side of s *)

Turned(T, U, p, s, d) ==
  /\ U.root = IF T.parent[p] = Nil THEN s ELSE T.root
  /\ \A n \in Nodes, e \in Sides :
       U.kid[n][e] = IF n = p /\ e = d THEN T.kid[s][Opp(d)]
                     ELSE IF n = s /\ e = Opp(d) THEN p
                     ELSE IF n = T.parent[p] /\ e = (IF T.kid[n]["l"] = p THEN "l" ELSE "r") THEN s
                     ELSE T.kid[n][e]
  /\ \A n \in Nodes :
       U.parent[n] = IF n = p THEN s ELSE IF n = s THEN T.parent[p]
                     ELSE IF n = T.kid[s][Opp(d)] THEN p ELSE T.parent[n]

LEMMA SidesAre ==
  ASSUME NEW d \in Sides
  PROVE  /\ Opp(d) \in Sides /\ Opp(d) # d /\ Opp(Opp(d)) = d
         /\ \A e \in Sides : e # d => e = Opp(d)
  BY DEF Sides, Opp

\* What links give, without the sides' names.
LEMMA LinkedIs ==
  ASSUME NEW T \in Tree, NEW M \in SUBSET Nodes, Linked(T, M), NEW n \in M
  PROVE  /\ \A d \in Sides : T.kid[n][d] = Nil \/ (T.kid[n][d] \in M /\ T.parent[T.kid[n][d]] = n)
         /\ \A d \in Sides, e \in Sides : T.kid[n][d] # Nil /\ T.kid[n][d] = T.kid[n][e] => d = e
         /\ T.parent[n] = Nil => T.root = n
         /\ T.parent[n] # Nil =>
              T.parent[n] \in M /\ \E d \in Sides : T.kid[T.parent[n]][d] = n
         /\ T.parent[n] # n /\ n # Nil /\ n \in Nodes
  BY NodesAssumption DEF Linked, Sides

LEMMA IsLinked ==
  ASSUME NEW T \in Tree, NEW M \in SUBSET Nodes,
         \A n \in M, d \in Sides : T.kid[n][d] # Nil => T.kid[n][d] \in M /\ T.parent[T.kid[n][d]] = n,
         \A n \in M, d \in Sides : T.kid[n][d] # Nil => T.kid[n][d] # T.kid[n][Opp(d)],
         \A n \in M : IF T.parent[n] = Nil THEN T.root = n
                      ELSE T.parent[n] \in M /\ \E d \in Sides : T.kid[T.parent[n]][d] = n,
         \A n \in M : T.parent[n] # n,
         T.root # Nil => T.root \in M /\ T.parent[T.root] = Nil
  PROVE  Linked(T, M)
<1>1. Opp("l") = "r" /\ "l" \in Sides
  BY DEF Opp, Sides
<1> QED
  BY <1>1 DEF Linked

LEMMA TurnedLinked ==
  ASSUME NEW T \in Tree, NEW U \in Tree, NEW M \in SUBSET Nodes, Linked(T, M),
         NEW p \in M, NEW d \in Sides, NEW s \in M, T.kid[p][d] = s, T.parent[p] # s,
         Turned(T, U, p, s, d)
  PROVE  /\ Linked(U, M)
         /\ \A x \in Nodes \ M : U.parent[x] = T.parent[x]
         /\ \A x \in M, e \in Sides : x # p /\ x # s =>
              U.kid[x][e] = IF T.kid[x][e] = p THEN s ELSE T.kid[x][e]
         /\ U.kid[p][d] = T.kid[s][Opp(d)] /\ U.kid[p][Opp(d)] = T.kid[p][Opp(d)]
         /\ U.kid[s][Opp(d)] = p /\ U.kid[s][d] = T.kid[s][d]
<1> DEFINE t == T.kid[s][Opp(d)]
           g == T.parent[p]
<1>1. /\ d \in Sides /\ Opp(d) \in Sides /\ Opp(d) # d /\ Opp(Opp(d)) = d
      /\ \A e \in Sides : e = d \/ e = Opp(d)
  BY SidesAre
<1>2. T.parent[s] = p /\ s # p /\ p # Nil /\ s # Nil /\ g # p /\ g # s
  BY LinkedIs, NodesAssumption
<1>3. t = Nil \/ (t \in M /\ T.parent[t] = s /\ t # p /\ t # s /\ t # T.kid[s][d])
  BY <1>1, LinkedIs
<1>4. g = Nil \/ (g \in M /\ \E e \in Sides : T.kid[g][e] = p)
  BY LinkedIs
<1>5. T.kid[p][Opp(d)] # s /\ T.kid[s][d] # p
  BY <1>1, <1>2, LinkedIs
<1>6. /\ U.root = IF g = Nil THEN s ELSE T.root
      /\ \A n \in M, e \in Sides :
           U.kid[n][e] = IF n = p /\ e = d THEN t ELSE IF n = s /\ e = Opp(d) THEN p
                         ELSE IF T.kid[n][e] = p THEN s ELSE T.kid[n][e]
      /\ \A n \in Nodes : U.parent[n] = IF n = p THEN s ELSE IF n = s THEN g
                                        ELSE IF n = t THEN p ELSE T.parent[n]
  <2>1. ASSUME NEW n \in M, NEW e \in Sides
        PROVE  (n = g /\ e = (IF T.kid[n]["l"] = p THEN "l" ELSE "r")) <=> T.kid[n][e] = p
    BY ChangedChild
  <2> QED
    BY <2>1 DEF Turned
<1> HIDE DEF t, g
<1>7. ASSUME NEW n \in M, NEW e \in Sides, U.kid[n][e] # Nil
      PROVE  U.kid[n][e] \in M /\ U.parent[U.kid[n][e]] = n
  <2>1. CASE n = p /\ e = d
    BY <1>2, <1>3, <1>6, <1>7, <2>1
  <2>2. CASE n = s /\ e = Opp(d)
    BY <1>2, <1>6, <2>2
  <2>3. CASE T.kid[n][e] = p /\ ~(n = p /\ e = d) /\ ~(n = s /\ e = Opp(d))
    <3>1. n = g
      BY <1>2, <2>3, LinkedIs DEF g
    <3> QED
      BY <1>2, <1>6, <2>3, <3>1
  <2>4. CASE T.kid[n][e] # p /\ ~(n = p /\ e = d) /\ ~(n = s /\ e = Opp(d))
    <3> DEFINE y == T.kid[n][e]
    <3>1. U.kid[n][e] = y
      BY <1>6, <2>4
    <3>2. y \in M /\ T.parent[y] = n /\ y # p
      BY <1>7, <2>4, <3>1, LinkedIs
    <3>3. y # s
      BY <1>1, <1>2, <1>5, <2>4, <3>2
    <3>4. y # t
      BY <1>1, <1>3, <2>4, <3>2, NodesAssumption
    <3> HIDE DEF y
    <3> QED
      BY <1>6, <3>1, <3>2, <3>3, <3>4
  <2> QED
    BY <2>1, <2>2, <2>3, <2>4
<1>8. ASSUME NEW n \in M, NEW e \in Sides, U.kid[n][e] # Nil PROVE U.kid[n][e] # U.kid[n][Opp(e)]
  <2>0. Opp(e) \in Sides /\ e # Opp(e) /\ (e = d <=> Opp(e) = Opp(d)) /\ (e = Opp(d) <=> Opp(e) = d)
    BY <1>1, SidesAre
  <2>1. T.kid[n][e] # Nil => T.kid[n][e] # T.kid[n][Opp(e)]
    BY <2>0, LinkedIs
  <2>2. CASE n = p
    <3>1. T.kid[p][Opp(d)] = Nil \/ T.parent[T.kid[p][Opp(d)]] = p
      BY <1>1, LinkedIs
    <3>2. T.kid[p][Opp(d)] # p
      BY <1>2, <3>1 DEF g
    <3> QED
      BY <1>1, <1>2, <1>3, <1>6, <1>8, <2>0, <2>2, <3>1, <3>2
  <2>3. CASE n = s
    <3>1. T.kid[s][d] # p
      BY <1>5
    <3> QED
      BY <1>1, <1>2, <1>6, <1>8, <2>0, <2>3, <3>1
  <2>4. CASE n # p /\ n # s
    <3>1. \A c \in Sides : T.kid[n][c] # s
      BY <1>2, <2>4, LinkedIs
    <3> QED
      BY <1>2, <1>6, <1>8, <2>0, <2>1, <2>4, <3>1
  <2> QED
    BY <2>2, <2>3, <2>4
<1>9. ASSUME NEW n \in M
      PROVE  IF U.parent[n] = Nil THEN U.root = n
             ELSE U.parent[n] \in M /\ \E e \in Sides : U.kid[U.parent[n]][e] = n
  <2>1. CASE n = p
    BY <1>1, <1>2, <1>6, <2>1
  <2>2. CASE n = s
    BY <1>1, <1>2, <1>4, <1>6, <2>2
  <2>3. CASE n = t
    BY <1>1, <1>2, <1>3, <1>6, <2>3
  <2>4. CASE n # p /\ n # s /\ n # t
    <3>1. U.parent[n] = T.parent[n]
      BY <1>6, <2>4
    <3>2. CASE T.parent[n] = Nil
      <4>1. T.root = n /\ (g = Nil => T.root = p)
        BY <3>2, LinkedIs DEF g
      <4> QED
        BY <1>6, <2>4, <3>1, <3>2, <4>1
    <3>3. CASE T.parent[n] # Nil
      <4>1. PICK e \in Sides : T.kid[T.parent[n]][e] = n
        BY <3>3, LinkedIs
      <4>2. T.parent[n] \in M
        BY <3>3, LinkedIs
      <4>3. U.kid[T.parent[n]][e] = n
        <5>1. ~(T.parent[n] = p /\ e = d)
          BY <2>4, <4>1
        <5>2. ~(T.parent[n] = s /\ e = Opp(d))
          BY <2>4, <4>1 DEF t
        <5> QED
          BY <1>6, <2>4, <4>1, <4>2, <5>1, <5>2
      <4> QED
        BY <3>1, <3>3, <4>2, <4>3
    <3> QED
      BY <3>2, <3>3
  <2> QED
    BY <2>1, <2>2, <2>3, <2>4
<1>10. \A n \in M : U.parent[n] # n
  BY <1>2, <1>3, <1>6, LinkedIs
<1>11. U.root # Nil => U.root \in M /\ U.parent[U.root] = Nil
  <2>1. CASE g = Nil
    BY <1>2, <1>6, <2>1
  <2>2. CASE g # Nil
    <3>1. T.root # Nil => T.root \in M /\ T.parent[T.root] = Nil
      BY DEF Linked
    <3>2. T.root # p
      BY <1>2, <2>2, <3>1 DEF g
    <3> QED
      BY <1>2, <1>3, <1>6, <2>2, <3>1, <3>2
  <2> QED
    BY <2>1, <2>2
<1>12. Linked(U, M)
  BY <1>7, <1>8, <1>9, <1>10, <1>11, IsLinked
<1>13. \A x \in Nodes \ M : U.parent[x] = T.parent[x]
  BY <1>3, <1>6, NodesAssumption
<1>14. \A x \in M, e \in Sides : x # p /\ x # s =>
         U.kid[x][e] = IF T.kid[x][e] = p THEN s ELSE T.kid[x][e]
  BY <1>6
<1>15. U.kid[p][d] = t /\ U.kid[s][Opp(d)] = p
  BY <1>1, <1>2, <1>6
<1>16. U.kid[p][Opp(d)] = T.kid[p][Opp(d)] /\ U.kid[s][d] = T.kid[s][d]
  <2>1. T.kid[p][Opp(d)] # p
    BY <1>1, <1>2, LinkedIs
  <2> QED
    BY <1>1, <1>2, <1>5, <1>6, <2>1
<1> QED
  BY <1>12, <1>13, <1>14, <1>15, <1>16 DEF t

-----------------------------------------------------------------------------
(* The double rotation: n comes up between p and g *)

Doubled(T, U, g, p, n, d) ==
  /\ U.root = IF T.parent[g] = Nil THEN n ELSE T.root
  /\ \A x \in Nodes, e \in Sides :
       U.kid[x][e] = IF x = p /\ e = Opp(d) THEN T.kid[n][d]
                     ELSE IF x = g /\ e = d THEN T.kid[n][Opp(d)]
                     ELSE IF x = n THEN (IF e = d THEN p ELSE g)
                     ELSE IF x = T.parent[g] /\ e = (IF T.kid[x]["l"] = g THEN "l" ELSE "r") THEN n
                     ELSE T.kid[x][e]
  /\ \A x \in Nodes :
       U.parent[x] = IF x = n THEN T.parent[g] ELSE IF x = g \/ x = p THEN n
                     ELSE IF x = T.kid[n][d] THEN p ELSE IF x = T.kid[n][Opp(d)] THEN g
                     ELSE T.parent[x]

LEMMA DoubledLinked ==
  ASSUME NEW T \in Tree, NEW U \in Tree, NEW M \in SUBSET Nodes, Linked(T, M),
         NEW g \in M, NEW d \in Sides, NEW p \in M, T.kid[g][d] = p,
         NEW n \in M, T.kid[p][Opp(d)] = n, T.parent[g] # p, T.parent[g] # n,
         Doubled(T, U, g, p, n, d)
  PROVE  /\ Linked(U, M)
         /\ \A x \in Nodes \ M : U.parent[x] = T.parent[x]
         /\ \A x \in M, e \in Sides : x \notin {g, p, n} =>
              U.kid[x][e] = IF T.kid[x][e] = g THEN n ELSE T.kid[x][e]
         /\ U.kid[n][d] = p /\ U.kid[n][Opp(d)] = g
         /\ U.kid[p][d] = T.kid[p][d] /\ U.kid[p][Opp(d)] = T.kid[n][d]
         /\ U.kid[g][d] = T.kid[n][Opp(d)] /\ U.kid[g][Opp(d)] = T.kid[g][Opp(d)]
<1> DEFINE a == T.kid[n][d]
           b == T.kid[n][Opp(d)]
           q == T.parent[g]
<1>1. /\ d \in Sides /\ Opp(d) \in Sides /\ Opp(d) # d /\ Opp(Opp(d)) = d
      /\ \A e \in Sides : e = d \/ e = Opp(d)
  BY SidesAre
<1>2. /\ T.parent[p] = g /\ T.parent[n] = p /\ g # p /\ p # n /\ n # g
      /\ g # Nil /\ p # Nil /\ n # Nil /\ q # g /\ q # p /\ q # n
  <2>1. g # Nil /\ p # Nil /\ n # Nil
    BY NodesAssumption
  <2>2. T.parent[p] = g /\ T.parent[n] = p
    BY <1>1, <2>1, LinkedIs
  <2>3. g # p /\ p # n /\ q # g
    BY <2>2, LinkedIs
  <2> QED
    BY <2>1, <2>2, <2>3
<1>3. /\ a = Nil \/ (a \in M /\ T.parent[a] = n /\ a # n /\ a # p /\ a # g /\ a # b)
      /\ b = Nil \/ (b \in M /\ T.parent[b] = n /\ b # n /\ b # p /\ b # g)
  <2>1. a = Nil \/ (a \in M /\ T.parent[a] = n)
    BY LinkedIs
  <2>2. b = Nil \/ (b \in M /\ T.parent[b] = n)
    BY <1>1, LinkedIs
  <2>3. a # Nil => a # b
    BY <1>1, LinkedIs
  <2>4. \A x \in M : T.parent[x] # x
    BY LinkedIs
  <2> HIDE DEF a, b
  <2> QED
    BY <1>2, <2>1, <2>2, <2>3, <2>4 DEF q
<1>4. q = Nil \/ (q \in M /\ \E e \in Sides : T.kid[q][e] = g)
  BY LinkedIs
<1>5. /\ U.root = IF q = Nil THEN n ELSE T.root
      /\ \A x \in M, e \in Sides :
           U.kid[x][e] = IF x = p /\ e = Opp(d) THEN a ELSE IF x = g /\ e = d THEN b
                         ELSE IF x = n THEN (IF e = d THEN p ELSE g)
                         ELSE IF T.kid[x][e] = g THEN n ELSE T.kid[x][e]
      /\ \A x \in Nodes :
           U.parent[x] = IF x = n THEN q ELSE IF x = g \/ x = p THEN n
                         ELSE IF x = a THEN p ELSE IF x = b THEN g ELSE T.parent[x]
  <2>1. ASSUME NEW x \in M, NEW e \in Sides
        PROVE  (x = q /\ e = (IF T.kid[x]["l"] = g THEN "l" ELSE "r")) <=> T.kid[x][e] = g
    BY ChangedChild
  <2> QED
    BY <2>1 DEF Doubled
<1>6. /\ T.kid[g][d] = p /\ T.kid[p][Opp(d)] = n /\ T.kid[n][d] = a /\ T.kid[n][Opp(d)] = b
      /\ \A e \in Sides : T.kid[g][e] # g /\ T.kid[p][e] # g /\ T.kid[n][e] # g
      /\ T.kid[g][Opp(d)] # p /\ T.kid[p][d] # n
  <2>1. \A e \in Sides : T.kid[g][e] # g /\ T.kid[p][e] # g /\ T.kid[n][e] # g
    BY <1>2, LinkedIs DEF q
  <2>2. T.kid[g][Opp(d)] # p
    BY <1>1, <1>2, LinkedIs
  <2>3. T.kid[p][d] # n
    BY <1>1, <1>2, LinkedIs
  <2> QED
    BY <2>1, <2>2, <2>3
<1> HIDE DEF a, b, q
<1>15. U.kid[n][d] = p /\ U.kid[n][Opp(d)] = g /\ U.kid[p][Opp(d)] = a /\ U.kid[g][d] = b
  BY <1>1, <1>2, <1>5
<1>16. U.kid[p][d] = T.kid[p][d] /\ U.kid[g][Opp(d)] = T.kid[g][Opp(d)]
  BY <1>1, <1>2, <1>5, <1>6
<1>7. ASSUME NEW x \in M, NEW e \in Sides, U.kid[x][e] # Nil
      PROVE  U.kid[x][e] \in M /\ U.parent[U.kid[x][e]] = x
  <2>1. CASE x = p /\ e = Opp(d)
    BY <1>2, <1>3, <1>5, <1>7, <2>1
  <2>2. CASE x = g /\ e = d
    BY <1>2, <1>3, <1>5, <1>7, <2>2
  <2>3. CASE x = n
    BY <1>1, <1>2, <1>5, <2>3
  <2>4. CASE T.kid[x][e] = g /\ ~(x = p /\ e = Opp(d)) /\ ~(x = g /\ e = d) /\ x # n
    <3>1. x = q
      BY <1>2, <2>4, LinkedIs DEF q
    <3> QED
      BY <1>2, <1>5, <2>4, <3>1
  <2>5. CASE T.kid[x][e] # g /\ ~(x = p /\ e = Opp(d)) /\ ~(x = g /\ e = d) /\ x # n
    <3> DEFINE y == T.kid[x][e]
    <3>1. U.kid[x][e] = y
      BY <1>5, <2>5
    <3>2. y \in M /\ T.parent[y] = x /\ y # g
      BY <1>7, <2>5, <3>1, LinkedIs
    <3>3. y # p /\ y # n
      BY <1>1, <1>2, <1>6, <2>5, <3>2
    <3>4. y # a /\ y # b
      BY <1>3, <2>5, <3>2, NodesAssumption
    <3> HIDE DEF y
    <3> QED
      BY <1>5, <3>1, <3>2, <3>3, <3>4
  <2> QED
    BY <2>1, <2>2, <2>3, <2>4, <2>5
<1>8. ASSUME NEW x \in M, NEW e \in Sides, U.kid[x][e] # Nil PROVE U.kid[x][e] # U.kid[x][Opp(e)]
  <2>0. Opp(e) \in Sides /\ e # Opp(e) /\ (e = d <=> Opp(e) = Opp(d)) /\ (e = Opp(d) <=> Opp(e) = d)
    BY <1>1, SidesAre
  <2>1. T.kid[x][e] # Nil => T.kid[x][e] # T.kid[x][Opp(e)]
    BY <2>0, LinkedIs
  <2>2. CASE x = p
    <3>1. T.kid[p][d] = Nil \/ T.parent[T.kid[p][d]] = p
      BY <1>1, LinkedIs
    <3> QED
      BY <1>1, <1>2, <1>3, <1>8, <1>15, <1>16, <2>0, <2>2, <3>1
  <2>3. CASE x = g
    <3>1. T.kid[g][Opp(d)] = Nil \/ T.parent[T.kid[g][Opp(d)]] = g
      BY <1>1, LinkedIs
    <3> QED
      BY <1>1, <1>2, <1>3, <1>8, <1>15, <1>16, <2>0, <2>3, <3>1
  <2>4. CASE x = n
    BY <1>1, <1>2, <1>5, <2>0, <2>4
  <2>5. CASE x # p /\ x # g /\ x # n
    <3>1. \A c \in Sides : T.kid[x][c] # n
      BY <1>2, <2>5, LinkedIs
    <3> QED
      BY <1>2, <1>5, <1>8, <2>0, <2>1, <2>5, <3>1
  <2> QED
    BY <2>2, <2>3, <2>4, <2>5
<1>9. ASSUME NEW x \in M
      PROVE  IF U.parent[x] = Nil THEN U.root = x
             ELSE U.parent[x] \in M /\ \E e \in Sides : U.kid[U.parent[x]][e] = x
  <2>1. CASE x = n
    <3>1. U.parent[n] = q /\ n \in Nodes
      BY <1>5
    <3>2. CASE q = Nil
      BY <1>5, <2>1, <3>1, <3>2
    <3>3. CASE q # Nil
      <4>1. PICK e \in Sides : T.kid[q][e] = g
        BY <1>4, <3>3
      <4>2. q \in M /\ U.kid[q][e] = n
        BY <1>2, <1>4, <1>5, <3>3, <4>1
      <4> QED
        BY <2>1, <3>1, <3>3, <4>2
    <3> QED
      BY <3>2, <3>3
  <2>2. CASE x = g \/ x = p
    BY <1>1, <1>2, <1>5, <2>2
  <2>3. CASE x = a
    BY <1>1, <1>2, <1>3, <1>5, <2>3
  <2>4. CASE x = b
    <3>1. b # n /\ b # g /\ b # p /\ b # a /\ b \in Nodes
      BY <1>3, <2>4, NodesAssumption
    <3>2. U.parent[b] = g
      BY <1>5, <3>1
    <3> QED
      BY <1>1, <1>2, <1>15, <2>4, <3>2
  <2>5. CASE x # g /\ x # p /\ x # n /\ x # a /\ x # b
    <3>1. U.parent[x] = T.parent[x]
      BY <1>5, <2>5
    <3>2. CASE T.parent[x] = Nil
      <4>1. T.root = x /\ (q = Nil => T.root = g)
        BY <3>2, LinkedIs DEF q
      <4> QED
        BY <1>5, <2>5, <3>1, <3>2, <4>1
    <3>3. CASE T.parent[x] # Nil
      <4>1. PICK e \in Sides : T.kid[T.parent[x]][e] = x
        BY <3>3, LinkedIs
      <4>2. T.parent[x] \in M
        BY <3>3, LinkedIs
      <4>3. U.kid[T.parent[x]][e] = x
        <5>1. ~(T.parent[x] = p /\ e = Opp(d)) /\ ~(T.parent[x] = g /\ e = d)
          BY <1>6, <2>5, <4>1
        <5>2. T.parent[x] # n
          BY <1>1, <1>6, <2>5, <4>1
        <5> QED
          BY <1>5, <2>5, <4>1, <4>2, <5>1, <5>2
      <4> QED
        BY <3>1, <3>3, <4>2, <4>3
    <3> QED
      BY <3>2, <3>3
  <2> QED
    BY <2>1, <2>2, <2>3, <2>4, <2>5
<1>10. ASSUME NEW x \in M PROVE U.parent[x] # x
  <2>1. T.parent[x] # x /\ x # Nil /\ x \in Nodes
    BY LinkedIs
  <2>2. CASE x \in {n, g, p}
    BY <1>2, <1>5, <2>2
  <2>3. CASE x \notin {n, g, p}
    BY <1>5, <2>1, <2>3
  <2> QED
    BY <2>2, <2>3
<1>11. U.root # Nil => U.root \in M /\ U.parent[U.root] = Nil
  <2>1. CASE q = Nil
    BY <1>2, <1>5, <2>1
  <2>2. CASE q # Nil
    <3>1. T.root # Nil => T.root \in M /\ T.parent[T.root] = Nil
      BY DEF Linked
    <3>2. T.root # g
      BY <1>2, <2>2, <3>1 DEF q
    <3> QED
      BY <1>2, <1>3, <1>5, <2>2, <3>1, <3>2
  <2> QED
    BY <2>1, <2>2
<1>12. Linked(U, M)
  BY <1>7, <1>8, <1>9, <1>10, <1>11, IsLinked
<1>13. \A x \in Nodes \ M : U.parent[x] = T.parent[x]
  BY <1>3, <1>5, NodesAssumption
<1>14. \A x \in M, e \in Sides : x \notin {g, p, n} =>
         U.kid[x][e] = IF T.kid[x][e] = g THEN n ELSE T.kid[x][e]
  BY <1>5
<1> QED
  BY <1>12, <1>13, <1>14, <1>15, <1>16 DEF a, b

-----------------------------------------------------------------------------
(* What the rotations of the code do to the links and the colors *)

Rotated(T, U, old, new, c) ==
  /\ U \in Tree /\ U.root = IF T.parent[old] = Nil THEN new ELSE T.root
  /\ \A x \in Nodes, e \in Sides :
       U.kid[x][e] = IF x = T.parent[old] /\ e = (IF T.kid[x]["l"] = old THEN "l" ELSE "r")
                     THEN new ELSE T.kid[x][e]
  /\ \A x \in Nodes : U.parent[x] = IF x = old THEN new ELSE IF x = new THEN T.parent[old]
                                    ELSE T.parent[x]
  /\ \A x \in Nodes : U.color[x] = IF x = old THEN c ELSE IF x = new THEN T.color[old]
                                   ELSE T.color[x]

LEMMA RotateIs ==
  ASSUME NEW T \in Tree, NEW old \in Nodes, NEW new \in Nodes, old # new, NEW c \in Colors
  PROVE  Rotated(T, RotateSetParents(T, old, new, c), old, new, c)
<1> DEFINE p == T.parent[old]
           t1 == SetParentColor(T, new, p, T.color[old])
           t2 == SetParentColor(t1, old, new, c)
           U == ChangeChild(t2, old, new, p)
<1>1. p \in Ptr /\ T.color[old] \in Colors /\ old \in Ptr /\ new \in Ptr
  BY DEF Tree, Ptr
<1>2. RotateSetParents(T, old, new, c) = U
  BY DEF RotateSetParents
<1> HIDE DEF p
<1>3. ParentColorSet(T, t1, new, p, T.color[old])
  BY <1>1, SetParentColorIs
<1> HIDE DEF t1
<1>4. t1 \in Tree
  BY <1>3 DEF ParentColorSet
<1>5. ParentColorSet(t1, t2, old, new, c)
  BY <1>1, <1>4, SetParentColorIs
<1> HIDE DEF t2
<1>6. t2 \in Tree
  BY <1>5 DEF ParentColorSet
<1>7. ChildSet(t2, U, old, new, p)
  BY <1>1, <1>6, ChangeChildIs
<1> HIDE DEF U
<1>8. U \in Tree /\ U.root = IF p = Nil THEN new ELSE T.root
  BY <1>3, <1>5, <1>7 DEF ParentColorSet, ChildSet
<1>9. \A x \in Nodes, e \in Sides :
        U.kid[x][e] = IF x = p /\ e = (IF T.kid[x]["l"] = old THEN "l" ELSE "r")
                      THEN new ELSE T.kid[x][e]
  BY <1>3, <1>5, <1>7 DEF ParentColorSet, ChildSet
<1>10. \A x \in Nodes : U.parent[x] = IF x = old THEN new ELSE IF x = new THEN p ELSE T.parent[x]
  BY <1>3, <1>5, <1>7 DEF ParentColorSet, ChildSet
<1>11. \A x \in Nodes : U.color[x] = IF x = old THEN c ELSE IF x = new THEN T.color[old]
                                     ELSE T.color[x]
  BY <1>3, <1>5, <1>7 DEF ParentColorSet, ChildSet
<1> QED
  BY <1>2, <1>8, <1>9, <1>10, <1>11 DEF Rotated, p

\* Who is who at a rotation.
Pivot(T, M, p, s, d) ==
  /\ Linked(T, M) /\ p \in M /\ d \in Sides /\ s \in M /\ T.kid[p][d] = s /\ T.parent[p] # s

LEMMA PivotIs ==
  ASSUME NEW T \in Tree, NEW M \in SUBSET Nodes, NEW p, NEW s, NEW d, Pivot(T, M, p, s, d)
  PROVE  /\ p \in Nodes /\ s \in Nodes /\ p # Nil /\ s # Nil /\ p # s /\ T.parent[s] = p
         /\ T.parent[p] # p /\ T.parent[p] # s /\ Opp(d) \in Sides /\ Opp(d) # d
         /\ LET t == T.kid[s][Opp(d)]
            IN  t \in Ptr /\ t # p /\ t # s /\ (t # Nil => t \in M /\ T.parent[t] = s)
<1>1. Opp(d) \in Sides /\ Opp(d) # d
  BY SidesAre DEF Pivot
<1>2. /\ p \in Nodes /\ s \in Nodes /\ p # Nil /\ s # Nil /\ T.parent[s] = p
      /\ T.parent[p] # p /\ T.parent[p] # s
  BY LinkedIs, NodesAssumption DEF Pivot
<1>3. p # s
  BY <1>2
<1> DEFINE t == T.kid[s][Opp(d)]
<1>4. t = Nil \/ (t \in M /\ T.parent[t] = s)
  BY <1>1, LinkedIs DEF Pivot
<1> HIDE DEF t
<1>5. t \in Ptr /\ t # p /\ t # s /\ (t # Nil => t \in M /\ T.parent[t] = s)
  BY <1>2, <1>3, <1>4 DEF Ptr
<1> QED
  BY <1>1, <1>2, <1>3, <1>5 DEF t

\* What a rotation needs of p and s; their link may have been moved already.
Turnable(T, p, s, d) ==
  /\ p \in Nodes /\ s \in Nodes /\ p # s /\ p \in Ptr /\ p # Nil /\ s # Nil
  /\ T.parent[p] # s /\ T.parent[p] # p
  /\ d \in Sides /\ Opp(d) \in Sides /\ Opp(d) # d
  /\ T.kid[s][Opp(d)] \in Ptr /\ T.kid[s][Opp(d)] # p /\ T.kid[s][Opp(d)] # s

LEMMA PivotTurns ==
  ASSUME NEW T \in Tree, NEW M \in SUBSET Nodes, NEW p, NEW s, NEW d, Pivot(T, M, p, s, d)
  PROVE  Turnable(T, p, s, d)
<1>1. d \in Sides
  BY DEF Pivot
<1> QED
  BY <1>1, PivotIs DEF Turnable, Ptr

\* The pivots' colors behind the rotation.
Recolored(T, U, p, s, d, c, ct) ==
  \A x \in Nodes : U.color[x] = IF x = p THEN c ELSE IF x = s THEN T.color[p]
                                ELSE IF x = T.kid[s][Opp(d)] THEN ct ELSE T.color[x]

\* The stages of a rotation at p: two children, the inner subtree, the rest.
LEMMA StagesTurn ==
  ASSUME NEW T \in Tree, NEW p, NEW s, NEW d, Turnable(T, p, s, d), NEW c, NEW c1 \in Colors, NEW A, NEW B, NEW C, NEW U,
         KidSet(T, A, p, d, T.kid[s][Opp(d)]), KidSet(A, B, s, Opp(d), p),
         ParentColorSet(B, C, T.kid[s][Opp(d)], p, c1), Rotated(C, U, p, s, c)
  PROVE  U \in Tree /\ Turned(T, U, p, s, d) /\ Recolored(T, U, p, s, d, c, c1)
<1> DEFINE t == T.kid[s][Opp(d)]
<1>1. /\ p \in Nodes /\ s \in Nodes /\ p # s /\ p # Nil /\ T.parent[p] # s /\ T.parent[p] # p
      /\ t \in Ptr /\ t # p /\ t # s /\ p \in Ptr
      /\ d \in Sides /\ Opp(d) \in Sides
  BY DEF Turnable
<1>2. KidSet(T, A, p, d, t) /\ KidSet(A, B, s, Opp(d), p) /\ ParentColorSet(B, C, t, p, c1)
  OBVIOUS
<1> HIDE DEF t
<1>3. C.parent[p] = T.parent[p] /\ C.color[p] = T.color[p]
  BY <1>1, <1>2 DEF KidSet, ParentColorSet
<1>4. /\ C.root = T.root
      /\ \A x \in Nodes : C.parent[x] = IF x = t THEN p ELSE T.parent[x]
      /\ \A x \in Nodes : C.color[x] = IF x = t THEN c1 ELSE T.color[x]
  BY <1>2 DEF KidSet, ParentColorSet
<1>5. \A x \in Nodes, e \in Sides :
         C.kid[x][e] = IF x = s /\ e = Opp(d) THEN p ELSE IF x = p /\ e = d THEN t ELSE T.kid[x][e]
  BY <1>2 DEF KidSet, ParentColorSet
<1>6. "l" \in Sides
  BY DEF Sides
<1>7. /\ U.root = IF T.parent[p] = Nil THEN s ELSE C.root
      /\ \A x \in Nodes, e \in Sides :
           U.kid[x][e] = IF x = T.parent[p] /\ e = (IF C.kid[x]["l"] = p THEN "l" ELSE "r")
                         THEN s ELSE C.kid[x][e]
      /\ \A x \in Nodes : U.parent[x] = IF x = p THEN s ELSE IF x = s THEN T.parent[p]
                                        ELSE C.parent[x]
      /\ \A x \in Nodes : U.color[x] = IF x = p THEN c ELSE IF x = s THEN T.color[p]
                                       ELSE C.color[x]
  BY <1>3 DEF Rotated
<1>8. \A x \in Nodes : x # p /\ x # s => C.kid[x]["l"] = T.kid[x]["l"]
  BY <1>1, <1>5, <1>6
<1>9. \A x \in Nodes, e \in Sides :
        U.kid[x][e] = IF x = p /\ e = d THEN t ELSE IF x = s /\ e = Opp(d) THEN p
                      ELSE IF x = T.parent[p] /\ e = (IF T.kid[x]["l"] = p THEN "l" ELSE "r") THEN s
                      ELSE T.kid[x][e]
  BY <1>1, <1>5, <1>7, <1>8
<1>10. \A x \in Nodes : U.parent[x] = IF x = p THEN s ELSE IF x = s THEN T.parent[p]
                                      ELSE IF x = t THEN p ELSE T.parent[x]
  BY <1>1, <1>4, <1>7
<1>11. U.root = IF T.parent[p] = Nil THEN s ELSE T.root
  BY <1>4, <1>7
<1>12. Turned(T, U, p, s, d)
  BY <1>9, <1>10, <1>11 DEF Turned, t
<1>13. \A x \in Nodes : U.color[x] = IF x = p THEN c ELSE IF x = s THEN T.color[p]
                               ELSE IF x = t THEN c1 ELSE T.color[x]
  BY <1>4, <1>7
<1>14. Recolored(T, U, p, s, d, c, c1)
  BY <1>13 DEF Recolored, t
<1> QED
  BY <1>12, <1>14 DEF Rotated

LEMMA OuterIs ==
  ASSUME NEW T \in Tree, NEW g, NEW p, NEW d, Turnable(T, g, p, d)
  PROVE  LET U == OuterRotated(T, p, g, d)
         IN  U \in Tree /\ Turned(T, U, g, p, d) /\ Recolored(T, U, g, p, d, "red", "black")
<1> DEFINE t == T.kid[p][Opp(d)]
           A == SetKid(T, g, d, t)
           B == SetKid(A, p, Opp(d), g)
           C == MayParentColor(B, t, g, "black")
           U == RotateSetParents(C, g, p, "red")
<1>1. /\ g \in Nodes /\ p \in Nodes /\ g # p /\ t \in Ptr /\ g \in Ptr
      /\ d \in Sides /\ Opp(d) \in Sides /\ "red" \in Colors /\ "black" \in Colors
  BY DEF Turnable, Colors
<1>2. OuterRotated(T, p, g, d) = U
  BY DEF OuterRotated
<1> HIDE DEF t
<1>3. KidSet(T, A, g, d, t) /\ A \in Tree
  <2>1. KidSet(T, A, g, d, t)
    BY <1>1, SetKidIs
  <2> QED
    BY <2>1 DEF KidSet
<1> HIDE DEF A
<1>4. KidSet(A, B, p, Opp(d), g) /\ B \in Tree
  <2>1. KidSet(A, B, p, Opp(d), g)
    BY <1>1, <1>3, SetKidIs
  <2> QED
    BY <2>1 DEF KidSet
<1> HIDE DEF B
<1>5. ParentColorSet(B, C, t, g, "black") /\ C \in Tree
  <2>1. ParentColorSet(B, C, t, g, "black")
    BY <1>1, <1>4, MayParentColorIs
  <2> QED
    BY <2>1 DEF ParentColorSet
<1> HIDE DEF C
<1>6. Rotated(C, U, g, p, "red")
  BY <1>1, <1>5, RotateIs
<1> HIDE DEF U
<1>7. U \in Tree /\ Turned(T, U, g, p, d) /\ Recolored(T, U, g, p, d, "red", "black")
  BY <1>1, <1>3, <1>4, <1>5, <1>6, StagesTurn DEF t
<1> QED
  BY <1>2, <1>7

LEMMA SiblingIs ==
  ASSUME NEW T \in Tree, NEW M \in SUBSET Nodes, NEW p, NEW s, NEW d, Pivot(T, M, p, s, d),
         T.kid[s][Opp(d)] # Nil
  PROVE  LET U == SiblingRotated(T, p, d)
         IN  U \in Tree /\ Turned(T, U, p, s, d) /\ Recolored(T, U, p, s, d, "red", "black")
<1> DEFINE t == T.kid[s][Opp(d)]
           A == SetKid(T, p, d, t)
           B == SetKid(A, s, Opp(d), p)
           C == SetParentColor(B, t, p, "black")
           U == RotateSetParents(C, p, s, "red")
<1>1. /\ p \in Nodes /\ s \in Nodes /\ p # s /\ t \in Ptr /\ t \in Nodes /\ p \in Ptr
      /\ d \in Sides /\ Opp(d) \in Sides /\ "red" \in Colors /\ "black" \in Colors
  BY PivotTurns DEF Turnable, Colors, Ptr
<1>2. SiblingRotated(T, p, d) = U
  BY DEF SiblingRotated, Pivot
<1> HIDE DEF t
<1>3. KidSet(T, A, p, d, t) /\ A \in Tree
  <2>1. KidSet(T, A, p, d, t)
    BY <1>1, SetKidIs
  <2> QED
    BY <2>1 DEF KidSet
<1> HIDE DEF A
<1>4. KidSet(A, B, s, Opp(d), p) /\ B \in Tree
  <2>1. KidSet(A, B, s, Opp(d), p)
    BY <1>1, <1>3, SetKidIs
  <2> QED
    BY <2>1 DEF KidSet
<1> HIDE DEF B
<1>5. ParentColorSet(B, C, t, p, "black") /\ C \in Tree
  <2>1. ParentColorSet(B, C, t, p, "black")
    BY <1>1, <1>4, SetParentColorIs
  <2> QED
    BY <2>1 DEF ParentColorSet
<1> HIDE DEF C
<1>6. Rotated(C, U, p, s, "red")
  BY <1>1, <1>5, RotateIs
<1> HIDE DEF U
<1>7. U \in Tree /\ Turned(T, U, p, s, d) /\ Recolored(T, U, p, s, d, "red", "black")
  BY <1>1, <1>3, <1>4, <1>5, <1>6, PivotTurns, StagesTurn DEF t
<1> QED
  BY <1>2, <1>7

\* Case 4 of the erase blackens the outer child instead.
OuterBlack(T, U, p, s, out) ==
  \A x \in Nodes : U.color[x] = IF x = p THEN "black" ELSE IF x = s THEN T.color[p]
                                ELSE IF x = out THEN "black" ELSE T.color[x]

\* What ParentRotated() does; its T need not be linked.
ParentTurned(T, U, p, s, d, t, out) ==
  /\ U \in Tree
  /\ U.root = IF T.parent[p] = Nil THEN s ELSE T.root
  /\ \A x \in Nodes, e \in Sides : x # p /\ x # s =>
       U.kid[x][e] = IF x = T.parent[p] /\ e = (IF T.kid[x]["l"] = p THEN "l" ELSE "r")
                     THEN s ELSE T.kid[x][e]
  /\ \A e \in Sides : U.kid[p][e] = IF e = d THEN t ELSE T.kid[p][e]
  /\ \A e \in Sides : U.kid[s][e] = IF e = Opp(d) THEN p ELSE T.kid[s][e]
  /\ \A x \in Nodes : U.parent[x] = IF x = p THEN s ELSE IF x = s THEN T.parent[p]
                        ELSE IF x = t THEN p ELSE IF x = out THEN s ELSE T.parent[x]
  /\ OuterBlack(T, U, p, s, out)

LEMMA StagesParent ==
  ASSUME NEW T \in Tree, NEW p \in Nodes, NEW d \in Sides, NEW s \in Nodes, T.kid[p][d] = s,
         p # s, NEW out \in Nodes, T.kid[s][d] = out, NEW t \in Ptr, T.kid[s][Opp(d)] = t,
         out # p, t # p, T.parent[p] # p, T.parent[p] # s
  PROVE  ParentTurned(T, ParentRotated(T, p, d), p, s, d, t, out)
<1> DEFINE A == SetKid(T, p, d, t)
           B == SetKid(A, s, Opp(d), p)
           C == SetParentColor(B, out, s, "black")
           D == MayParent(C, t, p)
           V == RotateSetParents(D, p, s, "black")
<1>1. p \in Ptr /\ s \in Ptr /\ Opp(d) \in Sides /\ Opp(d) # d /\ "black" \in Colors
  BY SidesAre DEF Ptr, Colors
<1>2. ParentRotated(T, p, d) = V
  BY DEF ParentRotated
<1>3. KidSet(T, A, p, d, t) /\ A \in Tree
  <2>1. KidSet(T, A, p, d, t)
    BY <1>1, SetKidIs
  <2> QED
    BY <2>1 DEF KidSet
<1> HIDE DEF A
<1>4. KidSet(A, B, s, Opp(d), p) /\ B \in Tree
  <2>1. KidSet(A, B, s, Opp(d), p)
    BY <1>1, <1>3, SetKidIs
  <2> QED
    BY <2>1 DEF KidSet
<1> HIDE DEF B
<1>5. ParentColorSet(B, C, out, s, "black") /\ C \in Tree
  <2>1. ParentColorSet(B, C, out, s, "black")
    BY <1>1, <1>4, SetParentColorIs
  <2> QED
    BY <2>1 DEF ParentColorSet
<1> HIDE DEF C
<1>6. ParentSet(C, D, t, p) /\ D \in Tree
  <2>1. ParentSet(C, D, t, p)
    BY <1>1, <1>5, MayParentIs
  <2> QED
    BY <2>1 DEF ParentSet
<1> HIDE DEF D
<1>7. Rotated(D, V, p, s, "black")
  BY <1>1, <1>6, RotateIs
<1> HIDE DEF V
<1>8. /\ D.root = T.root
      /\ \A x \in Nodes : D.parent[x] = IF x = t THEN p ELSE IF x = out THEN s ELSE T.parent[x]
      /\ \A x \in Nodes : D.color[x] = IF x = out THEN "black" ELSE T.color[x]
      /\ \A x \in Nodes, e \in Sides :
           D.kid[x][e] = IF x = s /\ e = Opp(d) THEN p ELSE IF x = p /\ e = d THEN t ELSE T.kid[x][e]
  BY <1>3, <1>4, <1>5, <1>6 DEF KidSet, ParentColorSet, ParentSet
<1>9. D.parent[p] = T.parent[p] /\ D.color[p] = T.color[p]
  BY <1>1, <1>8
<1>10. /\ V.root = IF T.parent[p] = Nil THEN s ELSE D.root
       /\ \A x \in Nodes, e \in Sides :
            V.kid[x][e] = IF x = T.parent[p] /\ e = (IF D.kid[x]["l"] = p THEN "l" ELSE "r")
                          THEN s ELSE D.kid[x][e]
       /\ \A x \in Nodes : V.parent[x] = IF x = p THEN s ELSE IF x = s THEN T.parent[p]
                                         ELSE D.parent[x]
       /\ \A x \in Nodes : V.color[x] = IF x = p THEN "black" ELSE IF x = s THEN T.color[p]
                                        ELSE D.color[x]
  BY <1>7, <1>9 DEF Rotated
<1>11. "l" \in Sides
  BY DEF Sides
<1>12. \A x \in Nodes, e \in Sides : x # p /\ x # s => D.kid[x][e] = T.kid[x][e]
  BY <1>8
<1>13. \A x \in Nodes, e \in Sides : x # p /\ x # s =>
         V.kid[x][e] = IF x = T.parent[p] /\ e = (IF T.kid[x]["l"] = p THEN "l" ELSE "r")
                       THEN s ELSE T.kid[x][e]
  BY <1>10, <1>11, <1>12
<1>14. ASSUME NEW e \in Sides
       PROVE  /\ V.kid[p][e] = IF e = d THEN t ELSE T.kid[p][e]
              /\ V.kid[s][e] = IF e = Opp(d) THEN p ELSE T.kid[s][e]
  <2>1. V.kid[p][e] = D.kid[p][e] /\ V.kid[s][e] = D.kid[s][e]
    BY <1>10
  <2> QED
    BY <1>8, <2>1
<1>15. \A x \in Nodes : V.parent[x] = IF x = p THEN s ELSE IF x = s THEN T.parent[p]
                          ELSE IF x = t THEN p ELSE IF x = out THEN s ELSE T.parent[x]
  BY <1>8, <1>10
<1>16. OuterBlack(T, V, p, s, out)
  BY <1>8, <1>10 DEF OuterBlack
<1>17. V \in Tree /\ V.root = IF T.parent[p] = Nil THEN s ELSE T.root
  BY <1>7, <1>8, <1>10 DEF Rotated
<1> QED
  BY <1>2, <1>13, <1>14, <1>15, <1>16, <1>17 DEF ParentTurned

LEMMA ParentIs ==
  ASSUME NEW T \in Tree, NEW M \in SUBSET Nodes, NEW p, NEW s, NEW d, Pivot(T, M, p, s, d),
         NEW out, T.kid[s][d] = out, out # Nil
  PROVE  LET U == ParentRotated(T, p, d)
         IN  U \in Tree /\ Turned(T, U, p, s, d) /\ OuterBlack(T, U, p, s, out)
<1> DEFINE t == T.kid[s][Opp(d)]
           U == ParentRotated(T, p, d)
<1>1. /\ p \in Nodes /\ s \in Nodes /\ p # s /\ T.parent[p] # s /\ T.parent[p] # p
      /\ d \in Sides /\ t \in Ptr /\ t # p /\ t # s /\ Opp(d) # d /\ Opp(d) \in Sides
  BY PivotTurns DEF Turnable
<1>2. /\ T.kid[p][d] = s /\ T.parent[s] = p
      /\ \A e \in Sides : T.kid[s][e] = Nil \/ (T.kid[s][e] \in M /\ T.parent[T.kid[s][e]] = s)
  BY PivotIs, LinkedIs DEF Pivot
<1>3. out \in Nodes /\ out # p /\ out # s /\ T.parent[out] = s
  <2>1. out \in M /\ T.parent[out] = s
    BY <1>1, <1>2
  <2>2. out \in Nodes /\ T.parent[out] # out
    BY <2>1, LinkedIs DEF Pivot
  <2> QED
    BY <1>1, <2>1, <2>2
<1>4. out # t
  <2>1. \A c \in Sides, e \in Sides : T.kid[s][c] # Nil /\ T.kid[s][c] = T.kid[s][e] => c = e
    BY LinkedIs DEF Pivot
  <2> QED
    BY <1>1, <2>1
<1> HIDE DEF U
<1>5. ParentTurned(T, U, p, s, d, t, out)
  <2>1. U = ParentRotated(T, p, d)
    BY DEF U
  <2> HIDE DEF t
  <2>2. T.kid[s][Opp(d)] = t
    BY DEF t
  <2> QED
    BY <1>1, <1>2, <1>3, <2>1, <2>2, StagesParent
<1> HIDE DEF t
<1>6. \A x \in Nodes, e \in Sides :
        U.kid[x][e] = IF x = p /\ e = d THEN t ELSE IF x = s /\ e = Opp(d) THEN p
                      ELSE IF x = T.parent[p] /\ e = (IF T.kid[x]["l"] = p THEN "l" ELSE "r") THEN s
                      ELSE T.kid[x][e]
  <2> TAKE x \in Nodes, e \in Sides
  <2>1. CASE x = p
    BY <1>1, <1>5, <2>1 DEF ParentTurned
  <2>2. CASE x = s
    BY <1>1, <1>5, <2>2 DEF ParentTurned
  <2>3. CASE x # p /\ x # s
    BY <1>1, <1>5, <2>3 DEF ParentTurned
  <2> QED
    BY <2>1, <2>2, <2>3
<1>7. \A x \in Nodes : U.parent[x] = IF x = p THEN s ELSE IF x = s THEN T.parent[p]
                                     ELSE IF x = t THEN p ELSE T.parent[x]
  BY <1>3, <1>4, <1>5 DEF ParentTurned
<1>8. Turned(T, U, p, s, d)
  BY <1>5, <1>6, <1>7 DEF ParentTurned, Turned, t
<1> QED
  BY <1>5, <1>8 DEF ParentTurned, U

\* Who is who at a double rotation.
Corner(T, M, g, p, n, d) ==
  /\ Linked(T, M) /\ g \in M /\ d \in Sides /\ p \in M /\ T.kid[g][d] = p
  /\ n \in M /\ T.kid[p][Opp(d)] = n /\ T.parent[g] # p /\ T.parent[g] # n

\* a and b are the subtrees of n; what all of them are to each other.
Cornered(T, M, g, p, n, d, a, b) ==
  /\ d \in Sides /\ Opp(d) \in Sides /\ Opp(d) # d
  /\ g \in Nodes /\ p \in Nodes /\ n \in Nodes /\ g \in Ptr /\ p \in Ptr /\ n \in Ptr
  /\ T.parent[p] = g /\ T.parent[n] = p /\ g # p /\ p # n /\ n # g
  /\ g # Nil /\ p # Nil /\ n # Nil
  /\ T.parent[g] # g /\ T.parent[g] # p /\ T.parent[g] # n
  /\ a \in Ptr /\ a # n /\ a # p /\ a # g /\ (a # Nil => a # b /\ a \in M /\ T.parent[a] = n)
  /\ b \in Ptr /\ b # n /\ b # p /\ b # g /\ (b # Nil => b \in M /\ T.parent[b] = n)

LEMMA CornerIs ==
  ASSUME NEW T \in Tree, NEW M \in SUBSET Nodes, NEW g, NEW p, NEW n, NEW d,
         Corner(T, M, g, p, n, d)
  PROVE  Cornered(T, M, g, p, n, d, T.kid[n][d], T.kid[n][Opp(d)])
<1> DEFINE a == T.kid[n][d]
           b == T.kid[n][Opp(d)]
<1>1. d \in Sides /\ Opp(d) \in Sides /\ Opp(d) # d
  BY SidesAre DEF Corner
<1>2. /\ g \in Nodes /\ p \in Nodes /\ n \in Nodes /\ g \in Ptr /\ p \in Ptr /\ n \in Ptr
      /\ g # Nil /\ p # Nil /\ n # Nil
  BY NodesAssumption DEF Corner, Ptr
<1>3. T.parent[p] = g /\ T.parent[n] = p
  BY <1>1, <1>2, LinkedIs DEF Corner
<1>4. \A x \in M : T.parent[x] # x
  BY LinkedIs DEF Corner
<1>5. g # p /\ p # n /\ n # g /\ T.parent[g] # g /\ T.parent[g] # p /\ T.parent[g] # n
  BY <1>3, <1>4 DEF Corner
<1>6. a # Nil => a # b /\ a \in M /\ T.parent[a] = n
  BY <1>1, LinkedIs DEF Corner
<1>7. b # Nil => b \in M /\ T.parent[b] = n
  BY <1>1, LinkedIs DEF Corner
<1> HIDE DEF a, b
<1>8. a \in Ptr /\ a # n /\ a # p /\ a # g
  BY <1>2, <1>3, <1>4, <1>5, <1>6 DEF Ptr
<1>9. b \in Ptr /\ b # n /\ b # p /\ b # g
  BY <1>2, <1>3, <1>4, <1>5, <1>7 DEF Ptr
<1> QED
  BY <1>1, <1>2, <1>3, <1>5, <1>6, <1>7, <1>8, <1>9 DEF Cornered, a, b

BothRed(T, U, g, p, n, d) ==
  \A x \in Nodes : U.color[x] =
    IF x = g \/ x = p THEN "red" ELSE IF x = n THEN T.color[g]
    ELSE IF x = T.kid[n][d] \/ x = T.kid[n][Opp(d)] THEN "black" ELSE T.color[x]

\* Case 2 of the insertion followed by case 3.
LEMMA InnerOuterIs ==
  ASSUME NEW T \in Tree, NEW M \in SUBSET Nodes, NEW g, NEW p, NEW n, NEW d,
         Corner(T, M, g, p, n, d)
  PROVE  LET U == OuterRotated(InnerRotated(T, n, p, d), n, g, d)
         IN  U \in Tree /\ Doubled(T, U, g, p, n, d) /\ BothRed(T, U, g, p, n, d)
<1> DEFINE a == T.kid[n][d]
           b == T.kid[n][Opp(d)]
           A == SetKid(T, p, Opp(d), a)
           B == SetKid(A, n, d, p)
           C == MayParentColor(B, a, p, "black")
           D == SetParentColor(C, p, n, "red")
           U == OuterRotated(D, n, g, d)
<1>1. "red" \in Colors /\ "black" \in Colors
  BY DEF Colors
<1>2. OuterRotated(InnerRotated(T, n, p, d), n, g, d) = U
  BY DEF InnerRotated
<1>3. T.kid[n][d] = a /\ T.kid[n][Opp(d)] = b
  OBVIOUS
<1> HIDE DEF a, b
<1>4. Cornered(T, M, g, p, n, d, a, b)
  BY <1>3, CornerIs
<1>5. KidSet(T, A, p, Opp(d), a) /\ A \in Tree
  <2>1. KidSet(T, A, p, Opp(d), a)
    BY <1>4, SetKidIs DEF Cornered
  <2> QED
    BY <2>1 DEF KidSet
<1> HIDE DEF A
<1>6. KidSet(A, B, n, d, p) /\ B \in Tree
  <2>1. KidSet(A, B, n, d, p)
    BY <1>4, <1>5, SetKidIs DEF Cornered
  <2> QED
    BY <2>1 DEF KidSet
<1> HIDE DEF B
<1>7. ParentColorSet(B, C, a, p, "black") /\ C \in Tree
  <2>1. ParentColorSet(B, C, a, p, "black")
    BY <1>1, <1>4, <1>6, MayParentColorIs DEF Cornered
  <2> QED
    BY <2>1 DEF ParentColorSet
<1> HIDE DEF C
<1>8. ParentColorSet(C, D, p, n, "red") /\ D \in Tree
  <2>1. ParentColorSet(C, D, p, n, "red")
    BY <1>1, <1>4, <1>7, SetParentColorIs DEF Cornered
  <2> QED
    BY <2>1 DEF ParentColorSet
<1> HIDE DEF D
<1>9. /\ D.root = T.root
      /\ \A x \in Nodes : D.parent[x] = IF x = p THEN n ELSE IF x = a THEN p ELSE T.parent[x]
      /\ \A x \in Nodes : D.color[x] = IF x = p THEN "red" ELSE IF x = a THEN "black" ELSE T.color[x]
  BY <1>5, <1>6, <1>7, <1>8 DEF KidSet, ParentColorSet
<1>10. \A x \in Nodes, e \in Sides :
         D.kid[x][e] = IF x = n /\ e = d THEN p ELSE IF x = p /\ e = Opp(d) THEN a ELSE T.kid[x][e]
  BY <1>5, <1>6, <1>7, <1>8 DEF KidSet, ParentColorSet
<1>11. /\ D.parent[g] = T.parent[g] /\ D.color[g] = T.color[g]
       /\ D.kid[n][Opp(d)] = b
  BY <1>3, <1>4, <1>9, <1>10 DEF Cornered
<1>12. Turnable(D, g, n, d)
  BY <1>4, <1>11 DEF Cornered, Turnable
<1>13. U \in Tree /\ Turned(D, U, g, n, d) /\ Recolored(D, U, g, n, d, "red", "black")
  BY <1>8, <1>12, OuterIs
<1> HIDE DEF U
<1>14. U.root = IF T.parent[g] = Nil THEN n ELSE T.root
  BY <1>9, <1>11, <1>13 DEF Turned
<1>15. /\ \A x \in Nodes, e \in Sides :
            U.kid[x][e] = IF x = g /\ e = d THEN b
                          ELSE IF x = n /\ e = Opp(d) THEN g
                          ELSE IF x = T.parent[g] /\ e = (IF D.kid[x]["l"] = g THEN "l" ELSE "r") THEN n
                          ELSE D.kid[x][e]
       /\ \A x \in Nodes :
            U.parent[x] = IF x = g THEN n ELSE IF x = n THEN T.parent[g]
                          ELSE IF x = b THEN g ELSE D.parent[x]
  BY <1>11, <1>13 DEF Turned
<1>16. \A x \in Nodes, e \in Sides :
         U.kid[x][e] = IF x = p /\ e = Opp(d) THEN a
                       ELSE IF x = g /\ e = d THEN b
                       ELSE IF x = n THEN (IF e = d THEN p ELSE g)
                       ELSE IF x = T.parent[g] /\ e = (IF T.kid[x]["l"] = g THEN "l" ELSE "r") THEN n
                       ELSE T.kid[x][e]
  <2> TAKE x \in Nodes, e \in Sides
  <2>1. e = d \/ e = Opp(d)
    BY <1>4, SidesAre DEF Cornered
  <2>2. CASE x = n
    BY <1>4, <1>10, <1>15, <2>1, <2>2 DEF Cornered
  <2>3. CASE x = p
    BY <1>4, <1>10, <1>15, <2>1, <2>3 DEF Cornered
  <2>4. CASE x # n /\ x # p
    <3>1. "l" \in Sides
      BY DEF Sides
    <3>2. D.kid[x][e] = T.kid[x][e] /\ D.kid[x]["l"] = T.kid[x]["l"]
      BY <1>10, <2>4, <3>1
    <3> QED
      BY <1>15, <2>4, <3>2
  <2> QED
    BY <2>2, <2>3, <2>4
<1>17. \A x \in Nodes :
         U.parent[x] = IF x = n THEN T.parent[g] ELSE IF x = g \/ x = p THEN n
                       ELSE IF x = a THEN p ELSE IF x = b THEN g ELSE T.parent[x]
  <2> TAKE x \in Nodes
  <2>1. x # Nil
    BY NodesAssumption
  <2> QED
    BY <1>4, <1>9, <1>15, <2>1 DEF Cornered
<1>18. Doubled(T, U, g, p, n, d)
  BY <1>14, <1>16, <1>17 DEF Doubled, a, b
<1>19. \A x \in Nodes : U.color[x] = IF x = g THEN "red" ELSE IF x = n THEN T.color[g]
                                     ELSE IF x = b THEN "black" ELSE D.color[x]
  BY <1>11, <1>13 DEF Recolored
<1>20. \A x \in Nodes : U.color[x] =
         IF x = g \/ x = p THEN "red" ELSE IF x = n THEN T.color[g]
         ELSE IF x = a \/ x = b THEN "black" ELSE T.color[x]
  BY <1>4, <1>9, <1>19 DEF Cornered
<1> QED
  BY <1>2, <1>13, <1>18, <1>20 DEF BothRed, a, b

BothBlackened(T, U, g, p, n, d) ==
  \A x \in Nodes : U.color[x] =
    IF x = g \/ x = p THEN "black" ELSE IF x = n THEN T.color[g]
    ELSE IF x = T.kid[n][d] THEN "black" ELSE T.color[x]

\* Case 3 of the erase followed by case 4.
LEMMA NephewParentIs ==
  ASSUME NEW T \in Tree, NEW M \in SUBSET Nodes, NEW g, NEW p, NEW n, NEW d,
         Corner(T, M, g, p, n, d)
  PROVE  LET U == ParentRotated(NephewRotated(T, g, d), g, d)
         IN  U \in Tree /\ Doubled(T, U, g, p, n, d) /\ BothBlackened(T, U, g, p, n, d)
<1> DEFINE a == T.kid[n][d]
           b == T.kid[n][Opp(d)]
           A == SetKid(T, p, Opp(d), a)
           B == SetKid(A, n, d, p)
           C == SetKid(B, g, d, n)
           D == MayParentColor(C, a, p, "black")
           U == ParentRotated(D, g, d)
<1>1. "black" \in Colors
  BY DEF Colors
<1>2. ParentRotated(NephewRotated(T, g, d), g, d) = U
  <2>1. T.kid[g][d] = p /\ T.kid[p][Opp(d)] = n
    BY DEF Corner
  <2>2. NephewRotated(T, g, d) = D
    BY <2>1 DEF NephewRotated
  <2> QED
    BY <2>2
<1>3. T.kid[n][d] = a /\ T.kid[n][Opp(d)] = b
  OBVIOUS
<1> HIDE DEF a, b
<1>4. Cornered(T, M, g, p, n, d, a, b)
  BY <1>3, CornerIs
<1>5. KidSet(T, A, p, Opp(d), a) /\ A \in Tree
  <2>1. KidSet(T, A, p, Opp(d), a)
    BY <1>4, SetKidIs DEF Cornered
  <2> QED
    BY <2>1 DEF KidSet
<1> HIDE DEF A
<1>6. KidSet(A, B, n, d, p) /\ B \in Tree
  <2>1. KidSet(A, B, n, d, p)
    BY <1>4, <1>5, SetKidIs DEF Cornered
  <2> QED
    BY <2>1 DEF KidSet
<1> HIDE DEF B
<1>7. KidSet(B, C, g, d, n) /\ C \in Tree
  <2>1. KidSet(B, C, g, d, n)
    BY <1>4, <1>6, SetKidIs DEF Cornered
  <2> QED
    BY <2>1 DEF KidSet
<1> HIDE DEF C
<1>8. ParentColorSet(C, D, a, p, "black") /\ D \in Tree
  <2>1. ParentColorSet(C, D, a, p, "black")
    BY <1>1, <1>4, <1>7, MayParentColorIs DEF Cornered
  <2> QED
    BY <2>1 DEF ParentColorSet
<1> HIDE DEF D
<1>9. /\ D.root = T.root
      /\ \A x \in Nodes : D.parent[x] = IF x = a THEN p ELSE T.parent[x]
      /\ \A x \in Nodes : D.color[x] = IF x = a THEN "black" ELSE T.color[x]
  BY <1>5, <1>6, <1>7, <1>8 DEF KidSet, ParentColorSet
<1>10. \A x \in Nodes, e \in Sides :
         D.kid[x][e] = IF x = g /\ e = d THEN n ELSE IF x = n /\ e = d THEN p
                       ELSE IF x = p /\ e = Opp(d) THEN a ELSE T.kid[x][e]
  BY <1>5, <1>6, <1>7, <1>8 DEF KidSet, ParentColorSet
<1>11. /\ D.parent[g] = T.parent[g] /\ D.color[g] = T.color[g]
       /\ D.kid[g][d] = n /\ D.kid[n][d] = p /\ D.kid[n][Opp(d)] = b
  BY <1>3, <1>4, <1>9, <1>10 DEF Cornered
<1>12. ParentTurned(D, U, g, n, d, b, p)
  BY <1>4, <1>8, <1>11, StagesParent DEF Cornered
<1> HIDE DEF U
<1>13. U \in Tree /\ U.root = IF T.parent[g] = Nil THEN n ELSE T.root
  BY <1>9, <1>11, <1>12 DEF ParentTurned
<1>14. /\ \A x \in Nodes, e \in Sides : x # g /\ x # n =>
            U.kid[x][e] = IF x = T.parent[g] /\ e = (IF D.kid[x]["l"] = g THEN "l" ELSE "r")
                          THEN n ELSE D.kid[x][e]
       /\ \A e \in Sides : U.kid[g][e] = IF e = d THEN b ELSE D.kid[g][e]
       /\ \A e \in Sides : U.kid[n][e] = IF e = Opp(d) THEN g ELSE D.kid[n][e]
       /\ \A x \in Nodes : U.parent[x] = IF x = g THEN n ELSE IF x = n THEN T.parent[g]
                             ELSE IF x = b THEN g ELSE IF x = p THEN n ELSE D.parent[x]
  BY <1>11, <1>12 DEF ParentTurned
<1>15. \A x \in Nodes, e \in Sides :
         U.kid[x][e] = IF x = p /\ e = Opp(d) THEN a
                       ELSE IF x = g /\ e = d THEN b
                       ELSE IF x = n THEN (IF e = d THEN p ELSE g)
                       ELSE IF x = T.parent[g] /\ e = (IF T.kid[x]["l"] = g THEN "l" ELSE "r") THEN n
                       ELSE T.kid[x][e]
  <2> TAKE x \in Nodes, e \in Sides
  <2>1. e = d \/ e = Opp(d)
    BY <1>4, SidesAre DEF Cornered
  <2>2. CASE x = n
    BY <1>4, <1>10, <1>11, <1>14, <2>1, <2>2 DEF Cornered
  <2>3. CASE x = p
    BY <1>4, <1>10, <1>14, <2>1, <2>3 DEF Cornered
  <2>4. CASE x = g
    BY <1>4, <1>10, <1>14, <2>1, <2>4 DEF Cornered
  <2>5. CASE x # n /\ x # p /\ x # g
    <3>1. "l" \in Sides
      BY DEF Sides
    <3>2. D.kid[x][e] = T.kid[x][e] /\ D.kid[x]["l"] = T.kid[x]["l"]
      BY <1>10, <2>5, <3>1
    <3> QED
      BY <1>14, <2>5, <3>2
  <2> QED
    BY <2>2, <2>3, <2>4, <2>5
<1>16. \A x \in Nodes :
         U.parent[x] = IF x = n THEN T.parent[g] ELSE IF x = g \/ x = p THEN n
                       ELSE IF x = a THEN p ELSE IF x = b THEN g ELSE T.parent[x]
  <2> TAKE x \in Nodes
  <2>1. x # Nil
    BY NodesAssumption
  <2> QED
    BY <1>4, <1>9, <1>14, <2>1 DEF Cornered
<1>17. Doubled(T, U, g, p, n, d)
  BY <1>13, <1>15, <1>16 DEF Doubled, a, b
<1>18. \A x \in Nodes : U.color[x] = IF x = g THEN "black" ELSE IF x = n THEN T.color[g]
                                     ELSE IF x = p THEN "black" ELSE D.color[x]
  BY <1>11, <1>12 DEF ParentTurned, OuterBlack
<1>19. \A x \in Nodes : U.color[x] =
         IF x = g \/ x = p THEN "black" ELSE IF x = n THEN T.color[g]
         ELSE IF x = a THEN "black" ELSE T.color[x]
  BY <1>4, <1>9, <1>18 DEF Cornered
<1> QED
  BY <1>2, <1>13, <1>17, <1>19 DEF BothBlackened, a

-----------------------------------------------------------------------------
(* Colors and black nodes under a local change: the nodes W below and with *)
(* p become V below and with top, and nothing else changes                 *)

Replaced(T, M, W, p, U, N, V, top) ==
  /\ T \in Tree /\ M \in SUBSET Nodes /\ Linked(T, M) /\ W \in SUBSET M /\ p \in W
  /\ U \in Tree /\ N \in SUBSET Nodes /\ Linked(U, N) /\ V \in SUBSET N /\ top \in V \cup {Nil}
  /\ M \ W = N \ V
  /\ \A x \in M \ W, e \in Sides : U.kid[x][e] = IF T.kid[x][e] = p THEN top ELSE T.kid[x][e]
  /\ \A x \in M \ W : U.color[x] = T.color[x]
  /\ \A w \in W : w # p => T.parent[w] \in W
  /\ U.root = IF T.parent[p] = Nil THEN top ELSE T.root

\* The kids of the other nodes.
LEMMA ReplacedKid ==
  ASSUME NEW T, NEW M, NEW W, NEW p, NEW U, NEW N, NEW V, NEW top, Replaced(T, M, W, p, U, N, V, top),
         NEW x \in M \ W, NEW e \in Sides
  PROVE  \/ T.kid[x][e] = p /\ U.kid[x][e] = top
         \/ T.kid[x][e] = Nil /\ U.kid[x][e] = Nil
         \/ T.kid[x][e] \in M \ W /\ U.kid[x][e] = T.kid[x][e]
<1>1. T \in Tree /\ M \in SUBSET Nodes /\ Linked(T, M) /\ W \in SUBSET M /\ p \in W /\ p # Nil
  BY NodesAssumption DEF Replaced
<1>2. U.kid[x][e] = IF T.kid[x][e] = p THEN top ELSE T.kid[x][e]
  BY DEF Replaced
<1>3. T.kid[x][e] = Nil \/ (T.kid[x][e] \in M /\ T.parent[T.kid[x][e]] = x)
  BY <1>1, LinkedIs
<1>4. \A w \in W : w # p => T.parent[w] \in W
  BY DEF Replaced
<1> QED
  BY <1>1, <1>2, <1>3, <1>4

LEMMA ReplacedEven ==
  ASSUME NEW T, NEW M, NEW W, NEW p, NEW U, NEW N, NEW V, NEW top, Replaced(T, M, W, p, U, N, V, top),
         NEW h, NEW o, Even(T, M, h, o), NEW k \in [Ptr -> Nat], NEW o2, k[Nil] = 0,
         \A x \in M \ W : k[x] = h[x],
         \A x \in M \ W, e \in Sides :
           IF T.kid[x][e] = p THEN k[top] + Debt(o2, x, e) = h[p] + Debt(o, x, e)
           ELSE Debt(o2, x, e) = Debt(o, x, e),
         \A x \in V, e \in Sides : k[x] = k[U.kid[x][e]] + Weight(U, x) + Debt(o2, x, e)
  PROVE  Even(U, N, k, o2)
<1>1. h \in [Ptr -> Nat] /\ h[Nil] = 0
  BY DEF Even
<1>2. ASSUME NEW x \in N, NEW e \in Sides
      PROVE  k[x] = k[U.kid[x][e]] + Weight(U, x) + Debt(o2, x, e)
  <2>1. CASE x \in V
    BY <2>1
  <2>2. CASE x \notin V
    <3>1. x \in M \ W
      BY <2>2 DEF Replaced
    <3>2. k[x] = h[x] /\ h[x] = h[T.kid[x][e]] + Weight(T, x) + Debt(o, x, e)
      BY <3>1 DEF Even
    <3>3. Weight(U, x) = Weight(T, x)
      BY <3>1 DEF Weight, Replaced
    <3>4. \/ T.kid[x][e] = p /\ U.kid[x][e] = top
          \/ T.kid[x][e] = Nil /\ U.kid[x][e] = Nil
          \/ T.kid[x][e] \in M \ W /\ U.kid[x][e] = T.kid[x][e]
      BY <3>1, ReplacedKid
    <3>5. top \in Ptr /\ p \in Nodes /\ p # Nil /\ p \in W
      BY NodesAssumption DEF Replaced, Ptr
    <3>6. /\ Weight(T, x) \in Nat /\ Debt(o, x, e) \in Nat /\ Debt(o2, x, e) \in Nat
          /\ k[top] \in Nat /\ h[p] \in Nat
      BY <1>1, <3>5 DEF Weight, Debt, Ptr
    <3>7. CASE T.kid[x][e] = p /\ U.kid[x][e] = top
      BY <3>1, <3>2, <3>3, <3>6, <3>7
    <3>8. CASE T.kid[x][e] = Nil /\ U.kid[x][e] = Nil
      BY <1>1, <3>1, <3>2, <3>3, <3>5, <3>8
    <3>9. CASE T.kid[x][e] \in M \ W /\ U.kid[x][e] = T.kid[x][e]
      BY <3>1, <3>2, <3>3, <3>5, <3>9
    <3> QED
      BY <3>4, <3>7, <3>8, <3>9
  <2> QED
    BY <2>1, <2>2
<1> QED
  BY <1>2 DEF Even

\* The one red node under a red one, x, is in the part replaced.
Within(T, W, x) == x = Nil \/ T.parent[x] \in W \/ (x \in W /\ T.parent[x] = Nil)

\* In the new part only y is red under red; its top is y, or no redder than p was.
RedWithin(T, p, x, U, V, top, y) ==
  /\ \A n \in V, e \in Sides : IsRed(U, n) /\ IsRed(U, U.kid[n][e]) => U.kid[n][e] = y
  /\ \/ y = top
     \/ p # x /\ (IsRed(U, top) => IsRed(T, p))
     \/ T.parent[p] = Nil /\ ~IsRed(U, top)

RootBlack(T, x) == T.root # Nil => T.root = x \/ ~IsRed(T, T.root)

LEMMA ReplacedRed ==
  ASSUME NEW T, NEW M, NEW W, NEW p, NEW U, NEW N, NEW V, NEW top, Replaced(T, M, W, p, U, N, V, top),
         NEW x, RedOnly(T, M, x), RootBlack(T, x), Within(T, W, x),
         NEW y, RedWithin(T, p, x, U, V, top, y)
  PROVE  RedOnly(U, N, y) /\ RootBlack(U, y)
<1>1. /\ T \in Tree /\ M \in SUBSET Nodes /\ Linked(T, M) /\ W \in SUBSET M /\ p \in W /\ p # Nil
      /\ U \in Tree /\ N \in SUBSET Nodes /\ Linked(U, N)
  BY NodesAssumption DEF Replaced
<1>2. ASSUME NEW m \in N, IsRed(U, m), IsRed(U, U.parent[m]), m # y PROVE FALSE
  <2> DEFINE n == U.parent[m]
  <2>1. n \in N
    BY <1>1, <1>2, LinkedIs DEF IsRed
  <2>2. PICK e \in Sides : U.kid[n][e] = m
    BY <1>1, <1>2, LinkedIs DEF IsRed
  <2>3. m # Nil /\ n # Nil
    BY <1>2 DEF IsRed
  <2> HIDE DEF n
  <2>4. IsRed(U, n)
    BY <1>2 DEF n
  <2>5. n \notin V
    BY <1>2, <2>2, <2>4 DEF RedWithin
  <2>6. n \in M \ W
    BY <2>1, <2>5 DEF Replaced
  <2>7. IsRed(T, n)
    BY <2>4, <2>6 DEF IsRed, Replaced
  <2>8. \/ T.kid[n][e] = p /\ U.kid[n][e] = top
        \/ T.kid[n][e] = Nil /\ U.kid[n][e] = Nil
        \/ T.kid[n][e] \in M \ W /\ U.kid[n][e] = T.kid[n][e]
    BY <2>6, ReplacedKid
  <2>9. CASE T.kid[n][e] = p /\ m = top
    <3>1. T.parent[p] = n
      BY <1>1, <2>6, <2>9, LinkedIs
    <3>2. p # x /\ IsRed(T, p)
      BY <1>2, <2>3, <2>9, <3>1 DEF RedWithin
    <3> QED
      BY <1>1, <2>7, <3>1, <3>2 DEF RedOnly
  <2>10. CASE T.kid[n][e] \in M \ W /\ m = T.kid[n][e]
    <3>1. T.parent[m] = n
      BY <1>1, <2>3, <2>6, <2>10, LinkedIs
    <3>2. IsRed(T, m)
      BY <1>2, <2>10 DEF IsRed, Replaced
    <3>3. m = x
      BY <2>7, <2>10, <3>1, <3>2 DEF RedOnly
    <3> QED
      BY <2>3, <2>6, <2>10, <3>1, <3>3 DEF Within
  <2> QED
    BY <2>2, <2>3, <2>8, <2>9, <2>10
<1>3. ASSUME U.root # Nil, U.root # y, IsRed(U, U.root) PROVE FALSE
  <2>1. CASE T.parent[p] = Nil
    <3>1. U.root = top /\ T.root = p
      BY <1>1, <2>1, LinkedIs DEF Replaced
    <3> QED
      BY <1>1, <1>3, <2>1, <3>1 DEF RedWithin, RootBlack
  <2>2. CASE T.parent[p] # Nil
    <3>1. U.root = T.root
      BY <2>2 DEF Replaced
    <3>2. T.root \in M /\ T.parent[T.root] = Nil
      BY <1>1, <1>3, <3>1 DEF Linked
    <3>3. T.root \notin W
      <4>1. \A w \in W : w # p => T.parent[w] \in W
        BY DEF Replaced
      <4>2. Nil \notin W
        BY <1>1, NodesAssumption
      <4> QED
        BY <2>2, <3>2, <4>1, <4>2
    <3>4. IsRed(T, T.root)
      BY <1>3, <3>1, <3>2, <3>3 DEF IsRed, Replaced
    <3>5. T.root = x
      BY <1>3, <3>1, <3>4 DEF RootBlack
    <3> QED
      BY <1>1, <1>3, <3>1, <3>2, <3>3, <3>5, NodesAssumption DEF Within
  <2> QED
    BY <2>1, <2>2
<1> QED
  BY <1>2, <1>3 DEF RedOnly, RootBlack

-----------------------------------------------------------------------------
(* The rebalancing keeps the tree red-black *)

\* Linked, with equally many black nodes on all paths but for the debt o, and red
\* under red at most at x.
Sound(T, M, o, x) ==
  /\ T \in Tree /\ M \in SUBSET Nodes /\ Linked(T, M)
  /\ \E h : Even(T, M, h, o)
  /\ RedOnly(T, M, x)
  /\ RootBlack(T, x)

Untouched(T, U, M) == \A x \in Nodes \ M : U.parent[x] = T.parent[x]

\* A node, its kids, and the black nodes below them.
LEMMA EvenIs ==
  ASSUME NEW T \in Tree, NEW M \in SUBSET Nodes, Linked(T, M), NEW h, NEW o, Even(T, M, h, o),
         NEW x \in M, NEW e \in Sides
  PROVE  /\ h[x] = h[T.kid[x][e]] + Weight(T, x) + Debt(o, x, e)
         /\ h[x] \in Nat /\ h[T.kid[x][e]] \in Nat
         /\ (IsRed(T, x) => Weight(T, x) = 0) /\ (~IsRed(T, x) => Weight(T, x) = 1)
         /\ Debt(o, x, e) \in Nat /\ Debt(<< >>, x, e) = 0
<1>1. h \in [Ptr -> Nat] /\ x \in Ptr /\ T.kid[x][e] \in Ptr
  BY DEF Even, Tree, Ptr
<1>2. h[x] = h[T.kid[x][e]] + Weight(T, x) + Debt(o, x, e)
  BY DEF Even
<1>3. (IsRed(T, x) => Weight(T, x) = 0) /\ (~IsRed(T, x) => Weight(T, x) = 1)
  BY NodesAssumption DEF IsRed, Weight
<1>4. Debt(o, x, e) \in Nat /\ Debt(<< >>, x, e) = 0
  BY DEF Debt
<1> QED
  BY <1>1, <1>2, <1>3, <1>4

EvenAt(T, h, o, x, e) ==
  /\ h[x] = h[T.kid[x][e]] + Weight(T, x) + Debt(o, x, e)
  /\ h[x] \in Nat /\ h[T.kid[x][e]] \in Nat
  /\ (IsRed(T, x) => Weight(T, x) = 0) /\ (~IsRed(T, x) => Weight(T, x) = 1)

LEMMA EvenAtIs ==
  ASSUME NEW T \in Tree, NEW M \in SUBSET Nodes, Linked(T, M), NEW h, NEW o, Even(T, M, h, o),
         NEW x \in M, NEW e \in Sides
  PROVE  EvenAt(T, h, o, x, e)
  BY EvenIs DEF EvenAt

\* A node above itself would have no black node on the round.
LEMMA NoRound2 ==
  ASSUME NEW T \in Tree, NEW M \in SUBSET Nodes, Linked(T, M), NEW h, NEW o, Even(T, M, h, o),
         NEW p \in M, NEW d \in Sides, T.kid[p][d] \in M, T.parent[p] = T.kid[p][d]
  PROVE  IsRed(T, p) /\ IsRed(T, T.kid[p][d])
<1> DEFINE s == T.kid[p][d]
<1>1. PICK e \in Sides : T.kid[s][e] = p
  BY LinkedIs, NodesAssumption
<1> HIDE DEF s
<1>2. s \in M
  BY DEF s
<1>3. h[p] = h[s] + Weight(T, p) + Debt(o, p, d) /\ h[s] = h[p] + Weight(T, s) + Debt(o, s, e)
      /\ h[p] \in Nat /\ h[s] \in Nat /\ Debt(o, p, d) \in Nat /\ Debt(o, s, e) \in Nat
  <2>1. h[p] = h[s] + Weight(T, p) + Debt(o, p, d) /\ h[p] \in Nat /\ Debt(o, p, d) \in Nat
    BY EvenIs DEF s
  <2>2. h[s] = h[p] + Weight(T, s) + Debt(o, s, e) /\ h[s] \in Nat /\ Debt(o, s, e) \in Nat
    BY <1>1, <1>2, EvenIs
  <2> QED
    BY <2>1, <2>2
<1>4. Weight(T, p) \in {0, 1} /\ Weight(T, s) \in {0, 1}
  BY DEF Weight
<1>5. Weight(T, p) = 0 /\ Weight(T, s) = 0
  BY <1>3, <1>4
<1> QED
  BY <1>2, <1>5, NodesAssumption DEF IsRed, Weight, s

LEMMA NoRound3 ==
  ASSUME NEW T \in Tree, NEW M \in SUBSET Nodes, Linked(T, M), NEW h, NEW o, Even(T, M, h, o),
         NEW g \in M, NEW d \in Sides, NEW p \in M, T.kid[g][d] = p,
         NEW c \in Sides, NEW n \in M, T.kid[p][c] = n, T.parent[g] = n
  PROVE  IsRed(T, g) /\ IsRed(T, p)
<1>1. PICK e \in Sides : T.kid[n][e] = g
  BY LinkedIs, NodesAssumption
<1>2. h[g] = h[p] + Weight(T, g) + Debt(o, g, d) /\ h[g] \in Nat /\ Debt(o, g, d) \in Nat
  BY EvenIs
<1>3. h[p] = h[n] + Weight(T, p) + Debt(o, p, c) /\ h[p] \in Nat /\ Debt(o, p, c) \in Nat
  BY EvenIs
<1>4. h[n] = h[g] + Weight(T, n) + Debt(o, n, e) /\ h[n] \in Nat /\ Debt(o, n, e) \in Nat
  <2>1. h[n] = h[T.kid[n][e]] + Weight(T, n) + Debt(o, n, e)
    BY DEF Even
  <2>2. h[n] \in Nat
    BY DEF Even, Ptr
  <2> QED
    BY <1>1, <2>1, <2>2 DEF Debt
<1>5. Weight(T, g) \in {0, 1} /\ Weight(T, p) \in {0, 1} /\ Weight(T, n) \in {0, 1}
  BY DEF Weight
<1>6. Weight(T, g) = 0 /\ Weight(T, p) = 0
  BY <1>2, <1>3, <1>4, <1>5
<1> QED
  BY <1>6, NodesAssumption DEF IsRed, Weight

\* A single rotation replaces what is below p by what is below s.
LEMMA TurnedReplaced ==
  ASSUME NEW T \in Tree, NEW M \in SUBSET Nodes, NEW p, NEW s, NEW d, Pivot(T, M, p, s, d),
         NEW U \in Tree, Turned(T, U, p, s, d),
         NEW W \in SUBSET M, p \in W, s \in W, \A w \in W : w # p => T.parent[w] \in W,
         \A x \in M \ W : U.color[x] = T.color[x]
  PROVE  Replaced(T, M, W, p, U, M, W, s) /\ Untouched(T, U, M)
<1>1. Linked(T, M) /\ p \in M /\ d \in Sides /\ s \in M /\ T.kid[p][d] = s /\ T.parent[p] # s
  BY DEF Pivot
<1>2. /\ Linked(U, M)
      /\ \A x \in Nodes \ M : U.parent[x] = T.parent[x]
      /\ \A x \in M, e \in Sides : x # p /\ x # s =>
           U.kid[x][e] = IF T.kid[x][e] = p THEN s ELSE T.kid[x][e]
  BY <1>1, TurnedLinked
<1>3. U.root = IF T.parent[p] = Nil THEN s ELSE T.root
  BY DEF Turned
<1> QED
  BY <1>1, <1>2, <1>3 DEF Replaced, Untouched

LEMMA DoubledReplaced ==
  ASSUME NEW T \in Tree, NEW M \in SUBSET Nodes, NEW g, NEW p, NEW n, NEW d,
         Corner(T, M, g, p, n, d), NEW U \in Tree, Doubled(T, U, g, p, n, d),
         \A x \in M \ {g, p, n} : U.color[x] = T.color[x]
  PROVE  Replaced(T, M, {g, p, n}, g, U, M, {g, p, n}, n) /\ Untouched(T, U, M)
<1>1. /\ Linked(T, M) /\ g \in M /\ d \in Sides /\ p \in M /\ T.kid[g][d] = p
      /\ n \in M /\ T.kid[p][Opp(d)] = n /\ T.parent[g] # p /\ T.parent[g] # n
  BY DEF Corner
<1>2. /\ Linked(U, M)
      /\ \A x \in Nodes \ M : U.parent[x] = T.parent[x]
      /\ \A x \in M, e \in Sides : x \notin {g, p, n} =>
           U.kid[x][e] = IF T.kid[x][e] = g THEN n ELSE T.kid[x][e]
  BY <1>1, DoubledLinked
<1>3. T.parent[p] = g /\ T.parent[n] = p
  BY CornerIs DEF Cornered
<1>4. U.root = IF T.parent[g] = Nil THEN n ELSE T.root
  BY DEF Doubled
<1> QED
  BY <1>1, <1>2, <1>3, <1>4 DEF Replaced, Untouched

\* Case 3 of the insertion: x is the outer child of the red p.
LEMMA OuterSound ==
  ASSUME NEW T, NEW M, NEW g \in M, NEW d \in Sides, NEW p \in M, NEW x \in M, Sound(T, M, << >>, x),
         T.kid[g][d] = p, T.kid[p][d] = x, IsRed(T, p), IsRed(T, x), ~IsRed(T, T.kid[g][Opp(d)])
  PROVE  LET U == OuterRotated(T, p, g, d) IN Sound(U, M, << >>, Nil) /\ Untouched(T, U, M)
<1> DEFINE t == T.kid[p][Opp(d)]
           unc == T.kid[g][Opp(d)]
           U == OuterRotated(T, p, g, d)
<1>1. PICK h : Even(T, M, h, << >>)
  BY DEF Sound
<1>2. /\ T \in Tree /\ M \in SUBSET Nodes /\ Linked(T, M) /\ Nil \notin M
      /\ d \in Sides /\ Opp(d) \in Sides /\ Opp(d) # d /\ \A e \in Sides : e = d \/ e = Opp(d)
  BY SidesAre, NodesAssumption DEF Sound
<1>3. T.parent[p] = g /\ T.parent[x] = p /\ p # g /\ x # p
  BY <1>2, LinkedIs
<1>4. ~IsRed(T, g)
  BY <1>3 DEF Sound, RedOnly
<1>5. T.parent[g] # p
  BY <1>1, <1>2, <1>4, NoRound2
<1>6. Pivot(T, M, g, p, d)
  BY <1>2, <1>5 DEF Pivot
<1>7. t # g /\ t # p /\ x # g /\ t # x /\ t \in Ptr
  <2>1. t # g /\ t # p /\ t \in Ptr
    BY <1>6, PivotTurns, <1>2 DEF Turnable
  <2>2. x # g
    BY <1>3, <1>5
  <2>3. t # x
    BY <1>2, LinkedIs
  <2> QED
    BY <2>1, <2>2, <2>3
<1>8. ~IsRed(T, t)
  <2>1. t # Nil => t \in M /\ T.parent[t] = p
    BY <1>2, LinkedIs
  <2> QED
    BY <1>7, <2>1 DEF Sound, RedOnly, IsRed
<1>9. U \in Tree /\ Turned(T, U, g, p, d) /\ Recolored(T, U, g, p, d, "red", "black")
  BY <1>2, <1>6, PivotTurns, OuterIs
<1>10. \A y \in Nodes : U.color[y] = IF y = g THEN "red" ELSE IF y = p THEN T.color[g]
                                     ELSE IF y = t THEN "black" ELSE T.color[y]
  BY <1>9 DEF Recolored
<1>11. /\ U.kid[g][d] = t /\ U.kid[g][Opp(d)] = unc /\ U.kid[p][Opp(d)] = g /\ U.kid[p][d] = x
  BY <1>2, <1>5, <1>9, TurnedLinked
<1> HIDE DEF U, t, unc
<1>12. \A y \in M : y \notin {g, p} => U.color[y] = T.color[y]
  <2>1. \A y \in Nodes : T.color[y] \in {"red", "black"}
    BY <1>2 DEF Tree, Colors
  <2> QED
    BY <1>2, <1>8, <1>10, <2>1 DEF IsRed
<1> DEFINE W == {g, p}
           k == [h EXCEPT ![g] = h[p], ![p] = h[g]]
<1>13. Replaced(T, M, W, g, U, M, W, p) /\ Untouched(T, U, M)
  <2>1. W \in SUBSET M /\ g \in W /\ p \in W /\ \A w \in W : w # g => T.parent[w] \in W
    BY <1>3
  <2>2. \A y \in M \ W : U.color[y] = T.color[y]
    BY <1>12
  <2> HIDE DEF W
  <2> QED
    BY <1>2, <1>6, <1>9, <2>1, <2>2, TurnedReplaced
<1>14. h \in [Ptr -> Nat] /\ h[Nil] = 0
  BY <1>1 DEF Even
<1>15. /\ h[g] = h[p] + 1 /\ h[g] = h[unc] + 1 /\ h[p] = h[t] /\ h[p] = h[x]
       /\ h[g] \in Nat /\ h[p] \in Nat /\ h[t] \in Nat /\ h[x] \in Nat /\ h[unc] \in Nat
  <2>1. h[g] = h[p] + 1 /\ h[g] \in Nat /\ h[p] \in Nat
    BY <1>1, <1>2, <1>4, EvenIs
  <2>2. h[g] = h[unc] + 1 /\ h[unc] \in Nat
    BY <1>1, <1>2, <1>4, EvenIs DEF unc
  <2>3. h[p] = h[x] /\ h[x] \in Nat
    BY <1>1, <1>2, EvenIs
  <2>4. h[p] = h[t] /\ h[t] \in Nat
    BY <1>1, <1>2, EvenIs DEF t
  <2> QED
    BY <2>1, <2>2, <2>3, <2>4
<1>16. /\ k \in [Ptr -> Nat] /\ k[g] = h[p] /\ k[p] = h[g]
       /\ \A y \in Ptr : y # g /\ y # p => k[y] = h[y]
  BY <1>3, <1>14, <1>15, <1>2 DEF Ptr
<1>17. unc \in Ptr /\ unc # g /\ unc # p
  <2>1. unc = Nil \/ (unc \in M /\ T.parent[unc] = g)
    BY <1>2, LinkedIs DEF unc
  <2>2. unc # p
    BY <1>2, LinkedIs DEF unc
  <2> QED
    BY <1>2, <2>1, <2>2, LinkedIs DEF Ptr
<1> HIDE DEF k
<1>18. Weight(U, g) = 0 /\ Weight(U, p) = 1 /\ ~IsRed(U, p)
  <2>1. g \in Nodes /\ p \in Nodes /\ T.color[g] # "red"
    BY <1>2, <1>4 DEF IsRed
  <2> QED
    BY <1>3, <1>10, <2>1 DEF Weight, IsRed
<1>19. Even(U, M, k, << >>)
  <2>1. k[Nil] = 0 /\ \A y \in M \ W : k[y] = h[y]
    BY <1>2, <1>14, <1>16 DEF Ptr
  <2>2. \A y, e : Debt(<< >>, y, e) = 0
    BY DEF Debt
  <2>3. \A y \in M \ W, e \in Sides :
          IF T.kid[y][e] = g THEN k[p] + Debt(<< >>, y, e) = h[g] + Debt(<< >>, y, e)
          ELSE Debt(<< >>, y, e) = Debt(<< >>, y, e)
    BY <1>16
  <2>4. \A y \in W, e \in Sides : k[y] = k[U.kid[y][e]] + Weight(U, y) + Debt(<< >>, y, e)
    <3> TAKE y \in W, e \in Sides
    <3>0. k[t] = h[t] /\ k[unc] = h[unc]
      BY <1>7, <1>16, <1>17
    <3>1. CASE y = g /\ e = d
      BY <1>11, <1>15, <1>16, <1>18, <2>2, <3>0, <3>1
    <3>2. CASE y = g /\ e = Opp(d)
      BY <1>11, <1>15, <1>16, <1>18, <2>2, <3>0, <3>2
    <3>3. CASE y = p /\ e = d
      BY <1>2, <1>3, <1>7, <1>11, <1>15, <1>16, <1>18, <2>2, <3>3 DEF Ptr
    <3>4. CASE y = p /\ e = Opp(d)
      BY <1>11, <1>15, <1>16, <1>18, <2>2, <3>4
    <3> QED
      BY <1>2, <3>1, <3>2, <3>3, <3>4
  <2> HIDE DEF W
  <2> QED
    BY <1>1, <1>13, <1>16, <2>1, <2>3, <2>4, ReplacedEven
<1>20. /\ ~IsRed(U, t) /\ ~IsRed(U, unc)
  <2>1. unc # Nil => unc \in Nodes
    BY <1>17 DEF Ptr
  <2>2. t # Nil => t \in Nodes
    BY <1>7 DEF Ptr
  <2>3. ~IsRed(T, unc)
    BY DEF unc
  <2> QED
    BY <1>7, <1>8, <1>10, <1>17, <2>1, <2>2, <2>3 DEF IsRed
<1>21. RedOnly(U, M, Nil) /\ RootBlack(U, Nil)
  <2>1. RedWithin(T, g, x, U, W, p, Nil)
    BY <1>2, <1>7, <1>11, <1>18, <1>20 DEF RedWithin
  <2>2. RedOnly(T, M, x) /\ RootBlack(T, x)
    BY DEF Sound
  <2>3. Within(T, W, x)
    BY <1>3 DEF Within
  <2> HIDE DEF W
  <2> QED
    BY <1>13, <2>1, <2>2, <2>3, ReplacedRed
<1>22. U \in Tree /\ Linked(U, M)
  BY <1>9, <1>13 DEF Replaced
<1> QED
  BY <1>2, <1>13, <1>19, <1>21, <1>22 DEF Sound, U

\* Cases 2 and 3 of the insertion: n is the inner child of the red p.
LEMMA InnerSound ==
  ASSUME NEW T, NEW M, NEW g \in M, NEW d \in Sides, NEW p \in M, NEW n \in M, Sound(T, M, << >>, n),
         T.kid[g][d] = p, T.kid[p][Opp(d)] = n, IsRed(T, p), IsRed(T, n), ~IsRed(T, T.kid[g][Opp(d)])
  PROVE  LET U == OuterRotated(InnerRotated(T, n, p, d), n, g, d)
         IN  Sound(U, M, << >>, Nil) /\ Untouched(T, U, M)
<1> DEFINE a == T.kid[n][d]
           b == T.kid[n][Opp(d)]
           c == T.kid[p][d]
           unc == T.kid[g][Opp(d)]
           U == OuterRotated(InnerRotated(T, n, p, d), n, g, d)
<1>1. PICK h : Even(T, M, h, << >>)
  BY DEF Sound
<1>2. /\ T \in Tree /\ M \in SUBSET Nodes /\ Linked(T, M) /\ Nil \notin M
      /\ d \in Sides /\ Opp(d) \in Sides /\ Opp(d) # d /\ \A e \in Sides : e = d \/ e = Opp(d)
  BY SidesAre, NodesAssumption DEF Sound
<1>3. T.parent[p] = g /\ T.parent[n] = p /\ p # g /\ n # p
  BY <1>2, LinkedIs
<1>4. ~IsRed(T, g)
  BY <1>3 DEF Sound, RedOnly
<1>5. T.parent[g] # p /\ T.parent[g] # n
  <2>1. T.parent[g] # p
    BY <1>1, <1>2, <1>4, NoRound2
  <2>2. T.parent[g] # n
    BY <1>1, <1>2, <1>4, NoRound3
  <2> QED
    BY <2>1, <2>2
<1>6. Corner(T, M, g, p, n, d)
  BY <1>2, <1>5 DEF Corner
<1>7. /\ n # g /\ a \in Ptr /\ a # n /\ a # p /\ a # g
      /\ b \in Ptr /\ b # n /\ b # p /\ b # g
      /\ (a # Nil => a \in M /\ T.parent[a] = n) /\ (b # Nil => b \in M /\ T.parent[b] = n)
  <2>1. Cornered(T, M, g, p, n, d, a, b)
    BY <1>2, <1>6, CornerIs
  <2> QED
    BY <2>1 DEF Cornered
<1>8. ~IsRed(T, a) /\ ~IsRed(T, b)
  BY <1>7 DEF Sound, RedOnly, IsRed
<1>9. c \in Ptr /\ c # g /\ c # p /\ c # n /\ ~IsRed(T, c)
  <2>1. c = Nil \/ (c \in M /\ T.parent[c] = p)
    BY <1>2, LinkedIs
  <2>2. c # n
    BY <1>2, LinkedIs
  <2>3. c # g /\ c # p
    BY <1>2, <1>3, <1>5, <2>1
  <2>4. ~IsRed(T, c)
    BY <2>1, <2>2 DEF Sound, RedOnly, IsRed
  <2> QED
    BY <1>2, <2>1, <2>2, <2>3, <2>4 DEF Ptr
<1>10. unc \in Ptr /\ unc # g /\ unc # p /\ unc # n
  <2>1. unc = Nil \/ (unc \in M /\ T.parent[unc] = g)
    BY <1>2, LinkedIs
  <2>2. unc # p
    BY <1>2, LinkedIs
  <2> QED
    BY <1>2, <1>3, <2>1, <2>2, LinkedIs DEF Ptr
<1>11. U \in Tree /\ Doubled(T, U, g, p, n, d) /\ BothRed(T, U, g, p, n, d)
  BY <1>2, <1>6, InnerOuterIs
<1>12. \A y \in Nodes : U.color[y] =
            IF y = g \/ y = p THEN "red" ELSE IF y = n THEN T.color[g]
            ELSE IF y = a \/ y = b THEN "black" ELSE T.color[y]
  BY <1>11 DEF BothRed
<1>13. /\ U.kid[n][d] = p /\ U.kid[n][Opp(d)] = g
       /\ U.kid[p][d] = c /\ U.kid[p][Opp(d)] = a
       /\ U.kid[g][d] = b /\ U.kid[g][Opp(d)] = unc
  BY <1>2, <1>5, <1>11, DoubledLinked, SMTT(30)
<1>14. ~IsRed(T, unc)
  OBVIOUS
<1>15. /\ h[g] = h[p] + 1 /\ h[g] = h[unc] + 1 /\ h[p] = h[n] /\ h[p] = h[c] /\ h[n] = h[a] /\ h[n] = h[b]
       /\ h[g] \in Nat /\ h[p] \in Nat /\ h[n] \in Nat
  <2>1. h[g] = h[p] + 1 /\ h[g] \in Nat /\ h[p] \in Nat
    BY <1>1, <1>2, <1>4, EvenIs
  <2>2. h[g] = h[unc] + 1 /\ h[unc] \in Nat
    BY <1>1, <1>2, <1>4, EvenIs
  <2>3. h[p] = h[n] /\ h[n] \in Nat
    BY <1>1, <1>2, EvenIs
  <2>4. h[p] = h[c] /\ h[c] \in Nat
    BY <1>1, <1>2, EvenIs
  <2>5. h[n] = h[a] /\ h[a] \in Nat
    BY <1>1, <1>2, EvenIs
  <2>6. h[n] = h[b] /\ h[b] \in Nat
    BY <1>1, <1>2, EvenIs
  <2> QED
    BY <2>1, <2>2, <2>3, <2>4, <2>5, <2>6
<1> HIDE DEF U, a, b, c, unc
<1>16. \A y \in M \ {g, p, n} : U.color[y] = T.color[y]
  <2>1. \A y \in Nodes : T.color[y] \in {"red", "black"}
    BY <1>2 DEF Tree, Colors
  <2> QED
    BY <1>2, <1>8, <1>12, <2>1 DEF IsRed
<1> DEFINE W == {g, p, n}
           k == [h EXCEPT ![g] = h[p], ![n] = h[g]]
<1>17. Replaced(T, M, W, g, U, M, W, n) /\ Untouched(T, U, M)
  BY <1>2, <1>6, <1>11, <1>16, DoubledReplaced
<1>18. h \in [Ptr -> Nat] /\ h[Nil] = 0
  BY <1>1 DEF Even
<1>19. /\ k \in [Ptr -> Nat] /\ k[g] = h[p] /\ k[n] = h[g]
       /\ \A y \in Ptr : y # g /\ y # n => k[y] = h[y]
  BY <1>7, <1>18, <1>15, <1>2 DEF Ptr
<1> HIDE DEF k
<1>20. Weight(U, g) = 0 /\ Weight(U, p) = 0 /\ Weight(U, n) = 1 /\ ~IsRed(U, n)
  <2>1. g \in Nodes /\ p \in Nodes /\ n \in Nodes /\ T.color[g] # "red"
    BY <1>2, <1>4 DEF IsRed
  <2> QED
    BY <1>3, <1>7, <1>12, <2>1 DEF Weight, IsRed
<1>21. /\ ~IsRed(U, a) /\ ~IsRed(U, b) /\ ~IsRed(U, c) /\ ~IsRed(U, unc)
  <2>1. \A y \in Ptr : y # g /\ y # p /\ ~IsRed(T, y) => ~IsRed(U, y) \/ y = n
    BY <1>12 DEF IsRed, Ptr
  <2> QED
    BY <1>7, <1>8, <1>9, <1>10, <1>14, <2>1
<1>22. Even(U, M, k, << >>)
  <2>1. k[Nil] = 0 /\ \A y \in M \ W : k[y] = h[y]
    BY <1>2, <1>18, <1>19 DEF Ptr
  <2>2. \A y, e : Debt(<< >>, y, e) = 0
    BY DEF Debt
  <2>3. \A y \in M \ W, e \in Sides :
          IF T.kid[y][e] = g THEN k[n] + Debt(<< >>, y, e) = h[g] + Debt(<< >>, y, e)
          ELSE Debt(<< >>, y, e) = Debt(<< >>, y, e)
    BY <1>19
  <2>4. \A y \in W, e \in Sides : k[y] = k[U.kid[y][e]] + Weight(U, y) + Debt(<< >>, y, e)
    <3> TAKE y \in W, e \in Sides
    <3>1. k[a] = h[a] /\ k[b] = h[b] /\ k[c] = h[c] /\ k[unc] = h[unc] /\ k[p] = h[p]
      BY <1>2, <1>3, <1>7, <1>9, <1>10, <1>19 DEF Ptr
    <3>6. h[p] = h[a] /\ h[p] = h[b] /\ h[p] = h[c]
      BY <1>15
    <3>2. h[a] \in Nat /\ h[b] \in Nat /\ h[c] \in Nat /\ h[unc] \in Nat
      BY <1>7, <1>9, <1>10, <1>18
    <3>3. CASE y = g
      <4>1. CASE e = d
        BY <1>13, <1>15, <1>19, <1>20, <2>2, <3>1, <3>2, <3>6, <3>3, <4>1
      <4>2. CASE e = Opp(d)
        BY <1>13, <1>15, <1>19, <1>20, <2>2, <3>1, <3>2, <3>3, <4>2
      <4> QED
        BY <1>2, <4>1, <4>2
    <3>4. CASE y = p
      <4>1. CASE e = d
        BY <1>13, <1>15, <1>19, <1>20, <2>2, <3>1, <3>2, <3>4, <4>1
      <4>2. CASE e = Opp(d)
        BY <1>13, <1>15, <1>19, <1>20, <2>2, <3>1, <3>2, <3>6, <3>4, <4>2
      <4> QED
        BY <1>2, <4>1, <4>2
    <3>5. CASE y = n
      <4>1. CASE e = d
        BY <1>13, <1>15, <1>19, <1>20, <2>2, <3>1, <3>2, <3>5, <4>1
      <4>2. CASE e = Opp(d)
        BY <1>13, <1>15, <1>19, <1>20, <2>2, <3>1, <3>2, <3>5, <4>2
      <4> QED
        BY <1>2, <4>1, <4>2
    <3> QED
      BY <3>3, <3>4, <3>5
  <2> HIDE DEF W
  <2> QED
    BY <1>1, <1>17, <1>19, <2>1, <2>3, <2>4, ReplacedEven
<1>23. RedOnly(U, M, Nil) /\ RootBlack(U, Nil)
  <2>1. RedWithin(T, g, n, U, W, n, Nil)
    BY <1>2, <1>7, <1>13, <1>20, <1>21 DEF RedWithin
  <2>2. RedOnly(T, M, n) /\ RootBlack(T, n)
    BY DEF Sound
  <2>3. Within(T, W, n)
    BY <1>3 DEF Within
  <2> HIDE DEF W
  <2> QED
    BY <1>17, <2>1, <2>2, <2>3, ReplacedRed
<1>24. U \in Tree /\ Linked(U, M)
  BY <1>11, <1>17 DEF Replaced
<1> QED
  BY <1>2, <1>17, <1>22, <1>23, <1>24 DEF Sound, U

\* The sibling of the side that is one black node short.
Siblings(T, M, p, h, s, N) ==
  /\ s \in M /\ T.parent[s] = p /\ s # p /\ s # N
  /\ N \in Ptr /\ N # p /\ (N # Nil => N \in M /\ T.parent[N] = p)
  /\ h[s] = h[N] + 1 /\ h[p] = h[s] + Weight(T, p) /\ h[s] \in Nat /\ h[N] \in Nat /\ h[p] \in Nat

LEMMA SiblingThere ==
  ASSUME NEW T, NEW M, NEW p \in M, NEW d \in Sides, NEW x, Sound(T, M, << p, Opp(d) >>, x),
         NEW h, Even(T, M, h, << p, Opp(d) >>)
  PROVE  Siblings(T, M, p, h, T.kid[p][d], T.kid[p][Opp(d)])
<1> DEFINE s == T.kid[p][d]
           N == T.kid[p][Opp(d)]
<1>1. /\ T \in Tree /\ M \in SUBSET Nodes /\ Linked(T, M) /\ Nil \notin M
      /\ Opp(d) \in Sides /\ Opp(d) # d
  BY SidesAre, NodesAssumption DEF Sound
<1>2. h[p] = h[s] + Weight(T, p) /\ h[s] \in Nat /\ h[p] \in Nat
  <2>1. Debt(<< p, Opp(d) >>, p, d) = 0
    BY <1>1 DEF Debt
  <2>2. h[p] = h[s] + Weight(T, p) + Debt(<< p, Opp(d) >>, p, d) /\ h[s] \in Nat /\ h[p] \in Nat
    BY <1>1, EvenIs
  <2>3. Weight(T, p) \in Nat
    BY DEF Weight
  <2> QED
    BY <2>1, <2>2, <2>3
<1>3. h[p] = h[N] + Weight(T, p) + 1 /\ h[N] \in Nat
  <2>1. Debt(<< p, Opp(d) >>, p, Opp(d)) = 1
    BY DEF Debt
  <2>2. h[p] = h[N] + Weight(T, p) + Debt(<< p, Opp(d) >>, p, Opp(d)) /\ h[N] \in Nat
    BY <1>1, EvenIs
  <2> QED
    BY <2>1, <2>2
<1> HIDE DEF s, N
<1>4. Weight(T, p) \in {0, 1}
  BY DEF Weight
<1>5. h[s] = h[N] + 1
  BY <1>2, <1>3, <1>4
<1>6. h[Nil] = 0
  BY DEF Even
<1>7. s # Nil
  BY <1>3, <1>5, <1>6
<1>8. s \in M /\ T.parent[s] = p /\ s # p
  BY <1>1, <1>7, LinkedIs DEF s
<1>9. s # N
  BY <1>3, <1>5
<1>10. N = Nil \/ (N \in M /\ T.parent[N] = p /\ N # p)
  BY <1>1, LinkedIs DEF N
<1>11. N \in Ptr /\ N # p
  BY <1>1, <1>10 DEF Ptr
<1> QED
  BY <1>2, <1>3, <1>5, <1>8, <1>9, <1>10, <1>11 DEF Siblings, s, N

\* Case 1 of the erase: the red sibling comes up, its black kid becomes the sibling.
LEMMA SiblingSound ==
  ASSUME NEW T, NEW M, NEW p \in M, NEW d \in Sides, Sound(T, M, << p, Opp(d) >>, Nil),
         IsRed(T, T.kid[p][d]), ~IsRed(T, T.kid[p][Opp(d)])
  PROVE  LET U == SiblingRotated(T, p, d)
         IN  /\ Sound(U, M, << p, Opp(d) >>, Nil) /\ Untouched(T, U, M)
             /\ U.kid[p][Opp(d)] = T.kid[p][Opp(d)] /\ ~IsRed(U, U.kid[p][d])
             /\ \A n \in Nodes : IsRed(U, n) => IsRed(T, n) \/ n = p
<1> DEFINE s == T.kid[p][d]
           N == T.kid[p][Opp(d)]
           t == T.kid[s][Opp(d)]
           out == T.kid[s][d]
           o == << p, Opp(d) >>
           U == SiblingRotated(T, p, d)
<1>0. /\ T.kid[p][d] = s /\ T.kid[p][Opp(d)] = N /\ T.kid[s][Opp(d)] = t /\ T.kid[s][d] = out
      /\ o = << p, Opp(d) >> /\ Sound(T, M, o, Nil) /\ IsRed(T, s) /\ ~IsRed(T, N)
      /\ U = SiblingRotated(T, p, d)
  OBVIOUS
<1> HIDE DEF U, t, N, out, s, o
<1>1. PICK h : Even(T, M, h, o)
  BY <1>0 DEF Sound
<1>2. /\ T \in Tree /\ M \in SUBSET Nodes /\ Linked(T, M) /\ Nil \notin M
      /\ d \in Sides /\ Opp(d) \in Sides /\ Opp(d) # d /\ \A e \in Sides : e = d \/ e = Opp(d)
  BY <1>0, SidesAre, NodesAssumption DEF Sound
<1>3. /\ s \in M /\ T.parent[s] = p /\ s # p /\ s # N
      /\ N \in Ptr /\ N # p /\ (N # Nil => N \in M /\ T.parent[N] = p)
      /\ h[s] = h[N] + 1 /\ h[p] = h[s] + Weight(T, p) /\ h[s] \in Nat /\ h[N] \in Nat /\ h[p] \in Nat
  <2>1. Siblings(T, M, p, h, s, N)
    BY <1>0, <1>1, SiblingThere
  <2> QED
    BY <1>0, <2>1 DEF Siblings
<1>4. ~IsRed(T, p)
  BY <1>0, <1>3, <1>2 DEF Sound, RedOnly
<1>5. T.parent[p] # s
  BY <1>0, <1>1, <1>2, <1>3, <1>4, NoRound2
<1>6. h[s] = h[t] /\ h[s] = h[out] /\ h[t] \in Nat /\ h[out] \in Nat
  <2>1. \A e \in Sides : Debt(o, s, e) = 0
    BY <1>0, <1>3 DEF Debt
  <2>2. Weight(T, s) = 0
    BY <1>0 DEF Weight, IsRed
  <2>3. h[s] = h[t] + Weight(T, s) + Debt(o, s, Opp(d)) /\ h[t] \in Nat
    BY <1>0, <1>1, <1>2, <1>3, EvenIs
  <2>4. h[s] = h[out] + Weight(T, s) + Debt(o, s, d) /\ h[out] \in Nat
    BY <1>0, <1>1, <1>2, <1>3, EvenIs
  <2> QED
    BY <1>0, <1>2, <2>1, <2>2, <2>3, <2>4
<1>7. t \in M /\ T.parent[t] = s /\ out \in M /\ T.parent[out] = s /\ t # out
  <2>1. h[Nil] = 0
    BY <1>0, <1>1 DEF Even
  <2>2. t # Nil /\ out # Nil
    <3>1. h[s] # 0
      <4>1. h[s] = h[N] + 1 /\ h[N] \in Nat
        BY <1>0, <1>3
      <4> QED
        BY <1>0, <4>1
    <3> QED
      BY <1>0, <1>6, <2>1, <3>1
  <2> QED
    BY <1>0, <1>2, <1>3, <2>2, LinkedIs
<1>8. ~IsRed(T, t) /\ ~IsRed(T, out)
  BY <1>0, <1>2, <1>7 DEF Sound, RedOnly
<1>9. t # p /\ t # s /\ out # p /\ out # s /\ t # N
  BY <1>0, <1>2, <1>3, <1>5, <1>7, LinkedIs
<1>10. Pivot(T, M, p, s, d)
  BY <1>0, <1>2, <1>3, <1>5 DEF Pivot
<1>11. U \in Tree /\ Turned(T, U, p, s, d) /\ Recolored(T, U, p, s, d, "red", "black")
  BY <1>0, <1>2, <1>7, <1>10, SiblingIs
<1>12. \A y \in Nodes : U.color[y] = IF y = p THEN "red" ELSE IF y = s THEN T.color[p]
                                     ELSE IF y = t THEN "black" ELSE T.color[y]
  BY <1>0, <1>11 DEF Recolored
<1>13. U.kid[p][d] = t /\ U.kid[p][Opp(d)] = N /\ U.kid[s][Opp(d)] = p /\ U.kid[s][d] = out
  BY <1>0, <1>2, <1>3, <1>5, <1>11, TurnedLinked, SMTT(30)
<1>14. ~IsRed(T, N)
  BY <1>0
<1>15. o = << p, Opp(d) >>
  BY <1>0
<1>16. \A y \in M : y \notin {p, s} => U.color[y] = T.color[y]
  <2>1. \A y \in Nodes : T.color[y] \in {"red", "black"}
    BY <1>2 DEF Tree, Colors
  <2> QED
    BY <1>2, <1>8, <1>12, <2>1 DEF IsRed
<1> DEFINE W == {p, s}
           k == [h EXCEPT ![p] = h[s], ![s] = h[p]]
<1>17. Replaced(T, M, W, p, U, M, W, s) /\ Untouched(T, U, M)
  <2>1. W \in SUBSET M /\ p \in W /\ s \in W /\ \A w \in W : w # p => T.parent[w] \in W
    BY <1>3
  <2>2. \A y \in M \ W : U.color[y] = T.color[y]
    BY <1>16
  <2> HIDE DEF W
  <2> QED
    BY <1>2, <1>10, <1>11, <2>1, <2>2, TurnedReplaced, SMTT(30)
<1>18. h \in [Ptr -> Nat] /\ h[Nil] = 0
  BY <1>1 DEF Even
<1>19. /\ k \in [Ptr -> Nat] /\ k[p] = h[s] /\ k[s] = h[p]
       /\ \A y \in Ptr : y # p /\ y # s => k[y] = h[y]
  BY <1>2, <1>3, <1>18 DEF Ptr
<1> HIDE DEF k
<1>20. Weight(U, p) = 0 /\ Weight(U, s) = 1 /\ ~IsRed(U, s) /\ Weight(T, p) = 1
  <2>1. p \in Nodes /\ s \in Nodes /\ T.color[p] # "red"
    BY <1>2, <1>3, <1>4 DEF IsRed
  <2> QED
    BY <1>3, <1>12, <2>1 DEF Weight, IsRed
<1>21. Even(U, M, k, o)
  <2>1. k[Nil] = 0 /\ \A y \in M \ W : k[y] = h[y]
    BY <1>2, <1>3, <1>18, <1>19 DEF Ptr
  <2>2. Debt(o, p, Opp(d)) = 1 /\ Debt(o, p, d) = 0 /\ \A e : Debt(o, s, e) = 0
    BY <1>2, <1>3, <1>15 DEF Debt
  <2>3. \A y \in M \ W, e \in Sides :
          IF T.kid[y][e] = p THEN k[s] + Debt(o, y, e) = h[p] + Debt(o, y, e)
          ELSE Debt(o, y, e) = Debt(o, y, e)
    BY <1>19
  <2>4. \A y \in W, e \in Sides : k[y] = k[U.kid[y][e]] + Weight(U, y) + Debt(o, y, e)
    <3> TAKE y \in W, e \in Sides
    <3>1. k[t] = h[t] /\ k[out] = h[out] /\ k[N] = h[N]
      BY <1>2, <1>3, <1>7, <1>9, <1>19 DEF Ptr
    <3>2. CASE y = p /\ e = d
      BY <1>3, <1>6, <1>13, <1>19, <1>20, <2>2, <3>1, <3>2
    <3>3. CASE y = p /\ e = Opp(d)
      BY <1>3, <1>6, <1>13, <1>19, <1>20, <2>2, <3>1, <3>3
    <3>4. CASE y = s /\ e = d
      BY <1>3, <1>6, <1>13, <1>19, <1>20, <2>2, <3>1, <3>4
    <3>5. CASE y = s /\ e = Opp(d)
      BY <1>3, <1>6, <1>13, <1>19, <1>20, <2>2, <3>1, <3>5
    <3> QED
      BY <1>2, <3>2, <3>3, <3>4, <3>5
  <2> HIDE DEF W
  <2> QED
    BY <1>1, <1>17, <1>19, <2>1, <2>3, <2>4, ReplacedEven
<1>22. ~IsRed(U, t) /\ ~IsRed(U, N) /\ ~IsRed(U, out)
  <2>1. \A y \in Ptr : y # p /\ ~IsRed(T, y) => ~IsRed(U, y) \/ y = s
    BY <1>12 DEF IsRed, Ptr
  <2> QED
    BY <1>2, <1>3, <1>7, <1>8, <1>9, <1>14, <2>1 DEF Ptr
<1>23. RedOnly(U, M, Nil) /\ RootBlack(U, Nil)
  <2>1. RedWithin(T, p, Nil, U, W, s, Nil)
    BY <1>2, <1>13, <1>20, <1>22 DEF RedWithin
  <2>2. RedOnly(T, M, Nil) /\ RootBlack(T, Nil)
    BY DEF Sound
  <2>3. Within(T, W, Nil)
    BY DEF Within
  <2> HIDE DEF W
  <2> QED
    BY <1>17, <2>1, <2>2, <2>3, ReplacedRed
<1>24. U \in Tree /\ Linked(U, M)
  BY <1>11, <1>17 DEF Replaced
<1>25. Sound(U, M, o, Nil)
  BY <1>2, <1>21, <1>23, <1>24 DEF Sound
<1>26. \A n \in Nodes : IsRed(U, n) => IsRed(T, n) \/ n = p
  <2>1. ~IsRed(U, s)
    BY <1>20
  <2> QED
    BY <1>12, <2>1 DEF IsRed
<1> QED
  BY <1>13, <1>15, <1>17, <1>22, <1>25, <1>26 DEF U, N

\* Case 4 of the erase: the outer kid of the sibling is red.
LEMMA ParentSound ==
  ASSUME NEW T, NEW M, NEW p \in M, NEW d \in Sides, Sound(T, M, << p, Opp(d) >>, Nil),
         ~IsRed(T, T.kid[p][d]), IsRed(T, T.kid[T.kid[p][d]][d])
  PROVE  LET U == ParentRotated(T, p, d) IN Sound(U, M, << >>, Nil) /\ Untouched(T, U, M)
<1> DEFINE s == T.kid[p][d]
           N == T.kid[p][Opp(d)]
           t == T.kid[s][Opp(d)]
           out == T.kid[s][d]
           o == << p, Opp(d) >>
           U == ParentRotated(T, p, d)
<1>0. /\ T.kid[p][d] = s /\ T.kid[p][Opp(d)] = N /\ T.kid[s][Opp(d)] = t /\ T.kid[s][d] = out
      /\ o = << p, Opp(d) >> /\ Sound(T, M, o, Nil) /\ ~IsRed(T, s) /\ IsRed(T, out)
      /\ U = ParentRotated(T, p, d)
  OBVIOUS
<1> HIDE DEF U, s, t, N, out, o
<1>1. PICK h : Even(T, M, h, o)
  BY <1>0 DEF Sound
<1>2. /\ T \in Tree /\ M \in SUBSET Nodes /\ Linked(T, M) /\ Nil \notin M
      /\ d \in Sides /\ Opp(d) \in Sides /\ Opp(d) # d /\ \A e \in Sides : e = d \/ e = Opp(d)
  BY <1>0, SidesAre, NodesAssumption DEF Sound
<1>3. /\ s \in M /\ T.parent[s] = p /\ s # p /\ s # N
      /\ N \in Ptr /\ N # p /\ (N # Nil => N \in M /\ T.parent[N] = p)
      /\ h[s] = h[N] + 1 /\ h[p] = h[s] + Weight(T, p) /\ h[s] \in Nat /\ h[N] \in Nat /\ h[p] \in Nat
  <2>1. Siblings(T, M, p, h, s, N)
    BY <1>0, <1>1, SiblingThere
  <2> QED
    BY <1>0, <2>1 DEF Siblings
<1>4. T.parent[p] # s
  BY <1>0, <1>1, <1>2, <1>3, NoRound2
<1>5. out \in M /\ T.parent[out] = s
  BY <1>0, <1>2, <1>3, LinkedIs DEF IsRed
<1>6. T.parent[p] # out
  BY <1>0, <1>1, <1>2, <1>3, <1>5, NoRound3
<1>7. T.parent[p] # p
  BY <1>0, <1>2, LinkedIs
<1>8. out # p /\ out # s /\ out # N /\ out # Nil
  <2>1. out # s
    BY <1>0, <1>2, <1>5, LinkedIs
  <2> QED
    BY <1>0, <1>2, <1>3, <1>4, <1>5, <2>1
<1>9. t \in Ptr /\ t # p /\ t # s /\ t # out /\ (t # Nil => t \in M /\ T.parent[t] = s)
  <2>1. t # Nil => t \in M /\ T.parent[t] = s
    BY <1>0, <1>2, <1>3, LinkedIs
  <2>2. t # out
    BY <1>0, <1>2, <1>3, <1>8, LinkedIs
  <2>3. t # s /\ t # p
    BY <1>0, <1>2, <1>3, <1>4, <2>1, LinkedIs
  <2> QED
    BY <1>0, <1>2, <2>1, <2>2, <2>3 DEF Ptr
<1>10. /\ h[s] = h[t] + 1 /\ h[s] = h[out] + 1 /\ h[t] \in Nat /\ h[out] \in Nat
  <2>1. \A e \in Sides : Debt(o, s, e) = 0
    BY <1>0, <1>3 DEF Debt
  <2>2. h[s] = h[t] + Weight(T, s) + Debt(o, s, Opp(d)) /\ h[t] \in Nat
    <3>1. EvenAt(T, h, o, s, Opp(d))
      BY <1>0, <1>1, <1>2, <1>3, EvenAtIs
    <3> QED
      BY <1>0, <3>1 DEF EvenAt
  <2>3. h[s] = h[out] + Weight(T, s) + Debt(o, s, d) /\ h[out] \in Nat
    <3>1. EvenAt(T, h, o, s, d)
      BY <1>0, <1>1, <1>2, <1>3, EvenAtIs
    <3> QED
      BY <1>0, <3>1 DEF EvenAt
  <2>4. Weight(T, s) = 1
    BY <1>0, <1>1, <1>2, <1>3, EvenIs
  <2> QED
    BY <1>0, <1>2, <2>1, <2>2, <2>3, <2>4
<1>11. Pivot(T, M, p, s, d)
  BY <1>0, <1>2, <1>3, <1>4 DEF Pivot
<1>12. U \in Tree /\ Turned(T, U, p, s, d) /\ OuterBlack(T, U, p, s, out)
  BY <1>0, <1>2, <1>8, <1>11, ParentIs
<1>13. \A y \in Nodes : U.color[y] = IF y = p THEN "black" ELSE IF y = s THEN T.color[p]
                                     ELSE IF y = out THEN "black" ELSE T.color[y]
  BY <1>0, <1>12 DEF OuterBlack
<1>14. /\ U.kid[p][d] = t /\ U.kid[p][Opp(d)] = N /\ U.kid[s][Opp(d)] = p /\ U.kid[s][d] = out
       /\ \A e \in Sides : U.kid[out][e] = IF T.kid[out][e] = p THEN s ELSE T.kid[out][e]
  <2>1. /\ U.kid[p][d] = t /\ U.kid[p][Opp(d)] = N /\ U.kid[s][Opp(d)] = p /\ U.kid[s][d] = out
    BY <1>0, <1>2, <1>3, <1>4, <1>12, TurnedLinked
  <2>2. \A x \in M, e \in Sides : x # p /\ x # s =>
          U.kid[x][e] = IF T.kid[x][e] = p THEN s ELSE T.kid[x][e]
    BY <1>0, <1>2, <1>3, <1>4, <1>12, TurnedLinked
  <2> QED
    BY <1>0, <1>5, <1>8, <2>1, <2>2
<1>15. \A e \in Sides : /\ U.kid[out][e] = T.kid[out][e] /\ h[T.kid[out][e]] = h[out]
                        /\ T.kid[out][e] \in Ptr /\ T.kid[out][e] \notin {p, s, out}
                        /\ ~IsRed(T, T.kid[out][e])
  <2> TAKE e \in Sides
  <2> DEFINE y == T.kid[out][e]
  <2>1. y = Nil \/ (y \in M /\ T.parent[y] = out)
    BY <1>0, <1>2, <1>5, LinkedIs
  <2>2. y # p /\ y # s /\ y # out
    <3> QED
      BY <1>0, <1>2, <1>3, <1>5, <1>6, <1>8, <2>1, LinkedIs
  <2>3. h[out] = h[y] + Weight(T, out) + Debt(o, out, e) /\ h[y] \in Nat
    <3>1. EvenAt(T, h, o, out, e)
      BY <1>0, <1>1, <1>2, <1>5, EvenAtIs
    <3> QED
      BY <1>0, <3>1 DEF EvenAt
  <2>4. Weight(T, out) = 0 /\ Debt(o, out, e) = 0
    BY <1>0, <1>8 DEF Weight, IsRed, Debt
  <2>5. ~IsRed(T, y)
    BY <1>0, <1>2, <2>1 DEF Sound, RedOnly, IsRed
  <2>6. h[y] = h[out]
    BY <1>0, <2>3, <2>4
  <2>7. y \in Ptr
    BY <1>0, <1>2, <2>1 DEF Ptr
  <2> QED
    BY <1>0, <1>14, <2>2, <2>5, <2>6, <2>7 DEF y
<1>16. o = << p, Opp(d) >>
  BY <1>0
<1> DEFINE W == {p, s, out}
           k == [[h EXCEPT ![p] = h[s], ![s] = h[p]] EXCEPT ![out] = h[s]]
<1>17. Replaced(T, M, W, p, U, M, W, s) /\ Untouched(T, U, M)
  <2>1. W \in SUBSET M /\ p \in W /\ s \in W /\ \A w \in W : w # p => T.parent[w] \in W
    BY <1>3, <1>5
  <2>2. \A y \in M \ W : U.color[y] = T.color[y]
    BY <1>2, <1>13
  <2> HIDE DEF W
  <2> QED
    BY <1>2, <1>11, <1>12, <2>1, <2>2, TurnedReplaced
<1>18. h \in [Ptr -> Nat] /\ h[Nil] = 0
  BY <1>1 DEF Even
<1>19. /\ k \in [Ptr -> Nat] /\ k[p] = h[s] /\ k[s] = h[p] /\ k[out] = h[s]
       /\ \A y \in Ptr : y \notin {p, s, out} => k[y] = h[y]
  BY <1>2, <1>3, <1>5, <1>8, <1>18 DEF Ptr
<1> HIDE DEF k
<1>20. /\ Weight(U, p) = 1 /\ Weight(U, out) = 1 /\ Weight(U, s) = Weight(T, p)
       /\ ~IsRed(U, p) /\ ~IsRed(U, out) /\ (IsRed(U, s) => IsRed(T, p))
  BY <1>2, <1>3, <1>5, <1>8, <1>13 DEF Weight, IsRed
<1>21. Even(U, M, k, << >>)
  <2>1. k[Nil] = 0 /\ \A y \in M \ W : k[y] = h[y]
    BY <1>2, <1>3, <1>8, <1>18, <1>19 DEF Ptr
  <2>2. \A y, e : Debt(<< >>, y, e) = 0
    BY DEF Debt
  <2>3. \A y \in M \ W, e \in Sides :
          IF T.kid[y][e] = p THEN k[s] + Debt(<< >>, y, e) = h[p] + Debt(o, y, e)
          ELSE Debt(<< >>, y, e) = Debt(o, y, e)
    <3>1. \A y \in M \ W, e \in Sides : Debt(o, y, e) = 0
      BY <1>16 DEF Debt
    <3> QED
      BY <1>19, <2>2, <3>1
  <2>4. \A y \in W, e \in Sides : k[y] = k[U.kid[y][e]] + Weight(U, y) + Debt(<< >>, y, e)
    <3> TAKE y \in W, e \in Sides
    <3>1. k[t] = h[t] /\ k[N] = h[N]
      BY <1>3, <1>8, <1>9, <1>19
    <3>2. CASE y = p
      <4>1. k[U.kid[p][e]] + 1 = h[s]
        <5>1. h[N] + 1 = h[s] /\ h[t] + 1 = h[s]
          BY <1>3, <1>10
        <5> QED
          BY <1>2, <1>14, <3>1, <5>1
      <4>2. k[U.kid[p][e]] \in Nat
        BY <1>2, <1>3, <1>10, <1>14, <3>1
      <4> QED
        BY <1>19, <1>20, <2>2, <3>2, <4>1, <4>2
    <3>3. CASE y = s
      <4>1. k[U.kid[s][e]] = h[s]
        BY <1>2, <1>14, <1>19
      <4>2. h[p] = h[s] + Weight(T, p) /\ h[s] \in Nat /\ Weight(T, p) \in Nat
        BY <1>3 DEF Weight
      <4> QED
        BY <1>19, <1>20, <2>2, <3>3, <4>1, <4>2
    <3>4. CASE y = out
      <4>1. k[U.kid[out][e]] = h[out]
        BY <1>15, <1>19
      <4> QED
        BY <1>10, <1>19, <1>20, <2>2, <3>4, <4>1
    <3> QED
      BY <3>2, <3>3, <3>4
  <2> HIDE DEF W
  <2> QED
    BY <1>1, <1>17, <1>19, <2>1, <2>3, <2>4, ReplacedEven
<1>22. RedOnly(U, M, Nil) /\ RootBlack(U, Nil)
  <2>1. RedWithin(T, p, Nil, U, W, s, Nil)
    <3>1. p # Nil
      BY <1>2
    <3>2. \A n \in W, e \in Sides : IsRed(U, n) /\ IsRed(U, U.kid[n][e]) => U.kid[n][e] = Nil
      BY <1>2, <1>14, <1>20
    <3> HIDE DEF W
    <3> QED
      BY <1>20, <3>1, <3>2 DEF RedWithin
  <2>2. RedOnly(T, M, Nil) /\ RootBlack(T, Nil)
    BY DEF Sound
  <2>3. Within(T, W, Nil)
    BY DEF Within
  <2> HIDE DEF W
  <2> QED
    BY <1>17, <2>1, <2>2, <2>3, ReplacedRed
<1>23. U \in Tree /\ Linked(U, M)
  BY <1>12, <1>17 DEF Replaced
<1> QED
  BY <1>2, <1>17, <1>21, <1>22, <1>23 DEF Sound, U

\* Cases 3 and 4 of the erase: the inner kid of the sibling is red, the outer is not.
LEMMA NephewSound ==
  ASSUME NEW T, NEW M, NEW p \in M, NEW d \in Sides, Sound(T, M, << p, Opp(d) >>, Nil),
         ~IsRed(T, T.kid[p][d]), ~IsRed(T, T.kid[T.kid[p][d]][d]),
         IsRed(T, T.kid[T.kid[p][d]][Opp(d)])
  PROVE  LET U == ParentRotated(NephewRotated(T, p, d), p, d)
         IN  Sound(U, M, << >>, Nil) /\ Untouched(T, U, M)
<1> DEFINE s == T.kid[p][d]
           N == T.kid[p][Opp(d)]
           n == T.kid[s][Opp(d)]
           out == T.kid[s][d]
           a == T.kid[n][d]
           b == T.kid[n][Opp(d)]
           o == << p, Opp(d) >>
           U == ParentRotated(NephewRotated(T, p, d), p, d)
<1>0. /\ T.kid[p][d] = s /\ T.kid[p][Opp(d)] = N /\ T.kid[s][Opp(d)] = n /\ T.kid[s][d] = out
      /\ T.kid[n][d] = a /\ T.kid[n][Opp(d)] = b
      /\ o = << p, Opp(d) >> /\ Sound(T, M, o, Nil) /\ ~IsRed(T, s) /\ ~IsRed(T, out) /\ IsRed(T, n)
      /\ U = ParentRotated(NephewRotated(T, p, d), p, d)
  OBVIOUS
<1> HIDE DEF U, s, n, N, a, b, out, o
<1>1. PICK h : Even(T, M, h, o)
  BY <1>0 DEF Sound
<1>2. /\ T \in Tree /\ M \in SUBSET Nodes /\ Linked(T, M) /\ Nil \notin M
      /\ d \in Sides /\ Opp(d) \in Sides /\ Opp(d) # d /\ \A e \in Sides : e = d \/ e = Opp(d)
  BY <1>0, SidesAre, NodesAssumption DEF Sound
<1>3. /\ s \in M /\ T.parent[s] = p /\ s # p /\ s # N
      /\ N \in Ptr /\ N # p /\ (N # Nil => N \in M /\ T.parent[N] = p)
      /\ h[s] = h[N] + 1 /\ h[p] = h[s] + Weight(T, p) /\ h[s] \in Nat /\ h[N] \in Nat /\ h[p] \in Nat
  <2>1. Siblings(T, M, p, h, s, N)
    BY <1>0, <1>1, SiblingThere
  <2> QED
    BY <1>0, <2>1 DEF Siblings
<1>4. T.parent[p] # s
  BY <1>0, <1>1, <1>2, <1>3, NoRound2
<1>5. n \in M /\ T.parent[n] = s
  BY <1>0, <1>2, <1>3, LinkedIs DEF IsRed
<1>6. T.parent[p] # n
  BY <1>0, <1>1, <1>2, <1>3, <1>5, NoRound3
<1>7. Corner(T, M, p, s, n, d)
  BY <1>0, <1>2, <1>3, <1>4, <1>5, <1>6 DEF Corner
<1>8. Cornered(T, M, p, s, n, d, a, b)
  BY <1>0, <1>2, <1>7, CornerIs
<1>9. /\ n # N /\ n # p /\ n # s
      /\ out \in Ptr /\ out # p /\ out # s /\ out # n
  <2>1. out = Nil \/ (out \in M /\ T.parent[out] = s)
    BY <1>0, <1>2, <1>3, LinkedIs
  <2>2. out # n
    BY <1>0, <1>2, <1>3, <1>5, LinkedIs
  <2>3. out # s
    BY <1>0, <1>2, <1>3, <2>1, LinkedIs
  <2> QED
    BY <1>0, <1>2, <1>3, <1>4, <1>5, <1>8, <2>1, <2>2, <2>3 DEF Ptr, Cornered
<1>10. \A e : e \in Sides => Debt(o, s, e) = 0 /\ Debt(o, n, e) = 0
  BY <1>0, <1>3, <1>9 DEF Debt
<1>11. h[s] = h[n] + 1 /\ h[s] = h[out] + 1 /\ h[n] \in Nat /\ h[out] \in Nat
  <2>1. EvenAt(T, h, o, s, Opp(d)) /\ EvenAt(T, h, o, s, d)
    BY <1>0, <1>1, <1>2, <1>3, EvenAtIs
  <2>2. h[s] = h[n] + 1 /\ h[n] \in Nat
    BY <1>0, <1>2, <1>10, <2>1 DEF EvenAt
  <2>3. h[s] = h[out] + 1 /\ h[out] \in Nat
    BY <1>0, <1>2, <1>10, <2>1 DEF EvenAt
  <2> QED
    BY <1>0, <2>2, <2>3
<1>12. h[n] = h[a] /\ h[n] = h[b] /\ h[a] \in Nat /\ h[b] \in Nat
  <2>1. EvenAt(T, h, o, n, Opp(d)) /\ EvenAt(T, h, o, n, d)
    BY <1>0, <1>1, <1>2, <1>5, EvenAtIs
  <2>2. IsRed(T, n)
    BY <1>0
  <2>3. h[a] = h[T.kid[n][d]] /\ h[b] = h[T.kid[n][Opp(d)]]
    BY <1>0
  <2>4. h[n] = h[a] /\ h[a] \in Nat
    BY <1>0, <1>2, <1>10, <2>1, <2>2, <2>3 DEF EvenAt
  <2>5. h[n] = h[b] /\ h[b] \in Nat
    BY <1>0, <1>2, <1>10, <2>1, <2>2, <2>3 DEF EvenAt
  <2> QED
    BY <1>0, <2>4, <2>5
<1>13. ~IsRed(T, a) /\ ~IsRed(T, b)
  BY <1>0, <1>8 DEF Sound, RedOnly, IsRed, Cornered
<1>14. U \in Tree /\ Doubled(T, U, p, s, n, d) /\ BothBlackened(T, U, p, s, n, d)
  BY <1>0, <1>2, <1>7, NephewParentIs
<1>15. \A y \in Nodes : U.color[y] = IF y = p \/ y = s THEN "black" ELSE IF y = n THEN T.color[p]
                                     ELSE IF y = a THEN "black" ELSE T.color[y]
  BY <1>0, <1>14 DEF BothBlackened
<1>16. /\ U.kid[n][d] = s /\ U.kid[n][Opp(d)] = p
       /\ U.kid[s][d] = out /\ U.kid[s][Opp(d)] = a
       /\ U.kid[p][d] = b /\ U.kid[p][Opp(d)] = N
  <2>1. Doubled(T, U, p, s, n, d) /\ U \in Tree
    BY <1>0, <1>14
  <2>2. U.kid[n][d] = s /\ U.kid[n][Opp(d)] = p
    BY <1>0, <1>2, <1>3, <1>4, <1>5, <1>6, <2>1, DoubledLinked, SMTT(30)
  <2>3. U.kid[s][d] = out /\ U.kid[s][Opp(d)] = a
    BY <1>0, <1>2, <1>3, <1>4, <1>5, <1>6, <2>1, DoubledLinked, SMTT(30)
  <2>4. U.kid[p][d] = b /\ U.kid[p][Opp(d)] = N
    BY <1>0, <1>2, <1>3, <1>4, <1>5, <1>6, <2>1, DoubledLinked, SMTT(30)
  <2> QED
    BY <1>0, <2>2, <2>3, <2>4
<1>17. o = << p, Opp(d) >>
  BY <1>0
<1>18. \A y \in M \ {p, s, n} : U.color[y] = T.color[y]
  <2>1. \A y \in Nodes : T.color[y] \in {"red", "black"}
    BY <1>2 DEF Tree, Colors
  <2> QED
    BY <1>2, <1>13, <1>15, <2>1 DEF IsRed
<1> DEFINE W == {p, s, n}
           k == [h EXCEPT ![p] = h[s], ![n] = h[p]]
<1>19. Replaced(T, M, W, p, U, M, W, n) /\ Untouched(T, U, M)
  BY <1>2, <1>7, <1>14, <1>18, DoubledReplaced
<1>20. h \in [Ptr -> Nat] /\ h[Nil] = 0
  BY <1>1 DEF Even
<1>21. /\ k \in [Ptr -> Nat] /\ k[p] = h[s] /\ k[n] = h[p]
       /\ \A y \in Ptr : y # p /\ y # n => k[y] = h[y]
  BY <1>2, <1>3, <1>5, <1>9, <1>20 DEF Ptr
<1> HIDE DEF k
<1>22. /\ Weight(U, p) = 1 /\ Weight(U, s) = 1 /\ Weight(U, n) = Weight(T, p)
       /\ ~IsRed(U, p) /\ ~IsRed(U, s) /\ (IsRed(U, n) => IsRed(T, p))
  BY <1>2, <1>3, <1>5, <1>9, <1>15 DEF Weight, IsRed
<1>23. Even(U, M, k, << >>)
  <2>1. k[Nil] = 0 /\ \A y \in M \ W : k[y] = h[y]
    BY <1>2, <1>5, <1>20, <1>21 DEF Ptr
  <2>2. \A y, e : Debt(<< >>, y, e) = 0
    BY DEF Debt
  <2>3. \A y \in M \ W, e \in Sides :
          IF T.kid[y][e] = p THEN k[n] + Debt(<< >>, y, e) = h[p] + Debt(o, y, e)
          ELSE Debt(<< >>, y, e) = Debt(o, y, e)
    <3>1. \A y \in M \ W, e \in Sides : Debt(o, y, e) = 0
      BY <1>17 DEF Debt
    <3> QED
      BY <1>21, <2>2, <3>1
  <2>4. \A y \in W, e \in Sides : k[y] = k[U.kid[y][e]] + Weight(U, y) + Debt(<< >>, y, e)
    <3> TAKE y \in W, e \in Sides
    <3>1. k[a] = h[a] /\ k[b] = h[b] /\ k[N] = h[N] /\ k[out] = h[out] /\ k[s] = h[s]
      BY <1>2, <1>3, <1>8, <1>9, <1>21 DEF Cornered, Ptr
    <3>2. CASE y = p
      <4>1. h[N] + 1 = h[s] /\ h[b] + 1 = h[s]
        BY <1>3, <1>11, <1>12
      <4>2. k[U.kid[p][e]] + 1 = h[s] /\ k[U.kid[p][e]] \in Nat
        BY <1>2, <1>3, <1>12, <1>16, <3>1, <4>1
      <4> QED
        BY <1>21, <1>22, <2>2, <3>2, <4>2
    <3>3. CASE y = s
      <4>1. h[out] + 1 = h[s] /\ h[a] + 1 = h[s]
        BY <1>11, <1>12
      <4>2. k[U.kid[s][e]] + 1 = h[s] /\ k[U.kid[s][e]] \in Nat
        BY <1>2, <1>11, <1>12, <1>16, <3>1, <4>1
      <4> QED
        BY <1>22, <2>2, <3>1, <3>3, <4>2
    <3>4. CASE y = n
      <4>1. k[U.kid[n][e]] = h[s]
        BY <1>2, <1>16, <1>21, <3>1
      <4>2. h[p] = h[s] + Weight(T, p) /\ h[s] \in Nat /\ Weight(T, p) \in Nat
        BY <1>3 DEF Weight
      <4> QED
        BY <1>21, <1>22, <2>2, <3>4, <4>1, <4>2
    <3> QED
      BY <3>2, <3>3, <3>4
  <2> HIDE DEF W
  <2> QED
    BY <1>1, <1>19, <1>21, <2>1, <2>3, <2>4, ReplacedEven
<1>24. RedOnly(U, M, Nil) /\ RootBlack(U, Nil)
  <2>1. RedWithin(T, p, Nil, U, W, n, Nil)
    <3>1. p # Nil
      BY <1>2
    <3>2. \A y \in W, e \in Sides : IsRed(U, y) /\ IsRed(U, U.kid[y][e]) => U.kid[y][e] = Nil
      BY <1>2, <1>16, <1>22
    <3> HIDE DEF W
    <3> QED
      BY <1>22, <3>1, <3>2 DEF RedWithin
  <2>2. RedOnly(T, M, Nil) /\ RootBlack(T, Nil)
    BY DEF Sound
  <2>3. Within(T, W, Nil)
    BY DEF Within
  <2> HIDE DEF W
  <2> QED
    BY <1>19, <2>1, <2>2, <2>3, ReplacedRed
<1>25. U \in Tree /\ Linked(U, M)
  BY <1>14, <1>19 DEF Replaced
<1> QED
  BY <1>2, <1>19, <1>23, <1>24, <1>25 DEF Sound, U

-----------------------------------------------------------------------------
(* Flips: only colors change *)

SameLinks(T, U) == U.root = T.root /\ U.kid = T.kid /\ \A x \in Nodes : U.parent[x] = T.parent[x]

LEMMA RecoloredReplaced ==
  ASSUME NEW T \in Tree, NEW U \in Tree, NEW M \in SUBSET Nodes, Linked(T, M), SameLinks(T, U),
         NEW W \in SUBSET M, NEW p \in W, \A w \in W : w # p => T.parent[w] \in W,
         \A x \in M \ W : U.color[x] = T.color[x]
  PROVE  Replaced(T, M, W, p, U, M, W, p) /\ Untouched(T, U, M)
<1>1. Nil \notin M
  BY NodesAssumption
<1>2. Linked(U, M)
  <2>1. \A n \in M, d \in Sides : U.kid[n][d] # Nil => U.kid[n][d] \in M /\ U.parent[U.kid[n][d]] = n
    BY DEF Linked, SameLinks
  <2>2. \A n \in M : IF U.parent[n] = Nil THEN U.root = n
                     ELSE U.parent[n] \in M /\ \E d \in Sides : U.kid[U.parent[n]][d] = n
    BY DEF Linked, SameLinks
  <2>3. \A n \in M : U.kid[n]["l"] # Nil => U.kid[n]["l"] # U.kid[n]["r"]
    BY DEF Linked, SameLinks
  <2>4. \A n \in M : U.parent[n] # n
    BY DEF Linked, SameLinks
  <2>5. U.root # Nil => U.root \in M /\ U.parent[U.root] = Nil
    BY DEF Linked, SameLinks
  <2> QED
    BY <2>1, <2>2, <2>3, <2>4, <2>5 DEF Linked
<1>3. \A x \in M \ W, e \in Sides : U.kid[x][e] = IF T.kid[x][e] = p THEN p ELSE T.kid[x][e]
  BY DEF SameLinks
<1>4. U.root = IF T.parent[p] = Nil THEN p ELSE T.root
  BY LinkedIs DEF SameLinks
<1>5. Untouched(T, U, M)
  BY DEF Untouched, SameLinks
<1> QED
  BY <1>2, <1>3, <1>4, <1>5 DEF Replaced

\* The root turns black.
LEMMA RootSound ==
  ASSUME NEW T, NEW M, NEW n \in M, Sound(T, M, << >>, n), T.parent[n] = Nil, IsRed(T, n)
  PROVE  LET U == SetParentColor(T, n, Nil, "black")
         IN  Sound(U, M, << >>, Nil) /\ Untouched(T, U, M)
<1> DEFINE U == SetParentColor(T, n, Nil, "black")
           W == {n}
<1>1. PICK h : Even(T, M, h, << >>)
  BY DEF Sound
<1>2. T \in Tree /\ M \in SUBSET Nodes /\ Linked(T, M) /\ Nil \notin M
  BY NodesAssumption DEF Sound
<1>3. ParentColorSet(T, U, n, Nil, "black")
  <2>1. Nil \in Ptr /\ "black" \in Colors
    BY DEF Ptr, Colors
  <2> QED
    BY <1>2, <2>1, SetParentColorIs
<1> HIDE DEF U
<1>4. U \in Tree /\ SameLinks(T, U)
  BY <1>3 DEF ParentColorSet, SameLinks
<1>5. Replaced(T, M, W, n, U, M, W, n) /\ Untouched(T, U, M)
  <2>1. \A x \in M \ W : U.color[x] = T.color[x]
    BY <1>2, <1>3 DEF ParentColorSet
  <2>2. W \in SUBSET M /\ n \in W /\ \A w \in W : w # n => T.parent[w] \in W
    OBVIOUS
  <2> HIDE DEF W
  <2> QED
    BY <1>2, <1>4, <2>1, <2>2, RecoloredReplaced
<1>6. h \in [Ptr -> Nat] /\ h[Nil] = 0 /\ n \in Ptr /\ h[n] \in Nat
  BY <1>1, <1>2 DEF Even, Ptr
<1> DEFINE k == [h EXCEPT ![n] = h[n] + 1]
<1>7. k \in [Ptr -> Nat] /\ k[n] = h[n] + 1 /\ \A y \in Ptr : y # n => k[y] = h[y]
  BY <1>6
<1> HIDE DEF k
<1>8. Weight(U, n) = 1 /\ ~IsRed(U, n)
  BY <1>2, <1>3 DEF ParentColorSet, Weight, IsRed
<1>9. Even(U, M, k, << >>)
  <2>1. k[Nil] = 0 /\ \A y \in M \ W : k[y] = h[y]
    BY <1>2, <1>6, <1>7 DEF Ptr
  <2>2. \A y, e : Debt(<< >>, y, e) = 0
    BY DEF Debt
  <2>3. \A y \in M, e \in Sides : T.kid[y][e] # n
    BY <1>2, LinkedIs
  <2>4. \A y \in M \ W, e \in Sides :
          IF T.kid[y][e] = n THEN k[n] + Debt(<< >>, y, e) = h[n] + Debt(<< >>, y, e)
          ELSE Debt(<< >>, y, e) = Debt(<< >>, y, e)
    BY <2>3
  <2>5. \A y \in W, e \in Sides : k[y] = k[U.kid[y][e]] + Weight(U, y) + Debt(<< >>, y, e)
    <3> TAKE y \in W, e \in Sides
    <3>1. U.kid[n][e] = T.kid[n][e]
      BY <1>4 DEF SameLinks
    <3>2. EvenAt(T, h, << >>, n, e)
      BY <1>1, <1>2, EvenAtIs
    <3>3. h[n] = h[T.kid[n][e]]
      BY <2>2, <3>2 DEF EvenAt
    <3>4. T.kid[n][e] \in Ptr /\ T.kid[n][e] # n
      BY <1>2, <2>3 DEF Tree, Ptr
    <3> QED
      BY <1>6, <1>7, <1>8, <2>2, <3>1, <3>3, <3>4
  <2> HIDE DEF W
  <2> QED
    BY <1>1, <1>5, <1>7, <2>1, <2>4, <2>5, ReplacedEven
<1>10. RedOnly(U, M, Nil) /\ RootBlack(U, Nil)
  <2>1. RedWithin(T, n, n, U, W, n, Nil)
    BY <1>8 DEF RedWithin
  <2>2. RedOnly(T, M, n) /\ RootBlack(T, n)
    BY DEF Sound
  <2>3. Within(T, W, n)
    BY DEF Within
  <2> HIDE DEF W
  <2> QED
    BY <1>5, <2>1, <2>2, <2>3, ReplacedRed
<1> HIDE DEF W
<1>11. Linked(U, M)
  BY <1>5 DEF Replaced
<1> QED
  BY <1>2, <1>4, <1>5, <1>9, <1>10, <1>11 DEF Sound, U

\* Case 1 of the insertion: the red p and its red sibling turn black, their parent red.
LEMMA FlipSound ==
  ASSUME NEW T, NEW M, NEW g \in M, NEW d \in Sides, NEW p \in M, NEW x \in M, Sound(T, M, << >>, x),
         T.kid[g][d] = p, T.parent[x] = p, IsRed(T, p), IsRed(T, x), IsRed(T, T.kid[g][Opp(d)])
  PROVE  LET t1 == SetParentColor(T, T.kid[g][Opp(d)], g, "black")
             t2 == SetParentColor(t1, p, g, "black")
             U == SetParentColor(t2, g, t2.parent[g], "red")
         IN  Sound(U, M, << >>, g) /\ Untouched(T, U, M) /\ IsRed(U, g) /\ SameLinks(T, U)
<1> DEFINE u == T.kid[g][Opp(d)]
           t1 == SetParentColor(T, u, g, "black")
           t2 == SetParentColor(t1, p, g, "black")
           U == SetParentColor(t2, g, t2.parent[g], "red")
           W == {g, p, u}
<1>1. PICK h : Even(T, M, h, << >>)
  BY DEF Sound
<1>2. /\ T \in Tree /\ M \in SUBSET Nodes /\ Linked(T, M) /\ Nil \notin M
      /\ d \in Sides /\ Opp(d) \in Sides /\ Opp(d) # d /\ \A e \in Sides : e = d \/ e = Opp(d)
      /\ "red" \in Colors /\ "black" \in Colors
  BY SidesAre, NodesAssumption DEF Sound, Colors
<1>3. /\ T.parent[p] = g /\ p # g /\ x # p
      /\ u \in M /\ T.parent[u] = g /\ u # g /\ u # p
  <2>1. T.parent[p] = g /\ p # g /\ x # p
    BY <1>2, LinkedIs
  <2>2. u \in M /\ T.parent[u] = g /\ u # g
    BY <1>2, LinkedIs DEF IsRed
  <2>3. u # p
    BY <1>2, LinkedIs
  <2> QED
    BY <2>1, <2>2, <2>3
<1>4. ~IsRed(T, g)
  BY <1>3 DEF Sound, RedOnly
<1>5. IsRed(T, u)
  OBVIOUS
<1>6. T.kid[g][Opp(d)] = u
  OBVIOUS
<1> HIDE DEF u
<1>7. g \in Ptr /\ g \in Nodes /\ p \in Nodes /\ u \in Nodes
  BY <1>2, <1>3 DEF Ptr
<1>8. ParentColorSet(T, t1, u, g, "black")
  BY <1>2, <1>7, SetParentColorIs
<1> HIDE DEF t1
<1>9. t1 \in Tree
  BY <1>8 DEF ParentColorSet
<1>10. ParentColorSet(t1, t2, p, g, "black")
  BY <1>2, <1>7, <1>9, SetParentColorIs
<1> HIDE DEF t2
<1>11. t2 \in Tree /\ t2.parent[g] \in Ptr
  BY <1>7, <1>10 DEF ParentColorSet, Tree
<1>12. ParentColorSet(t2, U, g, t2.parent[g], "red")
  BY <1>2, <1>7, <1>11, SetParentColorIs
<1> HIDE DEF U
<1>13. U \in Tree /\ SameLinks(T, U)
  <2>1. U \in Tree /\ U.root = T.root /\ U.kid = T.kid
    BY <1>8, <1>10, <1>12 DEF ParentColorSet
  <2>2. \A y \in Nodes : U.parent[y] = T.parent[y]
    BY <1>3, <1>7, <1>8, <1>10, <1>12 DEF ParentColorSet
  <2> QED
    BY <2>1, <2>2 DEF SameLinks
<1>14. \A y \in Nodes : U.color[y] = IF y = g THEN "red" ELSE IF y = p \/ y = u THEN "black"
                                     ELSE T.color[y]
  BY <1>8, <1>10, <1>12 DEF ParentColorSet
<1>15. Replaced(T, M, W, g, U, M, W, g) /\ Untouched(T, U, M)
  <2>1. \A y \in M \ W : U.color[y] = T.color[y]
    BY <1>2, <1>14
  <2>2. W \in SUBSET M /\ g \in W /\ \A w \in W : w # g => T.parent[w] \in W
    BY <1>3
  <2> HIDE DEF W
  <2> QED
    BY <1>2, <1>13, <2>1, <2>2, RecoloredReplaced
<1>16. h \in [Ptr -> Nat] /\ h[Nil] = 0 /\ h[g] \in Nat /\ h[p] \in Nat /\ h[u] \in Nat
       /\ p \in Ptr /\ u \in Ptr
  BY <1>1, <1>7 DEF Even, Ptr
<1>17. h[g] = h[p] + 1 /\ h[g] = h[u] + 1
  <2>1. EvenAt(T, h, << >>, g, d) /\ EvenAt(T, h, << >>, g, Opp(d))
    BY <1>1, <1>2, EvenAtIs
  <2>2. \A y, e : Debt(<< >>, y, e) = 0
    BY DEF Debt
  <2> QED
    BY <1>4, <1>6, <1>16, <2>1, <2>2 DEF EvenAt
<1> DEFINE k == [h EXCEPT ![p] = h[p] + 1, ![u] = h[u] + 1]
<1>18. /\ k \in [Ptr -> Nat] /\ k[p] = h[p] + 1 /\ k[u] = h[u] + 1
       /\ \A y \in Ptr : y # p /\ y # u => k[y] = h[y]
  BY <1>3, <1>16
<1> HIDE DEF k
<1>19. /\ Weight(U, g) = 0 /\ Weight(U, p) = 1 /\ Weight(U, u) = 1
       /\ IsRed(U, g) /\ ~IsRed(U, p) /\ ~IsRed(U, u)
  BY <1>2, <1>3, <1>7, <1>14 DEF Weight, IsRed
<1>20. \A y \in {p, u}, e \in Sides : T.kid[y][e] \in Ptr /\ T.kid[y][e] \notin {p, u} /\ h[y] = h[T.kid[y][e]]
  <2> TAKE y \in {p, u}, e \in Sides
  <2>1. y \in M /\ IsRed(T, y)
    BY <1>3, <1>5
  <2>2. T.kid[y][e] = Nil \/ (T.kid[y][e] \in M /\ T.parent[T.kid[y][e]] = y)
    BY <1>2, <2>1, LinkedIs
  <2>3. EvenAt(T, h, << >>, y, e)
    BY <1>1, <1>2, <2>1, EvenAtIs
  <2>4. h[y] = h[T.kid[y][e]]
    BY <2>1, <2>3 DEF EvenAt, Debt
  <2> QED
    BY <1>2, <1>3, <2>2, <2>4 DEF Ptr
<1>21. Even(U, M, k, << >>)
  <2>1. k[Nil] = 0 /\ \A y \in M \ W : k[y] = h[y]
    BY <1>2, <1>3, <1>16, <1>18 DEF Ptr
  <2>2. \A y, e : Debt(<< >>, y, e) = 0
    BY DEF Debt
  <2>3. k[g] = h[g]
    BY <1>3, <1>7, <1>18
  <2>4. \A y \in M \ W, e \in Sides :
          IF T.kid[y][e] = g THEN k[g] + Debt(<< >>, y, e) = h[g] + Debt(<< >>, y, e)
          ELSE Debt(<< >>, y, e) = Debt(<< >>, y, e)
    BY <2>3
  <2>5. \A y \in W, e \in Sides : k[y] = k[U.kid[y][e]] + Weight(U, y) + Debt(<< >>, y, e)
    <3> TAKE y \in W, e \in Sides
    <3>1. U.kid = T.kid
      BY <1>13 DEF SameLinks
    <3>2. CASE y = g
      <4>1. T.kid[g][e] = p \/ T.kid[g][e] = u
        BY <1>2, <1>6
      <4> QED
        BY <1>16, <1>17, <1>18, <1>19, <2>2, <2>3, <3>1, <3>2, <4>1
    <3>3. CASE y \in {p, u}
      <4>1. k[T.kid[y][e]] = h[y] /\ k[y] = h[y] + 1 /\ Weight(U, y) = 1 /\ h[y] \in Nat
        BY <1>16, <1>18, <1>19, <1>20, <3>3
      <4> QED
        BY <2>2, <3>1, <4>1
    <3> QED
      BY <3>2, <3>3
  <2> HIDE DEF W
  <2> QED
    BY <1>1, <1>15, <1>18, <2>1, <2>4, <2>5, ReplacedEven
<1>22. RedOnly(U, M, g) /\ RootBlack(U, g)
  <2>1. RedWithin(T, g, x, U, W, g, g)
    <3>1. U.kid[g][d] = p /\ U.kid[g][Opp(d)] = u
      BY <1>6, <1>13 DEF SameLinks
    <3> QED
      BY <1>2, <1>19, <3>1 DEF RedWithin
  <2>2. RedOnly(T, M, x) /\ RootBlack(T, x)
    BY DEF Sound
  <2>3. Within(T, W, x)
    BY DEF Within
  <2> HIDE DEF W
  <2> QED
    BY <1>15, <2>1, <2>2, <2>3, ReplacedRed
<1>23. Linked(U, M)
  BY <1>15 DEF Replaced
<1>24. Sound(U, M, << >>, g)
  BY <1>2, <1>13, <1>21, <1>22, <1>23 DEF Sound
<1> QED
  BY <1>13, <1>15, <1>19, <1>24 DEF U, t2, t1, u

\* Where the debt of p goes when its sibling turns red: p pays it, or has no one above,
\* or p itself owes it to its parent.
PaidBy(T, p, o2) ==
  \/ o2 = << >> /\ (IsRed(T, p) \/ T.parent[p] = Nil)
  \/ /\ ~IsRed(T, p) /\ T.parent[p] # Nil
     /\ \E e \in Sides : T.kid[T.parent[p]][e] = p /\ o2 = << T.parent[p], e >>

\* Case 2 of the erase, with p black in the end.
LEMMA PaidSound ==
  ASSUME NEW T, NEW M, NEW p \in M, NEW d \in Sides, Sound(T, M, << p, Opp(d) >>, Nil),
         \A e \in Sides : ~IsRed(T, T.kid[T.kid[p][d]][e]),
         ~IsRed(T, T.kid[p][d]), ~IsRed(T, T.kid[p][Opp(d)]),
         NEW U \in Tree, SameLinks(T, U),
         \A y \in Nodes : U.color[y] = IF y = T.kid[p][d] THEN "red" ELSE IF y = p THEN "black"
                                       ELSE T.color[y],
         NEW o2, PaidBy(T, p, o2)
  PROVE  Sound(U, M, o2, Nil) /\ Untouched(T, U, M)
<1> DEFINE s == T.kid[p][d]
           N == T.kid[p][Opp(d)]
           o == << p, Opp(d) >>
           W == {p, s}
           w == IF IsRed(T, p) THEN 0 ELSE 1
<1>1. PICK h : Even(T, M, h, o)
  BY DEF Sound
<1>2. /\ T \in Tree /\ M \in SUBSET Nodes /\ Linked(T, M) /\ Nil \notin M
      /\ d \in Sides /\ Opp(d) \in Sides /\ Opp(d) # d /\ \A e \in Sides : e = d \/ e = Opp(d)
  BY SidesAre, NodesAssumption DEF Sound
<1>3. /\ s \in M /\ T.parent[s] = p /\ s # p /\ s # N
      /\ N \in Ptr /\ N # p /\ (N # Nil => N \in M /\ T.parent[N] = p)
      /\ h[s] = h[N] + 1 /\ h[p] = h[s] + Weight(T, p) /\ h[s] \in Nat /\ h[N] \in Nat /\ h[p] \in Nat
  <2>1. Siblings(T, M, p, h, s, N)
    BY <1>1, SiblingThere
  <2> QED
    BY <2>1 DEF Siblings
<1>4. \A y \in Nodes : U.color[y] = IF y = s THEN "red" ELSE IF y = p THEN "black" ELSE T.color[y]
  OBVIOUS
<1>5. ~IsRed(T, s) /\ ~IsRed(T, N) /\ \A e \in Sides : ~IsRed(T, T.kid[s][e])
  OBVIOUS
<1>6. \A e \in Sides : T.kid[p][e] = IF e = d THEN s ELSE N
  BY <1>2
<1>7. o = << p, Opp(d) >>
  OBVIOUS
<1> HIDE DEF s, N, o
<1>8. \A e \in Sides : T.kid[s][e] \in Ptr /\ T.kid[s][e] # s /\ h[s] = h[T.kid[s][e]] + 1
                       /\ h[T.kid[s][e]] \in Nat
  <2> TAKE e \in Sides
  <2>1. T.kid[s][e] = Nil \/ (T.kid[s][e] \in M /\ T.kid[s][e] # s)
    BY <1>2, <1>3, LinkedIs
  <2>2. EvenAt(T, h, o, s, e)
    BY <1>1, <1>2, <1>3, EvenAtIs
  <2>3. Debt(o, s, e) = 0
    BY <1>3, <1>7 DEF Debt
  <2> QED
    BY <1>2, <1>5, <2>1, <2>2, <2>3 DEF EvenAt, Ptr
<1>9. Weight(T, p) = w /\ w \in {0, 1} /\ h[p] - w \in Nat
  <2>1. Weight(T, p) = w
    BY <1>2 DEF Weight, IsRed
  <2> HIDE DEF w
  <2>2. Weight(T, p) \in {0, 1}
    BY DEF Weight
  <2> QED
    BY <1>3, <2>1, <2>2
<1>10. T.parent[p] # s
  <2>1. T.parent[p] # s \/ IsRed(T, s)
    BY <1>1, <1>2, <1>3, <1>6, NoRound2
  <2> QED
    BY <1>5, <2>1
<1>11. \A e \in Sides : T.kid[s][e] # p
  BY <1>2, <1>3, <1>10, LinkedIs
<1>12. Replaced(T, M, W, p, U, M, W, p) /\ Untouched(T, U, M)
  <2>1. \A y \in M \ W : U.color[y] = T.color[y]
    BY <1>2, <1>4
  <2>2. W \in SUBSET M /\ p \in W /\ \A y \in W : y # p => T.parent[y] \in W
    BY <1>3
  <2> HIDE DEF W
  <2> QED
    BY <1>2, <2>1, <2>2, RecoloredReplaced
<1>13. h \in [Ptr -> Nat] /\ h[Nil] = 0 /\ p \in Ptr /\ s \in Ptr
  BY <1>1, <1>2, <1>3 DEF Even, Ptr
<1> DEFINE k == [h EXCEPT ![s] = h[s] - 1, ![p] = h[p] - w]
<1> HIDE DEF w
<1>14. /\ k \in [Ptr -> Nat] /\ k[s] = h[s] - 1 /\ k[p] = h[p] - w
       /\ \A y \in Ptr : y # p /\ y # s => k[y] = h[y]
  BY <1>3, <1>9, <1>13
<1> HIDE DEF k
<1>15. Weight(U, p) = 1 /\ Weight(U, s) = 0 /\ ~IsRed(U, p)
  BY <1>2, <1>3, <1>4 DEF Weight, IsRed
<1>16. \A y \in W, e \in Sides : Debt(o2, y, e) = 0
  <2> TAKE y \in W, e \in Sides
  <2>1. CASE o2 = << >>
    BY <2>1 DEF Debt
  <2>2. CASE \E c \in Sides : T.kid[T.parent[p]][c] = p /\ o2 = << T.parent[p], c >>
    <3>1. T.parent[p] # p
      BY <1>2, LinkedIs
    <3> QED
      BY <1>10, <2>2, <3>1 DEF Debt
  <2> QED
    BY <2>1, <2>2 DEF PaidBy
<1>17. Even(U, M, k, o2)
  <2>1. k[Nil] = 0 /\ \A y \in M \ W : k[y] = h[y]
    BY <1>2, <1>3, <1>13, <1>14 DEF Ptr
  <2>2. \A y \in M \ W, e \in Sides : Debt(o, y, e) = 0
    BY <1>7 DEF Debt
  <2>3. ASSUME NEW y \in M \ W, NEW e \in Sides
        PROVE  IF T.kid[y][e] = p THEN k[p] + Debt(o2, y, e) = h[p] + Debt(o, y, e)
               ELSE Debt(o2, y, e) = Debt(o, y, e)
    <3>1. CASE T.kid[y][e] = p
      <4>1. T.parent[p] = y /\ y # Nil
        BY <1>2, <3>1, LinkedIs
      <4>2. CASE IsRed(T, p) /\ o2 = << >>
        BY <1>3, <1>14, <2>2, <3>1, <4>2 DEF Debt, w
      <4>3. CASE ~IsRed(T, p) /\ \E c \in Sides : T.kid[y][c] = p /\ o2 = << y, c >>
        <5>1. PICK c \in Sides : T.kid[y][c] = p /\ o2 = << y, c >>
          BY <4>3
        <5>2. c = e
          BY <1>2, <3>1, <5>1, LinkedIs
        <5>3. Debt(o2, y, e) = 1
          BY <5>1, <5>2 DEF Debt
        <5> QED
          BY <1>3, <1>14, <2>2, <3>1, <4>3, <5>3 DEF w
      <4> QED
        BY <4>1, <4>2, <4>3 DEF PaidBy
    <3>2. CASE T.kid[y][e] # p
      <4>1. o2 # << y, e >>
        BY <3>2 DEF PaidBy
      <4> QED
        BY <2>2, <3>2, <4>1 DEF Debt
    <3> QED
      BY <3>1, <3>2
  <2>4. \A y \in W, e \in Sides : k[y] = k[U.kid[y][e]] + Weight(U, y) + Debt(o2, y, e)
    <3> TAKE y \in W, e \in Sides
    <3>1. U.kid = T.kid /\ Debt(o2, y, e) = 0
      BY <1>16 DEF SameLinks
    <3>2. CASE y = p
      <4>1. h[p] - w = h[s]
        BY <1>3, <1>9
      <4>2. k[N] = h[N]
        BY <1>3, <1>14
      <4>3. k[s] + 1 = h[s] /\ k[N] + 1 = h[s] /\ k[s] \in Nat /\ k[N] \in Nat
        BY <1>3, <1>14, <4>2
      <4>4. k[T.kid[p][e]] + 1 = h[s]
        BY <1>6, <4>3
      <4>5. k[p] = h[s] /\ k[T.kid[p][e]] \in Nat
        BY <1>6, <1>14, <4>1, <4>3
      <4> QED
        BY <1>15, <3>1, <3>2, <4>4, <4>5
    <3>3. CASE y = s
      <4>1. k[T.kid[s][e]] = h[T.kid[s][e]]
        BY <1>8, <1>11, <1>14
      <4> QED
        BY <1>3, <1>8, <1>14, <1>15, <3>1, <3>3, <4>1
    <3> QED
      BY <3>2, <3>3
  <2> HIDE DEF W
  <2> QED
    BY <1>1, <1>12, <1>14, <2>1, <2>3, <2>4, ReplacedEven
<1>18. RedOnly(U, M, Nil) /\ RootBlack(U, Nil)
  <2>1. RedWithin(T, p, Nil, U, W, p, Nil)
    <3>1. \A y \in W, e \in Sides : IsRed(U, y) /\ IsRed(U, U.kid[y][e]) => U.kid[y][e] = Nil
      <4> TAKE y \in W, e \in Sides
      <4>1. ~IsRed(U, T.kid[s][e])
        BY <1>4, <1>5, <1>8 DEF IsRed, Ptr
      <4> QED
        BY <1>15, <4>1 DEF SameLinks
    <3>2. p # Nil
      BY <1>2
    <3> HIDE DEF W
    <3> QED
      BY <1>15, <3>1, <3>2 DEF RedWithin
  <2>2. RedOnly(T, M, Nil) /\ RootBlack(T, Nil)
    BY DEF Sound
  <2>3. Within(T, W, Nil)
    BY DEF Within
  <2> HIDE DEF W
  <2> QED
    BY <1>12, <2>1, <2>2, <2>3, ReplacedRed
<1>19. Linked(U, M)
  BY <1>12 DEF Replaced
<1> QED
  BY <1>2, <1>12, <1>17, <1>18, <1>19 DEF Sound

-----------------------------------------------------------------------------
(* Taking a node out *)

\* c has the place of n, and its color.
Spliced(T, U, M, n, c) ==
  /\ U \in Tree /\ U.root = IF T.parent[n] = Nil THEN c ELSE T.root
  /\ \A x \in M, e \in Sides : U.kid[x][e] = IF T.kid[x][e] = n THEN c ELSE T.kid[x][e]
  /\ \A x \in Nodes : U.parent[x] = IF x = c THEN T.parent[n] ELSE T.parent[x]
  /\ \A x \in Nodes : U.color[x] = IF x = c THEN T.color[n] ELSE T.color[x]

\* The links when n with at most the kid c gives its place to c.
LEMMA SplicedLinked ==
  ASSUME NEW T \in Tree, NEW M \in SUBSET Nodes, Linked(T, M), NEW n \in M,
         NEW d \in Sides, NEW c \in Ptr, T.kid[n][d] = c, T.kid[n][Opp(d)] = Nil, c # Nil => T.parent[n] # c,
         NEW U, Spliced(T, U, M, n, c)
  PROVE  Linked(U, M \ {n})
<1> DEFINE p == T.parent[n]
           N == M \ {n}
<1>1. /\ Nil \notin M /\ Opp(d) \in Sides /\ Opp(d) # d /\ \A e \in Sides : e = d \/ e = Opp(d)
      /\ N \in SUBSET Nodes
  BY SidesAre, NodesAssumption
<1>2. p # n /\ (c # Nil => p # c)
  BY LinkedIs
<1>3. c = Nil \/ (c \in N /\ T.parent[c] = n)
  BY <1>1, LinkedIs
<1>4. p = Nil \/ (p \in N /\ \E e \in Sides : T.kid[p][e] = n)
  BY <1>2, LinkedIs
<1>5. p = Nil => T.root = n
  BY LinkedIs
<1>6. \A x \in M : T.parent[x] = n => x = c
  <2> TAKE x \in M
  <2>1. T.parent[x] = n => \E e \in Sides : T.kid[n][e] = x
    BY <1>1, LinkedIs
  <2> QED
    BY <1>1, <2>1
<1> HIDE DEF p
<1>7. /\ U \in Tree /\ U.root = IF p = Nil THEN c ELSE T.root
      /\ \A x \in Nodes : U.parent[x] = IF x = c THEN p ELSE T.parent[x]
      /\ \A x \in M, e \in Sides : U.kid[x][e] = IF T.kid[x][e] = n THEN c ELSE T.kid[x][e]
  BY DEF p, Spliced
<1>8. ASSUME NEW x \in N, NEW e \in Sides, U.kid[x][e] # Nil
      PROVE  U.kid[x][e] \in N /\ U.parent[U.kid[x][e]] = x
  <2>1. CASE T.kid[x][e] = n
    <3>1. p = x
      BY <2>1, <1>1, LinkedIs DEF p
    <3> QED
      BY <1>1, <1>3, <1>7, <1>8, <2>1, <3>1
  <2>2. CASE T.kid[x][e] # n
    <3>1. U.kid[x][e] = T.kid[x][e]
      BY <1>7, <2>2
    <3>2. T.kid[x][e] \in M /\ T.parent[T.kid[x][e]] = x
      BY <1>8, <3>1, LinkedIs
    <3>3. T.kid[x][e] # c
      BY <1>1, <1>3, <3>2
    <3> QED
      BY <1>1, <1>7, <2>2, <3>1, <3>2, <3>3
  <2> QED
    BY <2>1, <2>2
<1>9. ASSUME NEW x \in N, NEW e \in Sides, U.kid[x][e] # Nil
      PROVE  U.kid[x][e] # U.kid[x][Opp(e)]
  <2>1. Opp(e) \in Sides /\ e # Opp(e)
    BY SidesAre
  <2>2. T.kid[x][e] # c \/ c = Nil
    BY <1>1, <1>3, LinkedIs
  <2>3. T.kid[x][Opp(e)] # c \/ c = Nil
    BY <1>1, <1>3, <2>1, LinkedIs
  <2>4. T.kid[x][e] # Nil => T.kid[x][e] # T.kid[x][Opp(e)]
    BY <2>1, LinkedIs
  <2> QED
    BY <1>1, <1>7, <1>9, <2>1, <2>2, <2>3, <2>4
<1>10. ASSUME NEW x \in N
       PROVE  IF U.parent[x] = Nil THEN U.root = x
              ELSE U.parent[x] \in N /\ \E e \in Sides : U.kid[U.parent[x]][e] = x
  <2>1. CASE x = c
    BY <1>1, <1>4, <1>7, <2>1
  <2>2. CASE x # c
    <3>1. U.parent[x] = T.parent[x] /\ T.parent[x] # n
      BY <1>1, <1>6, <1>7, <2>2
    <3>2. CASE T.parent[x] = Nil
      BY <1>5, <1>7, <3>1, <3>2, LinkedIs
    <3>3. CASE T.parent[x] # Nil
      <4>1. PICK e \in Sides : T.kid[T.parent[x]][e] = x
        BY <3>3, LinkedIs
      <4>2. T.parent[x] \in N
        BY <3>1, <3>3, LinkedIs
      <4> QED
        BY <1>7, <3>1, <3>3, <4>1, <4>2
    <3> QED
      BY <3>2, <3>3
  <2> QED
    BY <2>1, <2>2
<1>11. \A x \in N : U.parent[x] # x
  BY <1>1, <1>2, <1>7, LinkedIs
<1>12. U.root # Nil => U.root \in N /\ U.parent[U.root] = Nil
  <2>1. T.root # Nil => T.root \in M /\ T.parent[T.root] = Nil
    BY DEF Linked
  <2>2. CASE p = Nil
    BY <1>1, <1>3, <1>7, <2>2
  <2>3. CASE p # Nil
    <3>1. U.root = T.root
      BY <1>7, <2>3
    <3>2. T.root # n
      BY <2>1, <2>3, <1>1 DEF p
    <3>3. T.root # Nil => T.root # c
      BY <1>1, <1>3, <2>1
    <3> QED
      BY <1>1, <1>7, <2>1, <3>1, <3>2, <3>3
  <2> QED
    BY <2>2, <2>3
<1> HIDE DEF N
<1>13. Linked(U, N)
  BY <1>1, <1>8, <1>9, <1>10, <1>7, <1>11, <1>12, IsLinked
<1> QED
  BY <1>13 DEF N

\* What __rb_erase_augmented() does with at most one kid.
LEMMA OneKidIs ==
  ASSUME NEW T \in Tree, NEW M \in SUBSET Nodes, Linked(T, M), NEW n \in M, NEW c \in Ptr,
         c # Nil => c \in M
  PROVE  Spliced(T, UnlinkedOneKid(T, n, c).tree, M, n, c)
<1> DEFINE p == T.parent[n]
           A == ChangeChild(T, n, c, p)
           U == MayParentColor(A, c, p, T.color[n])
<1>1. UnlinkedOneKid(T, n, c).tree = U
  BY DEF UnlinkedOneKid, MayParentColor
<1>2. p \in Ptr /\ T.color[n] \in Colors
  BY DEF Tree
<1>3. ChildSet(T, A, n, c, p)
  BY <1>2, ChangeChildIs
<1> HIDE DEF A
<1>4. A \in Tree
  BY <1>3 DEF ChildSet
<1>5. ParentColorSet(A, U, c, p, T.color[n])
  BY <1>2, <1>4, MayParentColorIs
<1> HIDE DEF U
<1>6. U \in Tree /\ U.root = IF p = Nil THEN c ELSE T.root
  BY <1>3, <1>5 DEF ChildSet, ParentColorSet
<1>7. \A x \in M, e \in Sides : U.kid[x][e] = IF T.kid[x][e] = n THEN c ELSE T.kid[x][e]
  <2>1. \A x \in M, e \in Sides :
          (x = p /\ e = (IF T.kid[x]["l"] = n THEN "l" ELSE "r")) <=> T.kid[x][e] = n
    BY ChangedChild
  <2> HIDE DEF p
  <2> QED
    BY <1>3, <1>5, <2>1 DEF ChildSet, ParentColorSet
<1>8. \A x \in Nodes : U.parent[x] = IF x = c THEN p ELSE T.parent[x]
  BY <1>3, <1>5 DEF ChildSet, ParentColorSet
<1>9. \A x \in Nodes : U.color[x] = IF x = c THEN T.color[n] ELSE T.color[x]
  BY <1>3, <1>5 DEF ChildSet, ParentColorSet
<1> QED
  BY <1>1, <1>6, <1>7, <1>8, <1>9 DEF Spliced, p

\* One black node short below p, on a side without a child.
Short(T, M, p) == p \in M /\ \E e \in Sides : T.kid[p][e] = Nil /\ Sound(T, M, << p, e >>, Nil)

\* u is a tree and the node to rebalance at.
Erased(T, M, n, u) ==
  /\ Untouched(T, u.tree, M)
  /\ IF u.rebalance = Nil THEN Sound(u.tree, M \ {n}, << >>, Nil)
     ELSE Short(u.tree, M \ {n}, u.rebalance)

LEMMA OneKidSound ==
  ASSUME NEW T, NEW M, Sound(T, M, << >>, Nil), NEW n \in M, NEW d \in Sides, NEW c, T.kid[n][d] = c,
         T.kid[n][Opp(d)] = Nil
  PROVE  Erased(T, M, n, UnlinkedOneKid(T, n, c))
<1> DEFINE u == UnlinkedOneKid(T, n, c)
           U == u.tree
           N == M \ {n}
           W == IF c = Nil THEN {n} ELSE {n, c}
           V == IF c = Nil THEN {} ELSE {c}
           p == T.parent[n]
<1>1. PICK h : Even(T, M, h, << >>)
  BY DEF Sound
<1>2. /\ T \in Tree /\ M \in SUBSET Nodes /\ Linked(T, M) /\ Nil \notin M
      /\ d \in Sides /\ Opp(d) \in Sides /\ Opp(d) # d /\ \A e \in Sides : e = d \/ e = Opp(d)
  BY SidesAre, NodesAssumption DEF Sound
<1>3. c \in Ptr /\ c # n /\ (c # Nil => c \in M /\ T.parent[c] = n)
  <2>1. c = Nil \/ (c \in M /\ T.parent[c] = n)
    BY <1>2, LinkedIs
  <2> QED
    BY <1>2, <2>1, LinkedIs DEF Ptr
<1>4. h \in [Ptr -> Nat] /\ h[Nil] = 0
  BY <1>1 DEF Even
<1>5. h[n] = Weight(T, n) /\ h[n] = h[c] + Weight(T, n) /\ h[c] \in Nat
  <2>1. EvenAt(T, h, << >>, n, d) /\ EvenAt(T, h, << >>, n, Opp(d))
    BY <1>1, <1>2, EvenAtIs
  <2>2. \A y, e : Debt(<< >>, y, e) = 0
    BY DEF Debt
  <2>3. Weight(T, n) \in Nat
    BY DEF Weight
  <2> QED
    BY <1>3, <1>4, <2>1, <2>2, <2>3 DEF EvenAt
<1>6. h[c] = 0
  <2>1. Weight(T, n) \in {0, 1}
    BY DEF Weight
  <2> QED
    BY <1>5, <2>1
<1>7. c # Nil => IsRed(T, c) /\ ~IsRed(T, n)
  <2>1. ASSUME c # Nil PROVE IsRed(T, c)
    <3>1. EvenAt(T, h, << >>, c, d)
      BY <1>1, <1>2, <1>3, <2>1, EvenAtIs
    <3>2. Weight(T, c) \in {0, 1} /\ Debt(<< >>, c, d) = 0
      BY DEF Weight, Debt
    <3> QED
      BY <1>6, <3>1, <3>2 DEF EvenAt
  <2>2. ASSUME c # Nil PROVE ~IsRed(T, n)
    BY <1>2, <1>3, <2>1, <2>2 DEF Sound, RedOnly
  <2> QED
    BY <2>1, <2>2
<1>8. c # Nil => p # c
  BY <1>1, <1>2, <1>3, <1>7, NoRound2
<1>9. Spliced(T, U, M, n, c)
  <2>1. c # Nil => c \in M
    BY <1>3
  <2> QED
    BY <1>2, <1>3, <2>1, OneKidIs
<1>10. u.rebalance = IF c = Nil /\ T.color[n] = "black" THEN p ELSE Nil
  BY DEF UnlinkedOneKid
<1> HIDE DEF u, U
<1>11. Linked(U, N)
  BY <1>2, <1>3, <1>8, <1>9, SplicedLinked
<1>12. Untouched(T, U, M)
  <2>1. \A x \in Nodes \ M : x # c
    BY <1>3, NodesAssumption
  <2>2. \A x \in Nodes : x # c => U.parent[x] = T.parent[x]
    BY <1>9 DEF Spliced
  <2> QED
    BY <2>1, <2>2 DEF Untouched
<1>13. Replaced(T, M, W, n, U, N, V, c)
  <2>1. W \in SUBSET M /\ n \in W /\ V \in SUBSET N /\ c \in V \cup {Nil} /\ M \ W = N \ V
    BY <1>2, <1>3
  <2>2. \A x \in M \ W, e \in Sides : U.kid[x][e] = IF T.kid[x][e] = n THEN c ELSE T.kid[x][e]
    BY <1>9 DEF Spliced
  <2>3. \A x \in M \ W : U.color[x] = T.color[x]
    BY <1>2, <1>9 DEF Spliced
  <2>4. \A x \in W : x # n => T.parent[x] \in W
    BY <1>3
  <2>5. U.root = IF T.parent[n] = Nil THEN c ELSE T.root
    BY <1>9 DEF Spliced
  <2> HIDE DEF W, V
  <2> QED
    BY <1>2, <1>9, <1>11, <2>1, <2>2, <2>3, <2>4, <2>5 DEF Spliced, Replaced
<1>14. RedOnly(U, N, Nil) /\ RootBlack(U, Nil)
  <2>1. RedWithin(T, n, Nil, U, V, c, Nil)
    <3>1. c # Nil => ~IsRed(U, c)
      BY <1>2, <1>3, <1>7, <1>9 DEF Spliced, IsRed
    <3>2. ~IsRed(U, c) /\ n # Nil
      BY <1>2, <3>1 DEF IsRed
    <3> QED
      BY <3>2 DEF RedWithin
  <2>2. RedOnly(T, M, Nil) /\ RootBlack(T, Nil)
    BY DEF Sound
  <2>3. Within(T, W, Nil)
    BY DEF Within
  <2> HIDE DEF W, V
  <2> QED
    BY <1>13, <2>1, <2>2, <2>3, ReplacedRed
<1>15. ASSUME NEW o2,
              NEW k \in [Ptr -> Nat], k[Nil] = 0, \A x \in M : x # c => k[x] = h[x],
              c # Nil => k[c] = h[n],
              \A x \in N, e \in Sides :
                IF T.kid[x][e] = n THEN k[c] + Debt(o2, x, e) = h[n] ELSE Debt(o2, x, e) = 0
       PROVE  Sound(U, N, o2, Nil)
  <2>1. Even(U, N, k, o2)
    <3>1. \A x \in M \ W : k[x] = h[x]
      BY <1>2, <1>15
    <3>2. \A x \in M \ W, e \in Sides :
            IF T.kid[x][e] = n THEN k[c] + Debt(o2, x, e) = h[n] + Debt(<< >>, x, e)
            ELSE Debt(o2, x, e) = Debt(<< >>, x, e)
      <4>1. \A x, e : Debt(<< >>, x, e) = 0
        BY DEF Debt
      <4>2. h[n] \in Nat
        BY <1>2, <1>4 DEF Ptr
      <4> QED
        BY <1>15, <4>1, <4>2
    <3>3. \A x \in V, e \in Sides : k[x] = k[U.kid[x][e]] + Weight(U, x) + Debt(o2, x, e)
      <4> TAKE x \in V, e \in Sides
      <4>1. x = c /\ c # Nil /\ c \in M /\ T.parent[c] = n
        BY <1>3
      <4> DEFINE y == T.kid[c][e]
      <4>2. y = Nil \/ (y \in M /\ T.parent[y] = c /\ y # c)
        BY <1>2, <4>1, LinkedIs
      <4>3. y # n
        BY <1>2, <1>8, <4>1, <4>2
      <4>4. U.kid[c][e] = y
        BY <1>9, <4>1, <4>3 DEF Spliced
      <4>5. EvenAt(T, h, << >>, c, e)
        BY <1>1, <1>2, <4>1, EvenAtIs
      <4>6. h[y] = 0
        <5>1. h[y] \in Nat /\ Weight(T, c) \in Nat /\ Debt(<< >>, c, e) = 0
          BY <4>5 DEF EvenAt, Weight, Debt
        <5> QED
          BY <1>6, <4>5, <5>1 DEF EvenAt
      <4>7. k[y] = 0
        BY <1>4, <1>15, <4>2, <4>6
      <4>8. Weight(U, c) = 1 /\ Weight(T, n) = 1
        BY <1>2, <1>3, <1>7, <1>9, <4>1 DEF Spliced, Weight, IsRed
      <4>9. Debt(o2, c, e) = 0
        BY <1>3, <1>15, <4>1, <4>3
      <4> HIDE DEF y
      <4> QED
        BY <1>5, <1>15, <4>1, <4>4, <4>7, <4>8, <4>9
    <3> HIDE DEF W, V
    <3> QED
      BY <1>1, <1>13, <1>15, <3>1, <3>2, <3>3, ReplacedEven
  <2> QED
    BY <1>2, <1>9, <1>11, <1>14, <2>1 DEF Spliced, Sound
<1>16. CASE c # Nil
  <2> DEFINE k == [h EXCEPT ![c] = h[n]]
  <2>1. h[n] \in Nat
    BY <1>2, <1>4 DEF Ptr
  <2>2. k \in [Ptr -> Nat] /\ k[c] = h[n] /\ \A y \in Ptr : y # c => k[y] = h[y]
    BY <1>3, <1>4, <2>1
  <2>3. k[Nil] = 0 /\ \A x \in M : x # c => k[x] = h[x]
    BY <1>2, <1>4, <1>16, <2>2 DEF Ptr
  <2> HIDE DEF k
  <2>4. \A x \in N, e \in Sides :
          IF T.kid[x][e] = n THEN k[c] + Debt(<< >>, x, e) = h[n] ELSE Debt(<< >>, x, e) = 0
    BY <2>1, <2>2 DEF Debt
  <2>5. Sound(U, N, << >>, Nil)
    BY <1>15, <2>2, <2>3, <2>4
  <2> QED
    BY <1>10, <1>12, <1>16, <2>5 DEF Erased, u, U
<1>17. CASE c = Nil /\ (IsRed(T, n) \/ p = Nil)
  <2>1. \A x \in N, e \in Sides :
          IF T.kid[x][e] = n THEN h[c] + Debt(<< >>, x, e) = h[n] ELSE Debt(<< >>, x, e) = 0
    <3> TAKE x \in N, e \in Sides
    <3>1. CASE T.kid[x][e] = n
      <4>1. p = x
        BY <1>2, <3>1, LinkedIs
      <4>2. h[n] = 0
        BY <1>2, <1>5, <1>17, <4>1 DEF Weight, IsRed
      <4> QED
        BY <1>6, <3>1, <4>2 DEF Debt
    <3>2. CASE T.kid[x][e] # n
      BY <3>2 DEF Debt
    <3> QED
      BY <3>1, <3>2
  <2>2. Sound(U, N, << >>, Nil)
    BY <1>4, <1>15, <1>17, <2>1
  <2>3. u.rebalance = Nil
    BY <1>2, <1>10, <1>17 DEF IsRed
  <2> QED
    BY <1>12, <2>2, <2>3 DEF Erased, u, U
<1>18. CASE c = Nil /\ ~IsRed(T, n) /\ p # Nil
  <2>1. p \in M /\ p # n
    BY <1>2, <1>18, LinkedIs
  <2>2. PICK e \in Sides : T.kid[p][e] = n
    BY <1>2, <1>18, LinkedIs
  <2>3. h[n] = 1
    BY <1>2, <1>5, <1>18 DEF Weight, IsRed
  <2>4. \A x \in N, b \in Sides :
          IF T.kid[x][b] = n THEN h[c] + Debt(<< p, e >>, x, b) = h[n] ELSE Debt(<< p, e >>, x, b) = 0
    <3> TAKE x \in N, b \in Sides
    <3>1. CASE T.kid[x][b] = n
      <4>1. x = p
        BY <1>2, <3>1, LinkedIs
      <4>2. b = e
        BY <1>2, <2>1, <2>2, <3>1, <4>1, LinkedIs
      <4> QED
        BY <1>6, <2>3, <3>1, <4>1, <4>2 DEF Debt
    <3>2. CASE T.kid[x][b] # n
      BY <2>2, <3>2 DEF Debt
    <3> QED
      BY <3>1, <3>2
  <2>5. Sound(U, N, << p, e >>, Nil)
    BY <1>4, <1>15, <1>18, <2>4
  <2>6. u.rebalance = p
    <3>1. T.color[n] \in {"red", "black"}
      BY <1>2 DEF Tree, Colors
    <3> QED
      BY <1>2, <1>10, <1>18, <3>1 DEF IsRed
  <2>7. U.kid[p][e] = Nil
    BY <1>9, <1>18, <2>1, <2>2 DEF Spliced
  <2> HIDE DEF p
  <2> QED
    BY <1>12, <1>18, <2>1, <2>5, <2>6, <2>7 DEF Erased, Short, u, U
<1> QED
  BY <1>16, <1>17, <1>18

-----------------------------------------------------------------------------
(* Walking down *)

\* Lower for every kid, also when z is red under red.
Rank(T, h, z) == [x \in Ptr |-> 3 * h[x] + (IF ~IsRed(T, x) THEN 0 ELSE IF x = z THEN 1 ELSE 2)]

LEMMA RankDown ==
  ASSUME NEW T \in Tree, NEW M \in SUBSET Nodes, Linked(T, M), NEW h, NEW o, Even(T, M, h, o),
         NEW z, RedOnly(T, M, z), NEW x \in M, NEW e \in Sides, T.kid[x][e] # Nil
  PROVE  /\ Rank(T, h, z)[x] \in Nat /\ Rank(T, h, z)[T.kid[x][e]] \in Nat
         /\ Rank(T, h, z)[T.kid[x][e]] < Rank(T, h, z)[x]
<1> DEFINE y == T.kid[x][e]
<1>1. y \in M /\ T.parent[y] = x /\ y \in Ptr /\ x \in Ptr /\ x # Nil /\ y # x
  BY LinkedIs, NodesAssumption DEF Ptr, Linked
<1>2. IsRed(T, x) /\ IsRed(T, y) => y = z /\ x # z
  BY <1>1 DEF RedOnly
<1>3. EvenAt(T, h, o, x, e)
  BY EvenAtIs
<1>4. Debt(o, x, e) \in Nat
  BY DEF Debt
<1>5. h[x] \in Nat /\ h[y] \in Nat /\ h[x] >= h[y] + Weight(T, x)
  BY <1>3, <1>4 DEF EvenAt, Weight
<1> HIDE DEF y
<1>6. /\ Rank(T, h, z)[x] = 3 * h[x] + (IF ~IsRed(T, x) THEN 0 ELSE IF x = z THEN 1 ELSE 2)
      /\ Rank(T, h, z)[y] = 3 * h[y] + (IF ~IsRed(T, y) THEN 0 ELSE IF y = z THEN 1 ELSE 2)
  BY <1>1 DEF Rank
<1>7. CASE IsRed(T, x)
  BY <1>2, <1>3, <1>5, <1>6, <1>7 DEF EvenAt, y
<1>8. CASE ~IsRed(T, x)
  <2>1. Weight(T, x) = 1
    BY <1>3, <1>8 DEF EvenAt
  <2> QED
    BY <1>5, <1>6, <1>8, <2>1 DEF y
<1> QED
  BY <1>7, <1>8

LEMMA Lowest ==
  ASSUME NEW B, B # {}, NEW r, \A x \in B : r[x] \in Nat
  PROVE  \E x \in B : \A y \in B : ~(r[y] < r[x])
<1> DEFINE R == OpToRel(<, Nat)
           S == {r[x] : x \in B}
<1>1. PICK z \in S : \A y \in S : ~(<< y, z >> \in R)
  <2>1. S \subseteq Nat /\ S # {}
    OBVIOUS
  <2>2. IsWellFoundedOn(R, Nat)
    BY NatLessThanWellFounded
  <2> HIDE DEF S, R
  <2> QED
    BY <2>1, <2>2, WFMin
<1>2. \A y \in S : ~(y < z)
  BY <1>1 DEF OpToRel
<1> QED
  BY <1>2

\* A set of nodes has one that has no child in it.
LEMMA NoKidIn ==
  ASSUME NEW T \in Tree, NEW M \in SUBSET Nodes, Linked(T, M), NEW h, NEW o, Even(T, M, h, o),
         NEW z, RedOnly(T, M, z), NEW B \in SUBSET M, B # {}
  PROVE  \E x \in B : \A e \in Sides : T.kid[x][e] \notin B
<1> DEFINE r == Rank(T, h, z)
<1>1. \A x \in B : r[x] \in Nat
  <2> TAKE x \in B
  <2>1. x \in Ptr /\ h \in [Ptr -> Nat]
    BY DEF Ptr, Even
  <2> QED
    BY <2>1 DEF Rank
<1>2. PICK x \in B : \A y \in B : ~(r[y] < r[x])
  <2> HIDE DEF r
  <2> QED
    BY <1>1, Lowest
<1>3. ASSUME NEW e \in Sides, T.kid[x][e] \in B PROVE FALSE
  <2>1. T.kid[x][e] # Nil
    BY <1>3, NodesAssumption
  <2> QED
    BY <1>2, <1>3, <2>1, RankDown
<1> QED
  BY <1>3

\* A walk along left ends at a node without, or is anything; the recursive function
\* of it exists in any case.
LEMMA WalkIs ==
  ASSUME NEW left \in [Nodes -> Ptr]
  PROVE  \E f : f = [x \in Nodes |-> IF left[x] = Nil THEN x ELSE f[left[x]]]
<1> DEFINE Closed(S) == \A x \in S : left[x] # Nil => left[x] \in S
           Reach(x) == {y \in Nodes : \A S \in SUBSET Nodes : x \in S /\ Closed(S) => y \in S}
           End(x) == {y \in Reach(x) : left[y] = Nil}
           f == [x \in Nodes |-> CHOOSE y : y \in End(x)]
<1>1. \A x \in Nodes : left[x] = Nil \/ left[x] \in Nodes
  BY DEF Ptr
<1>2. ASSUME NEW x \in Nodes, left[x] = Nil PROVE End(x) = {x}
  <2>1. {x} \in SUBSET Nodes /\ x \in {x} /\ Closed({x})
    BY <1>2
  <2>2. \A y \in Reach(x) : y = x
    BY <2>1
  <2>3. x \in Reach(x)
    OBVIOUS
  <2> QED
    BY <1>2, <2>2, <2>3
<1>3. ASSUME NEW x \in Nodes, left[x] # Nil PROVE End(x) = End(left[x])
  <2>1. left[x] \in Nodes
    BY <1>1, <1>3
  <2>2. ASSUME NEW y \in End(left[x]) PROVE y \in End(x)
    <3>1. ASSUME NEW S \in SUBSET Nodes, x \in S, Closed(S) PROVE y \in S
      <4>1. left[x] \in S
        BY <1>3, <3>1
      <4> QED
        BY <3>1, <4>1
    <3> QED
      BY <3>1
  <2>3. ASSUME NEW y \in End(x) PROVE y \in End(left[x])
    <3>1. ASSUME NEW S \in SUBSET Nodes, left[x] \in S, Closed(S) PROVE y \in S
      <4> DEFINE Q == S \cup {x}
      <4>1. Q \in SUBSET Nodes /\ x \in Q /\ Closed(Q)
        BY <3>1
      <4>2. y \in Q
        BY <4>1
      <4>3. y # x
        BY <1>3
      <4> QED
        BY <4>2, <4>3
    <3> QED
      BY <3>1
  <2> QED
    BY <2>2, <2>3
<1> HIDE DEF End
<1>4. f = [x \in Nodes |-> IF left[x] = Nil THEN x ELSE f[left[x]]]
  <2>1. ASSUME NEW x \in Nodes PROVE f[x] = IF left[x] = Nil THEN x ELSE f[left[x]]
    <3>1. CASE left[x] = Nil
      BY <1>2, <3>1
    <3>2. CASE left[x] # Nil
      BY <1>1, <1>3, <3>2
    <3> QED
      BY <3>1, <3>2
  <2> QED
    BY <2>1
<1> QED
  BY <1>4

\* The two walks of rb_next(), on any tree.
LEMMA LeftmostIs ==
  ASSUME NEW T \in Tree, NEW m \in Nodes
  PROVE  Leftmost(T, m) = IF T.kid[m]["l"] = Nil THEN m ELSE Leftmost(T, T.kid[m]["l"])
<1> DEFINE left == [x \in Nodes |-> T.kid[x]["l"]]
           D(g) == [x \in Nodes |-> IF T.kid[x]["l"] = Nil THEN x ELSE g[T.kid[x]["l"]]]
           down == CHOOSE g : g = D(g)
<1>1. left \in [Nodes -> Ptr]
  BY DEF Tree, Sides
<1>2. PICK f : f = [x \in Nodes |-> IF left[x] = Nil THEN x ELSE f[left[x]]]
  BY <1>1, WalkIs
<1>3. f = D(f)
  BY <1>2
<1>4. down = D(down)
  BY <1>3
<1>5. \A x : Leftmost(T, x) = down[x]
  BY DEF Leftmost
<1> HIDE DEF down
<1>6. down[m] = IF T.kid[m]["l"] = Nil THEN m ELSE down[T.kid[m]["l"]]
  BY <1>4
<1> QED
  BY <1>5, <1>6

LEMMA ClimbRightIs ==
  ASSUME NEW T \in Tree, NEW m \in Nodes
  PROVE  ClimbRight(T, m) = LET p == T.parent[m]
                            IN  IF p # Nil /\ m = T.kid[p]["r"] THEN ClimbRight(T, p) ELSE p
<1> DEFINE Right(x) == T.parent[x] # Nil /\ x = T.kid[T.parent[x]]["r"]
           left == [x \in Nodes |-> IF Right(x) THEN T.parent[x] ELSE Nil]
           D(g) == [x \in Nodes |-> LET p == T.parent[x]
                                    IN  IF p # Nil /\ x = T.kid[p]["r"] THEN g[p] ELSE p]
           up == CHOOSE g : g = D(g)
<1>1. left \in [Nodes -> Ptr] /\ \A x \in Nodes : T.parent[x] \in Ptr
  BY DEF Tree, Ptr
<1>2. PICK f : f = [x \in Nodes |-> IF left[x] = Nil THEN x ELSE f[left[x]]]
  <2> HIDE DEF left
  <2> QED
    BY <1>1, WalkIs
<1> DEFINE h == [x \in Nodes |-> T.parent[f[x]]]
<1>3. ASSUME NEW x \in Nodes PROVE h[x] = IF Right(x) THEN h[T.parent[x]] ELSE T.parent[x]
  <2>1. f[x] = IF left[x] = Nil THEN x ELSE f[left[x]]
    BY <1>2, Zenon
  <2>2. CASE Right(x)
    <3>1. T.parent[x] \in Nodes /\ T.parent[x] # Nil
      BY <1>1, <2>2 DEF Ptr
    <3>2. left[x] = T.parent[x]
      BY <2>2
    <3>3. f[x] = f[T.parent[x]]
      BY <2>1, <3>1, <3>2
    <3> HIDE DEF left
    <3> QED
      BY <2>2, <3>1, <3>3
  <2>3. CASE ~Right(x)
    <3>1. left[x] = Nil
      BY <2>3
    <3> QED
      BY <2>1, <2>3, <3>1
  <2> QED
    BY <2>2, <2>3
<1>4. h = D(h)
  BY <1>3
<1> HIDE DEF h
<1>5. up = D(up)
  BY <1>4
<1>6. \A x : ClimbRight(T, x) = up[x]
  BY DEF ClimbRight
<1> HIDE DEF up
<1>7. up[m] = LET p == T.parent[m] IN IF p # Nil /\ m = T.kid[p]["r"] THEN up[p] ELSE p
  BY <1>5
<1> QED
  BY <1>6, <1>7

-----------------------------------------------------------------------------
(* One node takes the place of another *)

Sub(y, n, s) == IF y = n THEN s ELSE y

\* s, which is not in the tree, stands for n.
Renamed(T, U, K, n, s) ==
  /\ U \in Tree /\ U.root = Sub(T.root, n, s)
  /\ \A x \in K, e \in Sides : U.kid[Sub(x, n, s)][e] = Sub(T.kid[x][e], n, s)
  /\ \A x \in K : U.parent[Sub(x, n, s)] = Sub(T.parent[x], n, s)
  /\ \A x \in K : U.color[Sub(x, n, s)] = T.color[x]

Substitution(K, n, s) ==
  /\ \A x \in K : Sub(x, n, s) \in (K \ {n}) \cup {s}
  /\ \A y \in (K \ {n}) \cup {s} : \E x \in K : y = Sub(x, n, s)
  /\ \A x \in K \cup {Nil}, y \in K \cup {Nil} : Sub(x, n, s) = Sub(y, n, s) => x = y
  /\ Sub(Nil, n, s) = Nil
  /\ \A x \in K \cup {Nil} : Sub(x, n, s) = Nil => x = Nil

LEMMA SubIs ==
  ASSUME NEW K \in SUBSET Nodes, NEW n \in K, NEW s \in Nodes \ K
  PROVE  Substitution(K, n, s)
<1>1. n # Nil /\ s # Nil /\ Nil \notin K
  BY NodesAssumption
<1>2. ASSUME NEW y \in (K \ {n}) \cup {s} PROVE \E x \in K : y = Sub(x, n, s)
  <2>1. CASE y = s
    BY <2>1 DEF Sub
  <2>2. CASE y # s
    <3>1. y \in K /\ y = Sub(y, n, s)
      BY <1>2, <2>2 DEF Sub
    <3> QED
      BY <3>1
  <2> QED
    BY <2>1, <2>2
<1> QED
  BY <1>1, <1>2 DEF Sub, Substitution

LEMMA RenamedLinked ==
  ASSUME NEW T \in Tree, NEW K \in SUBSET Nodes, Linked(T, K), NEW n \in K, NEW s \in Nodes \ K,
         NEW U, Renamed(T, U, K, n, s)
  PROVE  Linked(U, (K \ {n}) \cup {s})
<1> DEFINE N == (K \ {n}) \cup {s}
           S(x) == Sub(x, n, s)
<1>1. /\ \A x \in K : S(x) \in N
      /\ \A y \in N : \E x \in K : y = S(x)
      /\ \A x \in K \cup {Nil}, y \in K \cup {Nil} : S(x) = S(y) => x = y
      /\ S(Nil) = Nil
      /\ \A x \in K \cup {Nil} : S(x) = Nil => x = Nil
  <2>1. Substitution(K, n, s)
    BY SubIs
  <2> QED
    BY <2>1 DEF Substitution
<1>2. /\ U \in Tree /\ U.root = S(T.root)
      /\ \A x \in K, e \in Sides : U.kid[S(x)][e] = S(T.kid[x][e])
      /\ \A x \in K : U.parent[S(x)] = S(T.parent[x])
  BY DEF Renamed
<1>3. N \in SUBSET Nodes /\ Nil \notin K
  BY NodesAssumption
<1>4. \A e \in Sides : Opp(e) \in Sides /\ e # Opp(e)
  BY SidesAre
<1>5. \A x \in K, e \in Sides : T.kid[x][e] \in K \cup {Nil}
  BY LinkedIs
<1>6. \A x \in K : T.parent[x] \in K \cup {Nil}
  BY LinkedIs
<1>7. T.root \in K \cup {Nil} /\ (T.root # Nil => T.parent[T.root] = Nil)
  BY DEF Linked
<1> HIDE DEF N, S
<1>8. ASSUME NEW y \in N, NEW e \in Sides, U.kid[y][e] # Nil
      PROVE  /\ U.kid[y][e] \in N /\ U.parent[U.kid[y][e]] = y
             /\ U.kid[y][e] # U.kid[y][Opp(e)]
  <2>1. PICK x \in K : y = S(x)
    BY <1>1
  <2>2. U.kid[y][e] = S(T.kid[x][e]) /\ U.kid[y][Opp(e)] = S(T.kid[x][Opp(e)])
    BY <1>2, <1>4, <2>1
  <2>3. T.kid[x][e] # Nil
    BY <1>1, <1>8, <2>2
  <2>4. T.kid[x][e] \in K /\ T.parent[T.kid[x][e]] = x
    BY <2>3, LinkedIs
  <2>5. T.kid[x][e] # T.kid[x][Opp(e)]
    BY <1>4, <2>3, LinkedIs
  <2>6. U.kid[y][e] # U.kid[y][Opp(e)]
    BY <1>1, <1>4, <1>5, <2>2, <2>5
  <2> QED
    BY <1>1, <1>2, <2>1, <2>2, <2>4, <2>6
<1>9. ASSUME NEW y \in N
      PROVE  /\ IF U.parent[y] = Nil THEN U.root = y
                ELSE U.parent[y] \in N /\ \E e \in Sides : U.kid[U.parent[y]][e] = y
             /\ U.parent[y] # y
  <2>1. PICK x \in K : y = S(x)
    BY <1>1
  <2>2. U.parent[y] = S(T.parent[x])
    BY <1>2, <2>1
  <2>3. U.parent[y] # y
    <3>1. T.parent[x] # x
      BY LinkedIs
    <3> QED
      BY <1>1, <1>6, <2>1, <2>2, <3>1
  <2>4. CASE T.parent[x] = Nil
    <3>1. T.root = x
      BY <2>4, LinkedIs
    <3> QED
      BY <1>1, <1>2, <2>1, <2>2, <2>3, <2>4, <3>1
  <2>5. CASE T.parent[x] # Nil
    <3>1. T.parent[x] \in K
      BY <2>5, LinkedIs
    <3>2. PICK e \in Sides : T.kid[T.parent[x]][e] = x
      BY <2>5, LinkedIs
    <3>3. U.parent[y] \in N /\ U.parent[y] # Nil
      BY <1>1, <2>2, <2>5, <3>1
    <3>4. U.kid[U.parent[y]][e] = y
      BY <1>2, <2>1, <2>2, <3>1, <3>2
    <3> QED
      BY <2>3, <3>3, <3>4
  <2> QED
    BY <2>4, <2>5
<1>10. U.root # Nil => U.root \in N /\ U.parent[U.root] = Nil
  BY <1>1, <1>2, <1>7
<1>11. Linked(U, N)
  BY <1>2, <1>3, <1>8, <1>9, <1>10, IsLinked
<1> QED
  BY <1>11 DEF N

LEMMA RenamedSound ==
  ASSUME NEW T, NEW K, NEW o, Sound(T, K, o, Nil), NEW n \in K, NEW s \in Nodes \ K,
         NEW U, Renamed(T, U, K, n, s),
         NEW o2, \A x \in K, e \in Sides : Debt(o2, Sub(x, n, s), e) = Debt(o, x, e)
  PROVE  Sound(U, (K \ {n}) \cup {s}, o2, Nil)
<1> DEFINE N == (K \ {n}) \cup {s}
           S(x) == Sub(x, n, s)
<1>0. /\ T \in Tree /\ K \in SUBSET Nodes /\ Linked(T, K) /\ RedOnly(T, K, Nil) /\ RootBlack(T, Nil)
      /\ Nil \notin K /\ N \in SUBSET Nodes
  BY NodesAssumption DEF Sound
<1>1. /\ \A x \in K : S(x) \in N
      /\ \A y \in N : \E x \in K : y = S(x)
      /\ \A x \in K \cup {Nil}, y \in K \cup {Nil} : S(x) = S(y) => x = y
      /\ S(Nil) = Nil
      /\ \A x \in K \cup {Nil} : S(x) = Nil => x = Nil
  <2>1. Substitution(K, n, s)
    BY <1>0, SubIs
  <2> QED
    BY <2>1 DEF Substitution
<1>2. /\ U \in Tree /\ U.root = S(T.root)
      /\ \A x \in K, e \in Sides : U.kid[S(x)][e] = S(T.kid[x][e])
      /\ \A x \in K : U.parent[S(x)] = S(T.parent[x])
      /\ \A x \in K : U.color[S(x)] = T.color[x]
  BY DEF Renamed
<1>3. Linked(U, N)
  BY <1>0, RenamedLinked
<1>4. \A x \in K, e \in Sides : T.kid[x][e] \in K \cup {Nil}
  BY <1>0, LinkedIs
<1>5. \A x \in K : T.parent[x] \in K \cup {Nil}
  BY <1>0, LinkedIs
<1>6. T.root \in K \cup {Nil}
  BY <1>0 DEF Linked
<1>7. PICK h : Even(T, K, h, o)
  BY DEF Sound
<1>8. h \in [Ptr -> Nat] /\ h[Nil] = 0
  BY <1>7 DEF Even
<1> DEFINE k == [y \in Ptr |-> IF y = s THEN h[n] ELSE h[y]]
<1>9. k \in [Ptr -> Nat] /\ k[Nil] = 0
  BY <1>0, <1>8, NodesAssumption DEF Ptr
<1>10. \A x \in K \cup {Nil} : k[S(x)] = h[x]
  <2>1. \A x \in K \cup {Nil} : x \in Ptr /\ x # s
    BY <1>0, NodesAssumption DEF Ptr
  <2>2. s \in Ptr
    BY DEF Ptr
  <2> QED
    BY <2>1, <2>2 DEF Sub
<1>11. \A x \in K, e \in Sides : Debt(o2, S(x), e) = Debt(o, x, e)
  OBVIOUS
<1> HIDE DEF N, S, k
<1>12. Even(U, N, k, o2)
  <2>1. ASSUME NEW y \in N, NEW e \in Sides
        PROVE  k[y] = k[U.kid[y][e]] + Weight(U, y) + Debt(o2, y, e)
    <3>1. PICK x \in K : y = S(x)
      BY <1>1
    <3>2. h[x] = h[T.kid[x][e]] + Weight(T, x) + Debt(o, x, e)
      BY <1>7 DEF Even
    <3>3. k[y] = h[x] /\ k[U.kid[y][e]] = h[T.kid[x][e]]
      BY <1>2, <1>4, <1>10, <3>1
    <3>4. Weight(U, y) = Weight(T, x)
      BY <1>2, <3>1 DEF Weight
    <3> QED
      BY <1>11, <3>1, <3>2, <3>3, <3>4
  <2> QED
    BY <1>9, <2>1 DEF Even
<1>13. \A x \in K \cup {Nil} : IsRed(U, S(x)) <=> IsRed(T, x)
  BY <1>0, <1>1, <1>2 DEF IsRed
<1>14. RedOnly(U, N, Nil)
  <2>1. ASSUME NEW y \in N, IsRed(U, y), IsRed(U, U.parent[y]) PROVE y = Nil
    <3>1. PICK x \in K : y = S(x)
      BY <1>1
    <3>2. IsRed(T, x) /\ IsRed(T, T.parent[x])
      BY <1>2, <1>5, <1>13, <2>1, <3>1
    <3>3. x = Nil
      BY <1>0, <3>2 DEF RedOnly
    <3> QED
      BY <1>0, <3>3
  <2> QED
    BY <2>1 DEF RedOnly
<1>15. RootBlack(U, Nil)
  BY <1>0, <1>1, <1>2, <1>6, <1>13 DEF RootBlack
<1>16. N \in SUBSET Nodes
  BY <1>0 DEF N
<1>17. Sound(U, N, o2, Nil)
  BY <1>2, <1>3, <1>12, <1>14, <1>15, <1>16 DEF Sound
<1> QED
  BY <1>17 DEF N

-----------------------------------------------------------------------------
(* The successor *)

\* s is where the walk to the left ends that starts at m, below n.
WalkEnds(T, M, r, n, m, s) ==
  /\ s \in M /\ T.kid[s]["l"] = Nil /\ s # n /\ s # T.kid[n]["l"] /\ r[s] < r[n]
  /\ \/ s = m
     \/ /\ T.parent[s] \in M /\ T.parent[s] # n /\ r[T.parent[s]] < r[n]
        /\ T.kid[T.parent[s]]["l"] = s

LEMMA WalkEndsIs ==
  ASSUME NEW T \in Tree, NEW M \in SUBSET Nodes, Linked(T, M), NEW h, NEW o, Even(T, M, h, o),
         RedOnly(T, M, Nil), NEW n \in M, T.kid[n]["l"] # Nil,
         NEW m \in M, m # n, m # T.kid[n]["l"], Rank(T, h, Nil)[m] < Rank(T, h, Nil)[n]
  PROVE  WalkEnds(T, M, Rank(T, h, Nil), n, m, Leftmost(T, m))
<1> DEFINE r == Rank(T, h, Nil)
           P(x) == WalkEnds(T, M, r, n, x, Leftmost(T, x))
           G == {x \in M : x # n /\ x # T.kid[n]["l"] /\ r[x] < r[n]}
           B == {x \in G : ~P(x)}
<1>0. Nil \notin M /\ "l" \in Sides /\ T.kid[n]["l"] \in M /\ T.parent[T.kid[n]["l"]] = n
  BY LinkedIs, NodesAssumption DEF Sides
<1>1. \A x \in M : r[x] \in Nat
  <2> TAKE x \in M
  <2>1. x \in Ptr /\ h \in [Ptr -> Nat]
    BY DEF Ptr, Even
  <2> QED
    BY <2>1 DEF Rank
<1>2. ASSUME B # {} PROVE FALSE
  <2>1. PICK x \in B : \A e \in Sides : T.kid[x][e] \notin B
    <3>1. B \in SUBSET M
      OBVIOUS
    <3> HIDE DEF B
    <3> QED
      BY <1>2, <3>1, NoKidIn
  <2>2. x \in M /\ x # n /\ x # T.kid[n]["l"] /\ r[x] < r[n] /\ ~P(x)
    BY <2>1
  <2>3. Leftmost(T, x) = IF T.kid[x]["l"] = Nil THEN x ELSE Leftmost(T, T.kid[x]["l"])
    BY <2>2, LeftmostIs
  <2>4. CASE T.kid[x]["l"] = Nil
    BY <2>2, <2>3, <2>4 DEF WalkEnds
  <2>5. CASE T.kid[x]["l"] # Nil
    <3> DEFINE y == T.kid[x]["l"]
    <3>1. y \in M /\ T.parent[y] = x
      BY <1>0, <2>2, <2>5, LinkedIs
    <3>2. r[y] < r[x]
      BY <1>0, <2>2, <2>5, RankDown
    <3>3. r[y] < r[n] /\ y # n /\ y # T.kid[n]["l"]
      <4>1. r[y] \in Nat /\ r[x] \in Nat /\ r[n] \in Nat
        BY <1>1, <2>2, <3>1
      <4> HIDE DEF r
      <4> QED
        BY <1>0, <2>2, <3>1, <3>2, <4>1
    <3>4. P(y)
      <4>1. y \notin B
        BY <1>0, <2>1
      <4> HIDE DEF P, y
      <4> QED
        BY <3>1, <3>3, <4>1
    <3>5. Leftmost(T, x) = Leftmost(T, y)
      BY <2>3, <2>5
    <3> HIDE DEF r
    <3>6. P(x)
      BY <2>2, <3>1, <3>4, <3>5 DEF WalkEnds
    <3> QED
      BY <2>2, <3>6
  <2> QED
    BY <2>4, <2>5
<1>3. m \in G
  OBVIOUS
<1> HIDE DEF P
<1> QED
  BY <1>2, <1>3 DEF P

\* The successor s of n, and its parent q, when n has two kids.
Follows(T, M, n, s) ==
  /\ s \in M /\ T.kid[s]["l"] = Nil /\ s # n /\ s # T.kid[n]["l"] /\ T.parent[n] # s
  /\ \/ s = T.kid[n]["r"]
     \/ /\ s # T.kid[n]["r"] /\ T.parent[s] \in M /\ T.parent[s] # n
        /\ T.parent[n] # T.parent[s] /\ T.kid[T.parent[s]]["l"] = s

LEMMA FollowsIs ==
  ASSUME NEW T, NEW M, NEW o, Sound(T, M, o, Nil), NEW n \in M,
         T.kid[n]["l"] # Nil, T.kid[n]["r"] # Nil
  PROVE  Follows(T, M, n, Leftmost(T, T.kid[n]["r"]))
<1> DEFINE m == T.kid[n]["r"]
           s == Leftmost(T, m)
<1>1. PICK h : Even(T, M, h, o)
  BY DEF Sound
<1>2. T \in Tree /\ M \in SUBSET Nodes /\ Linked(T, M) /\ RedOnly(T, M, Nil) /\ Nil \notin M
      /\ "l" \in Sides /\ "r" \in Sides
  BY NodesAssumption DEF Sound, Sides
<1> DEFINE r == Rank(T, h, Nil)
<1>3. m \in M /\ m # n /\ m # T.kid[n]["l"]
  <2>1. m \in M /\ T.parent[m] = n
    BY <1>2, LinkedIs
  <2>2. m # T.kid[n]["l"]
    BY <1>2, LinkedIs
  <2> QED
    BY <1>2, <2>1, <2>2, LinkedIs
<1>4. r[m] < r[n]
  BY <1>1, <1>2, RankDown
<1>5. WalkEnds(T, M, r, n, m, s)
  BY <1>1, <1>2, <1>3, <1>4, WalkEndsIs
<1>6. \A x \in M : r[x] < r[n] => T.parent[n] # x
  <2> SUFFICES ASSUME NEW x \in M, r[x] < r[n], T.parent[n] = x PROVE FALSE
    OBVIOUS
  <2>1. PICK e \in Sides : T.kid[x][e] = n
    BY <1>2, LinkedIs
  <2>2. r[x] \in Nat /\ r[n] \in Nat /\ r[n] < r[x]
    BY <1>1, <1>2, <2>1, RankDown
  <2> HIDE DEF r
  <2> QED
    BY <2>2
<1> HIDE DEF r, s
<1>7. s \in M /\ r[s] < r[n] /\ T.kid[s]["l"] = Nil /\ s # n /\ s # T.kid[n]["l"]
  BY <1>5 DEF WalkEnds
<1>8. T.parent[n] # s
  BY <1>6, <1>7
<1>9. s = m \/ (T.parent[s] \in M /\ T.parent[s] # n /\ T.parent[n] # T.parent[s]
                /\ T.kid[T.parent[s]]["l"] = s)
  BY <1>5, <1>6 DEF WalkEnds
<1>10. Follows(T, M, n, s)
  BY <1>7, <1>8, <1>9 DEF Follows
<1> QED
  BY <1>10 DEF s

-----------------------------------------------------------------------------
(* Taking out a node with two kids *)

\* B is the tree when the successor s of n, with right kid c, has left its parent
\* and has the kids of n, but not yet its place and color.
Lifted(T, B, s, c, p, right) ==
  /\ B \in Tree /\ B.root = T.root /\ B.color = T.color
  /\ \A x \in Nodes, e \in Sides :
       B.kid[x][e] = IF s # right /\ x = s /\ e = "r" THEN right
                     ELSE IF s # right /\ x = p /\ e = "l" THEN c ELSE T.kid[x][e]
  /\ \A x \in Nodes : B.parent[x] = IF s # right /\ x = right THEN s ELSE T.parent[x]

LEMMA LiftedIs ==
  ASSUME NEW T \in Tree, NEW s \in Nodes, NEW c \in Ptr, NEW p \in Nodes,
         NEW right \in Nodes
  PROVE  Lifted(T, IF s = right THEN T
                   ELSE SetParent(SetKid(SetKid(T, p, "l", c), s, "r", right), right, s), s, c, p, right)
<1> DEFINE t1 == SetKid(T, p, "l", c)
           t2 == SetKid(t1, s, "r", right)
           t3 == SetParent(t2, right, s)
<1>1. CASE s = right
  BY <1>1 DEF Lifted
<1>2. CASE s # right
  <2>1. "l" \in Sides /\ "r" \in Sides /\ "l" # "r" /\ s \in Ptr /\ right \in Ptr
    BY DEF Sides, Ptr
  <2>2. KidSet(T, t1, p, "l", c)
    BY <2>1, SetKidIs
  <2> HIDE DEF t1
  <2>3. KidSet(t1, t2, s, "r", right)
    <3>1. t1 \in Tree
      BY <2>2 DEF KidSet
    <3> QED
      BY <2>1, <3>1, SetKidIs
  <2> HIDE DEF t2
  <2>4. ParentSet(t2, t3, right, s)
    <3>1. t2 \in Tree
      BY <2>3 DEF KidSet
    <3> QED
      BY <2>1, <3>1, SetParentIs
  <2> HIDE DEF t3
  <2>5. t3.root = T.root /\ t3.color = T.color /\ t3 \in Tree
    BY <2>2, <2>3, <2>4 DEF KidSet, ParentSet
  <2>6. \A x \in Nodes, e \in Sides :
          t3.kid[x][e] = IF x = s /\ e = "r" THEN right ELSE IF x = p /\ e = "l" THEN c ELSE T.kid[x][e]
    BY <2>2, <2>3, <2>4 DEF KidSet, ParentSet
  <2>7. \A x \in Nodes : t3.parent[x] = IF x = right THEN s ELSE T.parent[x]
    BY <2>2, <2>3, <2>4 DEF KidSet, ParentSet
  <2>8. Lifted(T, t3, s, c, p, right)
    BY <1>2, <2>5, <2>6, <2>7 DEF Lifted
  <2> QED
    BY <1>2, <2>8 DEF t1, t2, t3
<1> QED
  BY <1>1, <1>2

\* Then s takes the kid l, the parent g and the color of n, and c the parent p.
Seated(T, B, U, n, s, c, p, l, g) ==
  /\ U \in Tree /\ U.root = IF g = Nil THEN s ELSE B.root
  /\ \A x \in Nodes, e \in Sides :
       U.kid[x][e] = IF x = g /\ e = (IF (IF g = s THEN l ELSE B.kid[g]["l"]) = n THEN "l" ELSE "r") THEN s
                     ELSE IF x = s /\ e = "l" THEN l ELSE B.kid[x][e]
  /\ \A x \in Nodes : U.parent[x] = IF x = c THEN p ELSE IF x = s THEN g ELSE IF x = l THEN s
                                    ELSE B.parent[x]
  /\ \A x \in Nodes : U.color[x] = IF x = c THEN "black" ELSE IF x = s THEN T.color[n] ELSE B.color[x]

LEMMA SeatedIs ==
  ASSUME NEW T \in Tree, NEW B \in Tree, NEW n \in Nodes, NEW s \in Nodes, NEW c \in Ptr,
         NEW p \in Nodes, NEW l \in Nodes, NEW g \in Ptr
  PROVE  LET t2 == SetParent(SetKid(B, s, "l", l), l, s)
             t3 == ChangeChild(t2, n, s, g)
             t4 == SetParentColor(t3, s, g, T.color[n])
         IN  Seated(T, B, MayParentColor(t4, c, p, "black"), n, s, c, p, l, g)
<1> DEFINE t1 == SetKid(B, s, "l", l)
           t2 == SetParent(t1, l, s)
           t3 == ChangeChild(t2, n, s, g)
           t4 == SetParentColor(t3, s, g, T.color[n])
           U == MayParentColor(t4, c, p, "black")
<1>1. "l" \in Sides /\ s \in Ptr /\ l \in Ptr /\ p \in Ptr /\ T.color[n] \in Colors /\ "black" \in Colors
  BY DEF Sides, Ptr, Tree, Colors
<1>2. KidSet(B, t1, s, "l", l)
  BY <1>1, SetKidIs
<1> HIDE DEF t1
<1>3. ParentSet(t1, t2, l, s)
  <2>1. t1 \in Tree
    BY <1>2 DEF KidSet
  <2> QED
    BY <1>1, <2>1, SetParentIs
<1> HIDE DEF t2
<1>4. ChildSet(t2, t3, n, s, g)
  <2>1. t2 \in Tree
    BY <1>3 DEF ParentSet
  <2> QED
    BY <1>1, <2>1, ChangeChildIs
<1> HIDE DEF t3
<1>5. ParentColorSet(t3, t4, s, g, T.color[n]) /\ t4 \in Tree
  <2>1. t3 \in Tree
    BY <1>4 DEF ChildSet
  <2>2. ParentColorSet(t3, t4, s, g, T.color[n])
    BY <1>1, <2>1, SetParentColorIs
  <2> QED
    BY <2>2 DEF ParentColorSet
<1> HIDE DEF t4
<1>6. ParentColorSet(t4, U, c, p, "black")
  BY <1>1, <1>5, MayParentColorIs
<1> HIDE DEF U
<1>7. U \in Tree /\ U.root = IF g = Nil THEN s ELSE B.root
  BY <1>2, <1>3, <1>4, <1>5, <1>6 DEF KidSet, ParentSet, ChildSet, ParentColorSet
<1>8. \A x \in Nodes, e \in Sides : t2.kid[x][e] = IF x = s /\ e = "l" THEN l ELSE B.kid[x][e]
  BY <1>2, <1>3 DEF KidSet, ParentSet
<1>9. \A x \in Nodes, e \in Sides :
        U.kid[x][e] = IF x = g /\ e = (IF t2.kid[x]["l"] = n THEN "l" ELSE "r") THEN s ELSE t2.kid[x][e]
  BY <1>4, <1>5, <1>6 DEF ChildSet, ParentColorSet
<1>10. \A x \in Nodes, e \in Sides :
         U.kid[x][e] = IF x = g /\ e = (IF (IF g = s THEN l ELSE B.kid[g]["l"]) = n THEN "l" ELSE "r") THEN s
                       ELSE IF x = s /\ e = "l" THEN l ELSE B.kid[x][e]
  BY <1>1, <1>8, <1>9
<1>11. \A x \in Nodes : U.parent[x] = IF x = c THEN p ELSE IF x = s THEN g ELSE IF x = l THEN s
                                      ELSE B.parent[x]
  BY <1>2, <1>3, <1>4, <1>5, <1>6 DEF KidSet, ParentSet, ChildSet, ParentColorSet
<1>12. \A x \in Nodes : U.color[x] = IF x = c THEN "black" ELSE IF x = s THEN T.color[n] ELSE B.color[x]
  BY <1>2, <1>3, <1>4, <1>5, <1>6 DEF KidSet, ParentSet, ChildSet, ParentColorSet
<1>13. Seated(T, B, U, n, s, c, p, l, g)
  BY <1>7, <1>10, <1>11, <1>12 DEF Seated
<1> QED
  BY <1>13 DEF t1, t2, t3, t4, U

-----------------------------------------------------------------------------
LEMMA TwoKidsRenamed ==
  ASSUME NEW T \in Tree, NEW M \in SUBSET Nodes, Linked(T, M), NEW n \in M, NEW s,
         T.kid[n]["l"] # Nil, T.kid[n]["r"] # Nil, Follows(T, M, n, s),
         NEW A, Spliced(T, A, M, s, T.kid[s]["r"]), T.kid[s]["r"] # Nil => T.color[s] = "black",
         NEW B, Lifted(T, B, s, T.kid[s]["r"], IF s = T.kid[n]["r"] THEN s ELSE T.parent[s], T.kid[n]["r"]),
         NEW U, Seated(T, B, U, n, s, T.kid[s]["r"], IF s = T.kid[n]["r"] THEN s ELSE T.parent[s],
                       T.kid[n]["l"], T.parent[n])
  PROVE  Renamed(A, U, M \ {s}, n, s) /\ Untouched(T, U, M)
<1> DEFINE l == T.kid[n]["l"]
           right == T.kid[n]["r"]
           c == T.kid[s]["r"]
           g == T.parent[n]
           p == IF s = right THEN s ELSE T.parent[s]
           K == M \ {s}
<1>1. Nil \notin M /\ "l" \in Sides /\ "r" \in Sides /\ \A e \in Sides : e = "l" \/ e = "r"
  BY NodesAssumption DEF Sides
<1>2. s \in M /\ T.kid[s]["l"] = Nil /\ s # n /\ s # l /\ g # s /\ s # Nil
  BY <1>1 DEF Follows
<1>3. l \in M /\ T.parent[l] = n /\ right \in M /\ T.parent[right] = n /\ l # right /\ g # n
  BY <1>1, LinkedIs
<1>4. c = Nil \/ (c \in M /\ T.parent[c] = s /\ c # s)
  BY <1>1, <1>2, LinkedIs
<1>5. c # n /\ c # l /\ c # right
  BY <1>1, <1>2, <1>3, <1>4
<1>6. g = Nil \/ (g \in M /\ \E e \in Sides : T.kid[g][e] = n)
  BY LinkedIs
<1>7. g = Nil <=> T.root = n
  BY <1>1, LinkedIs DEF Linked
<1>8. \A x \in M, e \in Sides : T.kid[x][e] = s <=> IF s = right THEN x = n /\ e = "r" ELSE x = p /\ e = "l"
  <2> TAKE x \in M, e \in Sides
  <2>1. T.kid[x][e] = s => T.parent[s] = x
    BY <1>2, LinkedIs
  <2>2. CASE s = right
    <3>1. T.kid[x][e] = s => x = n
      BY <1>3, <2>1, <2>2
    <3>2. T.kid[n][e] = s => e = "r"
      BY <1>1, <1>2, <2>2
    <3> QED
      BY <2>2, <3>1, <3>2
  <2>3. CASE s # right
    <3>1. T.parent[s] \in M /\ T.kid[T.parent[s]]["l"] = s
      BY <2>3 DEF Follows
    <3>2. T.kid[T.parent[s]][e] = s => e = "l"
      BY <1>1, <1>2, <3>1, LinkedIs
    <3> QED
      BY <2>1, <2>3, <3>1, <3>2
  <2> QED
    BY <2>2, <2>3
<1>9. p \in M /\ p # n /\ (s # right => p # s /\ p # g /\ T.parent[s] = p)
  <2>1. s # right => T.parent[s] \in M /\ T.parent[s] # n /\ g # T.parent[s] /\ T.parent[s] # s
    BY <1>2, LinkedIs DEF Follows
  <2> QED
    BY <1>2, <2>1
<1>10. \A x \in M, e \in Sides : (x = g /\ e = (IF T.kid[g]["l"] = n THEN "l" ELSE "r")) <=> T.kid[x][e] = n
  <2>1. \A x \in M, e \in Sides : (x = g /\ e = (IF T.kid[x]["l"] = n THEN "l" ELSE "r")) <=> T.kid[x][e] = n
    BY ChangedChild
  <2> QED
    BY <2>1
<1>11. \A x \in M : T.parent[x] = n <=> x = l \/ x = right
  <2> TAKE x \in M
  <2>1. T.parent[x] = n => \E e \in Sides : T.kid[n][e] = x
    BY <1>1, LinkedIs
  <2> QED
    BY <1>1, <1>3, <2>1
<1>12. \A x \in M : x \in Nodes
  OBVIOUS
\* the tree behind the first removal
<1>13. /\ A.root = T.root
       /\ \A x \in K, e \in Sides : A.kid[x][e] = IF T.kid[x][e] = s THEN c ELSE T.kid[x][e]
       /\ \A x \in M : A.parent[x] = IF x = c THEN T.parent[s] ELSE T.parent[x]
       /\ \A x \in M : A.color[x] = IF x = c THEN "black" ELSE T.color[x]
  <2>1. T.parent[s] # Nil
    BY <1>1, <1>3, <1>9
  <2>2. \A x \in M : x = c => T.color[s] = "black"
    BY <1>1
  <2> QED
    BY <1>12, <2>1, <2>2 DEF Spliced
\* the tree behind the replacement
<1>14. /\ B.root = T.root /\ B.color = T.color
       /\ \A x \in M, e \in Sides :
            B.kid[x][e] = IF s # right /\ x = s /\ e = "r" THEN right
                          ELSE IF s # right /\ x = p /\ e = "l" THEN c ELSE T.kid[x][e]
       /\ \A x \in Nodes : B.parent[x] = IF s # right /\ x = right THEN s ELSE T.parent[x]
  BY <1>12 DEF Lifted
<1>15. g # Nil => B.kid[g]["l"] = T.kid[g]["l"]
  BY <1>1, <1>2, <1>6, <1>9, <1>14
<1>16. /\ U \in Tree /\ U.root = IF g = Nil THEN s ELSE T.root
       /\ \A x \in M, e \in Sides :
            U.kid[x][e] = IF T.kid[x][e] = n THEN s ELSE IF x = s /\ e = "l" THEN l ELSE B.kid[x][e]
       /\ \A x \in Nodes : U.parent[x] = IF x = c THEN p ELSE IF x = s THEN g ELSE IF x = l THEN s
                                         ELSE B.parent[x]
       /\ \A x \in Nodes : U.color[x] = IF x = c THEN "black" ELSE IF x = s THEN T.color[n] ELSE T.color[x]
  <2>1. U \in Tree /\ U.root = IF g = Nil THEN s ELSE B.root
    BY DEF Seated
  <2>2. \A x \in M, e \in Sides :
          U.kid[x][e] = IF x = g /\ e = (IF B.kid[g]["l"] = n THEN "l" ELSE "r") THEN s
                        ELSE IF x = s /\ e = "l" THEN l ELSE B.kid[x][e]
    BY <1>2, <1>12 DEF Seated
  <2>3. \A x \in M, e \in Sides :
          U.kid[x][e] = IF T.kid[x][e] = n THEN s ELSE IF x = s /\ e = "l" THEN l ELSE B.kid[x][e]
    <3> HIDE DEF l
    <3> QED
      BY <1>1, <1>10, <1>15, <2>2
  <2>4. \A x \in Nodes : U.parent[x] = IF x = c THEN p ELSE IF x = s THEN g ELSE IF x = l THEN s
                                       ELSE B.parent[x]
    BY DEF Seated
  <2>5. \A x \in Nodes : U.color[x] = IF x = c THEN "black" ELSE IF x = s THEN T.color[n] ELSE B.color[x]
    BY DEF Seated
  <2> HIDE DEF l, c, g, p
  <2> QED
    BY <1>14, <2>1, <2>3, <2>4, <2>5
<1>17. U.root = Sub(A.root, n, s)
  BY <1>7, <1>13, <1>14, <1>16 DEF Sub
<1>18. \A x \in M, e \in Sides : T.kid[x][e] = n => x # s /\ x # n
  <2>1. \A x \in M, e \in Sides : T.kid[x][e] = n => x = g
    BY <1>10
  <2> QED
    BY <1>2, <1>3, <2>1
<1> HIDE DEF l, right, c, g, p, K
<1>19. \A x \in K, e \in Sides : U.kid[Sub(x, n, s)][e] = Sub(A.kid[x][e], n, s)
  <2> TAKE x \in K, e \in Sides
  <2>1. x \in M /\ x # s
    BY DEF K
  <2>2. CASE x = n
    <3>1. Sub(x, n, s) = s /\ T.kid[s][e] # n
      BY <1>2, <1>18, <2>2 DEF Sub
    <3>2. CASE e = "l"
      <4>1. U.kid[s][e] = l
        BY <1>1, <1>2, <1>16, <3>1, <3>2
      <4>2. A.kid[n][e] = l /\ l # n
        BY <1>1, <1>2, <1>3, <1>13, <1>18, <2>1, <2>2, <3>2 DEF l
      <4> QED
        BY <2>2, <3>1, <4>1, <4>2 DEF Sub
    <3>3. CASE e = "r"
      <4>1. U.kid[s][e] = IF s = right THEN c ELSE right
        BY <1>1, <1>2, <1>14, <1>16, <3>1, <3>3 DEF c
      <4>2. A.kid[n][e] = IF s = right THEN c ELSE right
        BY <1>1, <1>13, <2>1, <2>2, <3>3 DEF right
      <4>3. right # n
        BY <1>1, <1>18, <2>1, <2>2 DEF right
      <4> QED
        BY <1>5, <2>2, <3>1, <4>1, <4>2, <4>3 DEF Sub
    <3> QED
      BY <1>1, <3>2, <3>3
  <2>3. CASE x # n
    <3>1. Sub(x, n, s) = x
      BY <2>3 DEF Sub
    <3>2. U.kid[x][e] = IF T.kid[x][e] = n THEN s
                        ELSE IF s # right /\ x = p /\ e = "l" THEN c ELSE T.kid[x][e]
      BY <1>14, <1>16, <2>1
    <3>3. T.kid[x][e] = s <=> s # right /\ x = p /\ e = "l"
      BY <1>8, <2>1, <2>3
    <3>4. A.kid[x][e] = IF T.kid[x][e] = s THEN c ELSE T.kid[x][e]
      BY <1>13
    <3> QED
      BY <1>2, <1>5, <3>1, <3>2, <3>3, <3>4 DEF Sub
  <2> QED
    BY <2>2, <2>3
<1>20. \A x \in K : U.parent[Sub(x, n, s)] = Sub(A.parent[x], n, s)
  <2> TAKE x \in K
  <2>1. x \in M /\ x # s
    BY DEF K
  <2>2. CASE x = n
    <3>1. Sub(x, n, s) = s
      BY <2>2 DEF Sub
    <3>2. U.parent[s] = g
      BY <1>2, <1>4, <1>12, <1>16
    <3>3. A.parent[x] = g /\ g # n
      BY <1>3, <1>5, <1>13, <2>1, <2>2 DEF g
    <3> QED
      BY <3>1, <3>2, <3>3 DEF Sub
  <2>3. CASE x # n
    <3>1. Sub(x, n, s) = x
      BY <2>3 DEF Sub
    <3>2. U.parent[x] = IF x = c THEN p ELSE IF x = l THEN s
                        ELSE IF s # right /\ x = right THEN s ELSE T.parent[x]
      BY <1>12, <1>14, <1>16, <2>1
    <3>3. CASE x = c
      <4>1. A.parent[x] = T.parent[s]
        BY <1>13, <2>1, <3>3
      <4>2. s = right => T.parent[s] = n /\ p = s
        BY <1>3 DEF p
      <4>3. s # right => T.parent[s] = p /\ p # n
        BY <1>9
      <4> QED
        BY <3>1, <3>2, <3>3, <4>1, <4>2, <4>3 DEF Sub
    <3>4. CASE x # c
      <4>1. A.parent[x] = T.parent[x]
        BY <1>13, <2>1, <3>4
      <4>2. U.parent[x] = IF x = l \/ x = right THEN s ELSE T.parent[x]
        BY <2>1, <3>2, <3>4
      <4> QED
        BY <1>11, <2>1, <3>1, <4>1, <4>2 DEF Sub
    <3> QED
      BY <3>3, <3>4
  <2> QED
    BY <2>2, <2>3
<1>21. \A x \in K : U.color[Sub(x, n, s)] = A.color[x]
  <2> TAKE x \in K
  <2>1. x \in M /\ x # s
    BY DEF K
  <2>2. A.color[x] = IF x = c THEN "black" ELSE T.color[x]
    BY <1>13, <2>1
  <2>3. CASE x = n
    BY <1>2, <1>4, <1>5, <1>12, <1>16, <2>2, <2>3 DEF Sub
  <2>4. CASE x # n
    BY <1>12, <1>16, <2>1, <2>2, <2>4 DEF Sub
  <2> QED
    BY <2>3, <2>4
<1>22. Renamed(A, U, K, n, s)
  BY <1>16, <1>17, <1>19, <1>20, <1>21 DEF Renamed
<1>23. Untouched(T, U, M)
  <2> SUFFICES ASSUME NEW x \in Nodes \ M PROVE U.parent[x] = T.parent[x]
    BY DEF Untouched
  <2>1. x # c /\ x # s /\ x # l /\ x # right
    BY <1>2, <1>3, <1>4, NodesAssumption
  <2> QED
    BY <1>14, <1>16, <2>1
<1> QED
  BY <1>22, <1>23 DEF K

-----------------------------------------------------------------------------
\* A single red kid: what OneKidSound knows of c.
LEMMA OnlyKidRed ==
  ASSUME NEW T, NEW M, Sound(T, M, << >>, Nil), NEW n \in M, NEW d \in Sides,
         T.kid[n][d] # Nil, T.kid[n][Opp(d)] = Nil
  PROVE  T.color[n] = "black"
<1> DEFINE c == T.kid[n][d]
<1>1. PICK h : Even(T, M, h, << >>)
  BY DEF Sound
<1>2. /\ T \in Tree /\ M \in SUBSET Nodes /\ Linked(T, M) /\ Nil \notin M
      /\ Opp(d) \in Sides
  BY SidesAre, NodesAssumption DEF Sound
<1>3. c \in M /\ T.parent[c] = n
  BY <1>2, LinkedIs
<1>4. EvenAt(T, h, << >>, n, d) /\ EvenAt(T, h, << >>, n, Opp(d)) /\ EvenAt(T, h, << >>, c, d)
  BY <1>1, <1>2, <1>3, EvenAtIs
<1>5. \A y, e : Debt(<< >>, y, e) = 0
  BY DEF Debt
<1>6. h[Nil] = 0 /\ Weight(T, n) \in Nat /\ Weight(T, c) \in {0, 1}
  BY <1>1 DEF Even, Weight
<1>7. h[n] = Weight(T, n) /\ h[n] = h[c] + Weight(T, n) /\ h[c] \in Nat
      /\ h[c] = h[T.kid[c][d]] + Weight(T, c) /\ h[T.kid[c][d]] \in Nat
  <2>1. h[n] = h[Nil] + Weight(T, n) + 0
    BY <1>4, <1>5 DEF EvenAt
  <2>2. h[n] = h[c] + Weight(T, n) + 0 /\ h[c] \in Nat
    BY <1>4, <1>5 DEF EvenAt
  <2> HIDE DEF c
  <2>3. h[c] = h[T.kid[c][d]] + Weight(T, c) + 0 /\ h[T.kid[c][d]] \in Nat
    BY <1>4, <1>5 DEF EvenAt
  <2> QED
    BY <1>6, <2>1, <2>2, <2>3
<1>8. Weight(T, c) = 0
  <2> HIDE DEF c
  <2> QED
    BY <1>6, <1>7, SMTT(30)
<1>9. IsRed(T, c)
  BY <1>2, <1>3, <1>8 DEF Weight, IsRed
<1>10. ~IsRed(T, n)
  BY <1>2, <1>3, <1>9 DEF Sound, RedOnly
<1> QED
  BY <1>2, <1>10 DEF IsRed, Tree, Colors

\* First its successor s leaves, which makes of the tree A, then s takes its place.
TakenOut(T, M, n, s, v, U) ==
  /\ Follows(T, M, n, s) /\ Erased(T, M, s, v)
  /\ Spliced(T, v.tree, M, s, T.kid[s]["r"])
  /\ Renamed(v.tree, U, M \ {s}, n, s) /\ Untouched(T, U, M)

LEMMA TwoKidsAre ==
  ASSUME NEW T, NEW M, Sound(T, M, << >>, Nil), NEW n \in M, T.kid[n]["l"] # Nil, T.kid[n]["r"] # Nil
  PROVE  LET s == Leftmost(T, T.kid[n]["r"])
         IN  TakenOut(T, M, n, s, UnlinkedOneKid(T, s, T.kid[s]["r"]), UnlinkedTwoKids(T, n).tree)
<1> DEFINE l == T.kid[n]["l"]
           right == T.kid[n]["r"]
           s == Leftmost(T, right)
           c == T.kid[s]["r"]
           g == T.parent[n]
           p == IF s = right THEN s ELSE T.parent[s]
           u == UnlinkedTwoKids(T, n)
           U == u.tree
           v == UnlinkedOneKid(T, s, c)
           A == v.tree
           K == M \ {s}
           B == IF s = right THEN T
                ELSE SetParent(SetKid(SetKid(T, p, "l", c), s, "r", right), right, s)
           t2 == SetParent(SetKid(B, s, "l", l), l, s)
           t3 == ChangeChild(t2, n, s, g)
           t4 == SetParentColor(t3, s, g, T.color[n])
<1>1. /\ T \in Tree /\ M \in SUBSET Nodes /\ Linked(T, M) /\ Nil \notin M
      /\ "l" \in Sides /\ "r" \in Sides /\ Opp("r") = "l"
  BY NodesAssumption DEF Sound, Sides, Opp
<1>2. Follows(T, M, n, s)
  BY FollowsIs
<1>3. U = MayParentColor(t4, c, p, "black")
  <2>1. p = IF s = right THEN s ELSE T.parent[s]
    OBVIOUS
  <2> QED
    BY DEF UnlinkedTwoKids
<1> HIDE DEF s
<1>5. s \in M /\ T.kid[s]["l"] = Nil /\ s # n /\ s \in Nodes
  BY <1>1, <1>2 DEF Follows
<1>6. c \in Ptr /\ (c # Nil => c \in M) /\ l \in M /\ right \in M /\ g \in Ptr /\ T.parent[right] = n
  <2>1. c = Nil \/ c \in M
    BY <1>1, <1>5, LinkedIs
  <2>2. l \in M /\ right \in M /\ T.parent[right] = n
    BY <1>1, LinkedIs
  <2>3. g = Nil \/ g \in M
    BY <1>1, LinkedIs
  <2> HIDE DEF c, l, right, g
  <2> QED
    BY <1>1, <2>1, <2>2, <2>3 DEF Ptr
<1>7. p \in M
  BY <1>2, <1>5 DEF Follows
<1>8. Spliced(T, A, M, s, c)
  BY <1>1, <1>5, <1>6, OneKidIs
<1>9. c # Nil => T.color[s] = "black"
  BY <1>1, <1>5, OnlyKidRed
<1>10. Erased(T, M, s, v)
  <2> HIDE DEF c
  <2>1. T.kid[s]["r"] = c
    BY DEF c
  <2> QED
    BY <1>1, <1>5, <2>1, OneKidSound
<1>11. Lifted(T, B, s, c, p, right) /\ B \in Tree
  <2>1. p \in Nodes /\ right \in Nodes
    BY <1>6, <1>7, <1>1
  <2>2. Lifted(T, B, s, c, p, right)
    <3> HIDE DEF p, right, c
    <3> QED
      BY <1>1, <1>5, <1>6, <2>1, LiftedIs
  <2> QED
    BY <2>2 DEF Lifted
<1>12. Seated(T, B, U, n, s, c, p, l, g)
  <2>1. p \in Nodes /\ l \in Nodes /\ n \in Nodes
    BY <1>6, <1>7, <1>1
  <2> HIDE DEF p, l, c, B, g, U
  <2> QED
    BY <1>1, <1>3, <1>5, <1>6, <1>11, <2>1, SeatedIs
<1> HIDE DEF B, U, u, v, A
<1>13. Renamed(A, U, K, n, s) /\ Untouched(T, U, M)
  BY <1>1, <1>2, <1>5, <1>8, <1>9, <1>11, <1>12, TwoKidsRenamed
<1>14. TakenOut(T, M, n, s, v, U)
  BY <1>2, <1>8, <1>10, <1>13 DEF TakenOut, A, K
<1> QED
  BY <1>14 DEF s, v, U, u

LEMMA TwoKidsSound ==
  ASSUME NEW T, NEW M, Sound(T, M, << >>, Nil), NEW n \in M, T.kid[n]["l"] # Nil, T.kid[n]["r"] # Nil
  PROVE  Erased(T, M, n, UnlinkedTwoKids(T, n))
<1> DEFINE right == T.kid[n]["r"]
           s == Leftmost(T, right)
           c == T.kid[s]["r"]
           p == IF s = right THEN s ELSE T.parent[s]
           u == UnlinkedTwoKids(T, n)
           U == u.tree
           v == UnlinkedOneKid(T, s, c)
           A == v.tree
           K == M \ {s}
<1>1. T \in Tree /\ M \in SUBSET Nodes /\ Linked(T, M) /\ Nil \notin M /\ "l" \in Sides /\ "r" \in Sides
  BY NodesAssumption DEF Sound, Sides
<1>2. TakenOut(T, M, n, s, v, U)
  BY TwoKidsAre
<1>4. u.rebalance = IF c = Nil /\ T.color[s] = "black" THEN p ELSE Nil
  BY DEF UnlinkedTwoKids
<1> HIDE DEF s
<1>5. Follows(T, M, n, s) /\ s \in M /\ T.kid[s]["l"] = Nil /\ s # n /\ s \in Nodes
  BY <1>1, <1>2 DEF Follows, TakenOut
<1>6. right \in M /\ T.parent[right] = n
  BY <1>1, LinkedIs
<1> HIDE DEF u, v
<1>10. Erased(T, M, s, v)
  BY <1>2 DEF TakenOut
<1>13. Renamed(A, U, K, n, s) /\ Untouched(T, U, M)
  BY <1>2 DEF TakenOut
<1> HIDE DEF U, A
<1>14. v.rebalance = IF c = Nil /\ T.color[s] = "black" THEN T.parent[s] ELSE Nil
  BY DEF UnlinkedOneKid, v
<1>15. T.parent[s] # Nil /\ p = Sub(T.parent[s], n, s) /\ p # Nil /\ T.parent[s] \in K
  <2>1. CASE s = right
    BY <1>1, <1>5, <1>6, <2>1 DEF Sub
  <2>2. CASE s # right
    <3>1. T.parent[s] \in M /\ T.parent[s] # n
      BY <1>5, <2>2 DEF Follows
    <3>2. T.parent[s] # s
      BY <1>1, <1>5, LinkedIs
    <3> QED
      BY <1>1, <2>2, <3>1, <3>2 DEF Sub
  <2> QED
    BY <2>1, <2>2
<1>16. n \in K /\ s \in Nodes \ K /\ (K \ {n}) \cup {s} = M \ {n}
  BY <1>5
<1> HIDE DEF K, p, c
<1>17. CASE u.rebalance = Nil
  <2>1. v.rebalance = Nil
    BY <1>4, <1>14, <1>15, <1>17
  <2>2. Sound(A, K, << >>, Nil)
    BY <1>10, <2>1 DEF Erased, A, K
  <2>3. \A x \in K, e \in Sides : Debt(<< >>, Sub(x, n, s), e) = Debt(<< >>, x, e)
    BY DEF Debt
  <2>4. Sound(U, M \ {n}, << >>, Nil)
    BY <1>13, <1>16, <2>2, <2>3, RenamedSound
  <2> QED
    BY <1>13, <1>17, <2>4 DEF Erased, U, u
<1>18. CASE u.rebalance # Nil
  <2> DEFINE q == T.parent[s]
  <2>1. v.rebalance = q /\ u.rebalance = p
    BY <1>4, <1>14, <1>18
  <2>2. Short(A, K, q)
    BY <1>10, <1>15, <2>1 DEF Erased, A, K
  <2> HIDE DEF q
  <2>3. PICK e \in Sides : A.kid[q][e] = Nil /\ Sound(A, K, << q, e >>, Nil)
    BY <2>2 DEF Short
  <2>4. p = Sub(q, n, s) /\ q \in K
    BY <1>15 DEF q
  <2>5. K \in SUBSET Nodes
    BY <1>1 DEF K
  <2>6. \A x \in K, b \in Sides : Debt(<< p, e >>, Sub(x, n, s), b) = Debt(<< q, e >>, x, b)
    <3>1. \A x \in K : Sub(x, n, s) = Sub(q, n, s) => x = q
      <4>1. Substitution(K, n, s)
        BY <1>16, <2>5, SubIs
      <4> QED
        BY <2>4, <4>1 DEF Substitution
    <3> QED
      BY <2>4, <3>1 DEF Debt
  <2>7. Sound(U, M \ {n}, << p, e >>, Nil)
    BY <1>13, <1>16, <2>3, <2>6, RenamedSound
  <2>8. U.kid[p][e] = Nil
    <3>1. U.kid[p][e] = Sub(A.kid[q][e], n, s)
      BY <1>13, <2>4 DEF Renamed
    <3>2. n # Nil
      BY <1>1
    <3> QED
      BY <2>3, <3>1, <3>2 DEF Sub
  <2>9. p \in M \ {n}
    <3>1. Substitution(K, n, s)
      BY <1>16, <2>5, SubIs
    <3> QED
      BY <1>16, <2>4, <3>1 DEF Substitution
  <2> QED
    BY <1>13, <1>15, <2>1, <2>7, <2>8, <2>9 DEF Erased, Short, U, u
<1> QED
  BY <1>17, <1>18

LEMMA UnlinkedSound ==
  ASSUME NEW T, NEW M, Sound(T, M, << >>, Nil), NEW n \in M
  PROVE  Erased(T, M, n, Unlinked(T, n))
<1>1. "l" \in Sides /\ "r" \in Sides /\ Opp("l") = "r" /\ Opp("r") = "l"
  BY DEF Sides, Opp
<1>2. CASE T.kid[n]["l"] = Nil
  BY <1>1, <1>2, OneKidSound DEF Unlinked
<1>3. CASE T.kid[n]["l"] # Nil /\ T.kid[n]["r"] = Nil
  BY <1>1, <1>3, OneKidSound DEF Unlinked
<1>4. CASE T.kid[n]["l"] # Nil /\ T.kid[n]["r"] # Nil
  BY <1>4, TwoKidsSound DEF Unlinked
<1> QED
  BY <1>2, <1>3, <1>4

-----------------------------------------------------------------------------
(* A new leaf, and a node that is let go *)

LEMMA EmptyDebt ==
  ASSUME NEW x, NEW e
  PROVE  Debt(<< >>, x, e) = 0
  BY DEF Debt

Leafed(T, U, s, p, e) ==
  /\ U \in Tree /\ U.root = IF p = Nil THEN s ELSE T.root
  /\ \A x \in Nodes, d \in Sides :
       U.kid[x][d] = IF p # Nil /\ x = p /\ d = e THEN s ELSE IF x = s THEN Nil ELSE T.kid[x][d]
  /\ \A x \in Nodes : U.parent[x] = IF x = s THEN p ELSE T.parent[x]
  /\ \A x \in Nodes : U.color[x] = IF x = s THEN "red" ELSE T.color[x]

LEMMA LeafedIs ==
  ASSUME NEW T \in Tree, NEW s \in Nodes, NEW p \in Ptr, NEW e \in Sides
  PROVE  LET t1 == [SetParentColor(T, s, p, "red") EXCEPT !.kid[s] = [d \in Sides |-> Nil]]
         IN  Leafed(T, IF p = Nil THEN [t1 EXCEPT !.root = s] ELSE SetKid(t1, p, e, s), s, p, e)
<1> DEFINE t0 == SetParentColor(T, s, p, "red")
           t1 == [t0 EXCEPT !.kid[s] = [d \in Sides |-> Nil]]
<1>1. ParentColorSet(T, t0, s, p, "red") /\ t0 \in Tree
  <2>1. "red" \in Colors
    BY DEF Colors
  <2>2. ParentColorSet(T, t0, s, p, "red")
    BY <2>1, SetParentColorIs
  <2> QED
    BY <2>2 DEF ParentColorSet
<1> HIDE DEF t0
<1>2. /\ t1 \in Tree /\ t1.root = t0.root /\ t1.parent = t0.parent /\ t1.color = t0.color
      /\ \A x \in Nodes, d \in Sides : t1.kid[x][d] = IF x = s THEN Nil ELSE t0.kid[x][d]
  <2>1. [d \in Sides |-> Nil] \in [Sides -> Ptr]
    BY DEF Ptr
  <2>2. t1 \in Tree /\ t1.root = t0.root /\ t1.parent = t0.parent /\ t1.color = t0.color
    BY <1>1, <2>1 DEF Tree
  <2>3. \A x \in Nodes : t1.kid[x] = IF x = s THEN [d \in Sides |-> Nil] ELSE t0.kid[x]
    BY <1>1, <2>1 DEF Tree
  <2> QED
    BY <2>2, <2>3
<1> HIDE DEF t1
<1>3. CASE p = Nil
  <2> DEFINE U == [t1 EXCEPT !.root = s]
  <2>1. U \in Tree /\ U.root = s /\ U.kid = t1.kid /\ U.parent = t1.parent /\ U.color = t1.color
    BY <1>2 DEF Tree, Ptr
  <2> HIDE DEF U
  <2>2. Leafed(T, U, s, p, e)
    BY <1>1, <1>2, <1>3, <2>1 DEF Leafed, ParentColorSet
  <2> QED
    BY <1>3, <2>2 DEF U, t1, t0
<1>4. CASE p # Nil
  <2> DEFINE U == SetKid(t1, p, e, s)
  <2>1. p \in Nodes /\ s \in Ptr
    BY <1>4 DEF Ptr
  <2>2. KidSet(t1, U, p, e, s)
    BY <1>2, <2>1, SetKidIs
  <2> HIDE DEF U
  <2>3. Leafed(T, U, s, p, e)
    BY <1>1, <1>2, <1>4, <2>2 DEF Leafed, ParentColorSet, KidSet
  <2> QED
    BY <1>4, <2>3 DEF U, t1, t0
<1> QED
  BY <1>3, <1>4

LEMMA LeafedSound ==
  ASSUME NEW T, NEW M, Sound(T, M, << >>, Nil), NEW s \in Nodes \ M, NEW p, NEW e \in Sides,
         (p = Nil /\ T.root = Nil) \/ (p \in M /\ T.kid[p][e] = Nil),
         NEW U, Leafed(T, U, s, p, e)
  PROVE  Sound(U, M \cup {s}, << >>, s)
<1> DEFINE N == M \cup {s}
<1>1. /\ T \in Tree /\ M \in SUBSET Nodes /\ Linked(T, M) /\ RedOnly(T, M, Nil) /\ RootBlack(T, Nil)
      /\ Nil \notin M /\ N \in SUBSET Nodes /\ s # Nil /\ s \notin M
  BY NodesAssumption DEF Sound
<1>2. /\ U \in Tree /\ U.root = IF p = Nil THEN s ELSE T.root
      /\ \A x \in M, d \in Sides :
           U.kid[x][d] = IF x = p /\ d = e THEN s ELSE T.kid[x][d]
      /\ \A d \in Sides : U.kid[s][d] = Nil
      /\ \A x \in M : U.parent[x] = T.parent[x] /\ U.color[x] = T.color[x]
      /\ U.parent[s] = p /\ U.color[s] = "red"
  <2>1. \A x \in M, d \in Sides : U.kid[x][d] = IF x = p /\ d = e THEN s ELSE T.kid[x][d]
    BY <1>1 DEF Leafed
  <2>2. \A d \in Sides : U.kid[s][d] = Nil
    BY <1>1 DEF Leafed
  <2>3. \A x \in M : U.parent[x] = T.parent[x] /\ U.color[x] = T.color[x]
    BY <1>1 DEF Leafed
  <2> QED
    BY <2>1, <2>2, <2>3 DEF Leafed
<1>3. Linked(U, N)
  <2>1. ASSUME NEW x \in N, NEW d \in Sides, U.kid[x][d] # Nil
        PROVE  U.kid[x][d] \in N /\ U.parent[U.kid[x][d]] = x /\ U.kid[x][d] # U.kid[x][Opp(d)]
    <3>1. x \in M
      BY <1>2, <2>1
    <3>2. Opp(d) \in Sides /\ Opp(d) # d
      BY SidesAre
    <3>3. CASE x = p /\ d = e
      <4>1. U.kid[x][Opp(d)] # s
        BY <1>1, <1>2, <3>1, <3>2, <3>3, LinkedIs
      <4> QED
        BY <1>1, <1>2, <3>1, <3>3, <4>1
    <3>4. CASE ~(x = p /\ d = e)
      <4>1. U.kid[x][d] = T.kid[x][d]
        BY <1>2, <3>1, <3>4
      <4>2. T.kid[x][d] \in M /\ T.parent[T.kid[x][d]] = x /\ T.kid[x][d] # T.kid[x][Opp(d)]
        BY <1>1, <2>1, <3>1, <3>2, <4>1, LinkedIs
      <4> QED
        BY <1>1, <1>2, <3>1, <3>2, <4>1, <4>2
    <3> QED
      BY <3>3, <3>4
  <2>2. ASSUME NEW x \in N
        PROVE  IF U.parent[x] = Nil THEN U.root = x
               ELSE U.parent[x] \in N /\ \E d \in Sides : U.kid[U.parent[x]][d] = x
    <3>1. CASE x = s
      BY <1>1, <1>2, <3>1
    <3>2. CASE x \in M /\ T.parent[x] = Nil
      <4>1. T.root = x
        BY <1>1, <3>2, LinkedIs
      <4> QED
        BY <1>1, <1>2, <3>2, <4>1
    <3>3. CASE x \in M /\ T.parent[x] # Nil
      <4>1. T.parent[x] \in M
        BY <1>1, <3>3, LinkedIs
      <4>2. PICK d \in Sides : T.kid[T.parent[x]][d] = x
        BY <1>1, <3>3, LinkedIs
      <4>3. U.kid[T.parent[x]][d] = x
        BY <1>1, <1>2, <3>3, <4>1, <4>2
      <4> QED
        BY <1>2, <3>3, <4>1, <4>3
    <3> QED
      BY <3>1, <3>2, <3>3
  <2>3. \A x \in N : U.parent[x] # x
    BY <1>1, <1>2, LinkedIs
  <2>4. U.root # Nil => U.root \in N /\ U.parent[U.root] = Nil
    BY <1>1, <1>2 DEF Linked
  <2> HIDE DEF N
  <2> QED
    BY <1>1, <1>2, <2>1, <2>2, <2>3, <2>4, IsLinked
<1>4. PICK h : Even(T, M, h, << >>)
  BY DEF Sound
<1>5. h \in [Ptr -> Nat] /\ h[Nil] = 0
  BY <1>4 DEF Even
<1> DEFINE k == [h EXCEPT ![s] = 0]
<1>6. k \in [Ptr -> Nat] /\ k[s] = 0 /\ k[Nil] = 0 /\ \A x \in M \cup {Nil} : k[x] = h[x]
  BY <1>1, <1>5 DEF Ptr
<1> HIDE DEF k
<1>7. Even(U, N, k, << >>)
  <2>1. ASSUME NEW x \in N, NEW d \in Sides
        PROVE  k[x] = k[U.kid[x][d]] + Weight(U, x) + Debt(<< >>, x, d)
    <3>1. CASE x = s
      BY <1>2, <1>6, <3>1, EmptyDebt DEF Weight
    <3>2. CASE x \in M
      <4>1. h[x] = h[T.kid[x][d]] + Weight(T, x) + Debt(<< >>, x, d)
        BY <1>4, <3>2 DEF Even
      <4>2. T.kid[x][d] \in M \cup {Nil}
        BY <1>1, <3>2, LinkedIs
      <4>3. k[U.kid[x][d]] = h[T.kid[x][d]]
        BY <1>1, <1>2, <1>5, <1>6, <3>2, <4>2
      <4>4. Weight(U, x) = Weight(T, x)
        BY <1>2, <3>2 DEF Weight
      <4> QED
        BY <1>6, <3>2, <4>1, <4>3, <4>4
    <3> QED
      BY <3>1, <3>2
  <2> QED
    BY <1>6, <2>1 DEF Even
<1>8. RedOnly(U, N, s)
  <2>1. ASSUME NEW x \in M, IsRed(U, x), IsRed(U, U.parent[x]) PROVE FALSE
    <3>1. U.parent[x] = T.parent[x] /\ T.parent[x] \in M
      BY <1>1, <1>2, <2>1, LinkedIs DEF IsRed
    <3>2. IsRed(T, x) /\ IsRed(T, T.parent[x])
      BY <1>2, <2>1, <3>1 DEF IsRed
    <3> QED
      BY <1>1, <3>2 DEF RedOnly
  <2> QED
    BY <2>1 DEF RedOnly
<1>9. RootBlack(U, s)
  <2>1. T.root # Nil => T.root \in M
    BY <1>1 DEF Linked
  <2> QED
    BY <1>1, <1>2, <2>1 DEF RootBlack, IsRed
<1>10. Sound(U, N, << >>, s)
  BY <1>1, <1>2, <1>3, <1>7, <1>8, <1>9 DEF Sound
<1> QED
  BY <1>10 DEF N

\* RB_CLEAR_NODE() of a node that is not in the tree.
LEMMA LetGoSound ==
  ASSUME NEW T, NEW M, NEW o, NEW y, Sound(T, M, o, y), NEW n \in Nodes \ M
  PROVE  /\ Sound(SetParent(T, n, n), M, o, y)
         /\ \A x \in Nodes : SetParent(T, n, n).parent[x] = IF x = n THEN n ELSE T.parent[x]
<1> DEFINE U == SetParent(T, n, n)
<1>1. /\ T \in Tree /\ M \in SUBSET Nodes /\ Linked(T, M) /\ RedOnly(T, M, y) /\ RootBlack(T, y)
  BY DEF Sound
<1>2. ParentSet(T, U, n, n)
  <2>1. n \in Ptr
    BY DEF Ptr
  <2> QED
    BY <1>1, <2>1, SetParentIs
<1> HIDE DEF U
<1>3. /\ U \in Tree /\ U.root = T.root /\ U.kid = T.kid /\ U.color = T.color
      /\ \A x \in M : U.parent[x] = T.parent[x]
      /\ \A x \in Nodes : U.parent[x] = IF x = n THEN n ELSE T.parent[x]
  BY <1>1, <1>2 DEF ParentSet
<1>4. Linked(U, M)
  BY <1>1, <1>3 DEF Linked
<1>5. PICK h : Even(T, M, h, o)
  BY DEF Sound
<1>6. Even(U, M, h, o)
  BY <1>3, <1>5 DEF Even, Weight
<1>7. RedOnly(U, M, y) /\ RootBlack(U, y)
  BY <1>1, <1>3 DEF RedOnly, RootBlack, IsRed
<1>8. Sound(U, M, o, y)
  BY <1>1, <1>3, <1>4, <1>6, <1>7 DEF Sound
<1> QED
  BY <1>3, <1>8 DEF U

-----------------------------------------------------------------------------
(* The properties *)

LEMMA BlackCountsIs ==
  ASSUME tree \in Tree, Members \in SUBSET Nodes, Linked(tree, Members), NEW x, RedOnly(tree, Members, x),
         NEW h, NEW o, Even(tree, Members, h, o)
  PROVE  BlackCounts(o) = {h[tree.root]}
<1> DEFINE M == Members
           Up(n, d, X) == {a + (IF IsRed(tree, n) THEN 0 ELSE 1) + (IF o = << n, d >> THEN 1 ELSE 0) : a \in X}
           F(f) == [n \in M \cup {Nil} |->
                      IF n = Nil THEN {0} ELSE UNION {Up(n, d, f[tree.kid[n][d]]) : d \in Sides}]
           counts == CHOOSE f : f = F(f)
           f0 == [n \in M \cup {Nil} |-> {h[n]}]
<1>1. Nil \notin M /\ tree.root \in M \cup {Nil} /\ "l" \in Sides
  BY NodesAssumption DEF Linked, Sides
<1>2. \A n \in M, d \in Sides : tree.kid[n][d] \in M \cup {Nil}
  BY LinkedIs
<1>3. h[Nil] = 0
  BY DEF Even
<1>4. \A n \in M, d \in Sides : Up(n, d, {h[tree.kid[n][d]]}) = {h[n]}
  <2> TAKE n \in M, d \in Sides
  <2>1. h[n] = h[tree.kid[n][d]] + Weight(tree, n) + Debt(o, n, d)
    BY DEF Even
  <2>2. Weight(tree, n) = IF IsRed(tree, n) THEN 0 ELSE 1
    BY <1>1 DEF Weight, IsRed
  <2>3. Debt(o, n, d) = IF o = << n, d >> THEN 1 ELSE 0
    BY DEF Debt
  <2> DEFINE w == IF IsRed(tree, n) THEN 0 ELSE 1
             b == IF o = << n, d >> THEN 1 ELSE 0
  <2>4. h[n] = h[tree.kid[n][d]] + w + b
    BY <2>1, <2>2, <2>3
  <2> HIDE DEF w, b
  <2>5. {a + w + b : a \in {h[tree.kid[n][d]]}} = {h[n]}
    BY <2>4
  <2> QED
    BY <2>5 DEF w, b
<1> HIDE DEF Up
<1>5. f0 = F(f0)
  <2>1. ASSUME NEW n \in M PROVE UNION {Up(n, d, f0[tree.kid[n][d]]) : d \in Sides} = {h[n]}
    <3>1. \A d \in Sides : Up(n, d, f0[tree.kid[n][d]]) = {h[n]}
      BY <1>2, <1>4
    <3> HIDE DEF f0
    <3> QED
      BY <1>1, <3>1
  <2>2. \A n \in M \cup {Nil} :
          f0[n] = IF n = Nil THEN {0} ELSE UNION {Up(n, d, f0[tree.kid[n][d]]) : d \in Sides}
    BY <1>1, <1>3, <2>1
  <2> QED
    BY <2>2
<1> HIDE DEF f0
<1>6. counts = F(counts)
  BY <1>5
<1>7. BlackCounts(o) = counts[tree.root]
  BY DEF BlackCounts, Up
<1> HIDE DEF counts
<1>8. \A n \in M \cup {Nil} :
        counts[n] = IF n = Nil THEN {0} ELSE UNION {Up(n, d, counts[tree.kid[n][d]]) : d \in Sides}
  BY <1>6
<1> DEFINE B == {n \in M : counts[n] # {h[n]}}
<1>9. ASSUME B # {} PROVE FALSE
  <2>1. PICK y \in B : \A e \in Sides : tree.kid[y][e] \notin B
    <3>1. B \in SUBSET M
      OBVIOUS
    <3> HIDE DEF B
    <3> QED
      BY <1>9, <3>1, NoKidIn
  <2>2. y \in M /\ counts[y] # {h[y]}
    BY <2>1
  <2>3. \A e \in Sides : counts[tree.kid[y][e]] = {h[tree.kid[y][e]]}
    BY <1>1, <1>2, <1>3, <1>8, <2>1, <2>2
  <2>4. \A e \in Sides : Up(y, e, counts[tree.kid[y][e]]) = {h[y]}
    BY <1>4, <2>2, <2>3
  <2>5. counts[y] = UNION {Up(y, d, counts[tree.kid[y][d]]) : d \in Sides}
    BY <1>1, <1>8, <2>2
  <2>6. UNION {Up(y, d, counts[tree.kid[y][d]]) : d \in Sides} = {h[y]}
    BY <1>1, <2>4
  <2> QED
    BY <2>2, <2>5, <2>6
<1>10. counts[tree.root] = {h[tree.root]}
  BY <1>1, <1>3, <1>8, <1>9
<1> QED
  BY <1>7, <1>10

\* What Sound says of the state.
LEMMA SoundIs ==
  ASSUME NEW o, NEW x, Sound(tree, Members, o, x)
  PROVE  /\ Mirrored
         /\ Balanced(o) /\ RedPairs \subseteq {x}
         /\ x = Nil => RedPairs = {} /\ (tree.root # Nil => ~IsRed(tree, tree.root))
<1>1. /\ tree \in Tree /\ Members \in SUBSET Nodes /\ Linked(tree, Members)
      /\ RedOnly(tree, Members, x) /\ RootBlack(tree, x) /\ Nil \notin Members
  BY NodesAssumption DEF Sound
<1>2. Mirrored
  BY <1>1 DEF Mirrored, Linked
<1>3. RedPairs \subseteq {x} /\ (x = Nil => RedPairs = {})
  BY <1>1 DEF RedPairs, RedOnly
<1>4. Balanced(o)
  <2>1. PICK h : Even(tree, Members, h, o)
    BY DEF Sound
  <2>2. BlackCounts(o) = {h[tree.root]}
    BY <1>1, <2>1, BlackCountsIs
  <2> QED
    BY <2>2, FS_Singleton DEF Balanced
<1>5. x = Nil => (tree.root # Nil => ~IsRed(tree, tree.root))
  BY <1>1 DEF RootBlack
<1> QED
  BY <1>2, <1>3, <1>4, <1>5

-----------------------------------------------------------------------------
(* The invariant *)

\* Between calls, and while timerqueue_add() descends.
AtRest == Sound(tree, Members, << >>, Nil)

Descending ==
  /\ AtRest /\ self \in Nodes /\ Cleared(self)
  /\ \/ par = Nil /\ node = tree.root
     \/ par \in Members /\ node = tree.kid[par][SideOf(self, par)]

\* The loop of __rb_insert(): node may be red under red.
Inserting ==
  /\ Sound(tree, Members, << >>, node)
  /\ node \in Members /\ IsRed(tree, node) /\ par = tree.parent[node]

\* The loop of ____rb_erase_color(): the side of par node is on is one short.
Erasing ==
  /\ Sound(tree, Members, << par, Opp(SibSide) >>, Nil)
  /\ self \in Nodes /\ par \in Members
  /\ node = tree.kid[par][Opp(SibSide)] /\ ~IsRed(tree, node)

IInv ==
  /\ pc \in {"idle", "descend", "insert", "erase"}
  /\ pc = "idle" => AtRest
  /\ pc = "descend" => Descending
  /\ pc = "insert" => Inserting
  /\ pc = "erase" => Erasing

LEMMA MembersAre ==
  ASSUME NEW T \in Tree, NEW M \in SUBSET Nodes, Linked(T, M), \A x \in Nodes \ M : T.parent[x] = x
  PROVE  {x \in Nodes : T.parent[x] # x} = M
  BY DEF Linked

\* The side of p its kid y is not on.
LEMMA OtherSide ==
  ASSUME NEW T, NEW p, NEW y, NEW e \in Sides, T.kid[p][e] = y, T.kid[p][Opp(e)] # y
  PROVE  Opp(IF y # T.kid[p]["r"] THEN "r" ELSE "l") = e
  BY DEF Sides, Opp

LEMMA WellFormedIs ==
  ASSUME IInv
  PROVE  WellFormed
<1>1. CASE pc \in {"idle", "descend"}
  <2>1. Sound(tree, Members, << >>, Nil)
    BY <1>1 DEF IInv, AtRest, Descending
  <2>2. Mirrored /\ RedPairs = {} /\ Balanced(<< >>) /\ (tree.root # Nil => ~IsRed(tree, tree.root))
    BY <2>1, SoundIs
  <2> QED
    BY <1>1, <2>2 DEF WellFormed, RedBlack, InsertInvariant, EraseInvariant
<1>2. CASE pc = "insert"
  <2>1. Mirrored /\ Balanced(<< >>) /\ RedPairs \subseteq {node} /\ IsRed(tree, node) /\ par = tree.parent[node]
    BY <1>2, SoundIs DEF IInv, Inserting
  <2> QED
    BY <1>2, <2>1 DEF WellFormed, RedBlack, InsertInvariant, EraseInvariant
<1>3. CASE pc = "erase"
  <2>1. Sound(tree, Members, << par, Opp(SibSide) >>, Nil) /\ par \in Members /\ ~IsRed(tree, node)
    BY <1>3 DEF IInv, Erasing
  <2>2. Mirrored /\ RedPairs = {} /\ Balanced(<< par, Opp(SibSide) >>)
    BY <2>1, SoundIs
  <2>3. par # Nil
    BY <2>1, NodesAssumption DEF Members
  <2> QED
    BY <1>3, <2>1, <2>2, <2>3 DEF WellFormed, RedBlack, InsertInvariant, EraseInvariant
<1> QED
  BY <1>1, <1>2, <1>3 DEF IInv

LEMMA InitIs ==
  ASSUME Init
  PROVE  IInv
<1> DEFINE h == [x \in Ptr |-> 0]
<1>1. tree \in Tree /\ tree.root = Nil
  <2>1. [d \in Sides |-> Nil] \in [Sides -> Ptr] /\ Nil \in Ptr
    BY DEF Ptr
  <2>2. [n \in Nodes |-> [d \in Sides |-> Nil]] \in [Nodes -> [Sides -> Ptr]]
    BY <2>1
  <2>3. [n \in Nodes |-> n] \in [Nodes -> Ptr] /\ [n \in Nodes |-> "red"] \in [Nodes -> Colors]
    BY DEF Ptr, Colors
  <2> QED
    BY <2>1, <2>2, <2>3 DEF Init, Tree
<1>2. Members = {}
  BY DEF Init, Members, Cleared
<1>3. Linked(tree, {}) /\ RedOnly(tree, {}, Nil) /\ RootBlack(tree, Nil)
  BY <1>1 DEF Linked, RedOnly, RootBlack
<1>4. Even(tree, {}, h, << >>)
  BY DEF Even, Ptr
<1> HIDE DEF h
<1>5. Sound(tree, {}, << >>, Nil)
  BY <1>1, <1>3, <1>4 DEF Sound
<1> QED
  BY <1>2, <1>5 DEF Init, IInv, AtRest

\* What a call that ends with the tree T leaves behind.
LEMMA Ended ==
  ASSUME NEW M, Sound(tree', M, << >>, Nil), pc' = "idle", \A x \in Nodes \ M : tree'.parent[x] = x
  PROVE  IInv' /\ Members' = M
<1>1. tree' \in Tree /\ M \in SUBSET Nodes /\ Linked(tree', M)
  BY DEF Sound
<1>2. {x \in Nodes : tree'.parent[x] # x} = M
  BY <1>1, MembersAre
<1>3. Members' = M
  BY <1>2 DEF Members, Cleared
<1> QED
  BY <1>3 DEF IInv, AtRest

-----------------------------------------------------------------------------
(* The steps of timerqueue_add() *)

LEMMA AddKeeps ==
  ASSUME IInv, NEW n \in Nodes, NEW e, Add(n, e)
  PROVE  IInv' /\ Members' = Members
<1>1. AtRest /\ pc = "idle"
  BY DEF IInv, Add
<1>2. Members' = Members
  BY DEF Add, Members, Cleared
<1>3. AtRest'
  BY <1>1, <1>2 DEF Add, AtRest
<1>4. Cleared(self)'
  BY DEF Add, Cleared
<1> QED
  BY <1>2, <1>3, <1>4 DEF Add, IInv, Descending

LEMMA DescendKeeps ==
  ASSUME IInv, Descend
  PROVE  IInv' /\ Members' = Members
<1>1. Descending /\ AtRest /\ node # Nil
  BY DEF IInv, Descend, Descending
<1>2. node \in Members
  <2>1. tree \in Tree /\ Members \in SUBSET Nodes /\ Linked(tree, Members)
    BY <1>1 DEF AtRest, Sound
  <2>2. CASE node = tree.root
    BY <1>1, <2>1, <2>2 DEF Linked
  <2>3. CASE par \in Members /\ node = tree.kid[par][SideOf(self, par)]
    <3>1. SideOf(self, par) \in Sides
      BY DEF SideOf, Sides
    <3> QED
      BY <1>1, <2>1, <2>3, <3>1 DEF Linked
  <2> QED
    BY <1>1, <2>2, <2>3 DEF Descending
<1>3. Members' = Members
  BY DEF Descend, Members, Cleared
<1>4. AtRest'
  BY <1>1, <1>3 DEF Descend, AtRest
<1>5. Cleared(self)' /\ self' \in Nodes
  BY <1>1 DEF Descend, Descending, Cleared
<1>6. par' \in Members' /\ node' = (tree.kid[par][SideOf(self, par)])'
  BY <1>2, <1>3 DEF Descend, SideOf
<1>7. Descending'
  BY <1>4, <1>5, <1>6 DEF Descending
<1> QED
  BY <1>3, <1>7 DEF Descend, IInv

LEMMA LinkKeeps ==
  ASSUME IInv, Link
  PROVE  IInv' /\ Members' = Members \cup {self}
<1> DEFINE M == Members
           e == SideOf(self, par)
<1>1. /\ AtRest /\ self \in Nodes /\ Cleared(self) /\ pc = "descend" /\ node = Nil
      /\ (par = Nil /\ tree.root = Nil) \/ (par \in M /\ tree.kid[par][e] = Nil)
  BY DEF IInv, Link, Descending
<1>2. tree \in Tree /\ M \in SUBSET Nodes /\ Sound(tree, M, << >>, Nil)
  BY <1>1 DEF AtRest, Sound
<1>3. self \in Nodes \ M /\ e \in Sides /\ par \in Ptr
  BY <1>1, <1>2 DEF Members, SideOf, Sides, Ptr
<1>4. Leafed(tree, tree', self, par, e)
  BY <1>2, <1>3, LeafedIs DEF Link
<1>5. Sound(tree', M \cup {self}, << >>, self)
  BY <1>1, <1>2, <1>3, <1>4, LeafedSound
<1>6. Members' = M \cup {self}
  <2>1. \A x \in Nodes : tree'.parent[x] = IF x = self THEN par ELSE tree.parent[x]
    BY <1>4 DEF Leafed
  <2>2. par # self
    BY <1>1, <1>3, NodesAssumption
  <2> QED
    BY <1>1, <2>1, <2>2 DEF Members, Cleared, Link
<1>7. par' = tree'.parent[node'] /\ IsRed(tree', node')
  <2>1. /\ \A x \in Nodes : tree'.parent[x] = IF x = self THEN par ELSE tree.parent[x]
        /\ \A x \in Nodes : tree'.color[x] = IF x = self THEN "red" ELSE tree.color[x]
    BY <1>4 DEF Leafed
  <2>2. tree'.parent[self] = par /\ tree'.color[self] = "red" /\ self # Nil
    BY <1>1, <2>1, NodesAssumption
  <2> QED
    BY <2>2 DEF Link, IsRed
<1> QED
  BY <1>5, <1>6, <1>7, Zenon DEF IInv, Inserting, Link

-----------------------------------------------------------------------------
(* The steps of __rb_insert() *)

LEMMA InsertIs ==
  ASSUME IInv, pc = "insert"
  PROVE  /\ Sound(tree, Members, << >>, node) /\ tree \in Tree /\ Members \in SUBSET Nodes
         /\ Linked(tree, Members) /\ node \in Members /\ IsRed(tree, node) /\ par = tree.parent[node]
         /\ \A x \in Nodes \ Members : tree.parent[x] = x
  BY DEF IInv, Inserting, Sound, Members, Cleared

LEMMA InsertRootKeeps ==
  ASSUME IInv, InsertRoot
  PROVE  IInv' /\ Members' = Members
<1> DEFINE M == Members
           U == SetParentColor(tree, node, Nil, "black")
<1>1. pc = "insert" /\ par = Nil /\ tree' = U /\ pc' = "idle"
  BY DEF InsertRoot, EndAdd
<1>2. Sound(U, M, << >>, Nil) /\ Untouched(tree, U, M)
  BY <1>1, InsertIs, RootSound
<1>3. \A x \in Nodes \ M : tree'.parent[x] = x
  BY <1>1, <1>2, InsertIs DEF Untouched
<1> HIDE DEF U, M
<1> QED
  BY <1>1, <1>2, <1>3, Ended DEF M

LEMMA InsertBlackParentKeeps ==
  ASSUME IInv, InsertBlackParent
  PROVE  IInv' /\ Members' = Members
<1> DEFINE M == Members
<1>1. pc = "insert" /\ par # Nil /\ ~IsRed(tree, par) /\ tree' = tree /\ pc' = "idle"
  BY DEF InsertBlackParent, EndAdd
<1>2. /\ Sound(tree, M, << >>, node) /\ tree \in Tree /\ M \in SUBSET Nodes /\ Linked(tree, M)
      /\ node \in M /\ par = tree.parent[node]
      /\ \A x \in Nodes \ M : tree.parent[x] = x
  BY <1>1, InsertIs
<1>3. RedOnly(tree, M, Nil)
  BY <1>1, <1>2 DEF Sound, RedOnly
<1>4. RootBlack(tree, Nil)
  <2>1. tree.root # Nil => tree.root # node
    BY <1>1, <1>2 DEF Linked
  <2> QED
    BY <1>2, <2>1 DEF Sound, RootBlack
<1>5. Sound(tree, M, << >>, Nil)
  BY <1>2, <1>3, <1>4 DEF Sound
<1> HIDE DEF M
<1> QED
  BY <1>1, <1>2, <1>5, Ended DEF M

\* A red parent has a parent.
LEMMA GrandIs ==
  ASSUME IInv, pc = "insert", IsRed(tree, par)
  PROVE  /\ par \in Members /\ Grand \in Members /\ ParSide \in Sides
         /\ tree.kid[Grand][ParSide] = par
<1> DEFINE M == Members
<1>1. /\ Sound(tree, M, << >>, node) /\ tree \in Tree /\ M \in SUBSET Nodes /\ Linked(tree, M)
      /\ node \in M /\ par = tree.parent[node] /\ par # Nil
  BY InsertIs DEF IsRed
<1>2. par \in M /\ par # node
  BY <1>1, LinkedIs
<1>3. tree.parent[par] # Nil
  <2>1. tree.parent[par] = Nil => tree.root = par
    BY <1>1, <1>2, LinkedIs
  <2> QED
    BY <1>1, <1>2, <2>1 DEF Sound, RootBlack
<1>4. Grand \in M /\ \E e \in Sides : tree.kid[Grand][e] = par
  BY <1>1, <1>2, <1>3, LinkedIs DEF Grand
<1>5. ParSide \in Sides /\ tree.kid[Grand][ParSide] = par
  BY <1>4 DEF ParSide, Sides
<1> QED
  BY <1>2, <1>4, <1>5

LEMMA InsertFlipKeeps ==
  ASSUME IInv, InsertFlip
  PROVE  IInv' /\ Members' = Members
<1> DEFINE M == Members
           t1 == SetParentColor(tree, Uncle, Grand, "black")
           t2 == SetParentColor(t1, par, Grand, "black")
           U == SetParentColor(t2, Grand, t2.parent[Grand], "red")
<1>1. /\ pc = "insert" /\ IsRed(tree, par) /\ IsRed(tree, Uncle) /\ tree' = U /\ pc' = "insert"
      /\ node' = Grand /\ par' = tree.parent[Grand]
  BY DEF InsertFlip
<1>2. /\ Sound(tree, M, << >>, node) /\ tree \in Tree /\ M \in SUBSET Nodes /\ Linked(tree, M)
      /\ node \in M /\ IsRed(tree, node) /\ par = tree.parent[node]
      /\ \A x \in Nodes \ M : tree.parent[x] = x
  BY <1>1, InsertIs
<1>3. par \in M /\ Grand \in M /\ ParSide \in Sides /\ tree.kid[Grand][ParSide] = par
  BY <1>1, GrandIs
<1>4. Uncle = tree.kid[Grand][Opp(ParSide)]
  BY DEF Uncle
<1>5. Sound(U, M, << >>, Grand) /\ Untouched(tree, U, M) /\ IsRed(U, Grand) /\ SameLinks(tree, U)
  <2> HIDE DEF M
  <2> QED
    BY <1>1, <1>2, <1>3, <1>4, FlipSound
<1> HIDE DEF U
<1>6. U \in Tree /\ Linked(U, M)
  BY <1>5 DEF Sound
<1>7. Members' = M
  <2>1. {x \in Nodes : U.parent[x] # x} = M
    BY <1>2, <1>5, <1>6, MembersAre DEF Untouched
  <2> QED
    BY <1>1, <2>1 DEF Members, Cleared
<1>8. par' = U.parent[Grand]
  BY <1>1, <1>2, <1>3, <1>5 DEF SameLinks
<1> QED
  BY <1>1, <1>3, <1>5, <1>7, <1>8 DEF IInv, Inserting

LEMMA InsertRotateKeeps ==
  ASSUME IInv, InsertRotate
  PROVE  IInv' /\ Members' = Members
<1> DEFINE M == Members
           d == ParSide
           V == OuterRotated(InnerRotated(tree, node, par, d), node, Grand, d)
           W == OuterRotated(tree, par, Grand, d)
<1>1. /\ pc = "insert" /\ IsRed(tree, par) /\ ~IsRed(tree, Uncle) /\ pc' = "idle"
      /\ tree' = IF node = tree.kid[par][Opp(d)] THEN V ELSE W
  BY DEF InsertRotate, EndAdd
<1>2. /\ Sound(tree, M, << >>, node) /\ tree \in Tree /\ M \in SUBSET Nodes /\ Linked(tree, M)
      /\ node \in M /\ IsRed(tree, node) /\ par = tree.parent[node]
      /\ \A x \in Nodes \ M : tree.parent[x] = x
  BY <1>1, InsertIs
<1>3. par \in M /\ Grand \in M /\ d \in Sides /\ tree.kid[Grand][d] = par
  BY <1>1, GrandIs
<1>4. Uncle = tree.kid[Grand][Opp(d)]
  BY DEF Uncle
<1> HIDE DEF M, d, V, W
<1>5. Sound(tree', M, << >>, Nil) /\ Untouched(tree, tree', M)
  <2>1. CASE node = tree.kid[par][Opp(d)]
    <3>1. tree.kid[par][Opp(d)] = node /\ ~IsRed(tree, tree.kid[Grand][Opp(d)])
      BY <1>1, <1>4, <2>1
    <3>2. Sound(V, M, << >>, Nil) /\ Untouched(tree, V, M)
      BY <1>1, <1>2, <1>3, <3>1, InnerSound DEF V
    <3> QED
      BY <1>1, <2>1, <3>2
  <2>2. CASE node # tree.kid[par][Opp(d)]
    <3>1. PICK e \in Sides : tree.kid[par][e] = node
      BY <1>2, <1>3, LinkedIs, NodesAssumption
    <3>2. tree.kid[par][d] = node
      BY <1>3, <2>2, <3>1, SidesAre
    <3> QED
      BY <1>1, <1>2, <1>3, <1>4, <2>2, <3>2, OuterSound DEF W
  <2> QED
    BY <2>1, <2>2
<1>6. \A x \in Nodes \ M : tree'.parent[x] = x
  BY <1>2, <1>5 DEF Untouched
<1> QED
  BY <1>1, <1>5, <1>6, Ended DEF M

-----------------------------------------------------------------------------
(* The steps of timerqueue_del() *)

\* The erase ends with the tree T, and clears n.
LEMMA EndEraseIs ==
  ASSUME NEW M, NEW T, Sound(T, M, << >>, Nil), NEW n \in Nodes \ M, EndErase(T, n),
         \A x \in Nodes \ M : x # n => T.parent[x] = x
  PROVE  IInv' /\ Members' = M
<1>1. Sound(tree', M, << >>, Nil) /\ \A x \in Nodes : tree'.parent[x] = IF x = n THEN n ELSE T.parent[x]
  BY LetGoSound DEF EndErase
<1>2. \A x \in Nodes \ M : tree'.parent[x] = x
  BY <1>1
<1> QED
  BY <1>1, <1>2, Ended DEF EndErase

LEMMA EraseKeeps ==
  ASSUME IInv, NEW n \in Nodes, Erase(n)
  PROVE  IInv' /\ Members' = Members \ {n}
<1> DEFINE M == Members
           N == M \ {n}
           u == Unlinked(tree, n)
           U == u.tree
           p == u.rebalance
<1>1. pc = "idle" /\ Sound(tree, M, << >>, Nil) /\ n \in M
  BY DEF Erase, IInv, AtRest, Members
<1>2. tree \in Tree /\ M \in SUBSET Nodes /\ Linked(tree, M) /\ Nil \notin M
  BY <1>1, NodesAssumption DEF Sound
<1>3. Erased(tree, M, n, u)
  BY <1>1, UnlinkedSound
<1>4. \A x \in Nodes \ M : tree.parent[x] = x
  BY <1>1 DEF Members, Cleared
<1>5. /\ u.rebalance = Nil => EndErase(U, n)
      /\ u.rebalance # Nil => tree' = U /\ pc' = "erase" /\ self' = n /\ node' = Nil /\ par' = p
  BY DEF Erase
<1> HIDE DEF u, M
<1>6. \A x \in Nodes \ M : U.parent[x] = x
  BY <1>3, <1>4 DEF Erased, Untouched
<1>7. CASE p = Nil
  <2>1. Sound(U, N, << >>, Nil)
    BY <1>3, <1>7 DEF Erased
  <2>2. n \in Nodes \ N
    OBVIOUS
  <2>3. \A x \in Nodes \ N : x # n => U.parent[x] = x
    BY <1>6
  <2> HIDE DEF N, U
  <2>4. IInv' /\ Members' = N
    BY <1>5, <1>7, <2>1, <2>2, <2>3, EndEraseIs
  <2> QED
    BY <2>4 DEF N, M
<1>8. CASE p # Nil
  <2>1. Short(U, N, p)
    BY <1>3, <1>8 DEF Erased
  <2>2. PICK e \in Sides : U.kid[p][e] = Nil /\ Sound(U, N, << p, e >>, Nil)
    BY <2>1 DEF Short
  <2>3. tree' = U /\ pc' = "erase" /\ self' = n /\ node' = Nil /\ par' = p
    BY <1>5, <1>8
  <2>4. p \in N /\ N \in SUBSET Nodes /\ Nil \notin N
    BY <1>2, <2>1 DEF Short
  <2>5. U.kid[p][Opp(e)] # Nil
    <3>1. PICK h : Even(U, N, h, << p, e >>)
      BY <2>2 DEF Sound
    <3>2. Opp(Opp(e)) = e /\ Opp(e) \in Sides
      BY SidesAre
    <3>3. Siblings(U, N, p, h, U.kid[p][Opp(e)], U.kid[p][e])
      <4> HIDE DEF N, U, p
      <4> DEFINE d == Opp(e)
      <4>1. d \in Sides /\ Opp(d) = e
        BY <3>2
      <4> HIDE DEF d
      <4>2. Siblings(U, N, p, h, U.kid[p][d], U.kid[p][Opp(d)])
        BY <2>2, <2>4, <3>1, <4>1, SiblingThere
      <4> QED
        BY <4>1, <4>2 DEF d
    <3>4. U.kid[p][Opp(e)] \in N
      BY <3>3 DEF Siblings
    <3> QED
      BY <2>4, <3>4
  <2>6. Opp(IF Nil # U.kid[p]["r"] THEN "r" ELSE "l") = e
    <3> HIDE DEF U, p
    <3> QED
      BY <2>2, <2>5, OtherSide
  <2>7. Opp(SibSide') = e
    BY <2>3, <2>6 DEF SibSide
  <2>8. Members' = N
    <3>1. U \in Tree /\ Linked(U, N)
      BY <2>2 DEF Sound
    <3>2. \A x \in N : U.parent[x] # x
      BY <3>1, <2>4, LinkedIs
    <3> HIDE DEF U
    <3>3. {x \in Nodes : U.parent[x] # x} \ {n} = N
      BY <1>6, <2>4, <3>2
    <3> QED
      BY <2>3, <3>3 DEF Members, Cleared
  <2>9. ~IsRed(tree', node')
    BY <2>3 DEF IsRed
  <2> HIDE DEF N, U, p
  <2>10. Erasing'
    BY <1>1, <2>2, <2>3, <2>4, <2>7, <2>8, <2>9 DEF Erasing
  <2> QED
    BY <2>3, <2>8, <2>10 DEF IInv, N, M
<1> QED
  BY <1>7, <1>8

-----------------------------------------------------------------------------
(* The steps of ____rb_erase_color() *)

LEMMA ErasingIs ==
  ASSUME IInv, pc = "erase"
  PROVE  /\ Sound(tree, Members, << par, Opp(SibSide) >>, Nil) /\ self \in Nodes \ Members /\ par \in Members
         /\ node = tree.kid[par][Opp(SibSide)] /\ ~IsRed(tree, node) /\ SibSide \in Sides
         /\ \A x \in Nodes \ Members : x # self => tree.parent[x] = x
<1>1. Erasing
  BY DEF IInv
<1>2. \A x \in Nodes \ Members : x # self => tree.parent[x] = x
  BY DEF Members, Cleared
<1>3. self \in Nodes \ Members
  BY <1>1 DEF Erasing, Members
<1>4. SibSide \in Sides
  BY DEF SibSide, Sides
<1> QED
  BY <1>1, <1>2, <1>3, <1>4 DEF Erasing

\* The tree behind the first case; its sibling s is black, and so is node.
Ready(P, M, d) ==
  LET s == P.kid[par][d]
      N == P.kid[par][Opp(d)]
  IN  /\ Sound(P, M, << par, Opp(d) >>, Nil) /\ P \in Tree /\ M \in SUBSET Nodes /\ Linked(P, M)
      /\ d \in Sides /\ Opp(d) \in Sides /\ par \in M /\ par \in Nodes
      /\ s \in M /\ s \in Nodes /\ s # par /\ P.parent[s] = par
      /\ ~IsRed(P, s) /\ ~IsRed(P, N)
      /\ self \in Nodes \ M /\ \A x \in Nodes \ M : x # self => P.parent[x] = x

LEMMA PreparedIs ==
  ASSUME IInv, pc = "erase"
  PROVE  Ready(Prepared, Members, SibSide)
<1> DEFINE M == Members
           d == SibSide
           P == Prepared
<1>1. /\ Sound(tree, M, << par, Opp(d) >>, Nil) /\ self \in Nodes \ M /\ par \in M
      /\ node = tree.kid[par][Opp(d)] /\ ~IsRed(tree, node) /\ d \in Sides
      /\ \A x \in Nodes \ M : x # self => tree.parent[x] = x
  BY ErasingIs
<1>2. P = IF IsRed(tree, tree.kid[par][d]) THEN SiblingRotated(tree, par, d) ELSE tree
  BY DEF Prepared
<1> HIDE DEF M, d, P
<1>3. /\ Sound(P, M, << par, Opp(d) >>, Nil) /\ Untouched(tree, P, M)
      /\ P.kid[par][Opp(d)] = node /\ ~IsRed(P, P.kid[par][d])
      /\ \A x \in Nodes : IsRed(P, x) => IsRed(tree, x) \/ x = par
  <2>1. CASE IsRed(tree, tree.kid[par][d])
    BY <1>1, <1>2, <2>1, SiblingSound
  <2>2. CASE ~IsRed(tree, tree.kid[par][d])
    BY <1>1, <1>2, <2>2 DEF Untouched
  <2> QED
    BY <2>1, <2>2
<1>4. PICK h : Even(P, M, h, << par, Opp(d) >>)
  BY <1>3 DEF Sound
<1>5. Siblings(P, M, par, h, P.kid[par][d], P.kid[par][Opp(d)])
  BY <1>1, <1>3, <1>4, SiblingThere
<1>6. P \in Tree /\ M \in SUBSET Nodes /\ Linked(P, M)
  BY <1>3 DEF Sound
<1>7. /\ P.kid[par][d] \in M /\ P.parent[P.kid[par][d]] = par /\ P.kid[par][d] # par
      /\ node # par /\ node \in Ptr
  BY <1>3, <1>5 DEF Siblings
<1>8. ~IsRed(P, node)
  BY <1>1, <1>3, <1>7 DEF IsRed, Ptr
<1>9. \A x \in Nodes \ M : x # self => P.parent[x] = x
  BY <1>1, <1>3 DEF Untouched
<1>10. Opp(d) \in Sides
  BY <1>1, SidesAre
<1>11. Ready(P, M, d)
  BY <1>1, <1>3, <1>6, <1>7, <1>8, <1>9, <1>10 DEF Ready
<1> QED
  BY <1>11 DEF P, M, d

LEMMA BothBlackIs ==
  ASSUME BothBlack
  PROVE  \A e \in Sides : ~IsRed(Prepared, Prepared.kid[Prepared.kid[par][SibSide]][e])
  BY DEF BothBlack, Sibling, Sides

LEMMA FlippedIs ==
  ASSUME NEW P, NEW M, NEW d, Ready(P, M, d)
  PROVE  LET s == P.kid[par][d]
             U == SetParentColor(P, s, par, "red")
         IN  /\ U \in Tree /\ SameLinks(P, U) /\ (IsRed(U, par) <=> IsRed(P, par))
             /\ \A y \in Nodes : U.color[y] = IF y = s THEN "red" ELSE P.color[y]
<1> DEFINE s == P.kid[par][d]
           U == SetParentColor(P, s, par, "red")
<1>1. P \in Tree /\ s \in Nodes /\ s # par /\ P.parent[s] = par /\ par \in Nodes
  BY DEF Ready
<1> HIDE DEF s
<1>2. ParentColorSet(P, U, s, par, "red")
  <2>1. par \in Ptr /\ "red" \in Colors
    BY <1>1 DEF Ptr, Colors
  <2> QED
    BY <1>1, <2>1, SetParentColorIs
<1> HIDE DEF U
<1>3. SameLinks(P, U)
  BY <1>1, <1>2 DEF ParentColorSet, SameLinks
<1>4. \A y \in Nodes : U.color[y] = IF y = s THEN "red" ELSE P.color[y]
  BY <1>2 DEF ParentColorSet
<1>5. IsRed(U, par) <=> IsRed(P, par)
  BY <1>1, <1>4 DEF IsRed
<1>6. U \in Tree
  BY <1>2 DEF ParentColorSet
<1> QED
  BY <1>3, <1>4, <1>5, <1>6 DEF U, s

LEMMA EraseFlipUpKeeps ==
  ASSUME IInv, EraseFlipUp
  PROVE  IInv' /\ Members' = Members
<1> DEFINE M == Members
           d == SibSide
           P == Prepared
           s == P.kid[par][d]
           U == Flipped
           q == P.parent[par]
<1>1. /\ pc = "erase" /\ BothBlack /\ ~IsRed(U, par) /\ U.parent[par] # Nil /\ tree' = U
      /\ node' = par /\ par' = U.parent[par] /\ pc' = "erase" /\ self' = self
  BY DEF EraseFlipUp
<1>2. Ready(P, M, d)
  BY <1>1, PreparedIs
<1>3. U = SetParentColor(P, s, par, "red")
  BY DEF Flipped, Sibling
<1>4. \A e \in Sides : ~IsRed(P, P.kid[s][e])
  BY <1>1, BothBlackIs
<1> HIDE DEF M, d, P, U
<1>5. /\ U \in Tree /\ SameLinks(P, U) /\ (IsRed(U, par) <=> IsRed(P, par))
      /\ \A y \in Nodes : U.color[y] = IF y = s THEN "red" ELSE P.color[y]
  BY <1>2, <1>3, FlippedIs
<1>6. /\ Sound(P, M, << par, Opp(d) >>, Nil) /\ P \in Tree /\ M \in SUBSET Nodes /\ Linked(P, M)
      /\ d \in Sides /\ par \in M /\ par \in Nodes /\ ~IsRed(P, s) /\ ~IsRed(P, P.kid[par][Opp(d)])
      /\ self \in Nodes \ M /\ s # par
      /\ \A x \in Nodes \ M : x # self => P.parent[x] = x
  BY <1>2 DEF Ready
<1>7. U.parent[par] = q /\ q # Nil /\ ~IsRed(P, par)
  BY <1>1, <1>5, <1>6 DEF SameLinks
<1>8. q \in M /\ q # par
  BY <1>6, <1>7, LinkedIs
<1>9. PICK e \in Sides : P.kid[q][e] = par
  BY <1>6, <1>7, LinkedIs
<1>10. PaidBy(P, par, << q, e >>)
  BY <1>7, <1>9 DEF PaidBy
<1>11. \A y \in Nodes : U.color[y] = IF y = s THEN "red" ELSE IF y = par THEN "black" ELSE P.color[y]
  <2>1. P.color[par] \in {"red", "black"} /\ par # Nil
    BY <1>6, NodesAssumption DEF Tree, Colors
  <2>2. P.color[par] = "black"
    BY <1>7, <2>1 DEF IsRed
  <2> QED
    BY <1>5, <1>6, <2>2
<1> HIDE DEF s
<1>12. Sound(U, M, << q, e >>, Nil) /\ Untouched(P, U, M)
  BY <1>4, <1>5, <1>6, <1>10, <1>11, PaidSound DEF s
<1>13. U.kid[q][e] = par /\ U.kid[q][Opp(e)] # par
  <2>1. P.kid[q][e] # P.kid[q][Opp(e)]
    <3>1. P.kid[q][e] # Nil
      BY <1>6, <1>9, NodesAssumption
    <3>2. Opp(e) \in Sides /\ e # Opp(e)
      BY SidesAre
    <3> QED
      BY <1>6, <1>8, <3>1, <3>2, LinkedIs
  <2> QED
    BY <1>5, <1>9, <2>1 DEF SameLinks
<1>14. Opp(SibSide') = e
  <2>1. Opp(IF par # U.kid[q]["r"] THEN "r" ELSE "l") = e
    BY <1>13, OtherSide
  <2> QED
    BY <1>1, <1>7, <2>1 DEF SibSide
<1>15. Members' = M
  <2>1. U \in Tree /\ Linked(U, M)
    BY <1>12 DEF Sound
  <2>2. \A x \in M : U.parent[x] # x
    BY <1>6, <2>1, LinkedIs
  <2>3. \A x \in Nodes \ M : x # self => U.parent[x] = x
    BY <1>6, <1>12 DEF Untouched
  <2>4. {x \in Nodes : U.parent[x] # x} \ {self} = M
    BY <1>6, <2>2, <2>3
  <2> QED
    BY <1>1, <2>4 DEF Members, Cleared
<1> HIDE DEF q
<1>16. Erasing'
  BY <1>1, <1>6, <1>7, <1>8, <1>12, <1>13, <1>14, <1>15 DEF Erasing
<1> QED
  BY <1>1, <1>15, <1>16 DEF IInv, M

LEMMA EraseFlipEndKeeps ==
  ASSUME IInv, EraseFlipEnd
  PROVE  IInv' /\ Members' = Members
<1> DEFINE M == Members
           d == SibSide
           P == Prepared
           s == P.kid[par][d]
           F == Flipped
           U == [F EXCEPT !.color[par] = "black"]
<1>1. /\ pc = "erase" /\ BothBlack /\ (IsRed(F, par) \/ F.parent[par] = Nil) /\ EndErase(U, self)
  BY DEF EraseFlipEnd
<1>2. Ready(P, M, d)
  BY <1>1, PreparedIs
<1>3. F = SetParentColor(P, s, par, "red")
  BY DEF Flipped, Sibling
<1>4. \A e \in Sides : ~IsRed(P, P.kid[s][e])
  BY <1>1, BothBlackIs
<1> HIDE DEF M, d, P, F
<1>5. /\ F \in Tree /\ SameLinks(P, F) /\ (IsRed(F, par) <=> IsRed(P, par))
      /\ \A y \in Nodes : F.color[y] = IF y = s THEN "red" ELSE P.color[y]
  BY <1>2, <1>3, FlippedIs
<1>6. /\ Sound(P, M, << par, Opp(d) >>, Nil) /\ P \in Tree /\ M \in SUBSET Nodes /\ Linked(P, M)
      /\ d \in Sides /\ par \in M /\ par \in Nodes /\ ~IsRed(P, s) /\ ~IsRed(P, P.kid[par][Opp(d)])
      /\ self \in Nodes \ M /\ s # par
      /\ \A x \in Nodes \ M : x # self => P.parent[x] = x
  BY <1>2 DEF Ready
<1>7. /\ U \in Tree /\ U.root = F.root /\ U.kid = F.kid /\ U.parent = F.parent
      /\ \A y \in Nodes : U.color[y] = IF y = par THEN "black" ELSE F.color[y]
  BY <1>5, <1>6 DEF Tree, Colors
<1>8. SameLinks(P, U)
  BY <1>5, <1>7 DEF SameLinks
<1>9. \A y \in Nodes : U.color[y] = IF y = s THEN "red" ELSE IF y = par THEN "black" ELSE P.color[y]
  BY <1>5, <1>6, <1>7
<1>10. PaidBy(P, par, << >>)
  BY <1>1, <1>5, <1>6 DEF PaidBy, SameLinks
<1> HIDE DEF s, U
<1>11. Sound(U, M, << >>, Nil) /\ Untouched(P, U, M)
  BY <1>4, <1>6, <1>7, <1>8, <1>9, <1>10, PaidSound DEF s
<1>12. \A x \in Nodes \ M : x # self => U.parent[x] = x
  BY <1>6, <1>11 DEF Untouched
<1> QED
  BY <1>1, <1>6, <1>11, <1>12, EndEraseIs DEF M

LEMMA EraseRotateKeeps ==
  ASSUME IInv, EraseRotate
  PROVE  IInv' /\ Members' = Members
<1> DEFINE M == Members
           d == SibSide
           P == Prepared
           s == P.kid[par][d]
           V == ParentRotated(P, par, d)
           W == ParentRotated(NephewRotated(P, par, d), par, d)
           outer == IsRed(P, P.kid[s][d])
           U == IF outer THEN V ELSE W
<1>1. pc = "erase" /\ ~BothBlack /\ EndErase(U, self)
  <2>1. Sibling = s
    BY DEF Sibling
  <2>2. EndErase(ParentRotated(IF outer THEN P ELSE NephewRotated(P, par, d), par, d), self)
    BY <2>1 DEF EraseRotate
  <2>3. pc = "erase" /\ ~BothBlack
    BY DEF EraseRotate
  <2> HIDE DEF outer, P, d
  <2> QED
    BY <2>2, <2>3
<1>2. Ready(P, M, d)
  BY <1>1, PreparedIs
<1>3. d \in Sides /\ Opp(d) \in Sides
  BY <1>2 DEF Ready
<1>4. ~outer => IsRed(P, P.kid[s][Opp(d)])
  <2>1. IsRed(P, P.kid[s]["l"]) \/ IsRed(P, P.kid[s]["r"])
    BY <1>1 DEF BothBlack, Sibling
  <2> HIDE DEF P, s, d
  <2> QED
    BY <1>3, <2>1 DEF Sides, Opp
<1> HIDE DEF M, d, P
<1>5. /\ Sound(P, M, << par, Opp(d) >>, Nil) /\ par \in M /\ ~IsRed(P, s)
      /\ self \in Nodes \ M /\ \A x \in Nodes \ M : x # self => P.parent[x] = x
  BY <1>2 DEF Ready
<1>6. Sound(U, M, << >>, Nil) /\ Untouched(P, U, M)
  <2>1. CASE outer
    BY <1>3, <1>5, <2>1, ParentSound
  <2>2. CASE ~outer
    BY <1>3, <1>4, <1>5, <2>2, NephewSound
  <2> QED
    BY <2>1, <2>2
<1> HIDE DEF U
<1>7. \A x \in Nodes \ M : x # self => U.parent[x] = x
  BY <1>5, <1>6 DEF Untouched
<1> QED
  BY <1>1, <1>5, <1>6, <1>7, EndEraseIs DEF M

-----------------------------------------------------------------------------
LEMMA NextKeeps ==
  ASSUME IInv, [Next]_vars
  PROVE  IInv'
<1>1. CASE UNCHANGED vars
  BY <1>1 DEF vars, IInv, AtRest, Descending, Inserting, Erasing, Members, Cleared, SideOf, SibSide
<1>2. CASE Next
  <2>1. ASSUME NEW n \in Nodes, NEW e \in Expiries, Add(n, e) PROVE IInv'
    BY <2>1, AddKeeps
  <2>2. ASSUME NEW n \in Nodes, Erase(n) PROVE IInv'
    BY <2>2, EraseKeeps
  <2> QED
    BY <1>2, <2>1, <2>2, DescendKeeps, LinkKeeps, InsertRootKeeps, InsertBlackParentKeeps,
       InsertFlipKeeps, InsertRotateKeeps, EraseFlipUpKeeps, EraseFlipEndKeeps, EraseRotateKeeps
       DEF Next
<1> QED
  BY <1>1, <1>2

-----------------------------------------------------------------------------
(***************************************************************************)
(* Between calls the tree of the timer queue is a red-black tree whose     *)
(* links mirror each other.  In __rb_insert() node is red and it alone may *)
(* be red under red; in ____rb_erase_color() exactly the paths through     *)
(* node are one black node short.  So it is for any number of nodes, any   *)
(* expiries and any sequence of timerqueue_add() and timerqueue_del().     *)
(***************************************************************************)
THEOREM TreeIsWellFormed == Spec => []WellFormed
<1>1. Init => IInv
  BY InitIs
<1>2. IInv /\ [Next]_vars => IInv'
  BY NextKeeps
<1>3. IInv => WellFormed
  BY WellFormedIs
<1> QED
  BY <1>1, <1>2, <1>3, PTL DEF Spec

-----------------------------------------------------------------------------
(* Lists of nodes *)

\* Concatenation of sequences of nodes.
LEMMA Concats ==
  /\ \A a \in Seq(Nodes), b \in Seq(Nodes) : a \o b \in Seq(Nodes)
  /\ \A a \in Seq(Nodes), b \in Seq(Nodes), c \in Seq(Nodes) : (a \o b) \o c = a \o (b \o c)
  /\ \A a \in Seq(Nodes) : a \o << >> = a /\ << >> \o a = a
  /\ << >> \in Seq(Nodes) /\ \A n \in Nodes : << n >> \in Seq(Nodes)
<1>1. \A a \in Seq(Nodes), b \in Seq(Nodes) : a \o b \in Seq(Nodes)
  BY ConcatProperties
<1>2. \A a \in Seq(Nodes), b \in Seq(Nodes), c \in Seq(Nodes) : (a \o b) \o c = a \o (b \o c)
  BY ConcatAssociative
<1>3. \A a \in Seq(Nodes) : a \o << >> = a /\ << >> \o a = a
  BY ConcatEmptySeq
<1> QED
  BY <1>1, <1>2, <1>3

\* No node twice.
Once(q) == \A i, j \in 1..Len(q) : q[i] = q[j] => i = j

\* The nodes of a list are those at its places.
LEMMA RangeIs ==
  ASSUME NEW q \in Seq(Nodes), NEW n
  PROVE  n \in Range(q) <=> \E i \in 1..Len(q) : q[i] = n
  BY RangeEquality

\* A list is what is before a place, the node there and what is behind it.
LEMMA SplitAt ==
  ASSUME NEW q \in Seq(Nodes), NEW n \in Range(q)
  PROVE  n \in Nodes /\ \E a \in Seq(Nodes), b \in Seq(Nodes) : q = a \o << n >> \o b
<1>1. PICK i \in 1..Len(q) : q[i] = n
  BY RangeIs
<1> DEFINE a == SubSeq(q, 1, i - 1)
           b == SubSeq(q, i + 1, Len(q))
<1>2. Len(q) \in Nat /\ i \in Int /\ \A j \in 1..Len(q) : q[j] \in Nodes
  BY ElementOfSeq, LenProperties
<1>3. a \in Seq(Nodes) /\ b \in Seq(Nodes) /\ << q[i] >> \in Seq(Nodes)
  BY <1>2, SubSeqProperties
<1>4. SubSeq(q, i, Len(q)) = << q[i] >> \o b
  BY <1>2, SubSeqRecursiveFirst
<1>5. a \o SubSeq(q, i, Len(q)) = q
  <2> DEFINE k == i - 1
  <2>1. k + 1 = i /\ k \in (1 - 1)..Len(q) /\ 1 \in 1..(Len(q) + 1) /\ Len(q) \in k..Len(q)
    BY <1>2
  <2> HIDE DEF k
  <2>2. SubSeq(q, 1, k) \o SubSeq(q, k + 1, Len(q)) = SubSeq(q, 1, Len(q))
    BY <2>1, ConcatAdjacentSubSeq
  <2> QED
    BY <2>1, <2>2, SubSeqFull DEF k
<1> HIDE DEF a, b
<1>6. q = a \o << n >> \o b
  <2>1. (a \o << q[i] >>) \o b = a \o (<< q[i] >> \o b)
    BY <1>3, ConcatAssociative
  <2> QED
    BY <1>1, <1>4, <1>5, <2>1
<1>7. n \in Nodes
  BY <1>1, <1>2
<1> QED
  BY <1>3, <1>6, <1>7

\* When no node is twice in a concatenation, none is twice in a part or in both parts.
LEMMA OnceConcat ==
  ASSUME NEW a \in Seq(Nodes), NEW b \in Seq(Nodes), Once(a \o b)
  PROVE  Once(a) /\ Once(b) /\ Range(a) \cap Range(b) = {}
<1> DEFINE q == a \o b
<1>1. /\ Len(q) = Len(a) + Len(b) /\ Len(a) \in Nat /\ Len(b) \in Nat
      /\ \A i \in 1..Len(a) : i \in 1..Len(q) /\ q[i] = a[i]
      /\ \A i \in 1..Len(b) : i + Len(a) \in 1..Len(q) /\ q[i + Len(a)] = b[i]
  BY ConcatProperties, LenProperties
<1>2. \A i, j \in 1..Len(q) : q[i] = q[j] => i = j
  BY DEF Once
<1> HIDE DEF q
<1>3. Once(a)
  BY <1>1, <1>2 DEF Once
<1>4. Once(b)
  BY <1>1, <1>2 DEF Once
<1>5. ASSUME NEW x \in Range(a), x \in Range(b) PROVE FALSE
  <2>1. PICK i \in 1..Len(a) : a[i] = x
    BY RangeIs
  <2>2. PICK j \in 1..Len(b) : b[j] = x
    BY <1>5, RangeIs
  <2>3. i = j + Len(a)
    BY <1>1, <1>2, <2>1, <2>2
  <2> QED
    BY <1>1, <2>1, <2>2, <2>3
<1> QED
  BY <1>3, <1>4, <1>5

\* Lists of nodes.  The proofs below know of them only what the next lemmas say.
Lists == Seq(Nodes)
Empty == << >>
One(n) == << n >>
Cat(a, b) == a \o b
Mid(a, n, b) == (a \o << n >>) \o b

\* Lists are closed under concatenation, which is associative.
LEMMA CatIs ==
  /\ \A a \in Lists, b \in Lists : Cat(a, b) \in Lists
  /\ \A a \in Lists, b \in Lists, c \in Lists : Cat(Cat(a, b), c) = Cat(a, Cat(b, c))
  /\ \A a \in Lists : Cat(a, Empty) = a /\ Cat(Empty, a) = a
  /\ Empty \in Lists /\ \A n \in Nodes : One(n) \in Lists
  BY Concats DEF Cat, Lists, One, Empty

\* The same, from left to right.
LEMMA CatTurns ==
  \A a \in Lists, b \in Lists, c \in Lists : Cat(Cat(a, b), c) = Cat(a, Cat(b, c))
  BY CatIs

\* A list with a node in its middle, and what is added on either side of it.
LEMMA MidIs ==
  /\ \A a \in Lists, n \in Nodes, b \in Lists :
       Mid(a, n, b) \in Lists /\ Mid(a, n, b) = Cat(Cat(a, One(n)), b) /\ Mid(a, n, b) = Cat(a, Cat(One(n), b))
  /\ \A a \in Lists, n \in Nodes, b \in Lists, c \in Lists :
       Cat(Mid(a, n, b), c) = Mid(a, n, Cat(b, c)) /\ Cat(c, Mid(a, n, b)) = Mid(Cat(c, a), n, b)
  /\ \A a \in Lists, n \in Nodes, b \in Lists, y \in Nodes, c \in Lists :
       Mid(Mid(a, n, b), y, c) = Mid(a, n, Mid(b, y, c))
<1>1. \A a \in Lists, n \in Nodes, b \in Lists : Mid(a, n, b) = Cat(Cat(a, One(n)), b)
  BY DEF Mid, Cat, One
<1>2. \A a \in Lists, n \in Nodes, b \in Lists :
       Mid(a, n, b) \in Lists /\ Mid(a, n, b) = Cat(a, Cat(One(n), b))
  BY <1>1, CatIs
<1>3. ASSUME NEW a \in Lists, NEW n \in Nodes, NEW b \in Lists, NEW c \in Lists
      PROVE  Cat(Mid(a, n, b), c) = Mid(a, n, Cat(b, c)) /\ Cat(c, Mid(a, n, b)) = Mid(Cat(c, a), n, b)
  <2>1. Cat(Cat(Cat(a, One(n)), b), c) = Cat(Cat(a, One(n)), Cat(b, c))
    BY CatIs
  <2>2. Cat(c, Cat(a, Cat(One(n), b))) = Cat(Cat(c, a), Cat(One(n), b))
    BY CatIs
  <2>3. Cat(b, c) \in Lists /\ Cat(c, a) \in Lists
    BY CatIs
  <2> QED
    BY <1>1, <1>2, <2>1, <2>2, <2>3
<1>4. ASSUME NEW a \in Lists, NEW n \in Nodes, NEW b \in Lists, NEW y \in Nodes, NEW c \in Lists
      PROVE  Mid(Mid(a, n, b), y, c) = Mid(a, n, Mid(b, y, c))
  <2> DEFINE t == Cat(One(y), c)
  <2>1. t \in Lists
    BY CatIs
  <2>2. Mid(b, y, c) = Cat(b, t) /\ Mid(Mid(a, n, b), y, c) = Cat(Mid(a, n, b), t)
    BY <1>2
  <2> HIDE DEF t
  <2> QED
    BY <1>3, <2>1, <2>2
<1> QED
  BY <1>1, <1>2, <1>3, <1>4

\* A list in front of a node in the middle.
LEMMA MidCat ==
  ASSUME NEW a \in Lists, NEW n \in Nodes, NEW b \in Lists
  PROVE  Mid(a, n, b) \in Lists /\ Mid(a, n, b) = Cat(Cat(a, One(n)), b) /\ Mid(a, n, b) = Cat(a, Cat(One(n), b))
  BY MidIs

\* The nodes of a concatenation.
LEMMA RangeCat ==
  ASSUME NEW a \in Lists, NEW b \in Lists
  PROVE  Range(Cat(a, b)) = Range(a) \cup Range(b)
  BY RangeConcatenation DEF Cat, Lists

\* The list of one node.
LEMMA RangeOne ==
  ASSUME NEW n \in Nodes
  PROVE  Range(One(n)) = {n} /\ Range(Empty) = {}
<1>1. /\ One(n) \in Seq(Nodes) /\ Empty \in Seq(Nodes) /\ Len(One(n)) = 1 /\ Len(Empty) = 0
      /\ One(n)[1] = n
  BY CatIs DEF One, Empty, Lists
<1>2. \A x : x \in Range(One(n)) <=> \E i \in 1..1 : One(n)[i] = x
  BY <1>1, RangeIs
<1>3. \A x : x \in Range(Empty) <=> \E i \in 1..0 : Empty[i] = x
  BY <1>1, RangeIs
<1> QED
  BY <1>1, <1>2, <1>3

\* The nodes of a list with a node in its middle.
LEMMA RangeMid ==
  ASSUME NEW a \in Lists, NEW n \in Nodes, NEW b \in Lists
  PROVE  Range(Mid(a, n, b)) = Range(a) \cup {n} \cup Range(b)
<1>1. One(n) \in Lists /\ Cat(One(n), b) \in Lists /\ Mid(a, n, b) = Cat(a, Cat(One(n), b))
  BY CatIs, MidIs
<1>2. Range(Cat(One(n), b)) = {n} \cup Range(b)
  BY <1>1, RangeCat, RangeOne
<1>3. Range(Mid(a, n, b)) = Range(a) \cup Range(Cat(One(n), b))
  BY <1>1, RangeCat
<1> QED
  BY <1>1, <1>2, <1>3

\* A list with a node in it has that node in the middle.
LEMMA SplitList ==
  ASSUME NEW q \in Lists, NEW n \in Range(q)
  PROVE  n \in Nodes /\ \E a \in Lists, b \in Lists : q = Mid(a, n, b)
  BY SplitAt DEF Lists, Mid

\* The same of lists.
LEMMA OnceCat ==
  ASSUME NEW a \in Lists, NEW b \in Lists, Once(Cat(a, b))
  PROVE  Once(a) /\ Once(b) /\ Range(a) \cap Range(b) = {}
  BY OnceConcat DEF Cat, Lists

\* n does not occur in a or b.
LEMMA OnceMid ==
  ASSUME NEW a \in Lists, NEW n \in Nodes, NEW b \in Lists, Once(Mid(a, n, b))
  PROVE  /\ Once(a) /\ Once(b) /\ n \notin Range(a) /\ n \notin Range(b)
         /\ Range(a) \cap Range(b) = {}
<1> DEFINE t == Cat(a, One(n))
<1>1. One(n) \in Lists /\ t \in Lists /\ Mid(a, n, b) = Cat(t, b)
  BY CatIs, MidIs
<1>2. Range(t) = Range(a) \cup {n}
  BY <1>1, RangeCat, RangeOne
<1>3. Once(a) /\ Once(t) => Range(a) \cap {n} = {}
  BY <1>1, OnceCat, RangeOne
<1>4. Once(t) => Once(a)
  BY <1>1, OnceCat
<1> HIDE DEF t
<1>5. Once(t) /\ Once(b) /\ Range(t) \cap Range(b) = {}
  BY <1>1, OnceCat
<1> QED
  BY <1>2, <1>3, <1>4, <1>5

\* What stands before and behind n.
Spot(q, n) == CHOOSE i \in DOMAIN q : q[i] = n
Before(q, n) == SubSeq(q, 1, Spot(q, n) - 1)
Behind(q, n) == SubSeq(q, Spot(q, n) + 1, Len(q))

\* What is before and behind a node that is in a list once.
LEMMA SplitIs ==
  ASSUME NEW a \in Lists, NEW b \in Lists, NEW n \in Nodes, n \notin Range(a), n \notin Range(b)
  PROVE  /\ Before(Mid(a, n, b), n) = a /\ Behind(Mid(a, n, b), n) = b
         /\ Len(a) \in Nat /\ Len(b) \in Nat /\ Len(Mid(a, n, b)) = Len(a) + 1 + Len(b)
         /\ Spot(Mid(a, n, b), n) = Len(a) + 1
         /\ \A i \in 1..Len(a) : Mid(a, n, b)[i] = a[i]
         /\ \A i \in 1..Len(b) : Mid(a, n, b)[Len(a) + 1 + i] = b[i]
<1> DEFINE w == a \o << n >>
           q == w \o b
           k == Len(a) + 1
<1>0. a \in Seq(Nodes) /\ b \in Seq(Nodes) /\ Mid(a, n, b) = q
  BY DEF Lists, Mid
<1>1. << n >> \in Seq(Nodes) /\ w \in Seq(Nodes) /\ q \in Seq(Nodes)
  BY <1>0, Concats
<1>2. Len(a) \in Nat /\ Len(b) \in Nat /\ Len(<< n >>) = 1 /\ << n >>[1] = n
  BY <1>0, LenProperties
<1>3. Len(w) = k /\ w[k] = n /\ \A i \in 1..Len(a) : w[i] = a[i]
  BY <1>0, <1>1, <1>2, ConcatProperties
<1>4. /\ Len(q) = k + Len(b) /\ q[k] = n
      /\ \A i \in 1..Len(a) : q[i] = a[i]
      /\ \A i \in (k + 1)..Len(q) : q[i] = b[i - k]
  <2> HIDE DEF w
  <2>2. /\ Len(w \o b) = Len(w) + Len(b)
        /\ \A i \in 1..(Len(w) + Len(b)) : (w \o b)[i] = IF i <= Len(w) THEN w[i] ELSE b[i - Len(w)]
    BY <1>0, <1>1, ConcatProperties
  <2> DEFINE x == w \o b
  <2>3. x = q
    OBVIOUS
  <2>4. /\ Len(x) = Len(w) + Len(b)
        /\ \A i \in 1..(Len(w) + Len(b)) : x[i] = IF i <= Len(w) THEN w[i] ELSE b[i - Len(w)]
    BY <2>2
  <2> HIDE DEF q, x
  <2> QED
    BY <1>2, <1>3, <2>3, <2>4
<1> HIDE DEF q, w
<1>5. DOMAIN q = 1..Len(q)
  BY <1>1, LenProperties
<1>6. \A i \in 1..Len(q) : q[i] = n => i = k
  <2> SUFFICES ASSUME NEW i \in 1..Len(q), q[i] = n, i # k PROVE FALSE
    OBVIOUS
  <2>1. CASE i <= Len(a)
    BY <1>0, <1>2, <1>4, <2>1, RangeIs
  <2>2. CASE i > k
    BY <1>0, <1>2, <1>4, <2>2, RangeIs
  <2> QED
    BY <1>2, <2>1, <2>2
<1>7. Spot(q, n) = k
  <2>1. k \in 1..Len(q)
    BY <1>2, <1>4
  <2> QED
    BY <1>4, <1>5, <1>6, <2>1 DEF Spot
<1>8. SubSeq(q, 1, k - 1) = a /\ SubSeq(q, k + 1, Len(q)) = b
  <2>1. \A i \in 1..Len(q) : q[i] \in Nodes
    BY <1>1, ElementOfSeq
  <2>2. /\ SubSeq(q, 1, k - 1) \in Seq(Nodes) /\ Len(SubSeq(q, 1, k - 1)) = k - 1
        /\ \A i \in 1..(k - 1) : SubSeq(q, 1, k - 1)[i] = q[i]
    BY <1>2, <1>4, <2>1, SubSeqProperties
  <2>3. /\ SubSeq(q, k + 1, Len(q)) \in Seq(Nodes) /\ Len(SubSeq(q, k + 1, Len(q))) = Len(b)
        /\ \A i \in 1..Len(b) : SubSeq(q, k + 1, Len(q))[i] = q[k + i]
    BY <1>2, <1>4, <2>1, SubSeqProperties
  <2>4. SubSeq(q, 1, k - 1) = a
    BY <1>0, <1>2, <1>4, <2>2, SeqEqual
  <2>5. SubSeq(q, k + 1, Len(q)) = b
    <3>1. \A i \in 1..Len(b) : q[k + i] = b[i]
      BY <1>2, <1>4
    <3> QED
      BY <1>0, <2>3, <3>1, SeqEqual
  <2> QED
    BY <2>4, <2>5
<1>9. \A i \in 1..Len(b) : q[k + i] = b[i]
  BY <1>2, <1>4
<1>10. Before(q, n) = a /\ Behind(q, n) = b
  BY <1>7, <1>8 DEF Before, Behind
<1>11. Len(q) = Len(a) + 1 + Len(b)
  BY <1>2, <1>4
<1> QED
  BY <1>0, <1>2, <1>4, <1>7, <1>9, <1>10, <1>11

\* q with g in the place of n.
Put(q, n, g) == IF n \in Range(q) THEN Cat(Cat(Before(q, n), g), Behind(q, n)) ELSE q

\* Nothing is put in the place of a node that is not there.
LEMMA PutOut ==
  ASSUME NEW q, NEW n, n \notin Range(q), NEW g
  PROVE  Put(q, n, g) = q
  BY DEF Put

\* What is put in the place of the node in the middle.
LEMMA PutMid ==
  ASSUME NEW a \in Lists, NEW b \in Lists, NEW n \in Nodes, Once(Mid(a, n, b)), NEW g
  PROVE  Put(Mid(a, n, b), n, g) = Cat(Cat(a, g), b)
<1>1. n \notin Range(a) /\ n \notin Range(b)
  BY OnceMid
<1>2. n \in Range(Mid(a, n, b))
  BY RangeMid
<1> QED
  BY <1>1, <1>2, SplitIs DEF Put

\* What is put in the place of another node is put into the part it is in.
LEMMA PutSum ==
  ASSUME NEW a \in Lists, NEW b \in Lists, NEW y \in Nodes, Once(Mid(a, y, b)), NEW n, NEW g \in Lists
  PROVE  /\ Put(Mid(a, y, b), n, g) = IF y = n THEN Cat(Cat(a, g), b) ELSE Mid(Put(a, n, g), y, Put(b, n, g))
         /\ Put(a, n, g) \in Lists /\ Put(b, n, g) \in Lists
<1>1. /\ Once(a) /\ Once(b) /\ y \notin Range(a) /\ y \notin Range(b) /\ Range(a) \cap Range(b) = {}
      /\ Range(Mid(a, y, b)) = Range(a) \cup {y} \cup Range(b)
  BY OnceMid, RangeMid
<1>2. CASE n \in Range(a)
  <2>1. PICK c \in Lists, d \in Lists : n \in Nodes /\ a = Mid(c, n, d)
    BY <1>2, SplitList
  <2>2. Put(a, n, g) = Cat(Cat(c, g), d)
    BY <1>1, <2>1, PutMid
  <2>3. Mid(a, y, b) = Mid(c, n, Mid(d, y, b)) /\ Mid(d, y, b) \in Lists
    BY <2>1, MidIs
  <2>4. Put(Mid(a, y, b), n, g) = Cat(Cat(c, g), Mid(d, y, b))
    BY <2>1, <2>3, PutMid
  <2>5. Cat(Cat(c, g), Mid(d, y, b)) = Mid(Cat(Cat(c, g), d), y, b) /\ Cat(Cat(c, g), d) \in Lists
    <3> DEFINE e == Cat(c, g)
    <3>1. e \in Lists /\ Cat(e, d) \in Lists
      BY CatIs
    <3> HIDE DEF e
    <3>2. Cat(e, Mid(d, y, b)) = Mid(Cat(e, d), y, b)
      BY <3>1, MidIs
    <3> QED
      BY <3>1, <3>2 DEF e
  <2>6. Put(b, n, g) = b /\ y # n
    BY <1>1, <1>2, PutOut
  <2> QED
    BY <2>2, <2>4, <2>5, <2>6
<1>3. CASE n \in Range(b)
  <2>1. PICK c \in Lists, d \in Lists : n \in Nodes /\ b = Mid(c, n, d)
    BY <1>3, SplitList
  <2>2. Put(b, n, g) = Cat(Cat(c, g), d)
    BY <1>1, <2>1, PutMid
  <2>3. Mid(a, y, b) = Mid(Mid(a, y, c), n, d) /\ Mid(a, y, c) \in Lists
    BY <2>1, MidIs
  <2>4. Put(Mid(a, y, b), n, g) = Cat(Cat(Mid(a, y, c), g), d)
    BY <2>1, <2>3, PutMid
  <2>5. Cat(Cat(Mid(a, y, c), g), d) = Mid(a, y, Cat(Cat(c, g), d)) /\ Cat(Cat(c, g), d) \in Lists
    <3>1. Cat(c, g) \in Lists /\ Cat(Cat(c, g), d) \in Lists /\ Cat(Mid(a, y, c), g) = Mid(a, y, Cat(c, g))
      BY CatIs, MidIs
    <3>2. Cat(Mid(a, y, Cat(c, g)), d) = Mid(a, y, Cat(Cat(c, g), d))
      BY <3>1, MidIs
    <3> QED
      BY <3>1, <3>2
  <2>6. Put(a, n, g) = a /\ y # n
    BY <1>1, <1>3, PutOut
  <2> QED
    BY <2>2, <2>4, <2>5, <2>6
<1>4. CASE n \notin Range(a) /\ n \notin Range(b)
  <2>1. Put(a, n, g) = a /\ Put(b, n, g) = b
    BY <1>4, PutOut
  <2>2. CASE y = n
    BY <2>1, <2>2, PutMid
  <2>3. CASE y # n
    BY <1>1, <1>4, <2>1, <2>3, PutOut
  <2> QED
    BY <2>1, <2>2, <2>3
<1> QED
  BY <1>2, <1>3, <1>4

-----------------------------------------------------------------------------
(* The nodes of a tree in order, which no rotation changes *)

\* The nodes in order, read from side d.
Join(d, a, n, b) == IF d = "l" THEN Mid(a, n, b) ELSE Mid(b, n, a)

\* A node and the lists on its sides make a list.
LEMMA JoinIn ==
  ASSUME NEW a \in Lists, NEW b \in Lists, NEW n \in Nodes, NEW d
  PROVE  Join(d, a, n, b) \in Lists
  BY MidIs DEF Join

\* A rotation in lists: the nodes stay in their order.
LEMMA JoinTurns ==
  ASSUME NEW a \in Lists, NEW b \in Lists, NEW c \in Lists, NEW s \in Nodes,
         NEW p \in Nodes, NEW d
  PROVE  Join(d, Join(d, a, s, b), p, c) = Join(d, a, s, Join(d, b, p, c))
<1>1. CASE d = "l"
  BY <1>1, MidIs DEF Join
<1>2. CASE d # "l"
  BY <1>2, MidIs DEF Join
<1> QED
  BY <1>1, <1>2

\* f gives every node the nodes of its subtree in order.
Ordered(T, M, f) ==
  /\ f \in [Ptr -> Lists] /\ f[Nil] = Empty
  /\ \A n \in M : f[n] = Mid(f[T.kid[n]["l"]], n, f[T.kid[n]["r"]])

\* The nodes of T in order are q.
Row(T, M, q) == \E f : Ordered(T, M, f) /\ f[T.root] = q

\* U holds the nodes of T in the same order.
SameOrder(T, M, U, N) ==
  \A q : Row(T, M, q) => Row(U, N, q)

\* The list of a node is its kids' lists with the node between them.
LEMMA OrderedIs ==
  ASSUME NEW T \in Tree, NEW M \in SUBSET Nodes, NEW f, Ordered(T, M, f), NEW n \in M, NEW d \in Sides
  PROVE  /\ f[n] = Join(d, f[T.kid[n][d]], n, f[T.kid[n][Opp(d)]])
         /\ f[n] \in Lists /\ f[T.kid[n][d]] \in Lists
<1>1. n \in Ptr /\ T.kid[n][d] \in Ptr
  BY DEF Tree, Ptr
<1>2. f \in [Ptr -> Lists] /\ f[n] = Mid(f[T.kid[n]["l"]], n, f[T.kid[n]["r"]])
  BY DEF Ordered
<1>3. (d = "l" /\ Opp(d) = "r") \/ (d # "l" /\ d = "r" /\ Opp(d) = "l")
  BY DEF Sides, Opp
<1> QED
  BY <1>1, <1>2, <1>3 DEF Join

\* A function that joins the lists of the kids gives each node its list.
LEMMA IsOrdered ==
  ASSUME NEW T \in Tree, NEW M \in SUBSET Nodes, NEW k \in [Ptr -> Lists], k[Nil] = Empty,
         \A n \in M : \E d \in Sides : k[n] = Join(d, k[T.kid[n][d]], n, k[T.kid[n][Opp(d)]])
  PROVE  Ordered(T, M, k)
<1>1. ASSUME NEW n \in M PROVE k[n] = Mid(k[T.kid[n]["l"]], n, k[T.kid[n]["r"]])
  <2>1. PICK d \in Sides : k[n] = Join(d, k[T.kid[n][d]], n, k[T.kid[n][Opp(d)]])
    OBVIOUS
  <2>2. (d = "l" /\ Opp(d) = "r") \/ (d # "l" /\ d = "r" /\ Opp(d) = "l")
    BY DEF Sides, Opp
  <2> QED
    BY <2>1, <2>2 DEF Join
<1> QED
  BY <1>1 DEF Ordered

\* Colors do not matter to the order.
LEMMA SameLinksOrder ==
  ASSUME NEW T, NEW U, NEW M, U.root = T.root, U.kid = T.kid
  PROVE  SameOrder(T, M, U, M)
  BY DEF SameOrder, Row, Ordered

\* A rotation leaves the nodes in their order.
LEMMA TurnedOrder ==
  ASSUME NEW T \in Tree, NEW M \in SUBSET Nodes, NEW p, NEW s, NEW d, Pivot(T, M, p, s, d),
         NEW U \in Tree, Turned(T, U, p, s, d)
  PROVE  SameOrder(T, M, U, M)
<1> SUFFICES ASSUME NEW f, Ordered(T, M, f) PROVE \E k : Ordered(U, M, k) /\ k[U.root] = f[T.root]
  BY DEF SameOrder, Row
<1> DEFINE a == T.kid[s][d]
           t == T.kid[s][Opp(d)]
           c == T.kid[p][Opp(d)]
           x == Join(d, f[t], p, f[c])
           k == [y \in Ptr |-> IF y = p THEN x ELSE IF y = s THEN f[p] ELSE f[y]]
<1>1. /\ Linked(T, M) /\ p \in M /\ d \in Sides /\ s \in M /\ T.kid[p][d] = s /\ T.parent[p] # s
      /\ Opp(d) \in Sides /\ Opp(d) # d /\ Opp(Opp(d)) = d
  BY SidesAre DEF Pivot
<1>2. /\ p \in Nodes /\ s \in Nodes /\ p # Nil /\ s # Nil /\ p # s /\ T.parent[s] = p
      /\ t # p /\ t # s /\ p \in Ptr /\ s \in Ptr
  BY PivotIs DEF Ptr
<1>3. /\ \A y \in M, e \in Sides : y # p /\ y # s =>
           U.kid[y][e] = IF T.kid[y][e] = p THEN s ELSE T.kid[y][e]
      /\ U.kid[p][d] = t /\ U.kid[p][Opp(d)] = c /\ U.kid[s][Opp(d)] = p /\ U.kid[s][d] = a
  BY <1>1, TurnedLinked
<1>4. U.root = IF T.parent[p] = Nil THEN s ELSE T.root
  BY DEF Turned
<1>5. a # p /\ a # s /\ c # p /\ c # s
  <2>1. a # Nil => T.parent[a] = s
    BY <1>1, LinkedIs
  <2>2. c # Nil => T.parent[c] = p
    BY <1>1, LinkedIs
  <2>3. T.kid[p][d] # c
    BY <1>1, <1>2, LinkedIs
  <2> HIDE DEF a, c
  <2> QED
    BY <1>1, <1>2, <2>1, <2>2, <2>3, LinkedIs
<1>6. f \in [Ptr -> Lists] /\ f[Nil] = Empty
  BY DEF Ordered
<1>7. /\ f[p] = Join(d, f[s], p, f[c]) /\ f[s] = Join(d, f[a], s, f[t])
      /\ f[p] \in Lists /\ f[s] \in Lists /\ f[a] \in Lists /\ f[t] \in Lists
      /\ f[c] \in Lists
  <2>1. \A y \in M, e \in Sides : /\ f[y] = Join(e, f[T.kid[y][e]], y, f[T.kid[y][Opp(e)]])
                                  /\ f[y] \in Lists /\ f[T.kid[y][e]] \in Lists
    BY <1>1, OrderedIs
  <2> QED
    BY <1>1, <2>1
<1> HIDE DEF a, t, c
<1>8. x \in Lists /\ f[p] = Join(d, f[a], s, x)
  <2>1. x \in Lists
    BY <1>2, <1>7, JoinIn
  <2>2. Join(d, Join(d, f[a], s, f[t]), p, f[c]) = Join(d, f[a], s, x)
    BY <1>2, <1>7, JoinTurns
  <2> QED
    BY <1>7, <2>1, <2>2
<1> HIDE DEF x
<1>9. /\ k \in [Ptr -> Lists] /\ k[Nil] = Empty /\ k[p] = x /\ k[s] = f[p]
      /\ \A y \in Ptr : y # p /\ y # s => k[y] = f[y]
  <2>1. \A y \in Ptr : f[y] \in Lists
    BY <1>6
  <2>2. Nil \in Ptr
    BY DEF Ptr
  <2> QED
    BY <1>2, <1>6, <1>7, <1>8, <2>1, <2>2
<1> HIDE DEF k
<1>10. /\ k[a] = f[a] /\ k[t] = f[t] /\ k[c] = f[c]
  <2>1. a \in Ptr /\ t \in Ptr /\ c \in Ptr
    BY <1>1, <1>2 DEF Tree, a, t, c
  <2> QED
    BY <1>2, <1>5, <1>9, <2>1
<1>11. ASSUME NEW y \in M PROVE \E e \in Sides : k[y] = Join(e, k[U.kid[y][e]], y, k[U.kid[y][Opp(e)]])
  <2>1. CASE y = p
    BY <1>1, <1>3, <1>9, <1>10, <2>1 DEF x
  <2>2. CASE y = s
    BY <1>1, <1>3, <1>8, <1>9, <1>10, <2>2
  <2>3. CASE y # p /\ y # s
    <3>1. ASSUME NEW e \in Sides PROVE k[U.kid[y][e]] = f[T.kid[y][e]]
      <4>1. T.kid[y][e] # s
        BY <1>1, <1>2, <2>3, LinkedIs
      <4>2. T.kid[y][e] \in Ptr
        BY DEF Tree
      <4> QED
        BY <1>3, <1>9, <2>3, <4>1, <4>2
    <3>2. f[y] = Join(d, f[T.kid[y][d]], y, f[T.kid[y][Opp(d)]])
      BY <1>1, OrderedIs
    <3>3. k[y] = f[y]
      BY <1>9, <2>3 DEF Ptr
    <3> QED
      BY <1>1, <3>1, <3>2, <3>3
  <2> QED
    BY <2>1, <2>2, <2>3
<1>12. Ordered(U, M, k)
  BY <1>9, <1>11, IsOrdered
<1>13. k[U.root] = f[T.root]
  <2>1. CASE T.parent[p] = Nil
    BY <1>1, <1>4, <1>9, <2>1, LinkedIs
  <2>2. CASE T.parent[p] # Nil
    <3>1. T.root \in Ptr /\ T.root # p /\ T.root # s
      BY <1>1, <1>2, <2>2 DEF Linked, Tree
    <3> QED
      BY <1>4, <1>9, <2>2, <3>1
  <2> QED
    BY <2>1, <2>2
<1> QED
  BY <1>12, <1>13

\* A double rotation leaves the nodes in their order.
LEMMA DoubledOrder ==
  ASSUME NEW T \in Tree, NEW M \in SUBSET Nodes, NEW g, NEW p, NEW n, NEW d, Corner(T, M, g, p, n, d),
         NEW U \in Tree, Doubled(T, U, g, p, n, d)
  PROVE  SameOrder(T, M, U, M)
<1> SUFFICES ASSUME NEW f, Ordered(T, M, f) PROVE \E k : Ordered(U, M, k) /\ k[U.root] = f[T.root]
  BY DEF SameOrder, Row
<1> DEFINE a == T.kid[n][d]
           b == T.kid[n][Opp(d)]
           c == T.kid[p][d]
           r == T.kid[g][Opp(d)]
           x == Join(d, f[c], p, f[a])
           z == Join(d, f[b], g, f[r])
           k == [y \in Ptr |-> IF y = n THEN f[g] ELSE IF y = p THEN x ELSE IF y = g THEN z ELSE f[y]]
<1>1. /\ Linked(T, M) /\ g \in M /\ d \in Sides /\ p \in M /\ T.kid[g][d] = p
      /\ n \in M /\ T.kid[p][Opp(d)] = n /\ T.parent[g] # p /\ T.parent[g] # n
      /\ Opp(d) \in Sides /\ Opp(d) # d /\ Opp(Opp(d)) = d
  BY SidesAre DEF Corner
<1>2. /\ g \in Nodes /\ p \in Nodes /\ n \in Nodes /\ g \in Ptr /\ p \in Ptr /\ n \in Ptr
      /\ T.parent[p] = g /\ T.parent[n] = p /\ g # p /\ p # n /\ n # g
      /\ g # Nil /\ p # Nil /\ n # Nil /\ a \notin {n, p, g} /\ b \notin {n, p, g}
  <2> HIDE DEF a, b
  <2>1. Cornered(T, M, g, p, n, d, a, b)
    BY CornerIs DEF a, b
  <2> QED
    BY <2>1 DEF Cornered
<1>3. /\ \A y \in M, e \in Sides : y \notin {g, p, n} =>
           U.kid[y][e] = IF T.kid[y][e] = g THEN n ELSE T.kid[y][e]
      /\ U.kid[n][d] = p /\ U.kid[n][Opp(d)] = g /\ U.kid[p][d] = c /\ U.kid[p][Opp(d)] = a
      /\ U.kid[g][d] = b /\ U.kid[g][Opp(d)] = r
  BY <1>1, DoubledLinked, SMTT(30)
<1>4. U.root = IF T.parent[g] = Nil THEN n ELSE T.root
  BY DEF Doubled
<1>5. c \notin {n, p, g} /\ r \notin {n, p, g}
  <2>1. c # Nil => T.parent[c] = p
    BY <1>1, LinkedIs
  <2>2. r # Nil => T.parent[r] = g
    BY <1>1, LinkedIs
  <2>3. T.kid[g][d] # r /\ T.kid[p][Opp(d)] # c
    BY <1>1, <1>2, LinkedIs
  <2> HIDE DEF c, r
  <2> QED
    BY <1>1, <1>2, <2>1, <2>2, <2>3, LinkedIs
<1>6. f \in [Ptr -> Lists] /\ f[Nil] = Empty
  BY DEF Ordered
<1>7. /\ f[g] = Join(d, f[p], g, f[r]) /\ f[p] = Join(d, f[c], p, f[n]) /\ f[n] = Join(d, f[a], n, f[b])
      /\ f[g] \in Lists /\ f[a] \in Lists /\ f[b] \in Lists /\ f[c] \in Lists
      /\ f[r] \in Lists
  <2>1. \A y \in M, e \in Sides : /\ f[y] = Join(e, f[T.kid[y][e]], y, f[T.kid[y][Opp(e)]])
                                  /\ f[y] \in Lists /\ f[T.kid[y][e]] \in Lists
    BY <1>1, OrderedIs
  <2> QED
    BY <1>1, <2>1
<1>8. a \in Ptr /\ b \in Ptr /\ c \in Ptr /\ r \in Ptr
  BY <1>1, <1>2 DEF Tree
<1> HIDE DEF a, b, c, r
<1>9. x \in Lists /\ z \in Lists /\ f[g] = Join(d, x, n, z)
  <2>1. x \in Lists /\ z \in Lists
    BY <1>2, <1>7, JoinIn
  <2>2. f[p] = Join(d, x, n, f[b])
    BY <1>2, <1>7, JoinTurns
  <2>3. Join(d, Join(d, x, n, f[b]), g, f[r]) = Join(d, x, n, z)
    <3> HIDE DEF x
    <3> QED
      BY <1>2, <1>7, <2>1, JoinTurns
  <2> QED
    BY <1>7, <2>1, <2>2, <2>3
<1> HIDE DEF x, z
<1>10. /\ k \in [Ptr -> Lists] /\ k[Nil] = Empty /\ k[n] = f[g] /\ k[p] = x /\ k[g] = z
       /\ \A y \in Ptr : y \notin {n, p, g} => k[y] = f[y]
  <2>1. \A y \in Ptr : f[y] \in Lists
    BY <1>6
  <2>2. Nil \in Ptr
    BY DEF Ptr
  <2> QED
    BY <1>2, <1>6, <1>7, <1>9, <2>1, <2>2
<1> HIDE DEF k
<1>11. k[a] = f[a] /\ k[b] = f[b] /\ k[c] = f[c] /\ k[r] = f[r]
  BY <1>2, <1>5, <1>8, <1>10
<1>12. ASSUME NEW y \in M PROVE \E e \in Sides : k[y] = Join(e, k[U.kid[y][e]], y, k[U.kid[y][Opp(e)]])
  <2>1. CASE y = p
    BY <1>1, <1>3, <1>10, <1>11, <2>1 DEF x
  <2>2. CASE y = g
    BY <1>1, <1>3, <1>10, <1>11, <2>2 DEF z
  <2>3. CASE y = n
    BY <1>1, <1>3, <1>9, <1>10, <2>3
  <2>4. CASE y \notin {n, p, g}
    <3>1. ASSUME NEW e \in Sides PROVE k[U.kid[y][e]] = f[T.kid[y][e]]
      <4>1. T.kid[y][e] # p /\ T.kid[y][e] # n
        BY <1>1, <1>2, <2>4, LinkedIs
      <4>2. T.kid[y][e] \in Ptr
        BY DEF Tree
      <4> QED
        BY <1>3, <1>10, <2>4, <4>1, <4>2
    <3>2. f[y] = Join(d, f[T.kid[y][d]], y, f[T.kid[y][Opp(d)]])
      BY <1>1, OrderedIs
    <3>3. k[y] = f[y]
      BY <1>10, <2>4 DEF Ptr
    <3> QED
      BY <1>1, <3>1, <3>2, <3>3
  <2> QED
    BY <2>1, <2>2, <2>3, <2>4
<1>13. Ordered(U, M, k)
  BY <1>10, <1>12, IsOrdered
<1>14. k[U.root] = f[T.root]
  <2>1. CASE T.parent[g] = Nil
    BY <1>1, <1>4, <1>10, <2>1, LinkedIs
  <2>2. CASE T.parent[g] # Nil
    <3>1. T.root \in Ptr /\ T.root \notin {n, p, g}
      BY <1>1, <1>2, <2>2 DEF Linked, Tree
    <3> QED
      BY <1>4, <1>10, <2>2, <3>1
  <2> QED
    BY <2>1, <2>2
<1> QED
  BY <1>13, <1>14

-----------------------------------------------------------------------------
(* The place of a node, and of what is below it, in the list *)

\* A set of nodes has one whose parent is not in it.
LEMMA NoParentIn ==
  ASSUME NEW T, NEW M, NEW o, NEW z, Sound(T, M, o, z), NEW B \in SUBSET M, B # {}
  PROVE  \E x \in B : T.parent[x] \notin B
<1>1. PICK h : Even(T, M, h, o)
  BY DEF Sound
<1>2. T \in Tree /\ M \in SUBSET Nodes /\ Linked(T, M) /\ RedOnly(T, M, z) /\ Nil \notin M /\ IsFiniteSet(M)
  BY NodesAssumption, FS_Subset DEF Sound
<1> DEFINE r == Rank(T, h, z)
           Above(x) == {y \in M : r[x] < r[y]}
           c == [x \in M |-> Cardinality(Above(x))]
<1>3. \A x \in M : r[x] \in Nat
  <2> TAKE x \in M
  <2>1. x \in Ptr /\ h \in [Ptr -> Nat]
    BY <1>1, <1>2 DEF Ptr, Even
  <2> QED
    BY <2>1 DEF Rank
<1>4. ASSUME NEW x \in M, T.parent[x] \in M
      PROVE  r[x] < r[T.parent[x]]
  <2>1. PICK e \in Sides : T.kid[T.parent[x]][e] = x
    BY <1>2, <1>4, LinkedIs
  <2>2. T.kid[T.parent[x]][e] # Nil
    BY <1>2, <2>1
  <2> QED
    BY <1>1, <1>2, <1>4, <2>1, <2>2, RankDown
<1> HIDE DEF r
<1>5. \A x \in M : IsFiniteSet(Above(x)) /\ Cardinality(Above(x)) \in Nat
  <2> TAKE x \in M
  <2>1. Above(x) \in SUBSET M
    OBVIOUS
  <2> HIDE DEF Above
  <2> QED
    BY <1>2, <2>1, FS_Subset, FS_CardinalityType
<1>6. ASSUME NEW x \in M, T.parent[x] \in M
      PROVE  Cardinality(Above(T.parent[x])) < Cardinality(Above(x))
  <2> DEFINE p == T.parent[x]
  <2>1. p \in M /\ r[x] < r[p] /\ r[x] \in Nat /\ r[p] \in Nat
    BY <1>3, <1>4, <1>6
  <2> HIDE DEF p
  <2>2. Above(p) \in SUBSET Above(x) /\ p \in Above(x) /\ p \notin Above(p)
    BY <1>3, <2>1
  <2> HIDE DEF Above
  <2>3. Cardinality(Above(p)) <= Cardinality(Above(x)) /\ Cardinality(Above(x)) # Cardinality(Above(p))
    BY <1>5, <2>2, FS_Subset
  <2> QED
    BY <1>5, <2>1, <2>3 DEF p
<1> HIDE DEF Above
<1>7. \A x \in B : c[x] \in Nat
  BY <1>5
<1>8. PICK x \in B : \A y \in B : ~(c[y] < c[x])
  <2> HIDE DEF c
  <2> QED
    BY <1>7, Lowest
<1>9. T.parent[x] \in B => FALSE
  BY <1>6, <1>8
<1> QED
  BY <1>9

\* w is a part of q.
Part(q, w) == \E u \in Lists, v \in Lists : q = Cat(Cat(u, w), v)

\* The nodes of a part of a list.
LEMMA PartIs ==
  ASSUME NEW q \in Lists, NEW w \in Lists, Part(q, w)
  PROVE  Range(w) \subseteq Range(q) /\ (Once(q) => Once(w))
<1>1. PICK u \in Lists, v \in Lists : q = Cat(Cat(u, w), v)
  BY DEF Part
<1> DEFINE t == Cat(u, w)
<1>2. t \in Lists /\ Range(t) = Range(u) \cup Range(w)
  BY CatIs, RangeCat
<1>3. Once(t) => Once(w)
  BY OnceCat
<1> HIDE DEF t
<1>4. Range(Cat(t, v)) = Range(t) \cup Range(v)
  BY <1>2, RangeCat
<1>5. Once(Cat(t, v)) => Once(t)
  BY <1>2, OnceCat
<1> QED
  BY <1>1, <1>2, <1>3, <1>4, <1>5 DEF t

\* A part of a part is a part.
LEMMA PartMid ==
  ASSUME NEW q \in Lists, NEW a \in Lists, NEW n \in Nodes, NEW b \in Lists, Part(q, Mid(a, n, b))
  PROVE  Part(q, a) /\ Part(q, b)
<1>1. PICK u \in Lists, v \in Lists : q = Cat(Cat(u, Mid(a, n, b)), v)
  BY DEF Part
<1> DEFINE t == Cat(One(n), b)
           w == Cat(a, One(n))
<1>2. t \in Lists /\ w \in Lists /\ Mid(a, n, b) = Cat(a, t) /\ Mid(a, n, b) = Cat(w, b)
  BY CatIs, MidIs
<1> HIDE DEF t, w
<1>3. /\ Cat(t, v) \in Lists /\ Cat(u, w) \in Lists
      /\ Cat(u, Cat(a, t)) = Cat(Cat(u, a), t) /\ Cat(u, Cat(w, b)) = Cat(Cat(u, w), b)
  <2>1. Cat(t, v) \in Lists /\ Cat(u, w) \in Lists
    BY <1>2, CatIs
  <2>2. Cat(u, Cat(a, t)) = Cat(Cat(u, a), t)
    BY <1>2, CatTurns, ZenonT(60)
  <2>3. Cat(u, Cat(w, b)) = Cat(Cat(u, w), b)
    BY <1>2, CatTurns
  <2> QED
    BY <2>1, <2>2, <2>3
<1> DEFINE x == Cat(u, a)
<1>4. x \in Lists
  BY CatIs
<1> HIDE DEF x
<1>5. Cat(Cat(x, t), v) = Cat(x, Cat(t, v))
  BY <1>2, <1>4, CatIs
<1>6. q = Cat(Cat(u, a), Cat(t, v)) /\ q = Cat(Cat(Cat(u, w), b), v)
  BY <1>1, <1>2, <1>3, <1>5 DEF x
<1> QED
  BY <1>3, <1>6 DEF Part

\* A node, and its kids.
LEMMA OrderedAt ==
  ASSUME NEW T \in Tree, NEW M \in SUBSET Nodes, Linked(T, M), NEW f, Ordered(T, M, f), NEW n \in M
  PROVE  /\ f[n] = Mid(f[T.kid[n]["l"]], n, f[T.kid[n]["r"]])
         /\ f[n] \in Lists /\ \A e \in Sides : f[T.kid[n][e]] \in Lists /\ T.kid[n][e] \in M \cup {Nil}
         /\ f[T.kid[n]["l"]] \in Lists /\ f[T.kid[n]["r"]] \in Lists
         /\ n \in Nodes /\ n # Nil /\ "l" \in Sides /\ "r" \in Sides
<1>1. "l" \in Sides /\ "r" \in Sides /\ \A e \in Sides : T.kid[n][e] \in M \cup {Nil}
  BY LinkedIs DEF Sides
<1> QED
  BY <1>1, LinkedIs DEF Ordered, Ptr

\* The nodes below x stand together.
LEMMA Below ==
  ASSUME NEW T, NEW M, NEW o, NEW z, Sound(T, M, o, z), NEW f, Ordered(T, M, f), NEW x \in M
  PROVE  Part(f[T.root], f[x]) /\ f[T.root] \in Lists /\ f[x] \in Lists
<1>1. /\ T \in Tree /\ M \in SUBSET Nodes /\ Linked(T, M) /\ Nil \notin M
      /\ T.root \in M \cup {Nil} /\ f \in [Ptr -> Lists]
  BY NodesAssumption DEF Sound, Linked, Ordered
<1>2. f[T.root] \in Lists /\ f[x] \in Lists
  BY <1>1 DEF Ptr
<1> DEFINE B == {y \in M : ~Part(f[T.root], f[y])}
<1>3. ASSUME B # {} PROVE FALSE
  <2>1. PICK y \in B : T.parent[y] \notin B
    <3>1. B \in SUBSET M
      OBVIOUS
    <3> HIDE DEF B
    <3> QED
      BY <1>3, <3>1, NoParentIn
  <2>2. y \in M /\ ~Part(f[T.root], f[y]) /\ f[y] \in Lists
    BY <1>1, <2>1 DEF Ptr
  <2>3. CASE T.parent[y] = Nil
    <3>1. T.root = y
      BY <1>1, <2>2, <2>3, LinkedIs
    <3>2. f[y] = Cat(Cat(Empty, f[y]), Empty) /\ Empty \in Lists
      BY <2>2, CatIs
    <3>3. Part(f[y], f[y])
      BY <3>2 DEF Part
    <3> QED
      BY <2>2, <3>1, <3>3
  <2>4. CASE T.parent[y] # Nil
    <3> DEFINE p == T.parent[y]
    <3>1. p \in M
      BY <1>1, <2>2, <2>4, LinkedIs
    <3>2. PICK e \in Sides : T.kid[p][e] = y
      BY <1>1, <2>2, <2>4, LinkedIs
    <3> HIDE DEF p
    <3>3. Part(f[T.root], f[p])
      BY <2>1, <3>1 DEF p
    <3>4. /\ f[p] = Mid(f[T.kid[p]["l"]], p, f[T.kid[p]["r"]]) /\ p \in Nodes
          /\ f[T.kid[p]["l"]] \in Lists /\ f[T.kid[p]["r"]] \in Lists
      BY <1>1, <3>1, OrderedAt
    <3>5. Part(f[T.root], f[T.kid[p]["l"]]) /\ Part(f[T.root], f[T.kid[p]["r"]])
      BY <1>2, <3>3, <3>4, PartMid
    <3>6. e = "l" \/ e = "r"
      BY DEF Sides
    <3> QED
      BY <2>2, <3>2, <3>5, <3>6
  <2> QED
    BY <2>3, <2>4
<1> QED
  BY <1>2, <1>3

\* The list of every node is a part of the list of the root.
LEMMA OnceBelow ==
  ASSUME NEW T, NEW M, NEW o, NEW z, Sound(T, M, o, z), NEW f, Ordered(T, M, f), Once(f[T.root])
  PROVE  \A x \in M : Once(f[x]) /\ Range(f[x]) \subseteq Range(f[T.root])
<1> TAKE x \in M
<1>1. Part(f[T.root], f[x]) /\ f[T.root] \in Lists /\ f[x] \in Lists
  BY Below
<1> QED
  BY <1>1, PartIs

-----------------------------------------------------------------------------
(* A node that is taken out, renamed or added, in the list *)

\* A list with another put into it is a list.
LEMMA PutIn ==
  ASSUME NEW q \in Lists, Once(q), NEW n, NEW g \in Lists
  PROVE  Put(q, n, g) \in Lists
<1>1. CASE n \in Range(q)
  <2>1. PICK a \in Lists, b \in Lists : n \in Nodes /\ q = Mid(a, n, b)
    BY <1>1, SplitList
  <2>2. Put(q, n, g) = Cat(Cat(a, g), b)
    BY <2>1, PutMid
  <2> QED
    BY <2>2, CatIs
<1> QED
  BY <1>1, PutOut

\* The empty list.
LEMMA OnceEmpty ==
  Once(Empty) /\ Range(Empty) = {} /\ \A n, g : Put(Empty, n, g) = Empty
<1>1. Range(Empty) = {}
  <2>1. Empty \in Seq(Nodes) /\ Len(Empty) = 0
    BY DEF Empty
  <2>2. \A x : x \in Range(Empty) <=> \E i \in 1..0 : Empty[i] = x
    BY <2>1, RangeIs
  <2> QED
    BY <2>2
<1>2. Once(Empty)
  BY DEF Once, Empty
<1> QED
  BY <1>1, <1>2, PutOut

\* n gives its place to its only kid.
LEMMA SplicedOrder ==
  ASSUME NEW T \in Tree, NEW M \in SUBSET Nodes, Linked(T, M), NEW n \in M, NEW d \in Sides,
         NEW c \in Ptr, T.kid[n][d] = c, T.kid[n][Opp(d)] = Nil, NEW U, Spliced(T, U, M, n, c),
         NEW f, Ordered(T, M, f), \A x \in M : Once(f[x])
  PROVE  Row(U, M \ {n}, Put(f[T.root], n, Empty))
<1> DEFINE N == M \ {n}
           k == [y \in Ptr |-> IF y \in M \cup {Nil} THEN Put(f[y], n, Empty) ELSE Empty]
<1>1. /\ Nil \notin M /\ Empty \in Lists /\ N \in SUBSET Nodes /\ U \in Tree
      /\ f \in [Ptr -> Lists] /\ f[Nil] = Empty /\ \A y \in M \cup {Nil} : y \in Ptr /\ f[y] \in Lists
  BY NodesAssumption, CatIs DEF Ordered, Ptr, Spliced
<1>2. /\ \A x \in M, e \in Sides : U.kid[x][e] = IF T.kid[x][e] = n THEN c ELSE T.kid[x][e]
      /\ U.root = IF T.parent[n] = Nil THEN c ELSE T.root
  BY DEF Spliced
<1>3. /\ k \in [Ptr -> Lists] /\ k[Nil] = Empty
      /\ \A y \in M \cup {Nil} : k[y] = Put(f[y], n, Empty)
  <2>1. \A y \in M \cup {Nil} : Once(f[y])
    BY <1>1, OnceEmpty
  <2>2. \A y \in M \cup {Nil} : Put(f[y], n, Empty) \in Lists
    BY <1>1, <2>1, PutIn
  <2> QED
    BY <1>1, <2>2, OnceEmpty
<1> HIDE DEF k
<1>4. c \in M \cup {Nil} /\ k[c] = f[c] /\ k[n] = f[c]
  <2>1. c \in M \cup {Nil}
    BY LinkedIs
  <2>2. f[n] = Mid(f[c], n, Empty) \/ f[n] = Mid(Empty, n, f[c])
    <3>1. f[n] = Mid(f[T.kid[n]["l"]], n, f[T.kid[n]["r"]])
      BY OrderedAt
    <3> QED
      BY <1>1, <3>1 DEF Sides, Opp
  <2>3. f[c] \in Lists
    BY <1>1, <2>1
  <2>4. n \notin Range(f[c])
    BY <1>1, <2>2, <2>3, OnceMid
  <2>5. Put(f[n], n, Empty) = f[c]
    <3>1. CASE f[n] = Mid(f[c], n, Empty)
      <4>1. Put(f[n], n, Empty) = Cat(Cat(f[c], Empty), Empty)
        BY <1>1, <2>3, <3>1, PutMid
      <4> QED
        BY <2>3, <4>1, CatIs
    <3>2. CASE f[n] = Mid(Empty, n, f[c])
      <4>1. Put(f[n], n, Empty) = Cat(Cat(Empty, Empty), f[c])
        BY <1>1, <2>3, <3>2, PutMid
      <4> QED
        BY <1>1, <2>3, <4>1, CatIs
    <3> QED
      BY <2>2, <3>1, <3>2
  <2> QED
    BY <1>3, <2>1, <2>4, <2>5, PutOut
<1>5. ASSUME NEW y \in N PROVE \E e \in Sides : k[y] = Join(e, k[U.kid[y][e]], y, k[U.kid[y][Opp(e)]])
  <2> DEFINE l == T.kid[y]["l"]
             r == T.kid[y]["r"]
  <2>1. /\ f[y] = Mid(f[l], y, f[r]) /\ f[l] \in Lists /\ f[r] \in Lists /\ y \in Nodes
        /\ l \in M \cup {Nil} /\ r \in M \cup {Nil} /\ "l" \in Sides /\ "r" \in Sides
    BY OrderedAt
  <2>2. k[U.kid[y]["l"]] = Put(f[l], n, Empty) /\ k[U.kid[y]["r"]] = Put(f[r], n, Empty)
    BY <1>2, <1>3, <1>4, <2>1
  <2> HIDE DEF l, r
  <2>3. k[y] = Mid(Put(f[l], n, Empty), y, Put(f[r], n, Empty))
    BY <1>1, <1>3, <2>1, PutSum
  <2>4. k[y] = Join("l", k[U.kid[y]["l"]], y, k[U.kid[y][Opp("l")]])
    BY <2>2, <2>3 DEF Join, Opp
  <2> QED
    BY <2>1, <2>4
<1> HIDE DEF N
<1>6. Ordered(U, N, k)
  BY <1>1, <1>3, <1>5, IsOrdered
<1>7. k[U.root] = Put(f[T.root], n, Empty)
  <2>1. CASE T.parent[n] = Nil
    BY <1>2, <1>3, <1>4, <2>1, LinkedIs
  <2>2. CASE T.parent[n] # Nil
    <3>1. T.root \in M \cup {Nil}
      BY DEF Linked
    <3> QED
      BY <1>2, <1>3, <2>2, <3>1
  <2> QED
    BY <2>1, <2>2
<1> QED
  BY <1>6, <1>7 DEF N, Row

\* s takes the place of n.
LEMMA RenamedOrder ==
  ASSUME NEW T \in Tree, NEW K \in SUBSET Nodes, Linked(T, K), NEW n \in K, NEW s \in Nodes \ K,
         NEW U, Renamed(T, U, K, n, s), NEW f, Ordered(T, K, f), \A x \in K : Once(f[x]),
         NEW N, N = (K \ {n}) \cup {s}
  PROVE  Row(U, N, Put(f[T.root], n, One(s)))
<1> DEFINE g == One(s)
           k == [y \in Ptr |-> IF y = s THEN Put(f[n], n, g)
                               ELSE IF y \in K \cup {Nil} THEN Put(f[y], n, g) ELSE Empty]
<1>1. /\ Nil \notin K /\ Empty \in Lists /\ N \in SUBSET Nodes /\ U \in Tree /\ g \in Lists
      /\ s # Nil /\ n # Nil /\ s \in Ptr
      /\ f \in [Ptr -> Lists] /\ f[Nil] = Empty /\ \A y \in K \cup {Nil} : y \in Ptr /\ f[y] \in Lists
  BY NodesAssumption, CatIs DEF Ordered, Ptr, Renamed
<1>2. /\ \A x \in K, e \in Sides : U.kid[Sub(x, n, s)][e] = Sub(T.kid[x][e], n, s)
      /\ U.root = Sub(T.root, n, s)
  BY DEF Renamed
<1> HIDE DEF g
<1>3. /\ k \in [Ptr -> Lists] /\ k[Nil] = Empty
      /\ \A y \in K \cup {Nil} : k[Sub(y, n, s)] = Put(f[y], n, g)
  <2>1. \A y \in K \cup {Nil} : Once(f[y])
    BY <1>1, OnceEmpty
  <2>2. \A y \in K \cup {Nil} : Put(f[y], n, g) \in Lists
    BY <1>1, <2>1, PutIn
  <2>3. k \in [Ptr -> Lists] /\ k[Nil] = Empty
    BY <1>1, <2>2, OnceEmpty
  <2> QED
    BY <1>1, <2>3 DEF Sub
<1> HIDE DEF k
<1>5. ASSUME NEW y \in N PROVE \E e \in Sides : k[y] = Join(e, k[U.kid[y][e]], y, k[U.kid[y][Opp(e)]])
  <2>0. PICK x \in K : y = Sub(x, n, s)
    BY SubIs DEF Substitution
  <2> DEFINE l == T.kid[x]["l"]
             r == T.kid[x]["r"]
  <2>1. /\ f[x] = Mid(f[l], x, f[r]) /\ f[l] \in Lists /\ f[r] \in Lists /\ x \in Nodes
        /\ l \in K \cup {Nil} /\ r \in K \cup {Nil} /\ "l" \in Sides /\ "r" \in Sides
    BY OrderedAt
  <2>2. k[U.kid[y]["l"]] = Put(f[l], n, g) /\ k[U.kid[y]["r"]] = Put(f[r], n, g)
    BY <1>2, <1>3, <2>0, <2>1
  <2> HIDE DEF l, r
  <2>3. k[y] = Mid(Put(f[l], n, g), y, Put(f[r], n, g))
    <3>1. CASE x = n
      <4>1. y = s /\ Put(f[x], n, g) = Cat(Cat(f[l], g), f[r])
        BY <1>1, <2>0, <2>1, <3>1, PutMid DEF Sub
      <4>2. Put(f[l], n, g) = f[l] /\ Put(f[r], n, g) = f[r]
        BY <2>1, <3>1, OnceMid, PutOut
      <4>3. Mid(f[l], s, f[r]) = Cat(Cat(f[l], g), f[r])
        <5>1. \A a \in Lists, b \in Lists : Mid(a, s, b) = Cat(Cat(a, One(s)), b)
          BY MidIs
        <5> QED
          BY <2>1, <5>1 DEF g
      <4> QED
        BY <1>3, <2>0, <4>1, <4>2, <4>3
    <3>2. CASE x # n
      <4>1. y = x
        BY <2>0, <3>2 DEF Sub
      <4>2. Put(f[x], n, g) = Mid(Put(f[l], n, g), x, Put(f[r], n, g))
        BY <1>1, <2>1, <3>2, PutSum
      <4> QED
        BY <1>3, <2>0, <4>1, <4>2
    <3> QED
      BY <3>1, <3>2
  <2>4. k[y] = Join("l", k[U.kid[y]["l"]], y, k[U.kid[y][Opp("l")]])
    BY <2>2, <2>3 DEF Join, Opp
  <2> QED
    BY <2>1, <2>4
<1>6. Ordered(U, N, k)
  BY <1>1, <1>3, <1>5, IsOrdered
<1>7. k[U.root] = Put(f[T.root], n, g)
  <2>1. T.root \in K \cup {Nil}
    BY DEF Linked
  <2> QED
    BY <1>2, <1>3, <2>1
<1> QED
  BY <1>6, <1>7 DEF g, Row

\* The place of a new leaf s below p.
Beside(s, e, p) == IF e = "l" THEN Cat(One(s), One(p)) ELSE Cat(One(p), One(s))

\* A new leaf is next to its parent in the list.
LEMMA LeafedOrder ==
  ASSUME NEW T \in Tree, NEW M \in SUBSET Nodes, Linked(T, M), NEW s \in Nodes \ M, NEW p, NEW e \in Sides,
         p \in M /\ T.kid[p][e] = Nil, NEW U, Leafed(T, U, s, p, e),
         NEW f, Ordered(T, M, f), \A x \in M : Once(f[x])
  PROVE  Row(U, M \cup {s}, Put(f[T.root], p, Beside(s, e, p)))
<1> DEFINE N == M \cup {s}
           g == Beside(s, e, p)
           k == [y \in Ptr |-> IF y = s THEN One(s)
                               ELSE IF y \in M \cup {Nil} THEN Put(f[y], p, g) ELSE Empty]
<1>1. /\ Nil \notin M /\ Empty \in Lists /\ N \in SUBSET Nodes /\ U \in Tree /\ g \in Lists
      /\ s # Nil /\ p # Nil /\ s \in Ptr /\ One(s) \in Lists
      /\ f \in [Ptr -> Lists] /\ f[Nil] = Empty /\ \A y \in M \cup {Nil} : y \in Ptr /\ f[y] \in Lists
  <2>1. g \in Lists
    BY CatIs DEF Beside
  <2> QED
    BY <2>1, NodesAssumption, CatIs DEF Ordered, Ptr, Leafed
<1>2. /\ \A x \in Nodes, d \in Sides :
           U.kid[x][d] = IF x = p /\ d = e THEN s ELSE IF x = s THEN Nil ELSE T.kid[x][d]
      /\ U.root = T.root
  BY <1>1 DEF Leafed
<1> HIDE DEF g
<1>3. /\ k \in [Ptr -> Lists] /\ k[Nil] = Empty /\ k[s] = One(s)
      /\ \A y \in M \cup {Nil} : k[y] = Put(f[y], p, g)
  <2>1. \A y \in M \cup {Nil} : Once(f[y])
    BY <1>1, OnceEmpty
  <2>2. \A y \in M \cup {Nil} : Put(f[y], p, g) \in Lists
    BY <1>1, <2>1, PutIn
  <2> QED
    BY <1>1, <2>2, OnceEmpty
<1> HIDE DEF k
<1>4. k[s] = Join("l", k[U.kid[s]["l"]], s, k[U.kid[s][Opp("l")]])
  <2>1. U.kid[s]["l"] = Nil /\ U.kid[s]["r"] = Nil
    BY <1>2 DEF Sides
  <2>2. Mid(Empty, s, Empty) = Cat(Cat(Empty, One(s)), Empty)
    BY <1>1, MidIs
  <2>3. Mid(Empty, s, Empty) = One(s)
    BY <1>1, <2>2, CatIs
  <2> QED
    BY <1>3, <2>1, <2>3 DEF Join, Opp
<1>5. ASSUME NEW y \in M PROVE k[y] = Mid(k[U.kid[y]["l"]], y, k[U.kid[y]["r"]])
  <2> DEFINE l == T.kid[y]["l"]
             r == T.kid[y]["r"]
  <2>1. /\ f[y] = Mid(f[l], y, f[r]) /\ f[l] \in Lists /\ f[r] \in Lists /\ y \in Nodes
        /\ l \in M \cup {Nil} /\ r \in M \cup {Nil} /\ "l" \in Sides /\ "r" \in Sides
    BY OrderedAt
  <2>2. /\ k[U.kid[y]["l"]] = IF y = p /\ e = "l" THEN One(s) ELSE Put(f[l], p, g)
        /\ k[U.kid[y]["r"]] = IF y = p /\ e = "r" THEN One(s) ELSE Put(f[r], p, g)
    BY <1>2, <1>3, <2>1
  <2> HIDE DEF l, r
  <2>3. CASE y = p
    <3>1. Put(f[y], p, g) = Cat(Cat(f[l], g), f[r])
      BY <1>1, <2>1, <2>3, PutMid
    <3>2. Put(f[l], p, g) = f[l] /\ Put(f[r], p, g) = f[r]
      BY <2>1, <2>3, OnceMid, PutOut
    <3>3. CASE e = "l"
      <4>1. f[l] = Empty
        BY <1>1, <2>3, <3>3 DEF l
      <4>2. Cat(Cat(Empty, Cat(One(s), One(p))), f[r]) = Mid(One(s), p, f[r])
        <5>1. Cat(One(s), One(p)) \in Lists
          BY <1>1, <2>1, <2>3, CatIs
        <5>2. Cat(Empty, Cat(One(s), One(p))) = Cat(One(s), One(p))
          BY <5>1, CatIs
        <5>3. Mid(One(s), p, f[r]) = Cat(Cat(One(s), One(p)), f[r])
          BY <1>1, <2>1, <2>3, MidCat
        <5> QED
          BY <5>2, <5>3
      <4> QED
        BY <1>3, <2>2, <2>3, <3>1, <3>2, <3>3, <4>1, <4>2 DEF g, Beside
    <3>4. CASE e = "r"
      <4>1. f[r] = Empty
        BY <1>1, <2>3, <3>4 DEF r
      <4>2. Cat(Cat(f[l], Cat(One(p), One(s))), Empty) = Mid(f[l], p, One(s))
        <5>1. Mid(f[l], p, One(s)) = Cat(f[l], Cat(One(p), One(s))) /\ Mid(f[l], p, One(s)) \in Lists
          BY <1>1, <2>1, <2>3, MidCat
        <5>2. Cat(Mid(f[l], p, One(s)), Empty) = Mid(f[l], p, One(s))
          BY <5>1, CatIs
        <5> QED
          BY <5>1, <5>2
      <4> QED
        BY <1>3, <2>2, <2>3, <3>1, <3>2, <3>4, <4>1, <4>2 DEF g, Beside
    <3> QED
      BY <3>3, <3>4 DEF Sides
  <2>4. CASE y # p
    <3>1. Put(f[y], p, g) = Mid(Put(f[l], p, g), y, Put(f[r], p, g))
      BY <1>1, <2>1, <2>4, PutSum
    <3> QED
      BY <1>3, <2>2, <2>4, <3>1
  <2> QED
    BY <2>3, <2>4
<1>6. Ordered(U, N, k)
  <2>1. \A y \in N : \E d \in Sides : k[y] = Join(d, k[U.kid[y][d]], y, k[U.kid[y][Opp(d)]])
    <3>1. "l" \in Sides /\ Opp("l") = "r"
      BY DEF Sides, Opp
    <3>2. \A y \in M : k[y] = Join("l", k[U.kid[y]["l"]], y, k[U.kid[y][Opp("l")]])
      BY <1>5, <3>1 DEF Join
    <3> QED
      BY <1>4, <3>1, <3>2
  <2> HIDE DEF N
  <2> QED
    BY <1>1, <1>3, <2>1, IsOrdered
<1>7. k[U.root] = Put(f[T.root], p, g)
  <2>1. T.root \in M \cup {Nil}
    BY DEF Linked
  <2> QED
    BY <1>2, <1>3, <2>1
<1> QED
  BY <1>6, <1>7 DEF g, Row

\* The first node of all.
LEMMA FirstOrder ==
  ASSUME NEW T \in Tree, T.root = Nil, NEW s \in Nodes, NEW e \in Sides, NEW U, Leafed(T, U, s, Nil, e)
  PROVE  Row(U, {s}, One(s))
<1> DEFINE k == [y \in Ptr |-> IF y = s THEN One(s) ELSE Empty]
<1>1. U \in Tree /\ U.root = s /\ U.kid[s]["l"] = Nil /\ U.kid[s]["r"] = Nil
  BY DEF Leafed, Sides
<1>2. Mid(Empty, s, Empty) = One(s) /\ One(s) \in Lists /\ Empty \in Lists
  <2>1. Mid(Empty, s, Empty) = Cat(Cat(Empty, One(s)), Empty) /\ One(s) \in Lists
    BY MidIs, CatIs
  <2> QED
    BY <2>1, CatIs
<1>3. k \in [Ptr -> Lists] /\ k[Nil] = Empty /\ k[s] = One(s)
  BY <1>2, NodesAssumption DEF Ptr
<1> HIDE DEF k
<1>4. k[s] = Mid(k[U.kid[s]["l"]], s, k[U.kid[s]["r"]])
  BY <1>1, <1>2, <1>3
<1> QED
  BY <1>1, <1>3, <1>4 DEF Ordered, Row

-----------------------------------------------------------------------------
(* Lists in the order of expiry *)

\* No node twice, and in the order of e.
InRow(q, e) == \A i, j \in 1..Len(q) : i < j => q[i] # q[j] /\ e[q[i]] <= e[q[j]]

\* A list in the order of expiry has each node once.
LEMMA InRowOnce ==
  ASSUME NEW q \in Lists, NEW e, InRow(q, e)
  PROVE  Once(q)
<1>1. Len(q) \in Nat
  BY LenProperties DEF Lists
<1> QED
  BY <1>1 DEF InRow, Once

\* x stands before y everywhere.
Ahead(a, b, e) == \A x \in Range(a), y \in Range(b) : x # y /\ e[x] <= e[y]

\* A concatenation is in order when both parts are and all of one expires before the other.
LEMMA InRowCat ==
  ASSUME NEW a \in Lists, NEW b \in Lists, NEW e
  PROVE  InRow(Cat(a, b), e) <=> InRow(a, e) /\ InRow(b, e) /\ Ahead(a, b, e)
<1> DEFINE q == a \o b
<1>0. a \in Seq(Nodes) /\ b \in Seq(Nodes) /\ Cat(a, b) = q
  BY DEF Lists, Cat
<1>1. /\ Len(q) = Len(a) + Len(b) /\ Len(a) \in Nat /\ Len(b) \in Nat
      /\ \A i \in 1..Len(a) : i \in 1..Len(q) /\ q[i] = a[i]
      /\ \A i \in 1..Len(b) : i + Len(a) \in 1..Len(q) /\ q[i + Len(a)] = b[i]
      /\ \A i \in 1..Len(q) : i - Len(a) \in 1..Len(b) => q[i] = b[i - Len(a)]
  BY <1>0, ConcatProperties, LenProperties
<1> HIDE DEF q
<1>2. ASSUME InRow(q, e) PROVE InRow(a, e) /\ InRow(b, e) /\ Ahead(a, b, e)
  <2>1. \A i, j \in 1..Len(q) : i < j => q[i] # q[j] /\ e[q[i]] <= e[q[j]]
    BY <1>2 DEF InRow
  <2>2. InRow(a, e)
    BY <1>1, <2>1 DEF InRow
  <2>3. InRow(b, e)
    <3> SUFFICES ASSUME NEW i \in 1..Len(b), NEW j \in 1..Len(b), i < j PROVE b[i] # b[j] /\ e[b[i]] <= e[b[j]]
      BY DEF InRow
    <3>1. i + Len(a) < j + Len(a)
      BY <1>1
    <3> QED
      BY <1>1, <2>1, <3>1
  <2>4. Ahead(a, b, e)
    <3> SUFFICES ASSUME NEW x \in Range(a), NEW y \in Range(b) PROVE x # y /\ e[x] <= e[y]
      BY DEF Ahead
    <3>1. PICK i \in 1..Len(a) : a[i] = x
      BY <1>0, RangeIs
    <3>2. PICK j \in 1..Len(b) : b[j] = y
      BY <1>0, RangeIs
    <3>3. i < j + Len(a)
      BY <1>1
    <3> QED
      BY <1>1, <2>1, <3>1, <3>2, <3>3
  <2> QED
    BY <2>2, <2>3, <2>4
<1>3. ASSUME InRow(a, e), InRow(b, e), Ahead(a, b, e) PROVE InRow(q, e)
  <2> SUFFICES ASSUME NEW i \in 1..Len(q), NEW j \in 1..Len(q), i < j PROVE q[i] # q[j] /\ e[q[i]] <= e[q[j]]
    BY DEF InRow
  <2>1. CASE i \in 1..Len(a) /\ j \in 1..Len(a)
    BY <1>1, <1>3, <2>1 DEF InRow
  <2>2. CASE i \in 1..Len(a) /\ j - Len(a) \in 1..Len(b)
    <3>1. a[i] \in Range(a) /\ b[j - Len(a)] \in Range(b)
      BY <1>0, <2>2, RangeIs
    <3>2. q[i] = a[i] /\ q[j] = b[j - Len(a)]
      BY <1>1, <2>2
    <3> QED
      BY <1>3, <3>1, <3>2 DEF Ahead
  <2>3. CASE i - Len(a) \in 1..Len(b) /\ j - Len(a) \in 1..Len(b)
    <3>1. q[i] = b[i - Len(a)] /\ q[j] = b[j - Len(a)] /\ i - Len(a) < j - Len(a)
      BY <1>1, <2>3
    <3> QED
      BY <1>3, <2>3, <3>1 DEF InRow
  <2> QED
    BY <1>1, <2>1, <2>2, <2>3
<1> QED
  BY <1>0, <1>2, <1>3

\* One node is in order.
LEMMA InRowOne ==
  ASSUME NEW n \in Nodes, NEW e
  PROVE  InRow(One(n), e) /\ InRow(Empty, e)
<1>1. Len(One(n)) = 1 /\ Len(Empty) = 0
  BY DEF One, Empty
<1> QED
  BY <1>1 DEF InRow

\* A node in the middle of an ordered list is behind all on its left and before all on its right.
LEMMA InRowMid ==
  ASSUME NEW a \in Lists, NEW n \in Nodes, NEW b \in Lists, NEW e
  PROVE  InRow(Mid(a, n, b), e) <=>
           /\ InRow(a, e) /\ InRow(b, e) /\ Ahead(a, b, e)
           /\ \A x \in Range(a) : x # n /\ e[x] <= e[n]
           /\ \A y \in Range(b) : n # y /\ e[n] <= e[y]
<1> DEFINE t == Cat(One(n), b)
<1>1. One(n) \in Lists /\ t \in Lists /\ Mid(a, n, b) = Cat(a, t)
  BY CatIs, MidCat
<1>2. Range(One(n)) = {n} /\ Range(t) = {n} \cup Range(b)
  BY <1>1, RangeCat, RangeOne
<1>3. InRow(t, e) <=> InRow(b, e) /\ Ahead(One(n), b, e)
  BY <1>1, InRowCat, InRowOne
<1> HIDE DEF t
<1>4. InRow(Cat(a, t), e) <=> InRow(a, e) /\ InRow(t, e) /\ Ahead(a, t, e)
  BY <1>1, InRowCat
<1>5. Ahead(One(n), b, e) <=> \A y \in Range(b) : n # y /\ e[n] <= e[y]
  BY <1>2 DEF Ahead
<1>6. Ahead(a, t, e) <=> Ahead(a, b, e) /\ \A x \in Range(a) : x # n /\ e[x] <= e[n]
  BY <1>2 DEF Ahead
<1> QED
  BY <1>1, <1>3, <1>4, <1>5, <1>6

\* When no node is in both parts, none is twice in the concatenation.
LEMMA OnceCats ==
  ASSUME NEW a \in Lists, NEW b \in Lists, Once(a), Once(b), Range(a) \cap Range(b) = {}
  PROVE  Once(Cat(a, b))
<1> DEFINE q == a \o b
<1>0. a \in Seq(Nodes) /\ b \in Seq(Nodes) /\ Cat(a, b) = q
  BY DEF Lists, Cat
<1>1. /\ Len(q) = Len(a) + Len(b) /\ Len(a) \in Nat /\ Len(b) \in Nat
      /\ \A i \in 1..Len(a) : q[i] = a[i]
      /\ \A i \in 1..Len(q) : i - Len(a) \in 1..Len(b) => q[i] = b[i - Len(a)]
  BY <1>0, ConcatProperties, LenProperties
<1> HIDE DEF q
<1>2. ASSUME NEW i \in 1..Len(q), NEW j \in 1..Len(q), i < j, q[i] = q[j] PROVE FALSE
  <2>1. CASE i \in 1..Len(a) /\ j \in 1..Len(a)
    BY <1>1, <1>2, <2>1 DEF Once
  <2>2. CASE i \in 1..Len(a) /\ j - Len(a) \in 1..Len(b)
    <3>1. a[i] \in Range(a) /\ b[j - Len(a)] \in Range(b)
      BY <1>0, <2>2, RangeIs
    <3>2. q[i] = a[i] /\ q[j] = b[j - Len(a)]
      BY <1>1, <2>2
    <3> QED
      BY <1>2, <3>1, <3>2
  <2>3. CASE i - Len(a) \in 1..Len(b) /\ j - Len(a) \in 1..Len(b)
    <3>1. q[i] = b[i - Len(a)] /\ q[j] = b[j - Len(a)]
      BY <1>1, <2>3
    <3>2. i - Len(a) = j - Len(a)
      BY <1>2, <2>3, <3>1 DEF Once
    <3> QED
      BY <1>1, <1>2, <3>2
  <2> QED
    BY <1>1, <1>2, <2>1, <2>2, <2>3
<1>3. \A i, j \in 1..Len(q) : q[i] = q[j] => i = j
  BY <1>1, <1>2
<1> QED
  BY <1>0, <1>3 DEF Once

\* The list without n.
LEMMA PutNothing ==
  ASSUME NEW a \in Lists, NEW n \in Nodes, NEW b \in Lists, Once(Mid(a, n, b))
  PROVE  /\ Put(Mid(a, n, b), n, Empty) = Cat(a, b) /\ Cat(a, b) \in Lists /\ Once(Cat(a, b))
         /\ Range(Cat(a, b)) = Range(Mid(a, n, b)) \ {n}
<1>1. /\ Once(a) /\ Once(b) /\ n \notin Range(a) /\ n \notin Range(b) /\ Range(a) \cap Range(b) = {}
      /\ Range(Mid(a, n, b)) = Range(a) \cup {n} \cup Range(b)
  BY OnceMid, RangeMid
<1>2. Put(Mid(a, n, b), n, Empty) = Cat(Cat(a, Empty), b) /\ Cat(a, Empty) = a /\ Cat(a, b) \in Lists
  BY PutMid, CatIs
<1>3. Once(Cat(a, b)) /\ Range(Cat(a, b)) = Range(a) \cup Range(b)
  BY <1>1, OnceCats, RangeCat
<1> QED
  BY <1>1, <1>2, <1>3

First(q) == IF q = Empty THEN Nil ELSE q[1]

\* The first node of a list.
LEMMA FirstIs ==
  ASSUME NEW n \in Nodes, NEW v \in Lists
  PROVE  /\ Mid(Empty, n, v) # Empty /\ First(Mid(Empty, n, v)) = n
<1>1. /\ Empty \in Seq(Nodes) /\ Len(Empty) = 0 /\ << n >> \in Seq(Nodes) /\ Len(<< n >>) = 1
      /\ v \in Seq(Nodes) /\ Empty \o << n >> = << n >> /\ << n >>[1] = n
  BY DEF Empty, Lists
<1>2. Mid(Empty, n, v) = << n >> \o v
  BY <1>1 DEF Mid
<1>3. Len(<< n >> \o v) = 1 + Len(v) /\ Len(v) \in Nat /\ (<< n >> \o v)[1] = n
  BY <1>1, ConcatProperties, LenProperties
<1> QED
  BY <1>1, <1>2, <1>3 DEF First

\* A list that is not empty has a first node.
LEMMA HeadIs ==
  ASSUME NEW q \in Lists, q # Empty
  PROVE  \E n \in Nodes, v \in Lists : q = Mid(Empty, n, v)
<1>1. q \in Seq(Nodes) /\ q # << >>
  BY DEF Lists, Empty
<1>2. Len(q) \in Nat /\ Len(q) # 0 /\ q[1] \in Nodes
  BY <1>1, EmptySeq, LenProperties, ElementOfSeq
<1>3. q[1] \in Range(q)
  BY <1>1, <1>2, RangeIs
<1> DEFINE n == q[1]
           v == SubSeq(q, 2, Len(q))
<1>5. v \in Seq(Nodes) /\ q = << n >> \o v
  <2>1. \A i \in 1..Len(q) : q[i] \in Nodes
    BY <1>1, ElementOfSeq
  <2>2. v \in Seq(Nodes)
    BY <1>2, <2>1, SubSeqProperties
  <2>3. SubSeq(q, 1, Len(q)) = << q[1] >> \o SubSeq(q, 1 + 1, Len(q))
    BY <1>1, <1>2, SubSeqRecursiveFirst
  <2>4. SubSeq(q, 1, Len(q)) = q
    BY <1>1, SubSeqFull
  <2> QED
    BY <2>2, <2>3, <2>4
<1> HIDE DEF n, v
<1>6. Empty \o << n >> = << n >>
  BY DEF Empty
<1>7. q = Mid(Empty, n, v) /\ n \in Nodes /\ v \in Lists
  BY <1>2, <1>5, <1>6 DEF Mid, Lists, n
<1> QED
  BY <1>7

-----------------------------------------------------------------------------
(* The successor, and timerqueue_del() in the list *)

\* A list without repetitions falls apart at n in one way only.
LEMMA OneSplit ==
  ASSUME NEW a \in Lists, NEW b \in Lists, NEW c \in Lists, NEW d \in Lists, NEW n \in Nodes,
         NEW q, Once(q), q = Mid(a, n, b), q = Mid(c, n, d)
  PROVE  a = c /\ b = d
<1>1. n \notin Range(a) /\ n \notin Range(b) /\ n \notin Range(c) /\ n \notin Range(d)
  BY OnceMid
<1>2. Before(Mid(a, n, b), n) = a /\ Behind(Mid(a, n, b), n) = b
  BY <1>1, SplitIs
<1>3. Before(Mid(c, n, d), n) = c /\ Behind(Mid(c, n, d), n) = d
  BY <1>1, SplitIs
<1> QED
  BY <1>2, <1>3

\* x and the nodes below it in the whole list.
LEMMA Around ==
  ASSUME NEW T, NEW M, NEW o, NEW z, Sound(T, M, o, z), NEW f, Ordered(T, M, f), NEW x \in M
  PROVE  \E u \in Lists, w \in Lists :
           f[T.root] = Mid(Cat(u, f[T.kid[x]["l"]]), x, Cat(f[T.kid[x]["r"]], w))
<1> DEFINE a == f[T.kid[x]["l"]]
           b == f[T.kid[x]["r"]]
           q == f[T.root]
<1>1. f[x] = Mid(a, x, b) /\ a \in Lists /\ b \in Lists /\ x \in Nodes
  BY OrderedAt DEF Sound
<1>2. Part(q, f[x])
  BY Below
<1> HIDE DEF a, b, q
<1>3. PICK u \in Lists, w \in Lists : q = Cat(Cat(u, Mid(a, x, b)), w)
  BY <1>1, <1>2 DEF Part
<1>4. Cat(u, Mid(a, x, b)) = Mid(Cat(u, a), x, b) /\ Cat(u, a) \in Lists
  BY <1>1, MidIs, CatIs
<1>5. Cat(Mid(Cat(u, a), x, b), w) = Mid(Cat(u, a), x, Cat(b, w))
  BY <1>1, <1>4, MidIs
<1> QED
  BY <1>3, <1>4, <1>5 DEF a, b, q

\* rb_next() starts down a subtree: its first node.
LEMMA LeftmostFirst ==
  ASSUME NEW T, NEW M, NEW o, NEW z, Sound(T, M, o, z), NEW f, Ordered(T, M, f), NEW m \in M
  PROVE  /\ Leftmost(T, m) \in M
         /\ \E v \in Lists : f[m] = Mid(Empty, Leftmost(T, m), v)
<1>1. PICK h : Even(T, M, h, o)
  BY DEF Sound
<1>2. T \in Tree /\ M \in SUBSET Nodes /\ Linked(T, M) /\ RedOnly(T, M, z) /\ Nil \notin M
  BY NodesAssumption DEF Sound
<1> DEFINE Good(x) == Leftmost(T, x) \in M /\ \E v \in Lists : f[x] = Mid(Empty, Leftmost(T, x), v)
           B == {x \in M : ~Good(x)}
<1>3. ASSUME B # {} PROVE FALSE
  <2>1. PICK x \in B : \A e \in Sides : T.kid[x][e] \notin B
    <3>1. B \in SUBSET M
      OBVIOUS
    <3> HIDE DEF B
    <3> QED
      BY <1>1, <1>2, <1>3, <3>1, NoKidIn
  <2>2. x \in M /\ ~Good(x) /\ x \in Nodes
    BY <1>2, <2>1
  <2> DEFINE l == T.kid[x]["l"]
             a == f[l]
             b == f[T.kid[x]["r"]]
  <2>3. f[x] = Mid(a, x, b) /\ a \in Lists /\ b \in Lists /\ l \in M \cup {Nil} /\ "l" \in Sides
    BY <1>2, <2>2, OrderedAt
  <2>4. Leftmost(T, x) = IF l = Nil THEN x ELSE Leftmost(T, l)
    BY <1>2, <2>2, LeftmostIs
  <2>5. CASE l = Nil
    <3>1. a = Empty
      BY <2>5 DEF Ordered
    <3> HIDE DEF l, a, b
    <3> QED
      BY <2>2, <2>3, <2>4, <2>5, <3>1
  <2>6. CASE l # Nil
    <3>1. l \in M /\ Good(l)
      BY <2>1, <2>3, <2>6
    <3> DEFINE s == Leftmost(T, l)
    <3>2. PICK v \in Lists : f[l] = Mid(Empty, s, v)
      BY <3>1
    <3>3. s \in Nodes /\ s \in M
      BY <1>2, <3>1
    <3> HIDE DEF s, l, b
    <3>4. Mid(Mid(Empty, s, v), x, b) = Mid(Empty, s, Mid(v, x, b)) /\ Mid(v, x, b) \in Lists
      BY <2>2, <2>3, <3>3, MidIs, CatIs
    <3>5. Leftmost(T, x) = s
      BY <2>4, <2>6 DEF s
    <3>6. f[x] = Mid(Empty, s, Mid(v, x, b))
      BY <2>3, <3>2, <3>4
    <3> QED
      BY <2>2, <3>3, <3>4, <3>5, <3>6
  <2> QED
    BY <2>5, <2>6
<1> QED
  BY <1>3

\* The successor takes the place of n: that is to take n out of the list.
LEMMA SuccessorPut ==
  ASSUME NEW x \in Lists, NEW n \in Nodes, NEW s \in Nodes, NEW y \in Lists,
         NEW q, q = Mid(x, n, Mid(Empty, s, y)), Once(q)
  PROVE  /\ Put(q, s, Empty) = Mid(x, n, y) /\ Once(Mid(x, n, y)) /\ n # s
         /\ Put(Mid(x, n, y), n, One(s)) = Put(q, n, Empty)
<1>1. Empty \in Lists /\ One(s) \in Lists /\ Cat(x, Empty) = x /\ Cat(Empty, y) = y
  BY CatIs
<1>2. q = Mid(Mid(x, n, Empty), s, y) /\ Mid(x, n, Empty) \in Lists /\ Mid(Empty, s, y) \in Lists
  BY <1>1, MidIs
<1>3. Put(q, s, Empty) = Cat(Mid(x, n, Empty), y) /\ Once(Cat(Mid(x, n, Empty), y))
  BY <1>2, PutNothing
<1>4. Cat(Mid(x, n, Empty), y) = Mid(x, n, Cat(Empty, y))
  BY <1>1, MidIs
<1>5. n # s
  <2>1. n \notin Range(Mid(Empty, s, y))
    BY <1>2, OnceMid, ZenonT(60)
  <2> QED
    BY <1>1, <2>1, RangeMid
<1>6. Put(Mid(x, n, y), n, One(s)) = Cat(Cat(x, One(s)), y)
  BY <1>1, <1>3, <1>4, PutMid
<1>7. Put(q, n, Empty) = Cat(x, Mid(Empty, s, y))
  <2> DEFINE m == Mid(Empty, s, y)
  <2>1. Once(Mid(x, n, m)) /\ m \in Lists
    BY <1>2
  <2> HIDE DEF m
  <2>2. Put(Mid(x, n, m), n, Empty) = Cat(x, m)
    BY <2>1, PutNothing
  <2> QED
    BY <2>2 DEF m
<1>8. Cat(x, Mid(Empty, s, y)) = Mid(Cat(x, Empty), s, y)
  BY <1>1, MidIs
<1>9. Mid(x, s, y) = Cat(Cat(x, One(s)), y)
  BY MidCat
<1> QED
  BY <1>1, <1>3, <1>4, <1>5, <1>6, <1>7, <1>8, <1>9

\* First the successor s leaves, then it takes the place of n.
LEMMA TakenOutOrder ==
  ASSUME NEW T, NEW M, NEW n \in M, NEW s \in M, s # n, s \in Nodes, n \in Nodes, NEW q, Once(q),
         NEW x \in Lists, NEW y \in Lists, q = Mid(x, n, Mid(Empty, s, y)),
         NEW A, NEW o, Sound(A, M \ {s}, o, Nil), NEW f, Ordered(A, M \ {s}, f), f[A.root] = Put(q, s, Empty),
         NEW U, Renamed(A, U, M \ {s}, n, s)
  PROVE  Row(U, M \ {n}, Put(q, n, Empty))
<1> DEFINE m == Mid(x, n, y)
           K == M \ {s}
           N == M \ {n}
<1>1. Put(q, s, Empty) = m /\ Once(m) /\ Put(m, n, One(s)) = Put(q, n, Empty)
  BY SuccessorPut
<1>2. A \in Tree /\ K \in SUBSET Nodes /\ Linked(A, K) /\ n \in K /\ s \in Nodes \ K /\ N = (K \ {n}) \cup {s}
  BY DEF Sound
<1>3. Renamed(A, U, K, n, s) /\ Ordered(A, K, f) /\ Sound(A, K, o, Nil) /\ f[A.root] = m
  BY <1>1
<1> HIDE DEF m, K, N
<1>4. \A z \in K : Once(f[z])
  BY <1>1, <1>3, OnceBelow
<1>5. Row(U, N, Put(f[A.root], n, One(s)))
  BY ONLY <1>2, <1>3, <1>4, RenamedOrder
<1> QED
  BY <1>1, <1>3, <1>5 DEF N

\* __rb_erase_augmented() takes n out of the order.
LEMMA UnlinkedOrder ==
  ASSUME NEW T, NEW M, Sound(T, M, << >>, Nil), NEW n \in M, NEW f, Ordered(T, M, f), Once(f[T.root])
  PROVE  Row(Unlinked(T, n).tree, M \ {n}, Put(f[T.root], n, Empty))
<1>1. /\ T \in Tree /\ M \in SUBSET Nodes /\ Linked(T, M) /\ n \in Nodes
      /\ "l" \in Sides /\ "r" \in Sides /\ Opp("l") = "r" /\ Opp("r") = "l"
  BY DEF Sound, Sides, Opp
<1>2. \A x \in M : Once(f[x])
  BY OnceBelow
<1>3. ASSUME NEW x \in M, NEW d \in Sides, T.kid[x][Opp(d)] = Nil
      PROVE  /\ Spliced(T, UnlinkedOneKid(T, x, T.kid[x][d]).tree, M, x, T.kid[x][d])
             /\ Row(UnlinkedOneKid(T, x, T.kid[x][d]).tree, M \ {x}, Put(f[T.root], x, Empty))
  <2> DEFINE c == T.kid[x][d]
             U == UnlinkedOneKid(T, x, c).tree
  <2>1. c \in Ptr /\ (c # Nil => c \in M) /\ T.kid[x][d] = c
    BY <1>1, LinkedIs DEF Ptr
  <2> HIDE DEF c
  <2>2. Spliced(T, U, M, x, c)
    BY <1>1, <2>1, OneKidIs
  <2> HIDE DEF U
  <2>3. Row(U, M \ {x}, Put(f[T.root], x, Empty))
    <3>1. /\ T \in Tree /\ M \in SUBSET Nodes /\ Linked(T, M) /\ x \in M /\ d \in Sides /\ c \in Ptr
          /\ T.kid[x][d] = c /\ T.kid[x][Opp(d)] = Nil /\ Spliced(T, U, M, x, c) /\ Ordered(T, M, f)
      BY <1>1, <1>3, <2>1, <2>2
    <3>2. \A z \in M : Once(f[z])
      BY <1>2
    <3> QED
      BY ONLY <3>1, <3>2, SplicedOrder
  <2> QED
    BY <2>2, <2>3 DEF U, c
<1>4. CASE T.kid[n]["l"] = Nil
  BY <1>1, <1>3, <1>4 DEF Unlinked
<1>5. CASE T.kid[n]["l"] # Nil /\ T.kid[n]["r"] = Nil
  BY <1>1, <1>3, <1>5 DEF Unlinked
<1>6. CASE T.kid[n]["l"] # Nil /\ T.kid[n]["r"] # Nil
  <2> DEFINE right == T.kid[n]["r"]
             s == Leftmost(T, right)
             v == UnlinkedOneKid(T, s, T.kid[s]["r"])
             A == v.tree
             U == UnlinkedTwoKids(T, n).tree
             K == M \ {s}
             q == f[T.root]
  <2>1. TakenOut(T, M, n, s, v, U)
    BY <1>6, TwoKidsAre
  <2>2. right \in M
    BY <1>1, <1>6, LinkedIs
  <2>3. s \in M /\ \E y \in Lists : f[right] = Mid(Empty, s, y)
    BY <2>2, LeftmostFirst
  <2> HIDE DEF s
  <2>4. T.kid[s]["l"] = Nil /\ s # n /\ s \in Nodes
    BY <1>1, <2>1, <2>3 DEF TakenOut, Follows
  <2>5. PICK kA : Ordered(A, K, kA) /\ kA[A.root] = Put(q, s, Empty)
    BY <1>1, <1>3, <2>3, <2>4 DEF Row
  <2>6. PICK oA : Sound(A, K, oA, Nil)
    <3>1. Erased(T, M, s, v)
      BY <2>1 DEF TakenOut
    <3> HIDE DEF v
    <3> QED
      BY <3>1 DEF Erased, Short
  <2>7. Renamed(A, U, K, n, s)
    BY <2>1 DEF TakenOut
  <2> HIDE DEF A, U, v
  <2>8. \E x \in Lists, y \in Lists : q = Mid(x, n, Mid(Empty, s, y))
    <3>1. PICK u \in Lists, w \in Lists : q = Mid(Cat(u, f[T.kid[n]["l"]]), n, Cat(f[right], w))
      BY Around
    <3>2. PICK y \in Lists : f[right] = Mid(Empty, s, y)
      BY <2>3
    <3>3. f[T.kid[n]["l"]] \in Lists
      BY <1>1, OrderedAt
    <3>4. Cat(Mid(Empty, s, y), w) = Mid(Empty, s, Cat(y, w)) /\ Cat(y, w) \in Lists
      BY <2>4, CatIs, MidIs
    <3>5. Cat(u, f[T.kid[n]["l"]]) \in Lists
      BY <3>3, CatIs
    <3> HIDE DEF q, right
    <3> QED
      BY <3>1, <3>2, <3>4, <3>5
  <2>9. PICK x \in Lists, y \in Lists : q = Mid(x, n, Mid(Empty, s, y))
    BY <2>8
  <2>10. Unlinked(T, n).tree = U
    BY <1>6 DEF Unlinked, U
  <2> HIDE DEF q, K
  <2>11. Once(q) /\ kA[A.root] = Put(q, s, Empty)
    BY <2>5 DEF q
  <2>12. Sound(A, M \ {s}, oA, Nil) /\ Ordered(A, M \ {s}, kA) /\ Renamed(A, U, M \ {s}, n, s)
    BY <2>5, <2>6, <2>7 DEF K
  <2>13. Row(U, M \ {n}, Put(q, n, Empty))
    <3>1. n \in M /\ s \in M /\ s # n /\ s \in Nodes /\ n \in Nodes
      BY <1>1, <2>3, <2>4
    <3>2. q = Mid(x, n, Mid(Empty, s, y)) /\ Once(q)
      BY <2>9, <2>11
    <3>3. kA[A.root] = Put(q, s, Empty)
      BY <2>11
    <3> QED
      BY ONLY <2>12, <3>1, <3>2, <3>3, TakenOutOrder
  <2> QED
    BY <2>10, <2>13 DEF q
<1> QED
  BY <1>4, <1>5, <1>6

\* rb_next() of the first node is the second.
LEMMA NextIs ==
  ASSUME NEW T, NEW M, Sound(T, M, << >>, Nil), NEW n \in M, NEW f, Ordered(T, M, f),
         NEW v \in Lists, f[T.root] = Mid(Empty, n, v), Once(f[T.root])
  PROVE  RbNext(T, n) = First(v)
<1> DEFINE l == T.kid[n]["l"]
           r == T.kid[n]["r"]
           q == f[T.root]
           a0 == f[l]
           b0 == f[r]
<1>1. /\ T \in Tree /\ M \in SUBSET Nodes /\ Linked(T, M) /\ n \in Nodes /\ Nil \notin M /\ Empty \in Lists
      /\ "l" \in Sides /\ "r" \in Sides /\ r \in M \cup {Nil}
  BY OrderedAt, CatIs, NodesAssumption DEF Sound
<1>2. f[n] = Mid(a0, n, b0) /\ a0 \in Lists /\ b0 \in Lists
  BY <1>1, OrderedAt
<1>3. q = Mid(Empty, n, v) /\ Once(q)
  OBVIOUS
<1>4. PICK w \in Lists : v = Cat(b0, w)
  <2>1. PICK u \in Lists, w \in Lists : q = Mid(Cat(u, a0), n, Cat(b0, w))
    BY Around
  <2> HIDE DEF l, r, a0, b0, q
  <2> DEFINE x == Cat(u, a0)
             y == Cat(b0, w)
  <2>2. x \in Lists /\ y \in Lists
    BY <1>2, CatIs
  <2> HIDE DEF x, y
  <2>3. v = y
    BY <1>1, <1>3, <2>1, <2>2, OneSplit DEF x, y
  <2> QED
    BY <2>3 DEF y
<1> HIDE DEF l, a0
<1>5. CASE r # Nil
  <2> DEFINE s == Leftmost(T, r)
  <2>1. RbNext(T, n) = s
    BY <1>5 DEF RbNext
  <2>2. s \in M /\ \E y \in Lists : f[r] = Mid(Empty, s, y)
    BY <1>1, <1>5, LeftmostFirst
  <2>3. PICK y \in Lists : b0 = Mid(Empty, s, y)
    BY <2>2
  <2>4. s \in Nodes
    BY <1>1, <2>2
  <2> HIDE DEF s, r, b0
  <2>5. Cat(Mid(Empty, s, y), w) = Mid(Empty, s, Cat(y, w)) /\ Cat(y, w) \in Lists
    BY <1>1, <2>4, MidIs, CatIs
  <2>6. First(v) = s
    BY <1>4, <2>3, <2>4, <2>5, FirstIs
  <2> QED
    BY <2>1, <2>6
<1>6. CASE r = Nil
  <2> DEFINE p == T.parent[n]
  <2>1. b0 = Empty
    BY <1>6 DEF Ordered
  <2>2. RbNext(T, n) = IF p # Nil /\ n = T.kid[p]["r"] THEN ClimbRight(T, p) ELSE p
    BY <1>1, <1>6, ClimbRightIs DEF RbNext
  <2>3. f[n] = Mid(a0, n, Empty)
    BY <1>2, <2>1
  <2> HIDE DEF r, b0, a0
  <2>4. CASE p = Nil
    <3>1. T.root = n
      BY <1>1, <2>4, LinkedIs
    <3>2. q = Mid(a0, n, Empty)
      BY <2>3, <3>1
    <3> HIDE DEF q
    <3>3. v = Empty
      BY <1>1, <1>2, <1>3, <3>2, OneSplit
    <3> QED
      BY <2>2, <2>4, <3>3 DEF First
  <2>5. CASE p # Nil
    <3> DEFINE a == f[T.kid[p]["l"]]
               b == f[T.kid[p]["r"]]
    <3>1. p \in M /\ \E e \in Sides : T.kid[p][e] = n
      BY <1>1, <2>5, LinkedIs
    <3>2. p \in Nodes /\ a \in Lists /\ b \in Lists
      BY <1>1, <3>1, OrderedAt
    <3>3. PICK t \in Lists, x \in Lists : q = Mid(Cat(t, a), p, Cat(b, x))
      BY <3>1, Around
    <3>4. Cat(t, a) \in Lists /\ Cat(b, x) \in Lists
      BY <3>2, CatIs
    <3> HIDE DEF q
    <3>5. ASSUME n = T.kid[p]["r"] PROVE FALSE
      <4> DEFINE y == Cat(t, a)
      <4>1. b = Mid(a0, n, Empty)
        BY <2>3, <3>5
      <4> HIDE DEF y, a, b, p
      <4>2. Cat(Mid(a0, n, Empty), x) = Mid(a0, n, Cat(Empty, x)) /\ Cat(Empty, x) = x
        BY <1>1, <1>2, MidIs, CatIs
      <4>3. y \in Lists /\ q = Mid(y, p, Mid(a0, n, x))
        BY <3>3, <3>4, <4>1, <4>2 DEF y
      <4> DEFINE z == Mid(y, p, a0)
      <4>4. Mid(z, n, x) = Mid(y, p, Mid(a0, n, x)) /\ z \in Lists
        BY <1>1, <1>2, <3>2, <4>3, MidIs
      <4>5. p \in Range(z)
        BY <1>2, <3>2, <4>3, RangeMid
      <4> HIDE DEF z
      <4>6. q = Mid(z, n, x)
        BY <4>3, <4>4
      <4>7. z = Empty
        BY <1>1, <1>3, <4>4, <4>6, OneSplit
      <4> QED
        BY <1>1, <4>5, <4>7, RangeOne
    <3>6. n = T.kid[p]["l"] /\ RbNext(T, n) = p
      <4>1. \A e \in Sides : e = "l" \/ e = "r"
        BY DEF Sides
      <4> QED
        BY <2>2, <3>1, <3>5, <4>1
    <3>7. a = Mid(a0, n, Empty)
      BY <2>3, <3>6
    <3> DEFINE y == Cat(t, a0)
               g == Cat(b, x)
    <3> HIDE DEF a, b, p
    <3>8. Cat(t, Mid(a0, n, Empty)) = Mid(y, n, Empty) /\ y \in Lists /\ g \in Lists
      <4>1. y \in Lists
        BY <1>2, CatIs
      <4>2. Cat(t, Mid(a0, n, Empty)) = Mid(y, n, Empty)
        BY <1>1, <1>2, MidIs
      <4> QED
        BY <3>4, <4>1, <4>2
    <3>9. q = Mid(Mid(y, n, Empty), p, g)
      BY <3>3, <3>7, <3>8
    <3> HIDE DEF y, g
    <3>10. Mid(Mid(y, n, Empty), p, g) = Mid(y, n, Mid(Empty, p, g)) /\ Mid(Empty, p, g) \in Lists
      BY <1>1, <3>2, <3>8, MidIs
    <3> DEFINE z == Mid(Empty, p, g)
    <3> HIDE DEF z
    <3>12. q = Mid(y, n, z) /\ z \in Lists
      BY <3>9, <3>10 DEF z
    <3>11. v = z
      BY <1>1, <1>3, <3>8, <3>12, OneSplit
    <3> QED
      BY <3>2, <3>6, <3>8, <3>11, FirstIs DEF z
  <2> QED
    BY <2>4, <2>5
<1> QED
  BY <1>5, <1>6

-----------------------------------------------------------------------------
(* The rotations of the code leave the order alone *)

\* The rotations leave the order alone.
LEMMA OuterOrder ==
  ASSUME NEW T, NEW M, NEW g \in M, NEW d \in Sides, NEW p \in M, NEW x \in M, Sound(T, M, << >>, x),
         T.kid[g][d] = p, T.kid[p][d] = x, IsRed(T, p), IsRed(T, x)
  PROVE  SameOrder(T, M, OuterRotated(T, p, g, d), M)
<1> DEFINE U == OuterRotated(T, p, g, d)
<1>1. PICK h : Even(T, M, h, << >>)
  BY DEF Sound
<1>2. T \in Tree /\ M \in SUBSET Nodes /\ Linked(T, M) /\ Nil \notin M
  BY NodesAssumption DEF Sound
<1>3. T.parent[p] = g /\ T.parent[x] = p /\ p # g /\ x # p
  BY <1>2, LinkedIs
<1>4. ~IsRed(T, g)
  BY <1>3 DEF Sound, RedOnly
<1>5. Pivot(T, M, g, p, d)
  BY <1>1, <1>2, <1>4, NoRound2 DEF Pivot
<1>6. U \in Tree /\ Turned(T, U, g, p, d)
  BY <1>2, <1>5, PivotTurns, OuterIs
<1> QED
  BY <1>2, <1>5, <1>6, TurnedOrder

\* The inner rotation of __rb_insert() leaves the order alone.
LEMMA InnerOrder ==
  ASSUME NEW T, NEW M, NEW g \in M, NEW d \in Sides, NEW p \in M, NEW n \in M, Sound(T, M, << >>, n),
         T.kid[g][d] = p, T.kid[p][Opp(d)] = n, IsRed(T, p), IsRed(T, n)
  PROVE  SameOrder(T, M, OuterRotated(InnerRotated(T, n, p, d), n, g, d), M)
<1> DEFINE U == OuterRotated(InnerRotated(T, n, p, d), n, g, d)
<1>1. PICK h : Even(T, M, h, << >>)
  BY DEF Sound
<1>2. T \in Tree /\ M \in SUBSET Nodes /\ Linked(T, M) /\ Nil \notin M /\ Opp(d) \in Sides
  BY SidesAre, NodesAssumption DEF Sound
<1>3. T.parent[p] = g /\ T.parent[n] = p /\ p # g /\ n # p
  BY <1>2, LinkedIs
<1>4. ~IsRed(T, g)
  BY <1>3 DEF Sound, RedOnly
<1>5. T.parent[g] # p
  BY <1>1, <1>2, <1>4, NoRound2
<1>6. T.parent[g] # n
  BY <1>1, <1>2, <1>4, NoRound3
<1>7. Corner(T, M, g, p, n, d)
  BY <1>2, <1>5, <1>6 DEF Corner
<1>8. U \in Tree /\ Doubled(T, U, g, p, n, d)
  BY <1>2, <1>7, InnerOuterIs
<1> QED
  BY <1>2, <1>7, <1>8, DoubledOrder

\* The sibling s at p: p may turn down.
LEMMA SiblingPivot ==
  ASSUME NEW T, NEW M, NEW p \in M, NEW d \in Sides, Sound(T, M, << p, Opp(d) >>, Nil),
         NEW s, T.kid[p][d] = s, ~IsRed(T, p) \/ ~IsRed(T, s)
  PROVE  Pivot(T, M, p, s, d)
<1>1. PICK h : Even(T, M, h, << p, Opp(d) >>)
  BY DEF Sound
<1>2. T \in Tree /\ M \in SUBSET Nodes /\ Linked(T, M)
  BY DEF Sound
<1>3. s \in M
  <2>1. Siblings(T, M, p, h, s, T.kid[p][Opp(d)])
    BY <1>1, SiblingThere
  <2> QED
    BY <2>1 DEF Siblings
<1>4. T.parent[p] # s
  BY <1>1, <1>2, <1>3, NoRound2
<1> QED
  BY <1>2, <1>3, <1>4 DEF Pivot

\* The rotation at a red sibling in ____rb_erase_color() leaves the order alone.
LEMMA SiblingOrder ==
  ASSUME NEW T, NEW M, NEW p \in M, NEW d \in Sides, Sound(T, M, << p, Opp(d) >>, Nil),
         IsRed(T, T.kid[p][d]), ~IsRed(T, T.kid[p][Opp(d)])
  PROVE  SameOrder(T, M, SiblingRotated(T, p, d), M)
<1> DEFINE s == T.kid[p][d]
           o == << p, Opp(d) >>
           U == SiblingRotated(T, p, d)
<1>1. PICK h : Even(T, M, h, o)
  BY DEF Sound
<1>2. T \in Tree /\ M \in SUBSET Nodes /\ Linked(T, M) /\ Opp(d) \in Sides
  BY SidesAre DEF Sound
<1>3. s \in M /\ T.parent[s] = p /\ s # p /\ h[s] = h[T.kid[p][Opp(d)]] + 1 /\ h[T.kid[p][Opp(d)]] \in Nat
  <2>1. Siblings(T, M, p, h, s, T.kid[p][Opp(d)])
    BY <1>1, SiblingThere
  <2> QED
    BY <2>1 DEF Siblings
<1>4. ~IsRed(T, p)
  BY <1>3, NodesAssumption DEF Sound, RedOnly
<1>5. Pivot(T, M, p, s, d)
  BY <1>4, SiblingPivot
\* the red s has as many black nodes below it, and so a kid
<1>6. T.kid[s][Opp(d)] # Nil
  <2>1. Debt(o, s, Opp(d)) = 0
    BY <1>3 DEF Debt
  <2>2. Weight(T, s) = 0
    BY DEF Weight, IsRed
  <2>3. h[s] = h[T.kid[s][Opp(d)]] + Weight(T, s) + Debt(o, s, Opp(d)) /\ h[T.kid[s][Opp(d)]] \in Nat
    BY <1>1, <1>2, <1>3, EvenIs, SMTT(30)
  <2>4. h[Nil] = 0
    BY <1>1 DEF Even
  <2> HIDE DEF s, o
  <2> QED
    BY <1>3, <2>1, <2>2, <2>3, <2>4
<1>7. U \in Tree /\ Turned(T, U, p, s, d)
  BY <1>2, <1>5, <1>6, SiblingIs
<1> QED
  BY <1>2, <1>5, <1>7, TurnedOrder

\* The last rotation of ____rb_erase_color() leaves the order alone.
LEMMA ParentOrder ==
  ASSUME NEW T, NEW M, NEW p \in M, NEW d \in Sides, Sound(T, M, << p, Opp(d) >>, Nil),
         ~IsRed(T, T.kid[p][d]), IsRed(T, T.kid[T.kid[p][d]][d])
  PROVE  SameOrder(T, M, ParentRotated(T, p, d), M)
<1> DEFINE s == T.kid[p][d]
           U == ParentRotated(T, p, d)
<1>1. T \in Tree /\ M \in SUBSET Nodes
  BY DEF Sound
<1>2. Pivot(T, M, p, s, d)
  BY SiblingPivot
<1>3. T.kid[s][d] # Nil
  BY DEF IsRed
<1>4. U \in Tree /\ Turned(T, U, p, s, d)
  BY <1>1, <1>2, <1>3, ParentIs
<1> QED
  BY <1>1, <1>2, <1>4, TurnedOrder

\* The rotation at the red inner nephew leaves the order alone.
LEMMA NephewOrder ==
  ASSUME NEW T, NEW M, NEW p \in M, NEW d \in Sides, Sound(T, M, << p, Opp(d) >>, Nil),
         ~IsRed(T, T.kid[p][d]), IsRed(T, T.kid[T.kid[p][d]][Opp(d)])
  PROVE  SameOrder(T, M, ParentRotated(NephewRotated(T, p, d), p, d), M)
<1> DEFINE s == T.kid[p][d]
           n == T.kid[s][Opp(d)]
           U == ParentRotated(NephewRotated(T, p, d), p, d)
<1>1. PICK h : Even(T, M, h, << p, Opp(d) >>)
  BY DEF Sound
<1>2. T \in Tree /\ M \in SUBSET Nodes /\ Linked(T, M) /\ Opp(d) \in Sides
  BY SidesAre DEF Sound
<1>3. Pivot(T, M, p, s, d)
  BY SiblingPivot
<1>4. s \in M /\ T.parent[p] # s
  BY <1>3 DEF Pivot
<1>5. n \in M /\ T.parent[n] = s
  BY <1>2, <1>4, LinkedIs DEF IsRed
<1>6. T.parent[p] # n
  BY <1>1, <1>2, <1>4, <1>5, NoRound3
<1>7. Corner(T, M, p, s, n, d)
  BY <1>2, <1>4, <1>5, <1>6 DEF Corner
<1>8. U \in Tree /\ Doubled(T, U, p, s, n, d)
  BY <1>2, <1>7, NephewParentIs
<1> QED
  BY <1>2, <1>7, <1>8, DoubledOrder

-----------------------------------------------------------------------------
(* The invariant of the queue *)

\* The recursive function of InOrder, for any tree.
ListOf(T, M) ==
  LET nodes[n \in M \cup {Nil}] ==
        IF n = Nil THEN << >> ELSE nodes[T.kid[n]["l"]] \o << n >> \o nodes[T.kid[n]["r"]]
  IN  nodes[T.root]

\* The recursive function over the tree is the list that Ordered describes.
LEMMA ListOfIs ==
  ASSUME NEW T, NEW M, NEW o, NEW z, Sound(T, M, o, z), NEW q, Row(T, M, q)
  PROVE  ListOf(T, M) = q
<1> DEFINE F(f) == [n \in M \cup {Nil} |->
                      IF n = Nil THEN << >> ELSE f[T.kid[n]["l"]] \o << n >> \o f[T.kid[n]["r"]]]
           nodes == CHOOSE f : f = F(f)
<1>1. PICK f : Ordered(T, M, f) /\ f[T.root] = q
  BY DEF Row
<1>2. PICK h : Even(T, M, h, o)
  BY DEF Sound
<1>3. /\ T \in Tree /\ M \in SUBSET Nodes /\ Linked(T, M) /\ RedOnly(T, M, z) /\ Nil \notin M
      /\ T.root \in M \cup {Nil}
  BY NodesAssumption DEF Sound, Linked
<1>4. \A n \in M : T.kid[n]["l"] \in M \cup {Nil} /\ T.kid[n]["r"] \in M \cup {Nil}
  BY <1>3, LinkedIs DEF Sides
<1>5. f[Nil] = << >> /\ \A n \in M : f[n] = f[T.kid[n]["l"]] \o << n >> \o f[T.kid[n]["r"]]
  BY <1>1 DEF Ordered, Empty, Mid
<1> DEFINE f0 == [n \in M \cup {Nil} |-> f[n]]
<1>6. f0 = F(f0)
  <2>1. \A n \in M \cup {Nil} :
          f0[n] = IF n = Nil THEN << >> ELSE f0[T.kid[n]["l"]] \o << n >> \o f0[T.kid[n]["r"]]
    BY <1>3, <1>4, <1>5, Zenon
  <2> HIDE DEF f0
  <2>2. f0 = [n \in M \cup {Nil} |-> f0[n]]
    BY DEF f0
  <2> QED
    BY <2>1, <2>2
<1> HIDE DEF f0
<1>7. nodes = F(nodes)
  BY <1>6, Zenon
<1>8. ListOf(T, M) = nodes[T.root]
  BY DEF ListOf
<1> HIDE DEF nodes
<1>9. \A n \in M \cup {Nil} :
        nodes[n] = IF n = Nil THEN << >> ELSE nodes[T.kid[n]["l"]] \o << n >> \o nodes[T.kid[n]["r"]]
  BY <1>7
<1> DEFINE B == {n \in M : nodes[n] # f[n]}
<1>10. ASSUME B # {} PROVE FALSE
  <2>1. PICK y \in B : \A e \in Sides : T.kid[y][e] \notin B
    <3>1. B \in SUBSET M
      OBVIOUS
    <3> HIDE DEF B
    <3> QED
      BY <1>2, <1>3, <1>10, <3>1, NoKidIn
  <2>2. y \in M /\ nodes[y] # f[y]
    BY <2>1
  <2>3. \A e \in Sides : T.kid[y][e] \in M \cup {Nil} => nodes[T.kid[y][e]] = f[T.kid[y][e]]
    BY <1>3, <1>5, <1>9, <2>1
  <2>4. nodes[T.kid[y]["l"]] = f[T.kid[y]["l"]] /\ nodes[T.kid[y]["r"]] = f[T.kid[y]["r"]]
    BY <1>4, <2>2, <2>3 DEF Sides
  <2> QED
    BY <1>3, <1>5, <1>9, <2>2, <2>4
<1>11. nodes[T.root] = f[T.root]
  BY <1>3, <1>5, <1>9, <1>10
<1> QED
  BY <1>1, <1>8, <1>11

\* The queue is the list of the tree.
LEMMA InOrderNow ==
  ASSUME IInv, NEW q, Row(tree, Members, q)
  PROVE  InOrder = q
<1>1. PICK o, x : Sound(tree, Members, o, x)
  BY DEF IInv, AtRest, Descending, Inserting, Erasing
<1>2. InOrder = ListOf(tree, Members)
  BY DEF InOrder, ListOf
<1> QED
  BY <1>1, <1>2, ListOfIs

\* And so it is after a step.
LEMMA InOrderThen ==
  ASSUME IInv', NEW q, Row(tree', Members', q)
  PROVE  InOrder' = q
<1>1. PICK o, x : Sound(tree', Members', o, x)
  BY DEF IInv, AtRest, Descending, Inserting, Erasing
<1>2. InOrder' = ListOf(tree', Members')
  BY DEF InOrder, ListOf
<1> QED
  BY <1>1, <1>2, ListOfIs

\* head->next, which an insertion sets at its end.
Cached == IF pc = "insert" THEN NextAfterAdd ELSE next

\* q is in the order of expiry, and head->next is its first node.
Queued(q) == InRow(q, expires) /\ Range(q) = Members /\ Cached = First(q)

\* timerqueue_add() descends between u and v: self belongs behind all of u and
\* before all of v, and par is the last of u or the first of v.
Between(u, v) ==
  /\ \A x \in Range(u) : expires[x] <= expires[self]
  /\ \A y \in Range(v) : expires[self] < expires[y]
  /\ par # Nil => IF SideOf(self, par) = "r" THEN \E w \in Lists : u = Cat(w, One(par))
                  ELSE \E w \in Lists : v = Cat(One(par), w)

\* The list is u, what is left below the node the descent has come to, and v.
Descent(f) == \E u \in Lists, v \in Lists : f[tree.root] = Cat(Cat(u, f[node]), v) /\ Between(u, v)

\* The nodes of the tree, from left to right, are a queue at all times; while
\* timerqueue_add() descends, what is passed already lies on the right side of self.
QInv ==
  /\ expires \in [Nodes -> Int]
  /\ \E f : /\ Ordered(tree, Members, f) /\ Queued(f[tree.root])
            /\ pc = "descend" => Descent(f)

\* The invariant, but for the descent.
LEMMA QInvIs ==
  ASSUME IInv, QInv
  PROVE  \E q \in Lists : Row(tree, Members, q) /\ Queued(q) /\ InOrder = q
<1>1. PICK f : Ordered(tree, Members, f) /\ Queued(f[tree.root])
  BY DEF QInv
<1>2. tree \in Tree
  BY DEF IInv, AtRest, Descending, Inserting, Erasing, Sound
<1>3. f[tree.root] \in Lists
  BY <1>1, <1>2 DEF Ordered, Tree
<1>4. Row(tree, Members, f[tree.root])
  BY <1>1 DEF Row
<1> QED
  BY <1>1, <1>3, <1>4, InOrderNow

\* What a step has to leave so that the invariant holds again.
LEMMA QInvThen ==
  ASSUME IInv', expires' \in [Nodes -> Int], pc' # "descend", NEW q, Row(tree', Members', q), Queued(q)'
  PROVE  QInv' /\ InOrder' = q
<1>1. PICK f : Ordered(tree', Members', f) /\ f[tree'.root] = q
  BY DEF Row
<1>2. InRow(q, expires') /\ Range(q) = Members' /\ Cached' = First(q)
  BY DEF Queued
<1>3. QInv'
  BY <1>1, <1>2 DEF QInv, Queued
<1> QED
  BY <1>3, InOrderThen

\* A step of the abstract queue, or none.
QueueStep == [TQ!QNext]_(TQ!queueVars)

\* The rebalancing does nothing to the queue.
LEMMA Rebalanced ==
  ASSUME IInv, QInv, IInv', Members' = Members, SameOrder(tree, Members, tree', Members),
         expires' = expires, Cached' = Cached, pc' # "descend"
  PROVE  QInv' /\ QueueStep
<1>1. PICK q \in Lists : Row(tree, Members, q) /\ Queued(q) /\ InOrder = q
  BY QInvIs
<1>2. Row(tree', Members', q)
  BY <1>1 DEF SameOrder
<1>3. Queued(q)'
  BY <1>1 DEF Queued
<1>4. expires' \in [Nodes -> Int]
  BY DEF QInv
<1>5. QInv' /\ InOrder' = q
  BY <1>2, <1>3, <1>4, QInvThen
<1>6. UNCHANGED << InOrder, Cached, expires >>
  BY <1>1, <1>5
<1> QED
  BY <1>5, <1>6 DEF QueueStep, Cached, TQ!queueVars

-----------------------------------------------------------------------------
(* The steps of the rebalancing loops do nothing to the queue *)

\* __rb_insert() ends at the root.
LEMMA InsertRootQueued ==
  ASSUME IInv, QInv, InsertRoot
  PROVE  QInv' /\ QueueStep
<1>1. tree \in Tree
  BY InsertIs DEF InsertRoot
<1>2. tree'.root = tree.root /\ tree'.kid = tree.kid
  BY <1>1 DEF InsertRoot, SetParentColor, Tree
<1>3. SameOrder(tree, Members, tree', Members)
  BY <1>2, SameLinksOrder
<1>4. expires' = expires /\ Cached' = Cached /\ pc' # "descend"
  BY DEF InsertRoot, EndAdd, Cached
<1> QED
  BY <1>3, <1>4, InsertRootKeeps, Rebalanced

\* __rb_insert() ends below a black parent.
LEMMA InsertBlackParentQueued ==
  ASSUME IInv, QInv, InsertBlackParent
  PROVE  QInv' /\ QueueStep
<1>1. SameOrder(tree, Members, tree', Members)
  BY SameLinksOrder DEF InsertBlackParent
<1>2. expires' = expires /\ Cached' = Cached /\ pc' # "descend"
  BY DEF InsertBlackParent, EndAdd, Cached
<1> QED
  BY <1>1, <1>2, InsertBlackParentKeeps, Rebalanced

\* Case 1 of __rb_insert(), a color flip.
LEMMA InsertFlipQueued ==
  ASSUME IInv, QInv, InsertFlip
  PROVE  QInv' /\ QueueStep
<1>1. tree \in Tree
  BY InsertIs DEF InsertFlip
<1>2. tree'.root = tree.root /\ tree'.kid = tree.kid
  BY <1>1 DEF InsertFlip, SetParentColor, Tree
<1>3. SameOrder(tree, Members, tree', Members)
  BY <1>2, SameLinksOrder
<1>4. expires' = expires /\ Cached' = Cached /\ pc' # "descend"
  BY DEF InsertFlip, Cached, NextAfterAdd
<1> QED
  BY <1>3, <1>4, InsertFlipKeeps, Rebalanced

\* Cases 2 and 3 of __rb_insert(), the rotations.
LEMMA InsertRotateQueued ==
  ASSUME IInv, QInv, InsertRotate
  PROVE  QInv' /\ QueueStep
<1> DEFINE M == Members
           d == ParSide
           V == OuterRotated(InnerRotated(tree, node, par, d), node, Grand, d)
           W == OuterRotated(tree, par, Grand, d)
<1>1. pc = "insert" /\ IsRed(tree, par) /\ tree' = IF node = tree.kid[par][Opp(d)] THEN V ELSE W
  BY DEF InsertRotate
<1>2. /\ Sound(tree, M, << >>, node) /\ tree \in Tree /\ M \in SUBSET Nodes /\ Linked(tree, M)
      /\ node \in M /\ IsRed(tree, node) /\ par = tree.parent[node]
  BY <1>1, InsertIs
<1>3. par \in M /\ Grand \in M /\ d \in Sides /\ tree.kid[Grand][d] = par
  BY <1>1, GrandIs
<1> HIDE DEF M, d, V, W
<1>4. SameOrder(tree, M, tree', M)
  <2>1. CASE node = tree.kid[par][Opp(d)]
    BY <1>1, <1>2, <1>3, <2>1, InnerOrder, Zenon DEF V
  <2>2. CASE node # tree.kid[par][Opp(d)]
    <3>1. PICK e \in Sides : tree.kid[par][e] = node
      BY <1>2, <1>3, LinkedIs, NodesAssumption
    <3>2. tree.kid[par][d] = node
      BY <1>3, <2>2, <3>1, SidesAre
    <3> QED
      BY <1>1, <1>2, <1>3, <2>2, <3>2, OuterOrder DEF W
  <2> QED
    BY <2>1, <2>2
<1>5. expires' = expires /\ Cached' = Cached /\ pc' # "descend"
  BY DEF InsertRotate, EndAdd, Cached
<1> QED
  BY <1>4, <1>5, InsertRotateKeeps, Rebalanced DEF M

\* Two rotations one after another leave the order alone.
LEMMA OrderTwice ==
  ASSUME NEW T, NEW M, NEW P, SameOrder(T, M, P, M), NEW U, SameOrder(P, M, U, M)
  PROVE  SameOrder(T, M, U, M)
  BY DEF SameOrder

\* The first case of ____rb_erase_color().
LEMMA PreparedOrder ==
  ASSUME IInv, pc = "erase"
  PROVE  SameOrder(tree, Members, Prepared, Members) /\ Prepared \in Tree
<1> DEFINE M == Members
           d == SibSide
<1>1. /\ Sound(tree, M, << par, Opp(d) >>, Nil) /\ par \in M
      /\ node = tree.kid[par][Opp(d)] /\ ~IsRed(tree, node) /\ d \in Sides
  BY ErasingIs
<1>2. Prepared = IF IsRed(tree, tree.kid[par][d]) THEN SiblingRotated(tree, par, d) ELSE tree
  BY DEF Prepared
<1>3. Prepared \in Tree
  BY PreparedIs DEF Ready
<1> HIDE DEF M, d
<1>4. CASE IsRed(tree, tree.kid[par][d])
  BY <1>1, <1>2, <1>3, <1>4, SiblingOrder DEF M
<1>5. CASE ~IsRed(tree, tree.kid[par][d])
  BY <1>2, <1>3, <1>5, SameLinksOrder
<1> QED
  BY <1>4, <1>5

\* Case 2 of ____rb_erase_color(), when it goes on above.
LEMMA EraseFlipUpQueued ==
  ASSUME IInv, QInv, EraseFlipUp
  PROVE  QInv' /\ QueueStep
<1>1. SameOrder(tree, Members, Prepared, Members) /\ Prepared \in Tree
  BY PreparedOrder DEF EraseFlipUp
<1>2. tree'.root = Prepared.root /\ tree'.kid = Prepared.kid
  BY <1>1 DEF EraseFlipUp, Flipped, SetParentColor, Tree
<1>3. SameOrder(Prepared, Members, tree', Members)
  BY <1>2, SameLinksOrder
<1>4. SameOrder(tree, Members, tree', Members)
  BY <1>1, <1>3, OrderTwice
<1>5. expires' = expires /\ Cached' = Cached /\ pc' # "descend"
  BY DEF EraseFlipUp, Cached
<1> QED
  BY <1>4, <1>5, EraseFlipUpKeeps, Rebalanced

\* Case 2 of ____rb_erase_color(), when it ends at a red parent.
LEMMA EraseFlipEndQueued ==
  ASSUME IInv, QInv, EraseFlipEnd
  PROVE  QInv' /\ QueueStep
<1>1. SameOrder(tree, Members, Prepared, Members) /\ Prepared \in Tree
  BY PreparedOrder DEF EraseFlipEnd
<1>2. tree'.root = Prepared.root /\ tree'.kid = Prepared.kid
  BY <1>1 DEF EraseFlipEnd, EndErase, Flipped, SetParent, SetParentColor, Tree
<1>3. SameOrder(Prepared, Members, tree', Members)
  BY <1>2, SameLinksOrder
<1>4. SameOrder(tree, Members, tree', Members)
  BY <1>1, <1>3, OrderTwice
<1>5. expires' = expires /\ Cached' = Cached /\ pc' # "descend"
  BY DEF EraseFlipEnd, EndErase, Cached
<1> QED
  BY <1>4, <1>5, EraseFlipEndKeeps, Rebalanced

\* Cases 1, 3 and 4 of ____rb_erase_color(), the rotations.
LEMMA EraseRotateQueued ==
  ASSUME IInv, QInv, EraseRotate
  PROVE  QInv' /\ QueueStep
<1> DEFINE M == Members
           d == SibSide
           P == Prepared
           s == P.kid[par][d]
           V == ParentRotated(P, par, d)
           W == ParentRotated(NephewRotated(P, par, d), par, d)
           outer == IsRed(P, P.kid[s][d])
           U == IF outer THEN V ELSE W
<1>1. pc = "erase" /\ ~BothBlack /\ tree' = SetParent(U, self, self)
  <2>1. Sibling = s
    BY DEF Sibling
  <2>2. EndErase(ParentRotated(IF outer THEN P ELSE NephewRotated(P, par, d), par, d), self)
    BY <2>1 DEF EraseRotate
  <2>3. pc = "erase" /\ ~BothBlack
    BY DEF EraseRotate
  <2> HIDE DEF outer, P, d
  <2> QED
    BY <2>2, <2>3 DEF EndErase
<1>2. Ready(P, M, d)
  BY <1>1, PreparedIs
<1>3. d \in Sides /\ Opp(d) \in Sides
  BY <1>2 DEF Ready
<1>4. ~outer => IsRed(P, P.kid[s][Opp(d)])
  <2>1. IsRed(P, P.kid[s]["l"]) \/ IsRed(P, P.kid[s]["r"])
    BY <1>1 DEF BothBlack, Sibling
  <2> HIDE DEF P, s, d
  <2> QED
    BY <1>3, <2>1 DEF Sides, Opp
<1>5. SameOrder(tree, M, P, M)
  BY <1>1, PreparedOrder
<1> HIDE DEF M, d, P
<1>6. Sound(P, M, << par, Opp(d) >>, Nil) /\ par \in M /\ ~IsRed(P, s)
  BY <1>2 DEF Ready
<1>7. SameOrder(P, M, U, M)
  <2>1. CASE outer
    BY <1>3, <1>6, <2>1, ParentOrder
  <2>2. CASE ~outer
    BY <1>3, <1>4, <1>6, <2>2, NephewOrder
  <2> QED
    BY <2>1, <2>2
<1> HIDE DEF U
<1>8. SameOrder(U, M, tree', M)
  <2>1. SetParent(U, self, self).root = U.root /\ SetParent(U, self, self).kid = U.kid
    BY DEF SetParent
  <2> QED
    BY <1>1, <2>1, SameLinksOrder
<1>9. SameOrder(tree, M, tree', M)
  BY <1>5, <1>7, <1>8, OrderTwice
<1>10. expires' = expires /\ Cached' = Cached /\ pc' # "descend"
  BY DEF EraseRotate, EndErase, Cached
<1> QED
  BY <1>9, <1>10, EraseRotateKeeps, Rebalanced DEF M

-----------------------------------------------------------------------------
(* The steps of timerqueue_add(), in the queue *)

\* Only the expiries of its own nodes matter to a list.
LEMMA SameRow ==
  ASSUME NEW q \in Lists, NEW e, NEW e2, \A x \in Range(q) : e2[x] = e[x], InRow(q, e)
  PROVE  InRow(q, e2)
<1>1. \A i \in 1..Len(q) : q[i] \in Range(q)
  BY RangeIs DEF Lists
<1> QED
  BY <1>1 DEF InRow

\* timerqueue_add() begins its descent at the root, with all of the queue around it.
LEMMA AddQueued ==
  ASSUME IInv, QInv, NEW n \in Nodes, NEW e \in Expiries, Add(n, e)
  PROVE  QInv' /\ QueueStep
<1>1. PICK f, q : Ordered(tree, Members, f) /\ Queued(q) /\ q = f[tree.root]
  BY DEF QInv
<1>2. IInv' /\ Members' = Members
  BY AddKeeps
<1>3. /\ pc = "idle" /\ pc' = "descend" /\ tree' = tree /\ next' = next /\ Cleared(n)
      /\ expires' = [expires EXCEPT ![n] = e] /\ node' = tree.root /\ par' = Nil
  BY DEF Add
<1>4. n \notin Members
  BY <1>3 DEF Members
<1>5. expires' \in [Nodes -> Int] /\ \A x \in Members : expires'[x] = expires[x]
  BY <1>3, <1>4, ExpiriesAssumption DEF QInv
<1>6. tree \in Tree
  BY <1>3 DEF IInv, AtRest, Sound
<1>7. q \in Lists /\ Row(tree, Members, q) /\ q = Cat(Cat(Empty, q), Empty) /\ Empty \in Lists
  <2>1. q \in Lists
    BY <1>1, <1>6 DEF Ordered, Tree
  <2>2. Row(tree, Members, q)
    BY <1>1 DEF Row
  <2>3. Empty \in Lists /\ Cat(Cat(Empty, q), Empty) = q
    BY <2>1, CatIs
  <2> QED
    BY <2>1, <2>2, <2>3
<1>8. InOrder = q /\ InOrder' = q
  BY <1>2, <1>3, <1>7, InOrderNow, InOrderThen
<1>9. InRow(q, expires) /\ Range(q) = Members /\ Cached = First(q)
  BY <1>1 DEF Queued
<1>10. InRow(q, expires')
  BY <1>5, <1>7, <1>9, SameRow
<1>11. Cached' = Cached /\ Cached = next
  BY <1>3 DEF Cached
<1>12. Queued(q)'
  BY <1>2, <1>9, <1>10, <1>11 DEF Queued
<1>13. Descent(f)'
  <2>1. f[tree'.root] = Cat(Cat(Empty, f[node']), Empty) /\ Empty \in Lists
    BY <1>1, <1>3, <1>7
  <2>2. Between(Empty, Empty)'
    BY <1>3, OnceEmpty DEF Between
  <2> QED
    BY <2>1, <2>2 DEF Descent
<1>14. QInv'
  <2>1. Queued(f[tree.root])' /\ Ordered(tree, Members, f)'
    BY <1>1, <1>2, <1>3, <1>12
  <2> QED
    BY <1>5, <1>13, <2>1 DEF QInv
<1>15. TQ!SetExpires(n, e)
  <2>1. n \notin TQ!Range(InOrder)
    BY <1>4, <1>8, <1>9 DEF TQ!Range, Range
  <2>2. UNCHANGED << InOrder, Cached >>
    BY <1>8, <1>11
  <2> QED
    BY <1>3, <2>1, <2>2 DEF TQ!SetExpires, Cached
<1> QED
  BY <1>14, <1>15 DEF QueueStep, TQ!QNext

\* A step of the descent leaves x on one side.
Apart(q, u, a, x, b, v) ==
  /\ q = Cat(Cat(u, a), Cat(One(x), Cat(b, v))) /\ Cat(One(x), Cat(b, v)) \in Lists
  /\ Range(Cat(One(x), Cat(b, v))) = {x} \cup Range(b) \cup Range(v)
  /\ q = Cat(Cat(Cat(Cat(u, a), One(x)), b), v) /\ Cat(Cat(u, a), One(x)) \in Lists
  /\ Range(Cat(Cat(u, a), One(x))) = {x} \cup Range(a) \cup Range(u)
  /\ Cat(b, v) \in Lists /\ Cat(u, a) \in Lists

\* One step down: what is left behind on the other side joins u or v.
LEMMA WentDown ==
  ASSUME NEW q, NEW u \in Lists, NEW a \in Lists, NEW x \in Nodes, NEW b \in Lists, NEW v \in Lists,
         q = Cat(Cat(u, Mid(a, x, b)), v)
  PROVE  Apart(q, u, a, x, b, v)
<1> DEFINE s == One(x)
<1>1. s \in Lists /\ Range(s) = {x}
  BY CatIs, RangeOne
<1>2. Mid(a, x, b) = Cat(Cat(a, s), b)
  BY MidIs
<1> HIDE DEF s
<1>3. Cat(b, v) \in Lists /\ Cat(u, a) \in Lists /\ Cat(a, s) \in Lists
  BY <1>1, CatIs
<1>4. Cat(s, Cat(b, v)) \in Lists /\ Cat(Cat(u, a), s) \in Lists
  BY <1>1, <1>3, CatIs
<1>5. Range(Cat(s, Cat(b, v))) = {x} \cup Range(b) \cup Range(v)
  <2>1. Range(Cat(s, Cat(b, v))) = Range(s) \cup Range(Cat(b, v))
    BY <1>1, <1>3, RangeCat
  <2> QED
    BY <1>1, <2>1, RangeCat
<1>6. Range(Cat(Cat(u, a), s)) = {x} \cup Range(a) \cup Range(u)
  <2>1. Range(Cat(Cat(u, a), s)) = Range(Cat(u, a)) \cup Range(s)
    BY <1>1, <1>3, RangeCat
  <2> QED
    BY <1>1, <2>1, RangeCat
<1>7. Cat(u, Cat(Cat(a, s), b)) = Cat(Cat(Cat(u, a), s), b)
  <2>1. Cat(u, Cat(Cat(a, s), b)) = Cat(Cat(u, Cat(a, s)), b)
    BY <1>3, CatTurns
  <2>2. Cat(u, Cat(a, s)) = Cat(Cat(u, a), s)
    BY <1>1, CatTurns
  <2> QED
    BY <2>1, <2>2
<1>8. q = Cat(Cat(Cat(Cat(u, a), s), b), v)
  BY <1>2, <1>7
<1>9. q = Cat(Cat(u, a), Cat(s, Cat(b, v)))
  <2> DEFINE w == Cat(u, a)
  <2>1. w \in Lists
    BY <1>3
  <2> HIDE DEF w
  <2>2. Cat(Cat(Cat(w, s), b), v) = Cat(Cat(w, s), Cat(b, v))
    BY <1>1, <2>1, CatIs
  <2>3. Cat(Cat(w, s), Cat(b, v)) = Cat(w, Cat(s, Cat(b, v)))
    BY <1>1, <1>3, <2>1, CatTurns
  <2> QED
    BY <1>8, <2>2, <2>3 DEF w
<1> QED
  BY <1>3, <1>4, <1>5, <1>6, <1>8, <1>9 DEF s, Apart

\* Each turn of the loop of timerqueue_add() goes on between u and v.
LEMMA DescendQueued ==
  ASSUME IInv, QInv, Descend
  PROVE  QInv' /\ QueueStep
<1>1. /\ pc = "descend" /\ node # Nil /\ par' = node /\ node' = tree.kid[node][SideOf(self, node)]
      /\ tree' = tree /\ next' = next /\ expires' = expires /\ pc' = pc /\ self' = self
  BY DEF Descend
<1>2. PICK f : Ordered(tree, Members, f) /\ Queued(f[tree.root]) /\ Descent(f)
  BY <1>1 DEF QInv
<1>3. PICK u \in Lists, v \in Lists : f[tree.root] = Cat(Cat(u, f[node]), v) /\ Between(u, v)
  BY <1>2 DEF Descent
<1>4. IInv' /\ Members' = Members
  BY DescendKeeps
<1>5. node \in Members /\ tree \in Tree /\ Members \in SUBSET Nodes /\ Linked(tree, Members) /\ self \in Nodes
  BY <1>1, <1>4 DEF IInv, Descending, AtRest, Sound
<1>0. PICK q, a, b, x : /\ q = f[tree.root] /\ x = node
                        /\ a = f[tree.kid[node]["l"]] /\ b = f[tree.kid[node]["r"]]
  OBVIOUS
<1>6. f[node] = Mid(a, x, b) /\ a \in Lists /\ b \in Lists /\ x \in Nodes
  BY <1>0, <1>2, <1>5, OrderedAt
<1>7. q \in Lists /\ Row(tree, Members, q)
  BY <1>0, <1>2, <1>5 DEF Ordered, Tree, Row
<1>8. f[node'] = IF SideOf(self, node) = "l" THEN a ELSE b
  BY <1>0, <1>1 DEF SideOf
<1>9. q = Cat(Cat(u, Mid(a, x, b)), v)
  BY <1>0, <1>3, <1>6
<1>10. InRow(q, expires)
  BY <1>0, <1>2 DEF Queued
<1>11. InRow(Mid(a, x, b), expires)
  <2> DEFINE w == Mid(a, x, b)
             y == Cat(u, w)
  <2>1. w \in Lists
    BY <1>6, MidIs
  <2> HIDE DEF w
  <2>2. y \in Lists
    BY <2>1, CatIs
  <2>3. q = Cat(y, v)
    BY <1>9 DEF w
  <2> HIDE DEF y
  <2>4. InRow(y, expires)
    BY <1>10, <2>2, <2>3, InRowCat
  <2> QED
    BY <2>1, <2>4, InRowCat DEF w, y
<1>12. /\ \A y \in Range(a) : expires[y] <= expires[x]
       /\ \A y \in Range(b) : expires[x] <= expires[y]
  BY <1>6, <1>11, InRowMid
<1>13. /\ \A y \in Range(u) : expires[y] <= expires[self]
       /\ \A y \in Range(v) : expires[self] < expires[y]
  BY <1>3 DEF Between
<1>14. /\ expires[self] \in Int /\ expires[x] \in Int /\ \A y \in Nodes : expires[y] \in Int
       /\ Range(a) \subseteq Nodes /\ Range(b) \subseteq Nodes /\ Range(u) \subseteq Nodes
  <2>1. \A w \in Lists : Range(w) \subseteq Nodes
    BY RangeOfSeq DEF Lists
  <2> QED
    BY <1>5, <1>6, <2>1 DEF QInv
<1>15. /\ q = Cat(Cat(u, a), Cat(One(x), Cat(b, v))) /\ Cat(One(x), Cat(b, v)) \in Lists
       /\ Range(Cat(One(x), Cat(b, v))) = {x} \cup Range(b) \cup Range(v)
       /\ q = Cat(Cat(Cat(Cat(u, a), One(x)), b), v) /\ Cat(Cat(u, a), One(x)) \in Lists
       /\ Range(Cat(Cat(u, a), One(x))) = {x} \cup Range(a) \cup Range(u)
       /\ Cat(b, v) \in Lists /\ Cat(u, a) \in Lists
  <2>1. Apart(q, u, a, x, b, v)
    BY <1>6, <1>9, WentDown
  <2> QED
    BY <2>1 DEF Apart
<1>16. SideOf(self, x) = IF expires[self] < expires[x] THEN "l" ELSE "r"
  BY DEF SideOf
<1>17. Descent(f)'
  <2>1. CASE expires[self] < expires[x]
    <3>0. PICK z : z = Cat(One(x), Cat(b, v))
      OBVIOUS
    <3>1. SideOf(self, x) = "l" 
      BY <1>16, <2>1
    <3>2. f[node'] = a
      BY <1>0, <1>8, <3>1
    <3>3. z \in Lists /\ Range(z) = {x} \cup Range(b) \cup Range(v) /\ q = Cat(Cat(u, a), z)
      BY <1>15, <3>0
    <3>4. \E w \in Lists : z = Cat(One(par'), w)
      BY <1>0, <1>1, <1>15, <3>0
    <3>5. \A y \in Range(z) : expires[self] < expires[y]
      BY <1>12, <1>13, <1>14, <2>1, <3>3
    <3>6. SideOf(self, par)' = "l"
      BY <1>0, <1>1, <1>16, <2>1 DEF SideOf
    <3>7. Between(u, z)'
      BY <1>1, <1>13, <3>4, <3>5, <3>6 DEF Between
    <3> QED
      BY <1>0, <1>1, <3>2, <3>3, <3>7 DEF Descent
  <2>2. CASE ~(expires[self] < expires[x])
    <3>0. PICK z : z = Cat(Cat(u, a), One(x))
      OBVIOUS
    <3>2. f[node'] = b
      BY <1>0, <1>8, <1>16, <2>2
    <3>3. z \in Lists /\ Range(z) = {x} \cup Range(a) \cup Range(u) /\ q = Cat(Cat(z, b), v)
      BY <1>15, <3>0
    <3>4. \E w \in Lists : z = Cat(w, One(par'))
      BY <1>0, <1>1, <1>15, <3>0
    <3>5. \A y \in Range(z) : expires[y] <= expires[self]
      BY <1>12, <1>13, <1>14, <2>2, <3>3
    <3>6. SideOf(self, par)' = "r"
      BY <1>0, <1>1, <1>16, <2>2 DEF SideOf
    <3>7. Between(z, v)'
      BY <1>1, <1>13, <3>4, <3>5, <3>6 DEF Between
    <3> QED
      BY <1>0, <1>1, <3>2, <3>3, <3>7 DEF Descent
  <2> QED
    BY <2>1, <2>2
<1>18. Cached' = Cached
  BY <1>1 DEF Cached
<1>19. QInv'
  BY <1>1, <1>2, <1>4, <1>17, <1>18 DEF QInv, Queued
<1>20. InOrder = q /\ InOrder' = q
  BY <1>1, <1>4, <1>7, InOrderNow, InOrderThen
<1> QED
  BY <1>1, <1>18, <1>19, <1>20 DEF QueueStep, Cached, TQ!queueVars

-----------------------------------------------------------------------------
(* The new node in the list *)

\* The empty list has no nodes.
LEMMA NoRange ==
  ASSUME NEW q \in Lists, Range(q) = {}
  PROVE  q = Empty
<1>1. SUFFICES ASSUME q # Empty PROVE FALSE
  OBVIOUS
<1>2. PICK n \in Nodes, v \in Lists : q = Mid(Empty, n, v)
  BY <1>1, HeadIs
<1>3. Empty \in Lists
  BY CatIs
<1>4. Range(q) = Range(Empty) \cup {n} \cup Range(v)
  BY <1>2, <1>3, RangeMid
<1> QED
  BY <1>4

\* A list and the two it is made of, by their numbers.
LEMMA CatAt ==
  ASSUME NEW u \in Lists, NEW v \in Lists, NEW q, q = Cat(u, v)
  PROVE  /\ Len(u) \in Nat /\ Len(v) \in Nat /\ Len(q) = Len(u) + Len(v)
         /\ \A i \in 1..Len(u) : q[i] = u[i] /\ u[i] \in Range(u)
         /\ \A i \in (Len(u) + 1)..Len(q) : q[i] = v[i - Len(u)] /\ v[i - Len(u)] \in Range(v)
         /\ SubSeq(q, 1, Len(u)) = u /\ SubSeq(q, Len(u) + 1, Len(q)) = v
<1>1. u \in Seq(Nodes) /\ v \in Seq(Nodes) /\ q \in Seq(Nodes) /\ q = u \o v
  BY Concats DEF Lists, Cat
<1>2. Len(u) \in Nat /\ Len(v) \in Nat
  BY <1>1, LenProperties
<1>3. /\ Len(q) = Len(u) + Len(v)
      /\ \A i \in 1..(Len(u) + Len(v)) : q[i] = IF i <= Len(u) THEN u[i] ELSE v[i - Len(u)]
  BY <1>1, ConcatProperties
<1>4. /\ \A i \in 1..Len(u) : u[i] \in Range(u)
      /\ \A i \in 1..Len(v) : v[i] \in Range(v)
  BY <1>1, RangeIs
<1>5. \A i \in 1..Len(q) : q[i] \in Nodes
  BY <1>1, ElementOfSeq
<1>6. SubSeq(q, 1, Len(u)) = u
  <2> DEFINE w == SubSeq(q, 1, Len(u))
  <2>1. w \in Seq(Nodes) /\ Len(w) = Len(u) /\ \A i \in 1..Len(u) : w[i] = q[i]
    BY <1>2, <1>3, <1>5, SubSeqProperties
  <2> HIDE DEF w
  <2>2. \A i \in 1..Len(u) : w[i] = u[i]
    BY <1>2, <1>3, <2>1
  <2>3. w = u
    BY <1>1, <2>1, <2>2, SeqEqual
  <2> QED
    BY <2>3 DEF w
<1>7. SubSeq(q, Len(u) + 1, Len(q)) = v
  <2> DEFINE w == SubSeq(q, Len(u) + 1, Len(q))
  <2>1. w \in Seq(Nodes) /\ Len(w) = Len(v) /\ \A i \in 1..Len(v) : w[i] = q[Len(u) + i]
    BY <1>2, <1>3, <1>5, SubSeqProperties
  <2> HIDE DEF w
  <2>2. \A i \in 1..Len(v) : w[i] = v[i]
    BY <1>2, <1>3, <2>1
  <2>3. w = v
    BY <1>1, <2>1, <2>2, SeqEqual
  <2> QED
    BY <2>3 DEF w
<1>8. \A i \in 1..Len(u) : q[i] = u[i]
  BY <1>2, <1>3
<1>9. \A i \in (Len(u) + 1)..Len(q) : q[i] = v[i - Len(u)] /\ i - Len(u) \in 1..Len(v)
  BY <1>2, <1>3
<1> QED
  BY <1>2, <1>3, <1>4, <1>6, <1>7, <1>8, <1>9

\* s belongs between u and v.
Parts(u, v, s) ==
  /\ u \in Lists /\ v \in Lists /\ s \in Nodes /\ expires \in [Nodes -> Int]
  /\ \A x \in Range(u) : expires[x] <= expires[s]
  /\ \A y \in Range(v) : expires[s] < expires[y]

\* The timers of a list are nodes.
LEMMA NodesOnly ==
  ASSUME NEW q \in Lists
  PROVE  Range(q) \subseteq Nodes
  BY RangeOfSeq DEF Lists

\* TimerQueue puts the timer where the descent does.
LEMMA PlaceIs ==
  ASSUME NEW u, NEW v, NEW s, Parts(u, v, s)
  PROVE  TQ!InsertAt(Cat(u, v), TQ!Place(Cat(u, v), expires[s]), s) = Mid(u, s, v)
<1>1. PICK q : q = Cat(u, v)
  OBVIOUS
<1>2. u \in Lists /\ v \in Lists /\ s \in Nodes /\ expires[s] \in Int /\ \A x \in Nodes : expires[x] \in Int
  BY DEF Parts
<1>3. /\ Len(u) \in Nat /\ Len(v) \in Nat /\ Len(q) = Len(u) + Len(v)
      /\ \A i \in 1..Len(u) : q[i] = u[i] /\ u[i] \in Range(u)
      /\ \A i \in (Len(u) + 1)..Len(q) : q[i] = v[i - Len(u)] /\ v[i - Len(u)] \in Range(v)
      /\ SubSeq(q, 1, Len(u)) = u /\ SubSeq(q, Len(u) + 1, Len(q)) = v
  BY <1>1, <1>2, CatAt, SMTT(30)
<1>4. Range(u) \subseteq Nodes /\ Range(v) \subseteq Nodes
  BY <1>2, NodesOnly
<1> DEFINE k == Len(u) + 1
           c == expires[s]
           Here(j) == /\ \A i \in 1..(j - 1) : expires[q[i]] <= c
                      /\ \A i \in j..Len(q) : expires[q[i]] > c
<1>5. /\ \A i \in 1..Len(u) : expires[q[i]] \in Int /\ expires[q[i]] <= c
      /\ \A i \in k..Len(q) : expires[q[i]] \in Int /\ expires[q[i]] > c
  <2>1. \A i \in 1..Len(u) : expires[q[i]] \in Int /\ expires[q[i]] <= c
    BY <1>2, <1>3, <1>4 DEF Parts
  <2>2. ASSUME NEW i \in k..Len(q) PROVE expires[q[i]] \in Int /\ expires[q[i]] > c
    <3>1. q[i] \in Range(v)
      BY <1>3
    <3>2. q[i] \in Nodes /\ expires[q[i]] \in Int /\ c < expires[q[i]]
      BY <1>2, <1>4, <3>1 DEF Parts
    <3> QED
      BY <1>2, <3>2
  <2> QED
    BY <2>1, <2>2
<1>6. TQ!Place(q, expires[s]) = CHOOSE j \in 1..(Len(q) + 1) : Here(j)
  BY DEF TQ!Place
<1> HIDE DEF c
<1>7. c \in Int
  BY <1>2 DEF c
<1>8. k \in 1..(Len(q) + 1) /\ Here(k)
  BY <1>3, <1>5
<1>9. ASSUME NEW j \in 1..(Len(q) + 1), Here(j) PROVE j = k
  <2>1. CASE j < k
    <3>1. j \in 1..Len(u) /\ j \in j..Len(q)
      BY <1>3, <2>1
    <3>2. expires[q[j]] \in Int /\ expires[q[j]] <= c /\ expires[q[j]] > c
      BY <1>5, <1>9, <3>1
    <3> QED
      BY <1>7, <3>2
  <2>2. CASE j > k
    <3>1. k \in 1..(j - 1) /\ k \in k..Len(q)
      BY <1>3, <2>2
    <3>2. expires[q[k]] \in Int /\ expires[q[k]] <= c /\ expires[q[k]] > c
      BY <1>5, <1>9, <3>1
    <3> QED
      BY <1>7, <3>2
  <2> QED
    BY <1>3, <2>1, <2>2
<1>10. TQ!Place(q, expires[s]) = k
  <2> HIDE DEF Here, k
  <2> QED
    BY <1>6, <1>8, <1>9
<1>11. k - 1 = Len(u)
  BY <1>3
<1>12. TQ!InsertAt(q, k, s) = SubSeq(q, 1, k - 1) \o << s >> \o SubSeq(q, k, Len(q))
  BY DEF TQ!InsertAt
<1>13. TQ!InsertAt(q, k, s) = u \o << s >> \o v
  BY <1>3, <1>11, <1>12
<1> QED
  BY <1>1, <1>10, <1>13 DEF Mid

\* The first node behind an insertion.
LEMMA FirstAfter ==
  ASSUME NEW u, NEW v, NEW s, Parts(u, v, s), NEW m, m = First(Cat(u, v))
  PROVE  First(Mid(u, s, v)) = IF m = Nil \/ expires[s] < expires[m] THEN s ELSE m
<1>1. u \in Lists /\ v \in Lists /\ s \in Nodes /\ expires[s] \in Int /\ \A x \in Nodes : expires[x] \in Int
  BY DEF Parts
<1>2. CASE u = Empty
  <2>1. First(Mid(u, s, v)) = s /\ m = First(v)
    BY <1>1, <1>2, CatIs, FirstIs
  <2>2. CASE v = Empty
    BY <2>1, <2>2 DEF First
  <2>3. CASE v # Empty
    <3>1. PICK y \in Nodes, w \in Lists : v = Mid(Empty, y, w)
      BY <1>1, <2>3, HeadIs
    <3>2. First(v) = y /\ y \in Range(v)
      BY <3>1, CatIs, FirstIs, RangeMid
    <3> QED
      BY <2>1, <3>2 DEF Parts
  <2> QED
    BY <2>2, <2>3
<1>3. CASE u # Empty
  <2>1. PICK y \in Nodes, w \in Lists : u = Mid(Empty, y, w)
    BY <1>1, <1>3, HeadIs
  <2>2. Empty \in Lists /\ One(s) \in Lists
    BY <1>1, CatIs
  <2> DEFINE z == Cat(One(s), v)
  <2>3. z \in Lists /\ Mid(u, s, v) = Cat(u, z)
    BY <1>1, <2>2, CatIs, MidIs
  <2> HIDE DEF z
  <2>4. \A t \in Lists : Cat(Mid(Empty, y, w), t) = Mid(Empty, y, Cat(w, t)) /\ Cat(w, t) \in Lists
    BY <2>2, MidIs, CatIs
  <2>5. \A t \in Lists : First(Cat(u, t)) = y
    BY <2>1, <2>4, FirstIs
  <2>6. m = y /\ First(Mid(u, s, v)) = y
    BY <1>1, <2>3, <2>5
  <2>7. y \in Range(u)
    BY <2>1, <2>2, RangeMid
  <2>8. ~(expires[s] < expires[y]) /\ y # Nil
    <3>1. expires[y] <= expires[s] /\ expires[y] \in Int
      BY <1>1, <2>7 DEF Parts
    <3> QED
      BY <1>1, <3>1, NodesAssumption
  <2> QED
    BY <2>6, <2>8
<1> QED
  BY <1>2, <1>3

\* The new leaf stands between u and v.
LEMMA LinkedOrder ==
  ASSUME NEW u \in Lists, NEW v \in Lists, NEW s \in Nodes, NEW p \in Nodes, NEW e \in Sides,
         NEW w \in Lists, IF e = "r" THEN u = Cat(w, One(p)) ELSE v = Cat(One(p), w),
         NEW q, q = Cat(u, v), Once(q)
  PROVE  Put(q, p, Beside(s, e, p)) = Mid(u, s, v)
<1> DEFINE P == One(p)
           S == One(s)
<1>1. P \in Lists /\ S \in Lists
  BY CatIs
<1>2. Mid(u, s, v) = Cat(Cat(u, S), v)
  BY MidIs
<1>3. CASE e = "r"
  <2>1. u = Cat(w, P)
    BY <1>3
  <2>2. Mid(w, p, v) = Cat(Cat(w, P), v)
    BY MidIs
  <2>3. q = Mid(w, p, v)
    BY <2>1, <2>2
  <2>4. Put(q, p, Cat(P, S)) = Cat(Cat(w, Cat(P, S)), v)
    BY <2>3, PutMid
  <2>5. Beside(s, e, p) = Cat(P, S)
    BY <1>3 DEF Beside
  <2> HIDE DEF P, S
  <2>6. Cat(w, Cat(P, S)) = Cat(Cat(w, P), S)
    BY <1>1, CatTurns
  <2> QED
    BY <1>2, <2>1, <2>4, <2>5, <2>6
<1>4. CASE e # "r"
  <2>1. v = Cat(P, w)
    BY <1>4
  <2>2. Mid(u, p, w) = Cat(u, Cat(P, w))
    BY MidIs
  <2>3. q = Mid(u, p, w)
    BY <2>1, <2>2
  <2>4. Put(q, p, Cat(S, P)) = Cat(Cat(u, Cat(S, P)), w)
    BY <2>3, PutMid
  <2>5. Beside(s, e, p) = Cat(S, P)
    BY <1>4 DEF Beside, Sides
  <2> HIDE DEF P, S
  <2>6. Cat(u, Cat(S, P)) = Cat(Cat(u, S), P)
    BY <1>1, CatTurns
  <2>7. Cat(u, S) \in Lists
    BY <1>1, CatIs
  <2>8. Cat(Cat(Cat(u, S), P), w) = Cat(Cat(u, S), Cat(P, w))
    BY <1>1, <2>7, CatTurns
  <2> QED
    BY <1>2, <2>1, <2>4, <2>5, <2>6, <2>8
<1> QED
  BY <1>3, <1>4

\* rb_link_node(): the new node enters the queue, at its place.
LEMMA LinkQueued ==
  ASSUME IInv, QInv, Link
  PROVE  QInv' /\ QueueStep
<1>1. /\ pc = "descend" /\ node = Nil /\ pc' = "insert" /\ next' = next /\ expires' = expires
      /\ self' = self /\ par' = par
  BY DEF Link
<1>2. PICK f : Ordered(tree, Members, f) /\ Queued(f[tree.root]) /\ Descent(f)
  BY <1>1 DEF QInv
<1>3. PICK u \in Lists, v \in Lists : f[tree.root] = Cat(Cat(u, f[node]), v) /\ Between(u, v)
  BY <1>2 DEF Descent
<1>4. IInv' /\ Members' = Members \cup {self}
  BY LinkKeeps
<1>5. /\ AtRest /\ self \in Nodes /\ Cleared(self)
      /\ (par = Nil /\ tree.root = Nil) \/ (par \in Members /\ tree.kid[par][SideOf(self, par)] = Nil)
  BY <1>1 DEF IInv, Descending
<1>6. tree \in Tree /\ Members \in SUBSET Nodes /\ Linked(tree, Members) /\ Sound(tree, Members, << >>, Nil)
  BY <1>5 DEF AtRest, Sound
<1>7. PICK q, s, p, e, M : q = f[tree.root] /\ s = self /\ p = par /\ e = SideOf(s, p) /\ M = Members
  OBVIOUS
<1>8. s \in Nodes \ M /\ e \in Sides /\ p \in Ptr
  BY <1>5, <1>6, <1>7 DEF Members, SideOf, Sides, Ptr
<1>9. Leafed(tree, tree', s, p, e)
  BY <1>6, <1>7, <1>8, LeafedIs DEF Link
<1>10. q = Cat(u, v) /\ q \in Lists
  <2>1. f[node] = Empty
    BY <1>1, <1>2 DEF Ordered
  <2> QED
    BY <1>3, <1>7, <2>1, CatIs
<1>11. InRow(q, expires) /\ Range(q) = M /\ Cached = First(q) /\ Once(q)
  BY <1>2, <1>7, <1>10, InRowOnce DEF Queued
<1>12. Parts(u, v, s)
  BY <1>3, <1>7, <1>8 DEF Parts, Between, QInv
<1>13. Row(tree', M \cup {s}, Mid(u, s, v))
  <2>1. CASE p = Nil
    <3>1. tree.root = Nil /\ q = Empty
      BY <1>2, <1>5, <1>6, <1>7, <2>1, NodesAssumption DEF Ordered
    <3>2. M = {}
      BY <1>11, <3>1, OnceEmpty
    <3>3. Range(u) = {} /\ Range(v) = {}
      BY <1>10, <1>11, <3>2, RangeCat
    <3>4. u = Empty /\ v = Empty
      BY <3>3, NoRange
    <3>5. Mid(u, s, v) = One(s)
      <4>1. Mid(u, s, v) = Cat(Cat(u, One(s)), v) /\ One(s) \in Lists
        BY <1>8, MidIs, CatIs
      <4> QED
        BY <3>4, <4>1, CatIs
    <3>6. Row(tree', {s}, One(s))
      BY <1>6, <1>8, <1>9, <2>1, <3>1, FirstOrder
    <3>7. M \cup {s} = {s}
      BY <3>2
    <3> QED
      BY <3>5, <3>6, <3>7
  <2>2. CASE p # Nil
    <3>1. p \in M /\ tree.kid[p][e] = Nil /\ p \in Nodes
      BY <1>5, <1>6, <1>7, <2>2
    <3>2. \A x \in M : Once(f[x])
      BY <1>2, <1>6, <1>7, <1>11, OnceBelow
    <3>3. Row(tree', M \cup {s}, Put(q, p, Beside(s, e, p)))
      BY <1>2, <1>6, <1>7, <1>8, <1>9, <3>1, <3>2, LeafedOrder
    <3>4. PICK w \in Lists : IF e = "r" THEN u = Cat(w, One(p)) ELSE v = Cat(One(p), w)
      BY <1>3, <1>7, <2>2 DEF Between
    <3>5. Put(q, p, Beside(s, e, p)) = Mid(u, s, v)
      BY <1>8, <1>10, <1>11, <3>1, <3>4, LinkedOrder
    <3> QED
      BY <3>3, <3>5
  <2> QED
    BY <2>1, <2>2
<1>14. PICK t : t = Mid(u, s, v)
  OBVIOUS
<1>15. InRow(t, expires) /\ Range(t) = M \cup {s}
  <2>1. InRow(u, expires) /\ InRow(v, expires) /\ Ahead(u, v, expires) /\ Range(q) = Range(u) \cup Range(v)
    BY <1>10, <1>11, InRowCat, RangeCat
  <2>2. s \notin Range(u) /\ s \notin Range(v)
    BY <1>8, <1>11, <2>1
  <2>3. /\ \A x \in Range(u) : x # s /\ expires[x] <= expires[s]
        /\ \A y \in Range(v) : s # y /\ expires[s] <= expires[y]
    <3>1. \A y \in Range(v) : y \in Nodes /\ expires[y] \in Int /\ expires[s] \in Int /\ expires[s] < expires[y]
      BY <1>12, NodesOnly DEF Parts
    <3> QED
      BY <1>12, <2>2, <3>1 DEF Parts
  <2>4. InRow(t, expires)
    BY <1>8, <1>14, <2>1, <2>3, InRowMid
  <2>5. Range(t) = Range(u) \cup {s} \cup Range(v)
    BY <1>8, <1>14, RangeMid
  <2> QED
    BY <1>11, <2>1, <2>4, <2>5
<1>16. Cached' = TQ!NextWith(Cached, s, expires[s])
  BY <1>1, <1>7 DEF Cached, NextAfterAdd, TQ!NextWith
<1>17. Cached' = First(t)
  BY <1>11, <1>10, <1>12, <1>14, <1>16, FirstAfter DEF TQ!NextWith
<1>18. Queued(t)'
  <2>1. Range(t) = Members'
    BY <1>4, <1>7, <1>15
  <2> QED
    BY <1>1, <1>15, <1>17, <2>1 DEF Queued
<1>19. Row(tree', Members', t)
  BY <1>4, <1>7, <1>13, <1>14
<1>20. QInv' /\ InOrder' = t
  BY <1>1, <1>4, <1>18, <1>19, QInvThen DEF QInv
<1>21. InOrder = q
  <2>1. Row(tree, Members, q)
    BY <1>2, <1>7 DEF Row
  <2> QED
    BY <2>1, InOrderNow
<1>22. s \notin TQ!Range(InOrder)
  BY <1>8, <1>11, <1>21 DEF TQ!Range, Range
<1>23. InOrder' = TQ!InsertAt(InOrder, TQ!Place(InOrder, expires[s]), s)
  BY <1>10, <1>12, <1>14, <1>20, <1>21, PlaceIs
<1>24. expires' = [expires EXCEPT ![s] = expires[s]]
  BY <1>1 DEF QInv
<1>25. TQ!AddTo(InOrder, Cached, s, expires[s])
  BY <1>16, <1>23, <1>24 DEF TQ!AddTo, Cached
<1>26. TQ!QNext
  BY <1>8, <1>22, <1>25 DEF TQ!QNext, Cached
<1> QED
  BY <1>20, <1>26 DEF QueueStep

-----------------------------------------------------------------------------
(* timerqueue_del(), in the queue *)

\* What timerqueue_del() does to a list and its first node.
LEMMA WithoutIs ==
  ASSUME NEW a \in Lists, NEW n \in Nodes, NEW b \in Lists, NEW q, q = Mid(a, n, b), Once(q)
  PROVE  /\ TQ!Without(q, n) = Cat(a, b) /\ TQ!Position(q, n) = Len(a) + 1
         /\ Len(q) = Len(a) + 1 + Len(b) /\ Len(a) \in Nat /\ Len(b) \in Nat
         /\ \A i \in 1..Len(b) : q[Len(a) + 1 + i] = b[i]
<1>1. n \notin Range(a) /\ n \notin Range(b)
  BY OnceMid
<1>2. /\ Before(q, n) = a /\ Behind(q, n) = b
      /\ Len(a) \in Nat /\ Len(b) \in Nat /\ Len(q) = Len(a) + 1 + Len(b)
      /\ Spot(q, n) = Len(a) + 1
      /\ \A i \in 1..Len(b) : q[Len(a) + 1 + i] = b[i]
  BY <1>1, SplitIs
<1>3. TQ!Position(q, n) = Len(a) + 1
  BY <1>2 DEF TQ!Position, Spot
<1>4. TQ!Without(q, n) = SubSeq(q, 1, (Len(a) + 1) - 1) \o SubSeq(q, (Len(a) + 1) + 1, Len(q))
  BY <1>3 DEF TQ!Without, TQ!RemoveAt
<1>5. TQ!Without(q, n) = Before(q, n) \o Behind(q, n)
  BY <1>2, <1>4 DEF Before, Behind
<1> QED
  BY <1>2, <1>3, <1>5 DEF Cat

\* The first node when one is taken out.
LEMMA FirstWithout ==
  ASSUME NEW a \in Lists, NEW n \in Nodes, NEW b \in Lists, NEW q, q = Mid(a, n, b), Once(q)
  PROVE  /\ First(q) # n => First(Cat(a, b)) = First(q)
         /\ First(q) = n => a = Empty /\ First(Cat(a, b)) = First(b)
         /\ TQ!NextWithout(q, First(q), n) = First(Cat(a, b))
<1>1. CASE a = Empty
  <2>1. First(q) = n /\ Cat(a, b) = b
    BY <1>1, CatIs, FirstIs
  <2>2. Len(a) = 0
    BY <1>1 DEF Empty
  <2>3. /\ TQ!Position(q, n) = 1 /\ Len(q) = 1 + Len(b) /\ Len(b) \in Nat
        /\ \A i \in 1..Len(b) : q[1 + i] = b[i]
    BY <2>2, WithoutIs
  <2>4. TQ!NextWithout(q, n, n) = IF Len(b) = 0 THEN Nil ELSE b[1]
    <3>1. TQ!NextWithout(q, n, n) = IF 1 = Len(q) THEN Nil ELSE q[1 + 1]
      BY <2>3 DEF TQ!NextWithout
    <3>2. Len(b) # 0 => q[1 + 1] = b[1]
      BY <2>3
    <3> QED
      BY <2>3, <3>1, <3>2
  <2>5. b = Empty <=> Len(b) = 0
    BY EmptySeq DEF Lists, Empty
  <2>6. First(b) = IF Len(b) = 0 THEN Nil ELSE b[1]
    BY <2>5 DEF First
  <2> QED
    BY <1>1, <2>1, <2>4, <2>6
<1>2. CASE a # Empty
  <2>1. PICK y \in Nodes, w \in Lists : a = Mid(Empty, y, w)
    BY <1>2, HeadIs
  <2>2. Empty \in Lists /\ One(n) \in Lists
    BY CatIs
  <2> DEFINE z == Cat(One(n), b)
  <2>3. z \in Lists /\ q = Cat(a, z)
    BY <2>2, CatIs, MidIs
  <2> HIDE DEF z
  <2>4. \A t \in Lists : Cat(Mid(Empty, y, w), t) = Mid(Empty, y, Cat(w, t)) /\ Cat(w, t) \in Lists
    BY <2>2, <2>1, MidIs, CatIs
  <2>5. \A t \in Lists : First(Cat(a, t)) = y
    BY <2>1, <2>4, FirstIs
  <2>6. First(q) = y /\ First(Cat(a, b)) = y
    BY <2>3, <2>5
  <2>7. y \in Range(a)
    BY <2>1, <2>2, RangeMid
  <2>8. y # n
    BY <2>7, OnceMid
  <2> QED
    BY <2>6, <2>8 DEF TQ!NextWithout
<1> QED
  BY <1>1, <1>2

\* timerqueue_del(): the node leaves the queue, and head->next goes on to rb_next() of it.
LEMMA EraseQueued ==
  ASSUME IInv, QInv, NEW n \in Nodes, Erase(n)
  PROVE  QInv' /\ QueueStep
<1> DEFINE M == Members
           V == Unlinked(tree, n).tree
<1>0. /\ (tree' = SetParent(V, n, n) /\ pc' = "idle") \/ (tree' = V /\ pc' = "erase")
      /\ next' = IF next = n THEN RbNext(tree, n) ELSE next
  BY DEF Erase, EndErase
<1>1. /\ pc = "idle" /\ n \in M /\ pc' \in {"idle", "erase"} /\ expires' = expires
      /\ next' = IF next = n THEN RbNext(tree, n) ELSE next
  <2>1. pc = "idle" /\ ~Cleared(n) /\ expires' = expires
    BY DEF Erase
  <2>2. n \in Members
    BY <2>1 DEF Members
  <2> HIDE DEF V
  <2> QED
    BY <1>0, <2>1, <2>2
<1>2. tree' = V \/ tree' = SetParent(V, n, n)
  BY <1>0
<1>3. tree'.root = V.root /\ tree'.kid = V.kid
  <2> HIDE DEF V
  <2>1. SetParent(V, n, n).root = V.root /\ SetParent(V, n, n).kid = V.kid
    BY DEF SetParent
  <2> QED
    BY <1>2, <2>1
<1>4. tree \in Tree /\ M \in SUBSET Nodes /\ Sound(tree, M, << >>, Nil)
  BY <1>1 DEF IInv, AtRest, Sound
<1>5. PICK f, q : Ordered(tree, Members, f) /\ q = f[tree.root] /\ Queued(q)
  BY DEF QInv
<1>6. q \in Lists /\ Row(tree, M, q)
  BY <1>4, <1>5 DEF Ordered, Tree, Row
<1>7. InRow(q, expires) /\ Range(q) = M /\ next = First(q) /\ Once(q)
  BY <1>1, <1>5, <1>6, InRowOnce DEF Queued, Cached
<1>8. PICK a \in Lists, b \in Lists : q = Mid(a, n, b)
  BY <1>1, <1>6, <1>7, SplitList
<1>9. PICK t : t = Cat(a, b)
  OBVIOUS
<1>10. Put(q, n, Empty) = t /\ t \in Lists /\ Range(t) = M \ {n}
  BY <1>7, <1>8, <1>9, PutNothing
<1>11. Row(tree', M \ {n}, t)
  <2>1. Row(V, M \ {n}, t)
    BY <1>1, <1>4, <1>5, <1>7, <1>10, UnlinkedOrder
  <2> HIDE DEF V
  <2>2. SameOrder(V, M \ {n}, tree', M \ {n})
    BY <1>3, SameLinksOrder
  <2> QED
    BY <2>1, <2>2 DEF SameOrder
<1> HIDE DEF V
<1>12. IInv' /\ Members' = M \ {n}
  BY EraseKeeps
<1>13. InRow(t, expires)
  <2>1. InRow(a, expires) /\ InRow(b, expires) /\ Ahead(a, b, expires)
    BY <1>7, <1>8, InRowMid
  <2> QED
    BY <1>9, <2>1, InRowCat
<1>14. /\ First(q) # n => First(t) = First(q)
       /\ First(q) = n => a = Empty /\ First(t) = First(b)
       /\ TQ!NextWithout(q, First(q), n) = First(t)
  BY <1>7, <1>8, <1>9, FirstWithout
<1>15. next' = First(t)
  <2>1. CASE next = n
    <3>1. a = Empty /\ First(t) = First(b)
      BY <1>7, <1>14, <2>1
    <3>2. q = Mid(Empty, n, b)
      BY <1>8, <3>1
    <3>3. RbNext(tree, n) = First(b)
      BY <1>1, <1>4, <1>5, <1>7, <3>2, NextIs
    <3> QED
      BY <1>1, <2>1, <3>1, <3>3
  <2>2. CASE next # n
    BY <1>1, <1>7, <1>14, <2>2
  <2> QED
    BY <2>1, <2>2
<1>16. Cached' = First(t) /\ Cached = First(q)
  BY <1>1, <1>7, <1>15 DEF Cached
<1>17. Queued(t)'
  BY <1>1, <1>10, <1>12, <1>13, <1>16 DEF Queued
<1>18. expires' \in [Nodes -> Int] /\ pc' # "descend"
  BY <1>1 DEF QInv
<1>19. Row(tree', Members', t)
  BY <1>11, <1>12
<1>20. QInv' /\ InOrder' = t
  BY <1>12, <1>17, <1>18, <1>19, QInvThen
<1>21. InOrder = q
  BY <1>6, InOrderNow
<1>22. TQ!Del(n)
  <2>1. InOrder' = TQ!Without(InOrder, n)
    BY <1>7, <1>8, <1>9, <1>20, <1>21, WithoutIs
  <2>2. Cached' = TQ!NextWithout(InOrder, Cached, n)
    BY <1>14, <1>16, <1>21
  <2> QED
    BY <1>1, <2>1, <2>2 DEF TQ!Del, Cached
<1>23. n \in TQ!Range(InOrder)
  BY <1>1, <1>7, <1>21 DEF TQ!Range, Range
<1>24. TQ!QNext
  BY <1>22, <1>23 DEF TQ!QNext
<1> QED
  BY <1>20, <1>24 DEF QueueStep

\* The empty tree is the empty queue.
LEMMA QInitIs ==
  ASSUME Init
  PROVE  TQ!QInit(0) /\ QInv
<1>1. PICK f : f = [x \in Ptr |-> Empty]
  OBVIOUS
<1>2. Empty \in Lists
  BY CatIs
<1>3. Members = {}
  BY DEF Init, Members, Cleared
<1>4. tree.root = Nil /\ Nil \in Ptr /\ pc = "idle" /\ next = Nil /\ expires \in [Nodes -> {0}]
  BY DEF Init, Ptr
<1>5. Ordered(tree, Members, f) /\ f[tree.root] = Empty
  BY <1>1, <1>2, <1>3, <1>4 DEF Ordered
<1>6. Queued(Empty)
  <2>1. InRow(Empty, expires) /\ Range(Empty) = {}
    <3>1. Len(Empty) = 0
      BY DEF Empty
    <3> QED
      BY <3>1, OnceEmpty DEF InRow
  <2> QED
    BY <1>3, <1>4, <2>1 DEF Queued, Cached, First
<1>7. QInv
  <2>1. expires \in [Nodes -> Int]
    BY <1>4
  <2> QED
    BY <1>4, <1>5, <1>6, <2>1 DEF QInv
<1>8. InOrder = Empty
  <2>1. IInv
    BY InitIs
  <2>2. Row(tree, Members, Empty)
    BY <1>5 DEF Row
  <2> QED
    BY <2>1, <2>2, InOrderNow
<1>9. TQ!QInit(0)
  BY <1>4, <1>8 DEF TQ!QInit, Empty
<1> QED
  BY <1>7, <1>9

\* Every step is one of the queue, or none, and keeps the invariant.
LEMMA NextQueued ==
  ASSUME IInv, QInv, [Next]_vars
  PROVE  QInv' /\ QueueStep
<1>1. CASE \E n \in Nodes, e \in Expiries : Add(n, e)
  BY <1>1, AddQueued
<1>2. CASE \E n \in Nodes : Erase(n)
  BY <1>2, EraseQueued
<1>3. CASE Descend
  BY <1>3, DescendQueued
<1>4. CASE Link
  BY <1>4, LinkQueued
<1>5. CASE InsertRoot
  BY <1>5, InsertRootQueued
<1>6. CASE InsertBlackParent
  BY <1>6, InsertBlackParentQueued
<1>7. CASE InsertFlip
  BY <1>7, InsertFlipQueued
<1>8. CASE InsertRotate
  BY <1>8, InsertRotateQueued
<1>9. CASE EraseFlipUp
  BY <1>9, EraseFlipUpQueued
<1>10. CASE EraseFlipEnd
  BY <1>10, EraseFlipEndQueued
<1>11. CASE EraseRotate
  BY <1>11, EraseRotateQueued
<1>12. CASE UNCHANGED vars
  <2>1. UNCHANGED << tree, next, expires, pc, self, node, par >>
    BY <1>12 DEF vars
  <2>2. UNCHANGED Members
    BY <2>1 DEF Members, Cleared
  <2>3. UNCHANGED Cached
    BY <2>1 DEF Cached, NextAfterAdd
  <2>4. UNCHANGED InOrder
    BY <2>1, <2>2 DEF InOrder
  <2>5. QInv'
    BY <2>1, <2>2, <2>3 DEF QInv, Queued, Descent, Between, SideOf
  <2> QED
    BY <2>1, <2>3, <2>4, <2>5 DEF QueueStep, TQ!queueVars, Cached
<1> QED
  BY <1>1, <1>2, <1>3, <1>4, <1>5, <1>6, <1>7, <1>8, <1>9, <1>10, <1>11, <1>12 DEF Next

-----------------------------------------------------------------------------
(***************************************************************************)
(* The tree and head->next implement the timer queue: a node enters the    *)
(* queue at the place of its expiry when timerqueue_add() links it, leaves *)
(* it when timerqueue_del() unlinks it, and neither the rotations of       *)
(* __rb_insert() and ____rb_erase_color() nor the successor that takes the *)
(* place of a node with two kids change the queue or its cached first      *)
(* node.  So it is for any number of nodes and any expiries.               *)
(***************************************************************************)
THEOREM TreeIsQueue == Spec => QueueSafe
<1>1. Init => IInv /\ QInv /\ TQ!QInit(0)
  BY InitIs, QInitIs
<1>2. (IInv /\ QInv) /\ [Next]_vars => (IInv /\ QInv)' /\ [TQ!QNext]_(TQ!queueVars)
  BY NextKeeps, NextQueued DEF QueueStep
<1> QED
  BY <1>1, <1>2, PTL DEF Spec, QueueSafe, TQ!QSpec
=============================================================================

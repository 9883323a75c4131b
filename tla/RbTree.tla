------------------------------- MODULE RbTree -------------------------------
(***************************************************************************)
(* The timer queue as src/timerqueue.c keeps it: a red-black tree with     *)
(* parent pointers (src/rbtree.c, include/rbtree_augmented.h) and a cached *)
(* pointer to its first node.  The rebalancing loops are one action for    *)
(* each iteration, so that the invariants their comments state can be      *)
(* checked; left and right are one parameter d, as the C code is written   *)
(* twice.                                                                  *)
(***************************************************************************)
EXTENDS Integers, Sequences, FiniteSets

CONSTANTS Nodes, Nil, Expiries

ASSUME NodesAssumption == Nil \notin Nodes /\ IsFiniteSet(Nodes)
ASSUME ExpiriesAssumption == Expiries \subseteq Int

VARIABLES
  tree,     \* root, and kid, parent and color of every node
  next,     \* head->next
  expires,
  pc,       \* "idle", or the loop the thread is in: "descend", "insert", "erase"
  self,     \* the node being added or deleted
  node, par \* the locals node and parent of the loop

vars == <<tree, next, expires, pc, self, node, par>>

Sides == {"l", "r"}
Opp(d) == IF d = "l" THEN "r" ELSE "l"

\* A node in no tree is its own parent (RB_CLEAR_NODE, RB_EMPTY_NODE).
Cleared(n) == tree.parent[n] = n

Init ==
  /\ tree = [root |-> Nil,
             kid |-> [n \in Nodes |-> [d \in Sides |-> Nil]],
             parent |-> [n \in Nodes |-> n],
             color |-> [n \in Nodes |-> "red"]]
  /\ next = Nil
  /\ expires \in [Nodes -> {0}]
  /\ pc = "idle"
  /\ self = Nil /\ node = Nil /\ par = Nil

-----------------------------------------------------------------------------
(* assignments to the tree T; they are chained in the order of the code *)

SetKid(T, n, d, m) == [T EXCEPT !.kid[n][d] = m]
SetParent(T, n, p) == [T EXCEPT !.parent[n] = p]
SetParentColor(T, n, p, c) == [T EXCEPT !.parent[n] = p, !.color[n] = c]

\* the same under "if (n)"
MayParentColor(T, n, p, c) == IF n = Nil THEN T ELSE SetParentColor(T, n, p, c)
MayParent(T, n, p) == IF n = Nil THEN T ELSE SetParent(T, n, p)

IsRed(T, n) == n # Nil /\ T.color[n] = "red"

\* __rb_change_child()
ChangeChild(T, old, new, p) ==
  IF p = Nil THEN [T EXCEPT !.root = new]
  ELSE SetKid(T, p, IF T.kid[p]["l"] = old THEN "l" ELSE "r", new)

\* __rb_rotate_set_parents()
RotateSetParents(T, old, new, c) ==
  LET p == T.parent[old]
      t1 == SetParentColor(T, new, p, T.color[old])
      t2 == SetParentColor(t1, old, new, c)
  IN  ChangeChild(t2, old, new, p)

\* rb_next()
Leftmost(T, n) ==
  LET down[m \in Nodes] == IF T.kid[m]["l"] = Nil THEN m ELSE down[T.kid[m]["l"]]
  IN  down[n]
ClimbRight(T, n) ==
  LET up[m \in Nodes] ==
        LET p == T.parent[m] IN IF p # Nil /\ m = T.kid[p]["r"] THEN up[p] ELSE p
  IN  up[n]
RbNext(T, n) ==
  IF T.kid[n]["r"] # Nil THEN Leftmost(T, T.kid[n]["r"]) ELSE ClimbRight(T, n)

-----------------------------------------------------------------------------
(* timerqueue_add() *)

\* The owner sets node->expires and calls timerqueue_add() (timer.h, 58-60).
Add(n, e) ==
  /\ pc = "idle"
  /\ Cleared(n)
  /\ expires' = [expires EXCEPT ![n] = e]
  /\ pc' = "descend"
  /\ self' = n /\ node' = tree.root /\ par' = Nil
  /\ UNCHANGED <<tree, next>>

\* Mutant: equal keys go to the left.
SideOfEq(n, p) == IF expires[n] <= expires[p] THEN "l" ELSE "r"

SideOf(n, p) == IF expires[n] < expires[p] THEN "l" ELSE "r"

Descend ==
  /\ pc = "descend"
  /\ node # Nil
  /\ par' = node
  /\ node' = tree.kid[node][SideOf(self, node)]
  /\ UNCHANGED <<tree, next, expires, pc, self>>

\* rb_link_node(): a red leaf.
Link ==
  /\ pc = "descend"
  /\ node = Nil
  /\ LET t1 == [SetParentColor(tree, self, par, "red")
                  EXCEPT !.kid[self] = [d \in Sides |-> Nil]]
     IN  tree' = IF par = Nil THEN [t1 EXCEPT !.root = self]
                 ELSE SetKid(t1, par, SideOf(self, par), self)
  /\ pc' = "insert"
  /\ node' = self
  /\ UNCHANGED <<next, expires, self, par>>

\* Lines 56-57 of timerqueue.c, behind rb_insert_color().
NextAfterAdd == IF next = Nil \/ expires[self] < expires[next] THEN self ELSE next

EndAdd ==
  /\ next' = NextAfterAdd
  /\ pc' = "idle"
  /\ self' = Nil /\ node' = Nil /\ par' = Nil
  /\ UNCHANGED expires

-----------------------------------------------------------------------------
(* __rb_insert(): node is red and in the tree, par is its parent *)

InsertRoot ==
  /\ pc = "insert"
  /\ par = Nil
  /\ tree' = SetParentColor(tree, node, Nil, "black")
  /\ EndAdd

InsertBlackParent ==
  /\ pc = "insert"
  /\ par # Nil /\ ~IsRed(tree, par)
  /\ tree' = tree
  /\ EndAdd

Grand == tree.parent[par]
ParSide == IF par # tree.kid[Grand]["r"] THEN "l" ELSE "r"
Uncle == tree.kid[Grand][Opp(ParSide)]

\* Case 1: color flips, go on at the grandparent.
InsertFlip ==
  /\ pc = "insert"
  /\ IsRed(tree, par)
  /\ IsRed(tree, Uncle)
  /\ LET t1 == SetParentColor(tree, Uncle, Grand, "black")
         t2 == SetParentColor(t1, par, Grand, "black")
     IN  tree' = SetParentColor(t2, Grand, t2.parent[Grand], "red")
  /\ node' = Grand /\ par' = tree.parent[Grand]
  /\ UNCHANGED <<next, expires, pc, self>>

\* Case 2: n is the inner child of p on side d of its parent; rotate at p.
InnerRotated(T, n, p, d) ==
  LET tmp == T.kid[n][d]
      t1 == SetKid(SetKid(T, p, Opp(d), tmp), n, d, p)
      t2 == MayParentColor(t1, tmp, p, "black")
  IN  SetParentColor(t2, p, n, "red")

\* Mutant: the subtree that changes sides keeps its old parent.
OuterRotatedNoParent(T, p, g, d) ==
  LET t1 == SetKid(SetKid(T, g, d, T.kid[p][Opp(d)]), p, Opp(d), g)
  IN  RotateSetParents(t1, g, p, "red")

\* Case 3: rotate at the grandparent g, p is its child on side d.
OuterRotated(T, p, g, d) ==
  LET tmp == T.kid[p][Opp(d)]
      t1 == SetKid(SetKid(T, g, d, tmp), p, Opp(d), g)
      t2 == MayParentColor(t1, tmp, g, "black")
  IN  RotateSetParents(t2, g, p, "red")

InsertRotate ==
  /\ pc = "insert"
  /\ IsRed(tree, par)
  /\ ~IsRed(tree, Uncle)
  /\ LET inner == node = tree.kid[par][Opp(ParSide)]
     IN  tree' = IF inner
                 THEN OuterRotated(InnerRotated(tree, node, par, ParSide), node, Grand, ParSide)
                 ELSE OuterRotated(tree, par, Grand, ParSide)
  /\ EndAdd

-----------------------------------------------------------------------------
(* timerqueue_del() and rb_erase() *)

\* __rb_erase_augmented(): the tree without n, and the node to rebalance at.
UnlinkedOneKid(T, n, kid) ==
  LET p == T.parent[n]
      t1 == ChangeChild(T, n, kid, p)
  IN  [tree |-> IF kid = Nil THEN t1 ELSE SetParentColor(t1, kid, p, T.color[n]),
       rebalance |-> IF kid = Nil /\ T.color[n] = "black" THEN p ELSE Nil]

\* Cases 2 and 3: the successor takes the place of n.
UnlinkedTwoKids(T, n) ==
  LET right == T.kid[n]["r"]
      succ == Leftmost(T, right)
      adjacent == succ = right
      p == IF adjacent THEN succ ELSE T.parent[succ]
      child2 == T.kid[succ]["r"]
      t1 == IF adjacent THEN T
            ELSE SetParent(SetKid(SetKid(T, p, "l", child2), succ, "r", right), right, succ)
      t2 == SetParent(SetKid(t1, succ, "l", T.kid[n]["l"]), T.kid[n]["l"], succ)
      t3 == ChangeChild(t2, n, succ, T.parent[n])
      t4 == SetParentColor(t3, succ, T.parent[n], T.color[n])
  IN  [tree |-> MayParentColor(t4, child2, p, "black"),
       rebalance |-> IF child2 = Nil /\ T.color[succ] = "black" THEN p ELSE Nil]

Unlinked(T, n) ==
  IF T.kid[n]["l"] = Nil THEN UnlinkedOneKid(T, n, T.kid[n]["r"])
  ELSE IF T.kid[n]["r"] = Nil THEN UnlinkedOneKid(T, n, T.kid[n]["l"])
  ELSE UnlinkedTwoKids(T, n)

\* RB_CLEAR_NODE() at the end of timerqueue_del()
EndErase(T, n) ==
  /\ tree' = SetParent(T, n, n)
  /\ pc' = "idle"
  /\ self' = Nil /\ node' = Nil /\ par' = Nil

Erase(n) ==
  /\ pc = "idle"
  /\ ~Cleared(n)
  /\ next' = IF next = n THEN RbNext(tree, n) ELSE next
  /\ LET u == Unlinked(tree, n)
     IN  IF u.rebalance = Nil THEN EndErase(u.tree, n)
         ELSE /\ tree' = u.tree
              /\ pc' = "erase"
              /\ self' = n /\ node' = Nil /\ par' = u.rebalance
  /\ UNCHANGED expires

-----------------------------------------------------------------------------
(* ____rb_erase_color(): the side of par that node is on is one black short *)

SibSide == IF node # tree.kid[par]["r"] THEN "r" ELSE "l"

\* Case 1: red sibling, rotate at p; d is the sibling's side.
SiblingRotated(T, p, d) ==
  LET s == T.kid[p][d]
      tmp == T.kid[s][Opp(d)]
      t1 == SetKid(SetKid(T, p, d, tmp), s, Opp(d), p)
      t2 == SetParentColor(t1, tmp, p, "black")
  IN  RotateSetParents(t2, p, s, "red")

\* The tree and the sibling behind case 1.
Prepared == IF IsRed(tree, tree.kid[par][SibSide])
            THEN SiblingRotated(tree, par, SibSide) ELSE tree
Sibling == Prepared.kid[par][SibSide]

BothBlack == /\ ~IsRed(Prepared, Prepared.kid[Sibling]["l"])
             /\ ~IsRed(Prepared, Prepared.kid[Sibling]["r"])

\* Case 2: color flip of the sibling.
Flipped == SetParentColor(Prepared, Sibling, par, "red")

EraseFlipUp ==
  /\ pc = "erase"
  /\ BothBlack
  /\ ~IsRed(Flipped, par)
  /\ Flipped.parent[par] # Nil
  /\ tree' = Flipped
  /\ node' = par /\ par' = Flipped.parent[par]
  /\ UNCHANGED <<next, expires, pc, self>>

EraseFlipEnd ==
  /\ pc = "erase"
  /\ BothBlack
  /\ IsRed(Flipped, par) \/ Flipped.parent[par] = Nil
  /\ EndErase([Flipped EXCEPT !.color[par] = "black"], self)
  /\ UNCHANGED <<next, expires>>

\* Case 3: the inner nephew is red, the outer is black; rotate at the sibling.
NephewRotated(T, p, d) ==
  LET s == T.kid[p][d]
      in == T.kid[s][Opp(d)]
      tmp == T.kid[in][d]
      t1 == SetKid(SetKid(SetKid(T, s, Opp(d), tmp), in, d, s), p, d, in)
  IN  MayParentColor(t1, tmp, s, "black")

\* Case 4: rotate at p and flip colors; s is the sibling, out its outer child.
ParentRotated(T, p, d) ==
  LET s == T.kid[p][d]
      out == T.kid[s][d]
      tmp == T.kid[s][Opp(d)]
      t1 == SetKid(SetKid(T, p, d, tmp), s, Opp(d), p)
      t2 == SetParentColor(t1, out, s, "black")
      t3 == MayParent(t2, tmp, p)
  IN  RotateSetParents(t3, p, s, "black")

EraseRotate ==
  /\ pc = "erase"
  /\ ~BothBlack
  /\ LET t1 == IF IsRed(Prepared, Prepared.kid[Sibling][SibSide]) THEN Prepared
               ELSE NephewRotated(Prepared, par, SibSide)
     IN  EndErase(ParentRotated(t1, par, SibSide), self)
  /\ UNCHANGED <<next, expires>>

Next ==
  \/ \E n \in Nodes, e \in Expiries : Add(n, e)
  \/ \E n \in Nodes : Erase(n)
  \/ Descend \/ Link
  \/ InsertRoot \/ InsertBlackParent \/ InsertFlip \/ InsertRotate
  \/ EraseFlipUp \/ EraseFlipEnd \/ EraseRotate

Spec == Init /\ [][Next]_vars

-----------------------------------------------------------------------------
(* properties *)

\* The nodes of the tree; one being erased is cleared only at the end.
Members == {n \in Nodes : ~Cleared(n)} \ (IF pc = "erase" THEN {self} ELSE {})

\* Black nodes on the paths from the root down to the leaves; owed(m, d) of them
\* are added on side d of m.
BlackCounts(owed) ==
  LET counts[n \in Members \cup {Nil}] ==
        IF n = Nil THEN {0}
        ELSE UNION {{h + (IF IsRed(tree, n) THEN 0 ELSE 1) + (IF owed = <<n, d>> THEN 1 ELSE 0) :
                       h \in counts[tree.kid[n][d]]} : d \in Sides}
  IN  counts[tree.root]

Balanced(owed) == Cardinality(BlackCounts(owed)) = 1

RedPairs == {n \in Members : IsRed(tree, n) /\ IsRed(tree, tree.parent[n])}

(***************************************************************************)
(* Between any two calls the tree is a red-black tree: the root is black,  *)
(* no red node has a red parent, and all paths to the leaves have the same *)
(* number of black nodes; so timerqueue_add() descends O(log n).           *)
(***************************************************************************)
RedBlack ==
  pc \in {"idle", "descend"} =>
    /\ tree.root # Nil => ~IsRed(tree, tree.root)
    /\ RedPairs = {}
    /\ Balanced(<<>>)

(***************************************************************************)
(* Loop invariant of __rb_insert() (rbtree.c, lines 79-84): node is red,   *)
(* it alone may have a red parent, and the black nodes are counted as ever.*)
(***************************************************************************)
InsertInvariant ==
  pc = "insert" =>
    /\ IsRed(tree, node) /\ par = tree.parent[node]
    /\ RedPairs \subseteq {node}
    /\ Balanced(<<>>)

(***************************************************************************)
(* Loop invariants of ____rb_erase_color() (rbtree.c, lines 207-213): node *)
(* is black or, on the first iteration, NULL; it is not the root; and the  *)
(* paths through par and node are one black node short of all others.      *)
(***************************************************************************)
EraseInvariant ==
  pc = "erase" =>
    /\ ~IsRed(tree, node)
    /\ par # Nil
    /\ RedPairs = {}
    /\ Balanced(<<par, Opp(SibSide)>>)

(***************************************************************************)
(* Parent and child pointers mirror each other, also in the middle of the  *)
(* rebalancing, and RB_EMPTY_NODE() is right about every node: the walks   *)
(* of rb_next() and of the loops never leave the tree or go round.         *)
(***************************************************************************)
Mirrored ==
  /\ \A n \in Members, d \in Sides :
       tree.kid[n][d] # Nil => tree.kid[n][d] \in Members /\ tree.parent[tree.kid[n][d]] = n
  /\ \A n \in Members :
       IF tree.parent[n] = Nil THEN tree.root = n
       ELSE \E d \in Sides : tree.kid[tree.parent[n]][d] = n

(***************************************************************************)
(* The four together: the tree is right between calls (RedBlack), in the   *)
(* middle of an insertion (InsertInvariant) and of an erase                *)
(* (EraseInvariant), and linked at all times (Mirrored).                   *)
(***************************************************************************)
WellFormed == Mirrored /\ RedBlack /\ InsertInvariant /\ EraseInvariant

InOrder ==
  LET nodes[n \in Members \cup {Nil}] ==
        IF n = Nil THEN <<>>
        ELSE nodes[tree.kid[n]["l"]] \o <<n>> \o nodes[tree.kid[n]["r"]]
  IN  nodes[tree.root]

(***************************************************************************)
(* The tree and its cached first node implement the timer queue: the queue *)
(* is the nodes in order, a node enters it when it is linked, leaves it    *)
(* when it is unlinked, and no rotation changes it.                        *)
(***************************************************************************)
TQ == INSTANCE TimerQueue
        WITH Timers <- Nodes, NoTimer <- Nil, queue <- InOrder,
             next <- IF pc = "insert" THEN NextAfterAdd ELSE next

QueueSafe == TQ!QSpec
=============================================================================

------------------------------ MODULE MCRbTree ------------------------------
EXTENDS RbTree

\* Adding a node writes its expiry, its children and its color before anything
\* reads them: what a cleared node holds of an earlier life does not matter.
Fresh(f, v) == [n \in Nodes |-> IF Cleared(n) /\ n # self THEN v ELSE f[n]]
View == <<tree.root, tree.parent, Fresh(tree.kid, Nil), Fresh(tree.color, Nil),
          Fresh(expires, Nil), next, pc, self, node, par>>
-----------------------------------------------------------------------------
\* Large trees: the nodes are added in the order of the numbers, each once
\* except node 1, which comes back at any time and with any expiry; they are
\* erased at any time.  The first three go to both ends of the tree, the others
\* between them, all with the same key.
AddedOnce ==
  pc = "idle" /\ pc' = "descend" =>
    /\ expires[self'] = 0 \/ self' = 1
    /\ \A m \in 1..(self' - 1) : expires[m] # 0
    /\ expires'[self'] \in (IF self' <= 3 THEN {1, 3} ELSE {2})

LargeView == <<View, expires>>
=============================================================================

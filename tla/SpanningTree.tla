----------------------------- MODULE SpanningTree -----------------------------
(***************************************************************************)
(* What WiseRoute and pairwise promise of their routes: a tree grows from  *)
(* its root, a node joins once, below a node that is in the tree already.  *)
(***************************************************************************)
CONSTANTS Node, Root, NoParent   \* NoParent is not a node

VARIABLE parent

InTree == {n \in Node : parent[n] # NoParent}

Init == parent = [n \in Node |-> NoParent]

Join(n, p) ==
    /\ n \notin InTree \cup {Root}
    /\ p \in InTree \cup {Root}
    /\ parent' = [parent EXCEPT ![n] = p]

Next == \E n, p \in Node : Join(n, p)

Spec == Init /\ [][Next]_parent

-----------------------------------------------------------------------------

TypeOK == parent \in [Node -> Node \cup {NoParent}]

\* There is no loop: every set of nodes that are in the tree has a way out.
LoopFree == \A S \in SUBSET InTree : S # {} => \E n \in S : parent[n] \notin S

\* Every node of the tree hangs below another one, or the root.
NoOrphan == \A n \in InTree : parent[n] \in InTree \cup {Root}
=============================================================================

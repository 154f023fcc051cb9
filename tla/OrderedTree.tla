----------------------------- MODULE OrderedTree -----------------------------
(***************************************************************************)
(* What ADT/Tree.h promises its users, without a pointer: nodes with       *)
(* children in an order.  A node is added as a leaf; a node that is not    *)
(* wanted leaves its children to its parent, among its siblings; a parent  *)
(* that loses its last child this way goes too, and so on up to one that   *)
(* keeps a child; and siblings change places.  Nothing else ever happens.  *)
(***************************************************************************)
CONSTANTS Node, Null

VARIABLES
  nodes,     \* the nodes of the tree
  kids,      \* the children of each node
  before,    \* the pairs of siblings, the one that comes first first
  unwanted,  \* the nodes that are to be removed
  emptied    \* the node that lost its last child in the step before, or Null

vars == <<nodes, kids, before, unwanted, emptied>>

Init ==
  /\ nodes = {}
  /\ kids = [n \in Node |-> {}]
  /\ before = {}
  /\ unwanted = {}
  /\ emptied = Null

\* The pairs of children of one node, when k gives the children.
Siblings(k) ==
  {pair \in UNION {c \X c : c \in {k[p] : p \in Node}} : pair[1] # pair[2]}

\* b is an order of the siblings in S.
IsOrder(b, S) ==
  /\ b \subseteq S
  /\ \A pair \in S : pair \in b <=> <<pair[2], pair[1]>> \notin b
  /\ \A x, y \in b : x[2] = y[1] => <<x[1], y[2]>> \in b

\* The siblings have an order, and two that were siblings have the one they had.
OrderKept ==
  LET old == Siblings(kids)
      new == Siblings(kids')
  IN  IsOrder(before', new) /\ before' \cap old = before \cap new

\* A leaf is added to the empty tree, or anywhere among the children of p.
Add(n) ==
  /\ emptied = Null /\ n \notin nodes
  /\ nodes' = nodes \cup {n}
  /\ unwanted' \in {unwanted, unwanted \cup {n}}
  /\ \/ nodes = {} /\ UNCHANGED kids
     \/ \E p \in nodes : kids' = [kids EXCEPT ![p] = @ \cup {n}]
  /\ OrderKept
  /\ UNCHANGED emptied

\* n goes; its children join its siblings.  Its parent may have none left.
TakeOut(n) ==
  LET Emptied == {p \in nodes : n \in kids[p] /\ kids'[p] = {}}
  IN  /\ nodes' = nodes \ {n}
      /\ unwanted' = unwanted \ {n}
      /\ kids' = [m \in Node |-> IF m = n THEN {}
                                 ELSE IF n \in kids[m] THEN (kids[m] \ {n}) \cup kids[n]
                                 ELSE kids[m]]
      /\ OrderKept
      /\ emptied' \in IF Emptied = {} THEN {Null} ELSE Emptied

RemoveNode == \E n \in unwanted : emptied = Null /\ TakeOut(n)

RemoveEmptied == emptied # Null /\ TakeOut(emptied)

\* The order in which l and r have changed places.
Exchanged(l, r) ==
  LET In(n) == IF n = l THEN r ELSE IF n = r THEN l ELSE n
  IN  {<<In(pair[1]), In(pair[2])>> : pair \in before}

SwapSiblings ==
  /\ emptied = Null
  /\ UNCHANGED <<nodes, kids, unwanted, emptied>>
  /\ \E p \in nodes : before' \in {Exchanged(l, r) : l, r \in kids[p]}

Next ==
  \/ \E n \in Node : Add(n)
  \/ RemoveNode
  \/ RemoveEmptied
  \/ SwapSiblings

Spec == Init /\ [][Next]_vars

=============================================================================

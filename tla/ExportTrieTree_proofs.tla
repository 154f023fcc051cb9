----------------------- MODULE ExportTrieTree_proofs -----------------------
(***************************************************************************)
(* Proofs about ParseFromTrie, the filter, the count and the sort, for a   *)
(* trie of any size and any options.                                       *)
(*                                                                         *)
(* BuildInv is the invariant of the parse alone.  IInv is the one of the   *)
(* whole operation: there is an order of the nodes in which the pointers   *)
(* of the heap are those of a tree (IsTree).  The lemmas on heaps show, in *)
(* this order: what the pointers of such a tree agree on; which node an    *)
(* iterator goes on to; that removing a node, adding a node and exchanging *)
(* two siblings lead to such a tree again, and in which order.  The lemmas *)
(* on steps then have the name of their action, with Keeps.                *)
(***************************************************************************)
EXTENDS ExportTrieTree, FiniteSetTheorems, TLAPS

Ind == INSTANCE Induction

\* The null pointer is no node.
LEMMA NullIsNoNode == Null \notin Node
  BY OptionsAssumption DEF Node

(***************************************************************************)
(* Sibling ranges                                                          *)
(***************************************************************************)

\* There are MaxNodes nodes.
LEMMA NodeCount == IsFiniteSet(Node) /\ Cardinality(Node) = MaxNodes
  BY FS_Interval, MaxNodesAssumption DEF Node

\* What one more turn of forEachSibling's loop adds to the nodes it has visited.
Visit(h, s) == s \cup ({h.next[m] : m \in s} \ {Null})

\* The turns that start at n visit sets of T.
VisitsIn(h, n, T) == {n} \in T /\ \A s \in T : Visit(h, s) \in T

\* f gives what the turns visit.
AreVisits(h, n, T, f) ==
  /\ f[0] = {n} /\ \A k \in 1..MaxNodes : f[k] = Visit(h, f[k - 1])
  /\ \A k \in 0..MaxNodes : f[k] \in T
  /\ SiblingsFrom(h, n) = f[MaxNodes]

\* SiblingsFrom is what MaxNodes turns visit.
LEMMA SiblingsAreVisited ==
  ASSUME NEW h, NEW n, NEW T, VisitsIn(h, n, T)
  PROVE  \E f : AreVisits(h, n, T, f)
<1> DEFINE step == [x \in T \X (1..MaxNodes) |-> Visit(h, x[1])]
           Equation(f) == f = [k \in 0..Cardinality(Node) |->
                                 IF k = 0 THEN {n}
                                 ELSE LET seen == f[k - 1]
                                      IN  seen \cup ({h.next[m] : m \in seen} \ {Null})]
<1>1. MaxNodes \in Nat /\ Cardinality(Node) = MaxNodes
  BY NodeCount, MaxNodesAssumption
<1>2. {n} \in T /\ \A s \in T : Visit(h, s) \in T
  BY DEF VisitsIn
<1>3. step \in [T \X (1..MaxNodes) -> T]
  BY <1>2
<1>4. \A s \in T, k \in 1..MaxNodes : step[<<s, k>>] = Visit(h, s)
  OBVIOUS
<1> HIDE DEF step
<1>5. PICK f : f \in [0..MaxNodes -> T] /\ f[0] = {n}
               /\ \A k \in 1..MaxNodes : f[k] = step[<<f[k - 1], k>>]
  <2>1. \E f : Ind!IsRecursion(f, T, {n}, MaxNodes, step)
    BY <1>1, <1>2, <1>3, Ind!FunctionByRecursion
  <2> QED
    BY <2>1 DEF Ind!IsRecursion
<1>6. \A k \in 1..MaxNodes : f[k] = Visit(h, f[k - 1])
  <2> SUFFICES ASSUME NEW k \in 1..MaxNodes PROVE f[k] = Visit(h, f[k - 1])
    OBVIOUS
  <2>1. k - 1 \in 0..MaxNodes
    BY <1>1
  <2>2. f[k - 1] \in T
    BY <1>5, <2>1
  <2> QED
    BY <1>4, <1>5, <2>2
<1>7. Equation(f)
  <2>1. \A k \in 0..MaxNodes : f[k] = IF k = 0 THEN {n} ELSE Visit(h, f[k - 1])
    <3> SUFFICES ASSUME NEW k \in 0..MaxNodes
                 PROVE  f[k] = IF k = 0 THEN {n} ELSE Visit(h, f[k - 1])
      OBVIOUS
    <3>1. k = 0 \/ (k # 0 /\ k \in 1..MaxNodes)
      BY <1>1
    <3> QED
      BY <1>5, <1>6, <3>1
  <2> QED
    BY <1>1, <1>5, <2>1 DEF Visit
<1> DEFINE g == CHOOSE f_1 : Equation(f_1)
<1>8. Equation(g)
  BY <1>7
<1>9. SiblingsFrom(h, n) = g[MaxNodes]
  BY <1>1 DEF SiblingsFrom
<1>10. \A k \in 0..MaxNodes : g[k] = IF k = 0 THEN {n} ELSE Visit(h, g[k - 1])
  BY <1>1, <1>8 DEF Visit
<1> HIDE DEF g, Equation
<1>11. \A k \in 1..MaxNodes : g[k] = Visit(h, g[k - 1])
  <2> SUFFICES ASSUME NEW k \in 1..MaxNodes PROVE g[k] = Visit(h, g[k - 1])
    OBVIOUS
  <2>1. k \in 0..MaxNodes /\ k # 0
    BY <1>1
  <2> QED
    BY <1>10, <2>1
<1>12. g[0] = {n}
  <2>1. 0 \in 0..MaxNodes
    BY <1>1
  <2> QED
    BY <1>10, <2>1, Zenon
<1> DEFINE S == {k \in Nat : k <= MaxNodes => g[k] \in T}
<1>13. 0 \in S
  BY <1>2, <1>12
<1>14. ASSUME NEW k \in Nat, k \in S PROVE k + 1 \in S
  <2> SUFFICES ASSUME k + 1 <= MaxNodes PROVE g[k + 1] \in T
    OBVIOUS
  <2>1. k + 1 \in 1..MaxNodes /\ (k + 1) - 1 = k /\ g[k] \in T
    BY <1>1, <1>14
  <2>2. g[k + 1] = Visit(h, g[k])
    BY <1>11, <2>1
  <2> QED
    BY <1>2, <2>1, <2>2
<1> HIDE DEF S
<1>15. Nat \subseteq S
  BY <1>13, <1>14, Ind!SetInduction
<1>16. \A k \in 0..MaxNodes : g[k] \in T
  BY <1>15 DEF S
<1>17. AreVisits(h, n, T, g)
  BY <1>9, <1>11, <1>12, <1>16 DEF AreVisits
<1> QED
  BY <1>17

\* The sibling range of a node without a next sibling is the node alone.
LEMMA LoneRange ==
  ASSUME NEW h, NEW n \in Node, h.next[n] = Null
  PROVE  SiblingsFrom(h, n) = {n} /\ Back(h, n) = n
<1> DEFINE T == {{n}}
<1>1. VisitsIn(h, n, T)
  BY DEF Visit, VisitsIn
<1> HIDE DEF T
<1>2. PICK f : AreVisits(h, n, T, f)
  BY <1>1, SiblingsAreVisited
<1>3. SiblingsFrom(h, n) \in T
  BY <1>2, MaxNodesAssumption DEF AreVisits
<1>4. SiblingsFrom(h, n) = {n}
  BY <1>3 DEF T
<1>5. Back(h, n) = n
  BY <1>4 DEF Back
<1> QED
  BY <1>4, <1>5

\* The siblings of a node are nodes.
LEMMA SiblingsAreNodes ==
  ASSUME NEW h \in Heap, NEW n \in Node
  PROVE  SiblingsFrom(h, n) \subseteq Node
<1> DEFINE T == SUBSET Node
<1>1. VisitsIn(h, n, T)
  BY DEF Visit, VisitsIn, Heap, Ptr
<1> HIDE DEF T
<1>2. PICK f : AreVisits(h, n, T, f)
  BY <1>1, SiblingsAreVisited
<1>3. SiblingsFrom(h, n) \in T
  BY <1>2, MaxNodesAssumption DEF AreVisits
<1> QED
  BY <1>3 DEF T

\* What AddChildrenRaw does to the pointers ParseFromTrie follows, when it adds
\* a node without siblings to p, and LastChild of p is a child of p: the node
\* gets p as its parent and every other node keeps its own; p is no leaf any
\* more, and its LastChild is still a child of it.
LEMMA AddNewChild ==
  ASSUME NEW h \in Heap, NEW p \in Node, NEW n \in Node, p # n,
         h.next[n] = Null,
         ~IsLeaf(h, p) => h.last[p] \in Node \ {n} /\ h.parent[h.last[p]] = p
  PROVE  LET g == AddChildrenRaw(h, p, n)
         IN  /\ g \in Heap
             /\ g.parent = [h.parent EXCEPT ![n] = p]
             /\ g.first = IF IsLeaf(h, p) THEN [h.first EXCEPT ![p] = n] ELSE h.first
             /\ g.last = IF IsLeaf(h, p) THEN [h.last EXCEPT ![p] = n] ELSE h.last
             /\ \A m \in Node \ {n} : (~IsLeaf(h, p) => m # h.last[p]) => g.next[m] = h.next[m]
<1>1. SiblingsFrom(h, n) = {n} /\ Back(h, n) = n
  BY LoneRange
<1> DEFINE s == SetParentOfSiblings(h, p, n)
           g == AddChildrenRaw(h, p, n)
<1>2. /\ s \in Heap
      /\ s.parent = [h.parent EXCEPT ![n] = p]
      /\ s.first = h.first /\ s.last = h.last
      /\ s.prev = h.prev /\ s.next = h.next /\ s.live = h.live
  <2>1. [m \in Node |-> IF m \in SiblingsFrom(h, n) THEN p ELSE h.parent[m]]
          = [h.parent EXCEPT ![n] = p]
    BY <1>1 DEF Heap
  <2>2. s = [h EXCEPT !.parent = [h.parent EXCEPT ![n] = p]]
    BY <2>1 DEF SetParentOfSiblings
  <2>3. [h.parent EXCEPT ![n] = p] \in [Node -> Ptr]
    BY DEF Heap, Ptr
  <2> QED
    BY <2>2, <2>3 DEF Heap
<1>3. CASE IsLeaf(h, p)
  <2>1. g = [s EXCEPT !.prev = [s.prev EXCEPT ![n] = Null],
                      !.first = [s.first EXCEPT ![p] = n],
                      !.last = [s.last EXCEPT ![p] = n]]
    BY <1>3 DEF AddChildrenRaw
  <2>2. /\ g.parent = s.parent
        /\ g.first = [s.first EXCEPT ![p] = n]
        /\ g.last = [s.last EXCEPT ![p] = n]
        /\ g.next = s.next
    BY <1>2, <2>1 DEF Heap
  <2>3. /\ [s.prev EXCEPT ![n] = Null] \in [Node -> Ptr]
        /\ [s.first EXCEPT ![p] = n] \in [Node -> Ptr]
        /\ [s.last EXCEPT ![p] = n] \in [Node -> Ptr]
    BY <1>2 DEF Heap, Ptr
  <2>4. g \in Heap
    BY ZenonT(60), <1>2, <2>1, <2>3 DEF Heap
  <2> QED
    BY <1>2, <1>3, <2>2, <2>4
<1>4. CASE ~IsLeaf(h, p)
  <2> DEFINE this == h.last[p]
             prev == Put([s.prev EXCEPT ![n] = this], h.next[this], n)
             next == [[s.next EXCEPT ![n] = h.next[this]] EXCEPT ![this] = n]
  <2>1. this \in Node /\ h.parent[this] = p /\ this # n
    BY <1>4
  <2>2. g = AddSiblingsRaw(h, this, n)
    BY <1>4 DEF AddChildrenRaw
  <2>3. g = [s EXCEPT !.prev = prev, !.next = next, !.last = s.last]
    BY <1>1, <2>1, <2>2 DEF AddSiblingsRaw
  <2>4. /\ g.parent = s.parent
        /\ g.first = s.first
        /\ g.last = s.last
        /\ g.next = next
    BY <1>2, <2>3 DEF Heap
  <2>5. \A m \in Node \ {n} : m # this => next[m] = h.next[m]
    BY <1>2, <2>1 DEF Heap
  <2>6. prev \in [Node -> Ptr] /\ next \in [Node -> Ptr]
    BY <1>2, <2>1 DEF Heap, Ptr, Put
  <2>7. g \in Heap
    <3> HIDE DEF prev, next
    <3> QED BY ZenonT(60), <1>2, <2>3, <2>6 DEF Heap
  <2> QED
    BY <1>2, <1>4, <2>4, <2>5, <2>7
<1> QED
  BY <1>3, <1>4

-----------------------------------------------------------------------------
(***************************************************************************)
(* The inductive invariant of ParseFromTrie                                *)
(***************************************************************************)

ParseState ==
  [parent : Ptr, depth : Nat, up : Nat, made : Nat, open : BOOLEAN]

\* What is known of the variables while the tree is built.
BuildTypes ==
  /\ heap \in Heap
  /\ attr \in [Node -> Attr]
  /\ parse \in ParseState /\ parse.made <= MaxNodes
  /\ root \in Ptr
  /\ root = Null => pc = "parse" /\ parse.made = 0
  /\ root # Null => root = 1 /\ parse.parent \in 1..parse.made /\ attr[1].depth = 1
  /\ pc = "attach" => root # Null /\ parse.made < MaxNodes /\ parse.depth > 1

\* A node that is not yet allocated has no pointers, and the LastChild of a node
\* that has children is one of them.
Fresh ==
  /\ \A n \in Node : n > parse.made => heap.first[n] = Null /\ heap.next[n] = Null
  /\ \A p \in 1..parse.made : ~IsLeaf(heap, p) =>
       heap.last[p] \in 1..parse.made /\ heap.parent[heap.last[p]] = p

\* The parent of each node is the last one before it that is one level up.
Placed(n) ==
  LET p == heap.parent[n]
  IN  /\ p \in 1..(n - 1)
      /\ attr[p].depth + 1 = attr[n].depth
      /\ \A m \in (p + 1)..(n - 1) : attr[m].depth >= attr[n].depth

\* Parent is an ancestor of the last node made: all nodes after it are deeper.
\* Its depth is the depth of the entry read last, or one less if that entry has
\* no children, and during the climb it is off by the steps that are left.
Climb ==
  root # Null =>
    /\ \A m \in (parse.parent + 1)..parse.made : attr[m].depth > attr[parse.parent].depth
    /\ pc = "parse" =>
         attr[parse.parent].depth + (IF parse.open THEN 0 ELSE 1) = parse.depth
    /\ pc = "attach" => attr[parse.parent].depth + 1 = parse.depth + parse.up

Building == pc \in {"parse", "attach"}

BuildInv ==
  Building => BuildTypes /\ Fresh /\ Climb /\ \A n \in 2..parse.made : Placed(n)

\* The invariant of the parse holds before the first entry.
LEMMA BuildInvInit == Init => BuildInv
<1> SUFFICES ASSUME Init PROVE BuildInv
  OBVIOUS
<1>1. heap \in Heap /\ \A n \in Node : heap.first[n] = Null /\ heap.next[n] = Null
  BY DEF Init, EmptyHeap, Heap, Ptr
<1>2. attr \in [Node -> Attr]
  BY DEF Init, Attr, Node
<1>3. BuildTypes
  <2>1. parse \in ParseState /\ parse.made = 0
    BY DEF Init, ParseState, Ptr
  <2>2. root = Null /\ pc = "parse" /\ root \in Ptr
    BY DEF Init, Ptr
  <2> QED
    BY <1>1, <1>2, <2>1, <2>2, MaxNodesAssumption DEF BuildTypes
<1> QED
  BY <1>1, <1>3 DEF Init, BuildInv, Fresh, Climb

\* MakeNode gives node n its depth and leaves the depths of the others.
LEMMA MakeNodeDepth ==
  ASSUME attr \in [Node -> Attr], NEW n \in Node, NEW d \in Nat, NEW e \in BOOLEAN,
         MakeNode(n, d, e), parse.made + 1 \in Node
  PROVE  /\ attr' \in [Node -> Attr]
         /\ attr'[n].depth = d
         /\ \A m \in Node \ {n} : attr'[m] = attr[m]
<1>1. PICK meets \in BOOLEAN, name \in FreshNames :
        attr' = [attr EXCEPT ![n] =
                  [export |-> e, meets |-> meets, name |-> name, depth |-> d]]
  BY DEF MakeNode
<1>2. name \in Node
  BY <1>1, MaxNodesAssumption, MaxSortedAssumption DEF FreshNames, Node
<1> QED
  BY <1>1, <1>2 DEF Attr

\* ParseRoot, ReadEntry and Attach keep the invariant of the parse.
LEMMA ParseRootStep ==
  ASSUME BuildInv, ParseRoot
  PROVE  BuildInv'
<1>1. BuildTypes /\ Fresh /\ pc = "parse" /\ root = Null /\ parse.made = 0
  BY DEF BuildInv, Building, BuildTypes, ParseRoot
<1>2. 1 \in Node /\ MaxNodes \in Nat
  BY MaxNodesAssumption DEF Node
<1>3. attr' \in [Node -> Attr] /\ attr'[1].depth = 1
  <2>1. MakeNode(1, 1, FALSE)
    BY Zenon DEF ParseRoot
  <2>2. attr \in [Node -> Attr] /\ parse.made + 1 \in Node
    BY <1>1, <1>2 DEF BuildTypes
  <2>3. 1 \in Nat /\ FALSE \in BOOLEAN
    OBVIOUS
  <2> QED
    BY <1>2, <2>1, <2>2, <2>3, MakeNodeDepth, Zenon
<1>4. heap' = [heap EXCEPT !.live = @ \cup {1}]
  BY DEF ParseRoot, Allocate
<1>5. heap' \in Heap /\ heap'.first = heap.first /\ heap'.next = heap.next
  BY <1>1, <1>2, <1>4 DEF BuildTypes, Heap
<1>6. /\ pc' = "parse" /\ root' = 1
      /\ parse' = [parent |-> 1, depth |-> 1, up |-> 0, made |-> 1, open |-> TRUE]
  BY <1>1 DEF ParseRoot
<1>7. BuildTypes'
  <2>1. parse' \in ParseState /\ parse'.parent = 1 /\ parse'.made = 1
    BY <1>2, <1>6 DEF ParseState, Ptr
  <2>2. parse'.made <= MaxNodes /\ parse'.parent \in 1..parse'.made
    BY <1>2, <2>1 DEF Node
  <2>3. root' = 1 /\ root' \in Ptr /\ root' # Null /\ pc' # "attach"
    BY <1>2, <1>6, NullIsNoNode DEF Ptr
  <2> QED
    BY <1>3, <1>5, <2>1, <2>2, <2>3 DEF BuildTypes
<1>8. Fresh'
  <2>1. \A n \in Node : heap.first[n] = Null /\ heap.next[n] = Null
    BY <1>1 DEF Fresh, Node
  <2>2. parse'.made = 1
    BY <1>6
  <2>3. IsLeaf(heap, 1)'
    BY <1>2, <1>5, <2>1 DEF IsLeaf
  <2> QED
    BY <1>2, <1>5, <2>1, <2>2, <2>3 DEF Fresh, IsLeaf
<1>9. Climb'
  BY <1>3, <1>6 DEF Climb
<1> QED
  BY <1>6, <1>7, <1>8, <1>9 DEF BuildInv

\* Reading an entry sets how far Parent has to climb.
LEMMA ReadEntryStep ==
  ASSUME BuildInv, NEW d \in 2..MaxNodes, NEW open \in BOOLEAN, ReadEntry(d, open)
  PROVE  BuildInv'
<1>1. /\ BuildTypes /\ Fresh /\ Climb /\ \A n \in 2..parse.made : Placed(n)
      /\ pc = "parse" /\ root # Null
  BY DEF BuildInv, Building, ReadEntry
<1>2. /\ pc' = "attach"
      /\ parse' = [parse EXCEPT !.depth = d, !.open = open,
                     !.up = IF parse.depth > d THEN parse.depth - d ELSE 0]
      /\ UNCHANGED <<heap, root, attr>>
      /\ parse.made < MaxNodes
      /\ IF parse.open THEN d = parse.depth + 1 ELSE d <= parse.depth
  BY DEF ReadEntry
<1>3. /\ parse'.parent = parse.parent /\ parse'.made = parse.made /\ parse'.depth = d
      /\ parse'.up = IF parse.depth > d THEN parse.depth - d ELSE 0
  BY <1>1, <1>2 DEF BuildTypes, ParseState
<1>4. d \in Nat /\ d > 1 /\ parse.depth \in Nat
  BY <1>1, MaxNodesAssumption DEF BuildTypes, ParseState
<1>5. parse' \in ParseState
  <2>1. parse \in ParseState /\ (IF parse.depth > d THEN parse.depth - d ELSE 0) \in Nat
    BY <1>1, <1>4 DEF BuildTypes
  <2> DEFINE climb == IF parse.depth > d THEN parse.depth - d ELSE 0
  <2> HIDE DEF climb
  <2> QED
    BY <1>2, <1>4, <2>1 DEF ParseState, climb
<1>6. BuildTypes'
  BY <1>1, <1>2, <1>3, <1>4, <1>5 DEF BuildTypes
<1>7. Fresh' /\ \A n \in 2..parse'.made : Placed(n)'
  BY <1>1, <1>2, <1>3 DEF Fresh, Placed
<1>8. attr[parse.parent].depth \in Nat
  <2>1. parse.parent \in Node
    BY <1>1, MaxNodesAssumption DEF BuildTypes, ParseState, Node
  <2> QED
    BY <1>1, <2>1 DEF BuildTypes, Attr
<1>9. attr[parse.parent].depth + 1 = parse'.depth + parse'.up
  BY <1>1, <1>2, <1>3, <1>4, <1>8 DEF Climb
<1>10. Climb'
  BY <1>1, <1>2, <1>3, <1>9 DEF Climb
<1> QED
  BY <1>6, <1>7, <1>10 DEF BuildInv

\* The climb never leaves the tree: the root is at depth 1, and a Parent that
\* still has to move is deeper.
LEMMA MoveUpStep ==
  ASSUME BuildInv, MoveUp
  PROVE  BuildInv'
<1> DEFINE p == parse.parent
           q == heap.parent[p]
           depth(m) == attr[m].depth
<1>1. /\ BuildTypes /\ Fresh /\ Climb /\ \A n \in 2..parse.made : Placed(n)
      /\ pc = "attach" /\ root # Null /\ parse.up # 0
  BY DEF BuildInv, Building, MoveUp, BuildTypes
<1>2. /\ pc' = "attach"
      /\ parse' = [parse EXCEPT !.parent = q, !.up = parse.up - 1]
      /\ UNCHANGED <<heap, root, attr>>
  BY DEF MoveUp
<1>3. parse.up \in Nat /\ parse.made \in Nat /\ parse.made <= MaxNodes /\ parse.depth \in Nat /\ MaxNodes \in Nat
  BY <1>1, MaxNodesAssumption DEF BuildTypes, ParseState
<1>4. parse'.parent = q /\ parse'.up = parse.up - 1 /\ parse'.made = parse.made
      /\ parse'.depth = parse.depth /\ parse'.open = parse.open
  BY <1>1, <1>2 DEF BuildTypes, ParseState
<1>5. \A m \in 1..parse.made : m \in Node /\ depth(m) \in Nat
  <2>1. \A m \in Node : depth(m) \in Nat
    BY <1>1 DEF BuildTypes, Attr
  <2> QED
    BY <1>3, <2>1 DEF Node
<1>6. p \in 1..parse.made /\ depth(p) + 1 = parse.depth + parse.up /\ parse.depth > 1
  BY <1>1 DEF BuildTypes, Climb
<1>7. p \in 2..parse.made
  BY <1>1, <1>3, <1>5, <1>6 DEF BuildTypes
<1>8. /\ q \in 1..(p - 1)
      /\ depth(q) + 1 = depth(p)
      /\ \A m \in (q + 1)..(p - 1) : depth(m) >= depth(p)
  BY <1>1, <1>7 DEF Placed
<1>9. q \in 1..parse.made
  BY <1>3, <1>6, <1>8
<1>10. ASSUME NEW m \in (q + 1)..parse.made PROVE depth(m) > depth(q)
  <2>1. m \in 1..parse.made /\ depth(m) \in Nat /\ depth(q) \in Nat /\ depth(p) \in Nat
    BY <1>3, <1>5, <1>6, <1>9, <1>10
  <2>2. CASE m < p
    BY <1>3, <1>6, <1>8, <2>1, <2>2
  <2>3. CASE m = p
    BY <1>8, <2>1, <2>3
  <2>4. CASE m > p
    <3>1. depth(m) > depth(p)
      BY <1>1, <1>3, <1>6, <2>1, <2>4 DEF Climb
    <3> QED BY <1>8, <2>1, <3>1
  <2> QED
    BY <1>3, <1>6, <2>1, <2>2, <2>3, <2>4
<1>11. BuildTypes'
  <2>1. parse' \in ParseState
    <3>1. parse \in ParseState /\ q \in Ptr /\ parse.up - 1 \in Nat
      BY <1>1, <1>3, <1>5, <1>9 DEF BuildTypes, Ptr
    <3> QED
      BY <1>2, <3>1 DEF ParseState
  <2> QED
    BY <1>1, <1>2, <1>4, <1>9, <2>1 DEF BuildTypes, MoveUp
<1>12. Fresh' /\ \A n \in 2..parse'.made : Placed(n)'
  BY <1>1, <1>2, <1>4 DEF Fresh, Placed
<1>13. depth(q) + 1 = parse'.depth + parse'.up
  BY <1>3, <1>4, <1>5, <1>6, <1>8, <1>9
<1>14. Climb'
  BY <1>2, <1>4, <1>10, <1>13 DEF Climb
<1> QED
  BY <1>11, <1>12, <1>14 DEF BuildInv

\* The new node is placed below the node the climb ended at.
LEMMA AttachStep ==
  ASSUME BuildInv, Attach
  PROVE  BuildInv'
<1> DEFINE n == parse.made + 1
           p == parse.parent
           h == Allocate(heap, n)
           depth(m) == attr[m].depth
<1>1. /\ BuildTypes /\ Fresh /\ Climb /\ \A m \in 2..parse.made : Placed(m)
      /\ pc = "attach" /\ root = 1 /\ root # Null /\ parse.up = 0
  BY DEF BuildInv, Building, Attach, BuildTypes
<1>2. /\ parse \in ParseState /\ parse.made \in Nat /\ parse.made < MaxNodes
      /\ parse.depth \in Nat /\ parse.depth > 1 /\ MaxNodes \in Nat
      /\ p \in 1..parse.made /\ attr \in [Node -> Attr] /\ heap \in Heap
  BY <1>1, MaxNodesAssumption DEF BuildTypes, ParseState
<1>3. /\ n \in Node /\ p \in Node /\ p # n /\ n \in 2..MaxNodes
      /\ \A m \in 1..parse.made : m \in Node \ {n}
  BY <1>2 DEF Node
<1>4. \A m \in Node : depth(m) \in Nat
  BY <1>2 DEF Attr
<1>5. /\ attr' \in [Node -> Attr]
      /\ attr'[n].depth = parse.depth
      /\ \A m \in Node \ {n} : attr'[m] = attr[m]
  <2>1. PICK export \in BOOLEAN : MakeNode(n, parse.depth, export)
    BY Zenon DEF Attach
  <2> QED
    BY <1>2, <1>3, <2>1, MakeNodeDepth
<1>6. /\ heap' = AddChildrenRaw(h, p, n)
      /\ parse' = [parse EXCEPT !.made = n, !.parent = IF parse.open THEN n ELSE p]
      /\ pc' = "parse" /\ root' = root
  BY DEF Attach
<1>7. /\ h \in Heap /\ h.parent = heap.parent /\ h.first = heap.first
      /\ h.last = heap.last /\ h.next = heap.next
  BY <1>2, <1>3 DEF Allocate, Heap
<1>8. /\ heap' \in Heap
      /\ heap'.parent = [heap.parent EXCEPT ![n] = p]
      /\ heap'.first = IF IsLeaf(heap, p) THEN [heap.first EXCEPT ![p] = n] ELSE heap.first
      /\ heap'.last = IF IsLeaf(heap, p) THEN [heap.last EXCEPT ![p] = n] ELSE heap.last
      /\ \A m \in Node \ {n} :
           (~IsLeaf(heap, p) => m # heap.last[p]) => heap'.next[m] = heap.next[m]
  <2>1. heap.next[n] = Null
    BY <1>1, <1>2, <1>3 DEF Fresh
  <2>2. IsLeaf(h, p) <=> IsLeaf(heap, p)
    BY <1>7 DEF IsLeaf
  <2>3. ~IsLeaf(heap, p) => heap.last[p] \in Node \ {n} /\ heap.parent[heap.last[p]] = p
    BY <1>1, <1>2, <1>3 DEF Fresh
  <2> DEFINE g == AddChildrenRaw(h, p, n)
  <2> HIDE DEF h, n, p
  <2>4. ~IsLeaf(h, p) => h.last[p] \in Node \ {n} /\ h.parent[h.last[p]] = p
    BY <1>7, <2>2, <2>3
  <2>5. /\ g \in Heap
        /\ g.parent = [h.parent EXCEPT ![n] = p]
        /\ g.first = IF IsLeaf(h, p) THEN [h.first EXCEPT ![p] = n] ELSE h.first
        /\ g.last = IF IsLeaf(h, p) THEN [h.last EXCEPT ![p] = n] ELSE h.last
        /\ \A m \in Node \ {n} : (~IsLeaf(h, p) => m # h.last[p]) => g.next[m] = h.next[m]
    BY <1>3, <1>7, <2>1, <2>4, AddNewChild, ZenonT(60)
  <2>6. heap' = g
    BY <1>6
  <2> HIDE DEF g
  <2>7. CASE IsLeaf(heap, p)
    BY <1>7, <2>2, <2>5, <2>6, <2>7
  <2>8. CASE ~IsLeaf(heap, p)
    BY <1>7, <2>2, <2>5, <2>6, <2>8
  <2> QED
    BY <2>7, <2>8
<1>9. /\ parse' \in ParseState /\ parse'.made = n /\ parse'.depth = parse.depth
      /\ parse'.open = parse.open /\ parse'.parent = IF parse.open THEN n ELSE p
  <2> DEFINE next == IF parse.open THEN n ELSE p
  <2>1. next \in Ptr
    BY <1>3 DEF Ptr
  <2> HIDE DEF next, n
  <2>2. parse' = [parse EXCEPT !.made = n, !.parent = next]
    BY <1>6 DEF next
  <2>3. n \in Nat
    BY <1>2 DEF n
  <2>4. /\ parse' \in ParseState /\ parse'.made = n /\ parse'.depth = parse.depth
        /\ parse'.open = parse.open /\ parse'.parent = next
    BY <1>2, <2>1, <2>2, <2>3 DEF ParseState
  <2> QED
    BY <2>4 DEF next
<1>10. BuildTypes'
  <2>1. attr'[1].depth = 1
    BY <1>1, <1>2, <1>3, <1>5 DEF BuildTypes
  <2>2. root' \in Ptr
    BY <1>1, <1>6 DEF BuildTypes
  <2> QED
    BY <1>1, <1>2, <1>3, <1>5, <1>6, <1>8, <1>9, <2>1, <2>2 DEF BuildTypes
<1>11. Fresh'
  <2>1. ASSUME NEW m \in Node, m > n PROVE heap'.first[m] = Null /\ heap'.next[m] = Null
    <3>1. /\ heap.first[m] = Null /\ heap.next[m] = Null /\ m # p /\ m # n
          /\ m \notin 1..parse.made
      BY <1>1, <1>2, <2>1 DEF Fresh, Node
    <3>2. ~IsLeaf(heap, p) => m # heap.last[p]
      BY <1>1, <1>2, <3>1 DEF Fresh
    <3> QED
      BY <1>2, <1>3, <1>8, <2>1, <3>1, <3>2 DEF Heap
  <2>2. ASSUME NEW q \in 1..n, ~IsLeaf(heap', q)
        PROVE  heap'.last[q] \in 1..n /\ heap'.parent[heap'.last[q]] = q
    <3>1. q \in Node
      BY <1>2, <1>3 DEF Node
    <3>2. CASE q = p /\ IsLeaf(heap, p)
      BY <1>2, <1>3, <1>8, <3>2 DEF Heap
    <3>3. CASE ~(q = p /\ IsLeaf(heap, p))
      <4>1. heap'.first[q] = heap.first[q] /\ heap'.last[q] = heap.last[q]
        BY <1>2, <1>3, <1>8, <3>1, <3>3 DEF Heap
      <4>2. ~IsLeaf(heap, q)
        BY <2>2, <4>1 DEF IsLeaf
      <4>3. q \in 1..parse.made
        BY <1>1, <1>2, <1>3, <4>2 DEF Fresh, IsLeaf
      <4>4. heap.last[q] \in 1..parse.made /\ heap.parent[heap.last[q]] = q
        BY <1>1, <4>2, <4>3 DEF Fresh
      <4> QED
        BY <1>2, <1>3, <1>8, <4>1, <4>4 DEF Heap
    <3> QED
      BY <3>2, <3>3
  <2> QED
    BY <1>9, <2>1, <2>2 DEF Fresh
<1>12. depth(p) + 1 = parse.depth /\ \A m \in (p + 1)..parse.made : depth(m) > depth(p)
  BY <1>1, <1>2, <1>3, <1>4 DEF Climb
<1>13. Climb'
  <2>1. CASE parse.open
    BY <1>2, <1>5, <1>6, <1>9, <2>1 DEF Climb
  <2>2. CASE ~parse.open
    <3>1. parse'.parent = p /\ attr'[p] = attr[p] /\ attr'[p].depth + 1 = parse'.depth
      BY <1>3, <1>5, <1>9, <1>12, <2>2
    <3>2. ASSUME NEW m \in (p + 1)..n PROVE attr'[m].depth > attr'[p].depth
      <4>1. CASE m = n
        BY <1>3, <1>4, <1>5, <1>12, <3>1, <4>1
      <4>2. CASE m # n
        BY <1>2, <1>3, <1>5, <1>12, <3>1, <4>2
      <4> QED
        BY <4>1, <4>2
    <3> QED
      BY <1>6, <1>9, <2>2, <3>1, <3>2 DEF Climb
  <2> QED
    BY <2>1, <2>2
<1>14. ASSUME NEW m \in 2..n PROVE Placed(m)'
  <2>1. CASE m = n
    <3>1. heap'.parent[n] = p /\ p \in 1..(n - 1) /\ attr'[p] = attr[p]
      BY <1>2, <1>3, <1>5, <1>8 DEF Heap
    <3>2. ASSUME NEW k \in (p + 1)..(n - 1) PROVE attr'[k].depth >= attr'[n].depth
      <4>1. k \in 1..parse.made /\ k \in (p + 1)..parse.made
        BY <1>2, <3>2
      <4> QED
        BY <1>2, <1>3, <1>4, <1>5, <1>12, <4>1
    <3> QED
      BY <1>5, <1>12, <2>1, <3>1, <3>2 DEF Placed
  <2>2. CASE m # n
    <3>1. m \in 2..parse.made /\ m \in Node
      BY <1>2, <1>3, <2>2
    <3>2. heap'.parent[m] = heap.parent[m]
      BY <1>2, <1>8, <2>2, <3>1 DEF Heap
    <3>3. \A k \in 1..m : attr'[k] = attr[k]
      BY <1>2, <1>3, <1>5, <3>1
    <3>4. heap.parent[m] \in 1..(m - 1) /\ Placed(m)
      BY <1>1, <3>1 DEF Placed
    <3> QED
      BY <1>2, <3>1, <3>2, <3>3, <3>4 DEF Placed
  <2> QED
    BY <2>1, <2>2
<1> QED
  BY <1>9, <1>10, <1>11, <1>13, <1>14 DEF BuildInv

\* Once the parse is over the program never returns to it.
LEMMA LeavesBuild ==
  ASSUME \/ ParseError \/ ParseEnd \/ FilterKeep \/ FilterRemove \/ RemoveLeafParent
         \/ FilterEnd \/ CountNodes \/ SortCompare \/ SortNextChild \/ SortNextNode
  PROVE  ~Building'
BY DEF ParseError, ParseEnd, FilterKeep, FilterRemove, RemoveLeafParent, FilterEnd,
       CountNodes, SortCompare, SortNextChild, SortNextNode, Building

\* Every step keeps the invariant of the parse.
LEMMA BuildInvStep == BuildInv /\ [Next]_vars => BuildInv'
<1> SUFFICES ASSUME BuildInv, [Next]_vars PROVE BuildInv'
  OBVIOUS
<1>1. CASE ParseRoot
  BY <1>1, ParseRootStep
<1>2. CASE \E d \in 2..MaxNodes, open \in BOOLEAN : ReadEntry(d, open)
  BY <1>2, ReadEntryStep
<1>3. CASE MoveUp
  BY <1>3, MoveUpStep
<1>4. CASE Attach
  BY <1>4, AttachStep
<1>5. CASE \/ ParseError \/ ParseEnd \/ FilterKeep \/ FilterRemove \/ RemoveLeafParent
           \/ FilterEnd \/ CountNodes \/ SortCompare \/ SortNextChild \/ SortNextNode
  BY <1>5, LeavesBuild DEF BuildInv
<1>6. CASE Done \/ UNCHANGED vars
  BY <1>6 DEF Done, vars, BuildInv, Building, BuildTypes, Fresh, Climb, Placed
<1> QED
  BY <1>1, <1>2, <1>3, <1>4, <1>5, <1>6 DEF Next

\* ParseFromTrie rebuilds the shape of every trie: the parent of each node is
\* the one the trie has above it.
THEOREM ParsedTreeMatchesTrie == Spec => []TreeMatchesTrie
<1>1. Init => BuildInv
  BY BuildInvInit
<1>2. BuildInv /\ [Next]_vars => BuildInv'
  BY BuildInvStep
<1>3. BuildInv => TreeMatchesTrie
  BY DEF BuildInv, Building, TreeMatchesTrie, Placed
<1> QED
  BY <1>1, <1>2, <1>3, PTL DEF Spec

-----------------------------------------------------------------------------
(***************************************************************************)
(* The tree as a function of the nodes it has: the parent of a node is the *)
(* last one before it that the trie has above it, and the sibling lists    *)
(* hold the nodes with the same parent in the order of pos.                *)
(***************************************************************************)

\* Node m is below node n in the trie.
Below(a, m, n) == n < m /\ \A k \in (n + 1)..m : a[k].depth > a[n].depth

Kids(h, p) == {n \in h.live : h.parent[n] = p}

Parents(h, a) ==
  \A n \in h.live :
    IF n = 1 THEN h.parent[n] = Null
    ELSE /\ h.parent[n] \in h.live /\ Below(a, n, h.parent[n])
         /\ \A k \in h.live : Below(a, n, k) => k <= h.parent[n]

\* m is the child of p right after, or right before, n.
IsAfter(h, pos, p, n, m) ==
  /\ m \in Kids(h, p) /\ pos[n] < pos[m]
  /\ \A k \in Kids(h, p) : pos[n] < pos[k] => pos[m] <= pos[k]

IsBefore(h, pos, p, n, m) ==
  /\ m \in Kids(h, p) /\ pos[m] < pos[n]
  /\ \A k \in Kids(h, p) : pos[k] < pos[n] => pos[k] <= pos[m]

NextInOrder(h, pos) ==
  \A n \in h.live :
    IF h.next[n] = Null THEN \A k \in Kids(h, h.parent[n]) : pos[k] <= pos[n]
    ELSE IsAfter(h, pos, h.parent[n], n, h.next[n])

PrevInOrder(h, pos) ==
  \A n \in h.live :
    IF h.prev[n] = Null THEN \A k \in Kids(h, h.parent[n]) : pos[n] <= pos[k]
    ELSE IsBefore(h, pos, h.parent[n], n, h.prev[n])

FirstInOrder(h, pos) ==
  \A n \in h.live :
    IF h.first[n] = Null THEN Kids(h, n) = {}
    ELSE h.first[n] \in Kids(h, n) /\ \A k \in Kids(h, n) : pos[h.first[n]] <= pos[k]

\* A node that is not allocated, or deleted, has no pointers.
DeadAreClear(h) ==
  \A n \in Node \ h.live : /\ h.parent[n] = Null /\ h.first[n] = Null
                           /\ h.prev[n] = Null /\ h.next[n] = Null

Order == {pos \in [Node -> Nat] : \A m, n \in Node : pos[m] = pos[n] => m = n}

IsTree(h, a, pos) ==
  /\ h \in Heap /\ Parents(h, a)
  /\ NextInOrder(h, pos) /\ PrevInOrder(h, pos) /\ FirstInOrder(h, pos)
  /\ DeadAreClear(h)

\* pos orders the tree as an iterator walks it: a node, and then all below it.
Preorder(L, a, pos) ==
  /\ \A m, n \in L : Below(a, m, n) => pos[n] < pos[m]
  /\ \A m, n, k \in L : Below(a, m, n) /\ pos[n] < pos[k] /\ pos[k] <= pos[m] => Below(a, k, n)

\* LastChild is FirstChild for the nodes in L.
Lasts(h, L) == \A p \in L : h.first[p] # Null => h.last[p] = h.first[p]

\* What is below a node that is below z is below z.
LEMMA BelowTransitive ==
  ASSUME NEW a \in [Node -> Attr], NEW x \in Node, NEW y \in Node, NEW z \in Node,
         Below(a, x, y), Below(a, y, z)
  PROVE  Below(a, x, z)
<1> DEFINE d(n) == a[n].depth
<1>1. \A n \in Node : n \in Nat /\ d(n) \in Nat
  BY MaxNodesAssumption DEF Node, Attr
<1>2. z < y /\ y < x /\ d(y) > d(z)
  BY <1>1 DEF Below
<1>3. ASSUME NEW k \in (z + 1)..x PROVE d(k) > d(z)
  <2>1. k \in Node
    BY <1>1, <1>2, MaxNodesAssumption DEF Node
  <2>2. CASE k <= y
    BY <1>1, <1>2, <2>1, <2>2 DEF Below
  <2>3. CASE k > y
    <3>1. k \in (y + 1)..x
      BY <1>1, <1>2, <2>1, <2>3
    <3>2. d(k) > d(y)
      BY <3>1 DEF Below
    <3> QED
      BY <1>1, <1>2, <2>1, <3>2
  <2> QED
    BY <1>1, <2>1, <2>2, <2>3
<1> QED
  BY <1>1, <1>2, <1>3 DEF Below

\* All nodes between y and a node below y are below y.
LEMMA BelowInside ==
  ASSUME NEW x \in Node, NEW y \in Node, NEW a, Below(a, x, y)
  PROVE  y < x /\ \A k \in Node : y < k /\ k <= x => Below(a, k, y)
<1>1. x \in Nat /\ y \in Nat /\ \A k \in Node : k \in Nat
  BY MaxNodesAssumption DEF Node
<1> QED
  BY <1>1 DEF Below

\* Of two nodes above a third, one is above the other.
LEMMA BelowLinear ==
  ASSUME NEW a, NEW x \in Node, NEW y \in Node, NEW z \in Node,
         Below(a, x, y), Below(a, x, z)
  PROVE  y = z \/ Below(a, y, z) \/ Below(a, z, y)
<1>1. x \in Nat /\ y \in Nat /\ z \in Nat
  BY MaxNodesAssumption DEF Node
<1>2. y < x /\ z < x
  BY DEF Below
<1> QED
  BY <1>1, <1>2, BelowInside

-----------------------------------------------------------------------------
(***************************************************************************)
(* Sibling lists                                                           *)
(***************************************************************************)

\* The sibling lists are in order, and no parent is a node that is gone.
InOrder(h, pos) ==
  /\ h \in Heap /\ pos \in Order
  /\ NextInOrder(h, pos) /\ PrevInOrder(h, pos) /\ FirstInOrder(h, pos)
  /\ \A n \in h.live : h.parent[n] \in h.live \cup {Null}

\* The fields of a heap are functions from nodes to pointers.
LEMMA HeapTypes ==
  ASSUME NEW h \in Heap
  PROVE  /\ h.live \subseteq Node
         /\ h.parent \in [Node -> Ptr] /\ h.first \in [Node -> Ptr] /\ h.last \in [Node -> Ptr]
         /\ h.prev \in [Node -> Ptr] /\ h.next \in [Node -> Ptr]
         /\ \A n \in Node : /\ h.parent[n] \in Ptr /\ h.first[n] \in Ptr /\ h.last[n] \in Ptr
                            /\ h.prev[n] \in Ptr /\ h.next[n] \in Ptr
  BY DEF Heap

\* An order gives each node a place of its own.
LEMMA PosTypes ==
  ASSUME NEW pos \in Order
  PROVE  /\ pos \in [Node -> Nat] /\ \A n \in Node : pos[n] \in Nat
         /\ \A m, n \in Node : pos[m] = pos[n] => m = n
  BY DEF Order

\* A tree's sibling lists are in order.
LEMMA TreeInOrder ==
  ASSUME NEW h, NEW a, NEW pos \in Order, IsTree(h, a, pos)
  PROVE  InOrder(h, pos)
  BY DEF IsTree, InOrder, Parents

\* There are finitely many places.
LEMMA PosBound ==
  ASSUME NEW pos \in Order
  PROVE  \E b \in Nat : \A n \in Node : pos[n] <= b
<1> DEFINE S == {m \in Nat : \E b \in Nat : \A n \in Node : n <= m => pos[n] <= b}
<1>1. \A n \in Node : n \in Nat /\ n # 0 /\ n <= MaxNodes /\ pos[n] \in Nat
  BY PosTypes, MaxNodesAssumption DEF Node
<1>2. 0 \in S
  BY <1>1
<1>3. ASSUME NEW m \in Nat, m \in S PROVE m + 1 \in S
  <2>1. PICK b \in Nat : \A n \in Node : n <= m => pos[n] <= b
    BY <1>3
  <2>2. CASE m + 1 \in Node
    <3>1. \A n \in Node : n <= m + 1 => pos[n] <= b + pos[m + 1]
      BY <1>1, <2>1, <2>2
    <3> QED
      BY <1>1, <2>2, <3>1
  <2>3. CASE m + 1 \notin Node
    <3>1. \A n \in Node : n <= m + 1 => pos[n] <= b
      BY <1>1, <2>1, <2>3
    <3> QED
      BY <3>1
  <2> QED
    BY <2>2, <2>3
<1> HIDE DEF S
<1>4. MaxNodes \in S
  BY <1>2, <1>3, MaxNodesAssumption, Ind!SetInduction
<1> QED
  BY <1>1, <1>4 DEF S

\* A set of nodes that is not empty has one that is first and one that is last.
LEMMA FirstExists ==
  ASSUME NEW pos \in Order, NEW R \in SUBSET Node, R # {}
  PROVE  \E n \in R : \A k \in R : pos[n] <= pos[k]
<1> DEFINE V == {pos[k] : k \in R}
<1>1. V \in SUBSET Nat /\ V # {}
  BY PosTypes
<1>2. PICK v \in V : \A w \in V : v <= w
  BY <1>1, Ind!LeastExists
<1> QED
  BY <1>2

\* And one that is last.
LEMMA LastExists ==
  ASSUME NEW pos \in Order, NEW R \in SUBSET Node, R # {}
  PROVE  \E n \in R : \A k \in R : pos[k] <= pos[n]
<1> DEFINE V == {pos[k] : k \in R}
<1>1. PICK b \in Nat : \A n \in Node : pos[n] <= b
  BY PosBound
<1>2. V \in SUBSET (0..b) /\ V # {}
  BY <1>1, PosTypes
<1>3. PICK v \in V : \A w \in V : w <= v
  BY <1>2, Ind!GreatestExists
<1> QED
  BY <1>3

\* The pointers of a sibling list in order agree with each other.
LEMMA NextIsLinked ==
  ASSUME NEW h, NEW pos, InOrder(h, pos), NEW n \in h.live, h.next[n] # Null
  PROVE  /\ h.next[n] \in h.live /\ h.prev[h.next[n]] = n
         /\ h.parent[h.next[n]] = h.parent[n] /\ pos[n] < pos[h.next[n]]
<1> DEFINE m == h.next[n]
           p == h.parent[n]
<1>1. h.live \subseteq Node /\ (\A k \in Node : pos[k] \in Nat)
      /\ \A j, k \in Node : pos[j] = pos[k] => j = k
  BY HeapTypes, PosTypes DEF InOrder
<1>2. IsAfter(h, pos, p, n, m)
  BY DEF InOrder, NextInOrder
<1>3. m \in h.live /\ h.parent[m] = p /\ pos[n] < pos[m]
      /\ \A k \in Kids(h, p) : pos[n] < pos[k] => pos[m] <= pos[k]
  BY <1>2 DEF IsAfter, Kids
<1>4. n \in Kids(h, p) /\ n \in Node /\ m \in Node
  BY <1>1, <1>3 DEF Kids
<1>5. h.prev[m] # Null
  <2>1. ~ (pos[m] <= pos[n])
    BY <1>1, <1>3, <1>4
  <2> QED
    BY <1>3, <1>4, <2>1 DEF InOrder, PrevInOrder
<1>6. IsBefore(h, pos, p, m, h.prev[m])
  BY <1>3, <1>5 DEF InOrder, PrevInOrder
<1> DEFINE q == h.prev[m]
<1>7. q \in Kids(h, p) /\ q \in Node /\ pos[q] < pos[m] /\ pos[n] <= pos[q]
  BY <1>1, <1>3, <1>4, <1>6 DEF IsBefore, Kids
<1>8. ~ (pos[n] < pos[q])
  BY <1>1, <1>3, <1>4, <1>7
<1>9. pos[n] = pos[q]
  BY <1>1, <1>4, <1>7, <1>8
<1>10. q = n
  BY <1>1, <1>4, <1>7, <1>9
<1> QED
  BY <1>3, <1>10

\* PrevSibling agrees with NextSibling and Parent.
LEMMA PrevIsLinked ==
  ASSUME NEW h, NEW pos, InOrder(h, pos), NEW n \in h.live, h.prev[n] # Null
  PROVE  /\ h.prev[n] \in h.live /\ h.next[h.prev[n]] = n
         /\ h.parent[h.prev[n]] = h.parent[n] /\ pos[h.prev[n]] < pos[n]
<1> DEFINE m == h.prev[n]
           p == h.parent[n]
<1>1. h.live \subseteq Node /\ (\A k \in Node : pos[k] \in Nat)
      /\ \A j, k \in Node : pos[j] = pos[k] => j = k
  BY HeapTypes, PosTypes DEF InOrder
<1>2. IsBefore(h, pos, p, n, m)
  BY DEF InOrder, PrevInOrder
<1>3. m \in h.live /\ h.parent[m] = p /\ pos[m] < pos[n]
      /\ \A k \in Kids(h, p) : pos[k] < pos[n] => pos[k] <= pos[m]
  BY <1>2 DEF IsBefore, Kids
<1>4. n \in Kids(h, p) /\ n \in Node /\ m \in Node
  BY <1>1, <1>3 DEF Kids
<1>5. h.next[m] # Null
  <2>1. ~ (pos[n] <= pos[m])
    BY <1>1, <1>3, <1>4
  <2> QED
    BY <1>3, <1>4, <2>1 DEF InOrder, NextInOrder
<1>6. IsAfter(h, pos, p, m, h.next[m])
  BY <1>3, <1>5 DEF InOrder, NextInOrder
<1> DEFINE q == h.next[m]
<1>7. q \in Kids(h, p) /\ q \in Node /\ pos[m] < pos[q] /\ pos[q] <= pos[n]
  BY <1>1, <1>3, <1>4, <1>6 DEF IsAfter, Kids
<1>8. ~ (pos[q] < pos[n])
  BY <1>1, <1>3, <1>4, <1>7
<1>9. pos[n] = pos[q]
  BY <1>1, <1>4, <1>7, <1>8
<1>10. q = n
  BY <1>1, <1>4, <1>7, <1>9
<1> QED
  BY <1>3, <1>10

\* FirstChild is the child without a previous sibling.
LEMMA FirstIsLinked ==
  ASSUME NEW h, NEW pos, InOrder(h, pos), NEW n \in h.live
  PROVE  /\ h.first[n] # Null => h.first[n] \in h.live /\ h.parent[h.first[n]] = n
                                  /\ h.prev[h.first[n]] = Null
         /\ h.parent[n] # Null /\ h.prev[n] = Null => h.first[h.parent[n]] = n
<1>1. h.live \subseteq Node /\ (\A k \in Node : pos[k] \in Nat)
      /\ \A j, k \in Node : pos[j] = pos[k] => j = k
  BY HeapTypes, PosTypes DEF InOrder
<1>2. ASSUME h.first[n] # Null
      PROVE  h.first[n] \in h.live /\ h.parent[h.first[n]] = n /\ h.prev[h.first[n]] = Null
  <2>1. h.first[n] \in Kids(h, n) /\ \A k \in Kids(h, n) : pos[h.first[n]] <= pos[k]
    BY <1>2 DEF InOrder, FirstInOrder
  <2>2. h.first[n] \in h.live /\ h.parent[h.first[n]] = n
    BY <2>1 DEF Kids
  <2>3. ASSUME h.prev[h.first[n]] # Null PROVE FALSE
    <3> DEFINE q == h.prev[h.first[n]]
    <3>1. q \in h.live /\ h.parent[q] = n /\ pos[q] < pos[h.first[n]]
      BY <2>2, <2>3, PrevIsLinked
    <3>2. pos[h.first[n]] <= pos[q]
      BY <2>1, <3>1 DEF Kids
    <3> QED
      BY <1>1, <2>2, <3>1, <3>2
  <2> QED
    BY <2>2, <2>3
<1>3. ASSUME h.parent[n] # Null, h.prev[n] = Null PROVE h.first[h.parent[n]] = n
  <2> DEFINE p == h.parent[n]
  <2>1. p \in h.live /\ n \in Kids(h, p)
    BY <1>3 DEF InOrder, Kids
  <2>2. \A k \in Kids(h, p) : pos[n] <= pos[k]
    BY <1>3 DEF InOrder, PrevInOrder
  <2>3. h.first[p] \in Kids(h, p) /\ pos[h.first[p]] <= pos[n]
    BY <2>1 DEF InOrder, FirstInOrder
  <2>4. pos[h.first[p]] = pos[n]
    BY <1>1, <2>2, <2>3 DEF Kids
  <2> QED
    BY <1>1, <2>3, <2>4 DEF Kids
<1> QED
  BY <1>2, <1>3

\* In a heap whose sibling lists are in order, the sibling range that starts at
\* a child are the children from it on, and the loop over it ends at the last.
LEMMA RangeOfSiblings ==
  ASSUME NEW h, NEW pos, InOrder(h, pos), NEW p, NEW c \in Kids(h, p),
         NEW R, \A k : k \in R <=> k \in Kids(h, p) /\ pos[c] <= pos[k],
         NEW g, \A k \in R : g.next[k] = h.next[k]
  PROVE  /\ SiblingsFrom(g, c) = R
         /\ Back(g, c) \in R /\ g.next[Back(g, c)] = Null
         /\ \A k \in Kids(h, p) : pos[k] <= pos[Back(g, c)]
<1>1. h.live \subseteq Node /\ (\A k \in Node : pos[k] \in Nat)
      /\ (\A j, k \in Node : pos[j] = pos[k] => j = k)
      /\ \A k \in R : k \in h.live /\ h.parent[k] = p /\ k \in Node
  BY HeapTypes, PosTypes DEF InOrder, Kids
<1>2. c \in R /\ \A m \in R : g.next[m] \in R \cup {Null}
  <2>1. c \in R
    BY <1>1 DEF Kids
  <2>2. ASSUME NEW m \in R, g.next[m] # Null PROVE g.next[m] \in R
    <3>1. m \in h.live /\ h.next[m] # Null /\ g.next[m] = h.next[m]
      BY <1>1, <2>2
    <3>2. h.next[m] \in h.live /\ h.parent[h.next[m]] = p /\ pos[m] < pos[h.next[m]]
      BY <1>1, <3>1, NextIsLinked
    <3>3. pos[c] <= pos[h.next[m]]
      BY <1>1, <2>1, <3>2
    <3> QED
      BY <3>1, <3>2, <3>3 DEF Kids
  <2> QED
    BY <2>1, <2>2
<1> DEFINE T == SUBSET R
<1>0. VisitsIn(g, c, T)
  BY <1>2 DEF Visit, VisitsIn
<1> HIDE DEF T
<1>00. PICK f : AreVisits(g, c, T, f)
  BY <1>0, SiblingsAreVisited
<1>3. /\ f[0] = {c} /\ \A k \in 1..MaxNodes : f[k] = Visit(g, f[k - 1])
      /\ \A k \in 0..MaxNodes : f[k] \in T
      /\ SiblingsFrom(g, c) = f[MaxNodes]
  BY <1>00 DEF AreVisits
<1> DEFINE Before(x) == {y \in R : pos[y] < pos[x]}
<1>4. /\ MaxNodes \in Nat
      /\ \A x : IsFiniteSet(Before(x)) /\ Cardinality(Before(x)) \in 0..MaxNodes
  <2> SUFFICES ASSUME NEW x
               PROVE  IsFiniteSet(Before(x)) /\ Cardinality(Before(x)) \in 0..MaxNodes
    BY MaxNodesAssumption
  <2>1. Before(x) \subseteq Node /\ IsFiniteSet(Node) /\ Cardinality(Node) = MaxNodes
    BY <1>1, NodeCount
  <2>2. IsFiniteSet(Before(x)) /\ Cardinality(Before(x)) <= MaxNodes
    BY <2>1, FS_Subset, FS_CardinalityType
  <2> QED
    BY <2>2, FS_CardinalityType, MaxNodesAssumption
\* A child before which there are others follows the one before it.
<1>5. ASSUME NEW x \in R, x # c
      PROVE  \E y \in R : g.next[y] = x /\ Cardinality(Before(x)) = Cardinality(Before(y)) + 1
  <2>1. x \in Kids(h, p) /\ c \in Kids(h, p) /\ x \in h.live /\ pos[c] < pos[x]
    BY <1>1, <1>2, <1>5 DEF Kids
  <2>2. h.prev[x] # Null
    <3>1. ~(pos[x] <= pos[c])
      BY <1>1, <1>2, <2>1
    <3> QED
      BY <1>1, <2>1, <3>1 DEF InOrder, PrevInOrder
  <2> DEFINE y == h.prev[x]
  <2>3. y \in h.live /\ h.next[y] = x /\ h.parent[y] = p /\ pos[y] < pos[x]
    BY <1>1, <2>1, <2>2, PrevIsLinked
  <2>4. \A k \in Kids(h, p) : pos[k] < pos[x] => pos[k] <= pos[y]
    BY <1>1, <2>1, <2>2 DEF InOrder, PrevInOrder, IsBefore
  <2>5. y \in R
    BY <2>1, <2>3, <2>4 DEF Kids
  <2> HIDE DEF y
  <2>6. Before(y) = Before(x) \ {y} /\ y \in Before(x)
    <3>1. \A k \in R : k \in Kids(h, p) /\ pos[k] \in Nat /\ (pos[k] = pos[y] => k = y)
      BY <1>1, <2>5
    <3>2. pos[x] \in Nat /\ pos[y] \in Nat
      BY <2>5, <3>1
    <3>3. \A k \in R : pos[k] < pos[y] <=> pos[k] < pos[x] /\ k # y
      BY <2>3, <2>4, <3>1, <3>2
    <3> QED
      BY <2>3, <2>5, <3>3
  <2> HIDE DEF Before
  <2>7. Cardinality(Before(y)) = Cardinality(Before(x)) - 1
    BY <1>4, <2>6, FS_RemoveElement
  <2>8. Cardinality(Before(x)) \in Nat
    BY <1>4
  <2>9. g.next[y] = x
    BY <2>3, <2>5
  <2> QED
    BY <2>5, <2>7, <2>8, <2>9
<1> HIDE DEF Before
<1> DEFINE S == {k \in Nat : k <= MaxNodes => \A x \in R : Cardinality(Before(x)) <= k => x \in f[k]}
<1>6. 0 \in S
  <2> SUFFICES ASSUME NEW x \in R, Cardinality(Before(x)) <= 0, x # c PROVE FALSE
    BY <1>3
  <2>1. PICK y \in R : Cardinality(Before(x)) = Cardinality(Before(y)) + 1
    BY <1>5
  <2> QED
    BY <1>4, <2>1
<1>7. ASSUME NEW k \in Nat, k \in S PROVE k + 1 \in S
  <2> SUFFICES ASSUME k + 1 <= MaxNodes, NEW x \in R, Cardinality(Before(x)) <= k + 1
               PROVE  x \in f[k + 1]
    OBVIOUS
  <2>1. k + 1 \in 1..MaxNodes /\ (k + 1) - 1 = k /\ k <= MaxNodes
    BY <1>4
  <2>2. f[k + 1] = Visit(g, f[k])
    BY <1>3, <2>1
  <2>3. CASE x = c
    <3>1. Before(c) = {}
      BY <1>1, <1>2 DEF Before
    <3>2. Cardinality(Before(c)) <= k
      BY <3>1, FS_EmptySet
    <3> QED
      BY <1>2, <1>7, <2>1, <2>2, <2>3, <3>2 DEF Visit
  <2>4. CASE x # c
    <3>1. PICK y \in R : g.next[y] = x /\ Cardinality(Before(x)) = Cardinality(Before(y)) + 1
      BY <1>5, <2>4
    <3>2. Cardinality(Before(y)) <= k
      BY <1>4, <3>1
    <3>3. y \in f[k] /\ x # Null
      BY <1>1, <1>7, <2>1, <3>2, NullIsNoNode
    <3> QED
      BY <2>2, <3>1, <3>3 DEF Visit
  <2> QED
    BY <2>3, <2>4
<1> HIDE DEF S
<1>8. MaxNodes \in S
  BY <1>4, <1>6, <1>7, Ind!SetInduction
<1>9. SiblingsFrom(g, c) = R
  <2>1. \A x \in R : x \in f[MaxNodes]
    BY <1>4, <1>8 DEF S
  <2>2. f[MaxNodes] \subseteq R
    BY <1>3, <1>4 DEF T
  <2> QED
    BY <1>3, <2>1, <2>2
<1>10. \E b \in R : g.next[b] = Null
  <2>1. R \in SUBSET Node /\ R # {}
    BY <1>1, <1>2
  <2>2. PICK b \in R : \A k \in R : pos[k] <= pos[b]
    BY <2>1, LastExists DEF InOrder
  <2>3. ASSUME h.next[b] # Null PROVE FALSE
    <3>1. b \in h.live
      BY <1>1
    <3>2. h.next[b] \in R /\ pos[b] < pos[h.next[b]]
      BY <1>1, <1>2, <2>3, <3>1, NextIsLinked
    <3> QED
      BY <1>1, <2>2, <3>2
  <2> QED
    BY <2>3
<1>11. Back(g, c) \in R /\ g.next[Back(g, c)] = Null
  BY <1>9, <1>10 DEF Back
<1>12. \A k \in Kids(h, p) : pos[k] <= pos[Back(g, c)]
  BY <1>1, <1>11 DEF InOrder, NextInOrder
<1> QED
  BY <1>9, <1>11, <1>12

\* The sibling loop from FirstChild visits the nodes whose Parent is p.
LEMMA ChildListIsKids ==
  ASSUME NEW h, NEW pos, InOrder(h, pos), NEW p \in h.live
  PROVE  ChildList(h, p) = Kids(h, p)
<1>1. CASE h.first[p] = Null
  BY <1>1 DEF ChildList, IsLeaf, InOrder, FirstInOrder
<1>2. CASE h.first[p] # Null
  <2> DEFINE c == h.first[p]
             R == {k \in Kids(h, p) : pos[c] <= pos[k]}
  <2>1. c \in Kids(h, p) /\ \A k \in Kids(h, p) : pos[c] <= pos[k]
    BY <1>2 DEF InOrder, FirstInOrder
  <2>2. R = Kids(h, p)
    BY <2>1
  <2>3. SiblingsFrom(h, c) = R
    <3> HIDE DEF c
    <3>1. \A k \in R : h.next[k] = h.next[k]
      OBVIOUS
    <3> QED
      BY <2>1, <3>1, RangeOfSiblings
  <2> QED
    BY <1>2, <2>2, <2>3 DEF ChildList, IsLeaf
<1> QED
  BY <1>1, <1>2

\* What the recursion of Subtree computes.
Grows(h, n, f) ==
  /\ f[0] = {n}
  /\ \A k \in 1..MaxNodes : f[k] = f[k - 1] \cup UNION {ChildList(h, m) : m \in f[k - 1]}

\* Subtree is what MaxNodes turns of its recursion compute.
LEMMA SubtreeGrows ==
  ASSUME NEW h \in Heap, NEW n \in Node
  PROVE  \E f : Grows(h, n, f) /\ Subtree(h, n) = f[MaxNodes]
<1> DEFINE T == SUBSET Node
           Wider(s) == s \cup UNION {ChildList(h, m) : m \in s}
           step == [x \in T \X (1..MaxNodes) |-> Wider(x[1])]
           Equation(f) == f = [k \in 0..Cardinality(Node) |->
                                 IF k = 0 THEN {n}
                                 ELSE f[k - 1] \cup UNION {ChildList(h, m) : m \in f[k - 1]}]
<1>1. MaxNodes \in Nat /\ Cardinality(Node) = MaxNodes
  BY NodeCount, MaxNodesAssumption
<1>2. \A s \in T : Wider(s) \in T
  <2>1. \A m \in Node : ChildList(h, m) \subseteq Node
    BY SiblingsAreNodes DEF ChildList, IsLeaf, Heap, Ptr
  <2> QED
    BY <2>1
<1>3. step \in [T \X (1..MaxNodes) -> T]
  BY <1>2
<1>4. \A s \in T, k \in 1..MaxNodes : step[<<s, k>>] = Wider(s)
  OBVIOUS
<1> HIDE DEF step
<1>5. PICK f : f \in [0..MaxNodes -> T] /\ f[0] = {n}
               /\ \A k \in 1..MaxNodes : f[k] = step[<<f[k - 1], k>>]
  <2>1. {n} \in T
    OBVIOUS
  <2>2. \E f : Ind!IsRecursion(f, T, {n}, MaxNodes, step)
    BY <1>1, <1>3, <2>1, Ind!FunctionByRecursion
  <2> QED
    BY <2>2 DEF Ind!IsRecursion
<1>6. \A k \in 1..MaxNodes : f[k] = Wider(f[k - 1])
  <2> SUFFICES ASSUME NEW k \in 1..MaxNodes PROVE f[k] = Wider(f[k - 1])
    OBVIOUS
  <2>1. k - 1 \in 0..MaxNodes
    BY <1>1
  <2>2. f[k - 1] \in T
    BY <1>5, <2>1
  <2> QED
    BY <1>4, <1>5, <2>2
<1>7. Equation(f)
  <2>1. \A k \in 0..MaxNodes : f[k] = IF k = 0 THEN {n} ELSE Wider(f[k - 1])
    <3> SUFFICES ASSUME NEW k \in 0..MaxNodes
                 PROVE  f[k] = IF k = 0 THEN {n} ELSE Wider(f[k - 1])
      OBVIOUS
    <3>1. k = 0 \/ (k # 0 /\ k \in 1..MaxNodes)
      BY <1>1
    <3> QED
      BY <1>5, <1>6, <3>1
  <2> QED
    BY <1>1, <1>5, <2>1
<1> DEFINE g == CHOOSE f_1 : Equation(f_1)
<1>8. Equation(g)
  BY <1>7
<1>9. Subtree(h, n) = g[Cardinality(Node)]
  BY DEF Subtree
<1>10. \A k \in 0..MaxNodes : g[k] = IF k = 0 THEN {n} ELSE Wider(g[k - 1])
  BY <1>1, <1>8
<1> HIDE DEF g, Equation
<1>11. Grows(h, n, g)
  <2>1. \A k \in 1..MaxNodes : g[k] = Wider(g[k - 1])
    <3> SUFFICES ASSUME NEW k \in 1..MaxNodes PROVE g[k] = Wider(g[k - 1])
      OBVIOUS
    <3>1. k \in 0..MaxNodes /\ k # 0
      BY <1>1
    <3> QED
      BY <1>10, <3>1
  <2>2. g[0] = {n}
    <3>1. 0 \in 0..MaxNodes
      BY <1>1
    <3> QED
      BY <1>10, <3>1, Zenon
  <2> QED
    BY <2>1, <2>2 DEF Grows
<1> QED
  BY <1>1, <1>9, <1>11

\* Every node of a tree is reached from its root.
LEMMA SubtreeIsAll ==
  ASSUME NEW h, NEW pos, InOrder(h, pos), 1 \in h.live,
         \A n \in h.live : n # 1 => h.parent[n] \in h.live /\ h.parent[n] < n
  PROVE  Subtree(h, 1) = h.live
<1>1. h.live \subseteq Node /\ 1 \in Node /\ MaxNodes \in Nat /\ MaxNodes >= 1
      /\ \A n \in Node : n \in 1..MaxNodes
  BY HeapTypes, MaxNodesAssumption DEF InOrder, Node
<1>2. PICK f : Grows(h, 1, f) /\ Subtree(h, 1) = f[MaxNodes]
  BY <1>1, SubtreeGrows DEF InOrder
<1>3. f[0] = {1}
  BY <1>2 DEF Grows
<1>4. \A k \in 1..MaxNodes : f[k] = f[k - 1] \cup UNION {ChildList(h, m) : m \in f[k - 1]}
  BY <1>2 DEF Grows
<1>5. ASSUME NEW k \in 1..MaxNodes, f[k - 1] \subseteq h.live
      PROVE  f[k] = f[k - 1] \cup UNION {Kids(h, m) : m \in f[k - 1]}
  <2>1. \A m \in f[k - 1] : ChildList(h, m) = Kids(h, m)
    BY <1>5, ChildListIsKids
  <2> QED
    BY <1>4, <2>1
<1> DEFINE S == {k \in Nat : k <= MaxNodes => f[k] \subseteq h.live
                              /\ \A n \in h.live : n <= k + 1 => n \in f[k]}
<1>6. 0 \in S
  BY <1>1, <1>3
<1>7. ASSUME NEW k \in Nat, k \in S PROVE k + 1 \in S
  <2> SUFFICES ASSUME k + 1 <= MaxNodes
               PROVE  /\ f[k + 1] \subseteq h.live
                      /\ \A n \in h.live : n <= (k + 1) + 1 => n \in f[k + 1]
    OBVIOUS
  <2>1. k + 1 \in 1..MaxNodes /\ (k + 1) - 1 = k /\ k <= MaxNodes
    BY <1>1
  <2>2. f[k] \subseteq h.live /\ \A n \in h.live : n <= k + 1 => n \in f[k]
    BY <1>7, <2>1
  <2>3. f[k + 1] = f[k] \cup UNION {Kids(h, m) : m \in f[k]}
    BY <1>5, <2>1, <2>2
  <2>4. \A m : Kids(h, m) \subseteq h.live
    BY DEF Kids
  <2>5. ASSUME NEW n \in h.live, n <= (k + 1) + 1 PROVE n \in f[k + 1]
    <3>1. CASE n <= k + 1
      BY <2>2, <2>3, <3>1
    <3>2. CASE ~(n <= k + 1)
      <4>1. n # 1 /\ n \in Nat
        BY <1>1, <3>2
      <4>2. h.parent[n] \in h.live /\ h.parent[n] < n
        BY <4>1
      <4>3. h.parent[n] <= k + 1
        BY <1>1, <2>5, <4>1, <4>2
      <4>4. h.parent[n] \in f[k] /\ n \in Kids(h, h.parent[n])
        BY <2>2, <4>2, <4>3 DEF Kids
      <4> QED
        BY <2>3, <4>4
    <3> QED
      BY <3>1, <3>2
  <2> QED
    BY <2>2, <2>3, <2>4, <2>5
<1> HIDE DEF S
<1>8. MaxNodes \in S
  BY <1>1, <1>6, <1>7, Ind!SetInduction
<1>9. f[MaxNodes] = h.live
  <2>1. f[MaxNodes] \subseteq h.live /\ \A n \in h.live : n <= MaxNodes + 1 => n \in f[MaxNodes]
    BY <1>1, <1>8 DEF S
  <2>2. \A n \in h.live : n <= MaxNodes + 1
    BY <1>1
  <2> QED
    BY <2>1, <2>2
<1> QED
  BY <1>2, <1>9

-----------------------------------------------------------------------------
(***************************************************************************)
(* The iterator                                                            *)
(***************************************************************************)

\* What the recursion of ClimbFrom computes.
Climbs(h, f) ==
  \A m \in Ptr : f[m] = IF m = Null THEN Null
                        ELSE IF h.next[m] # Null THEN h.next[m] ELSE f[h.parent[m]]

\* The recursion of ClimbFrom ends, as a parent comes before its children.
LEMMA ClimbFromClimbs ==
  ASSUME NEW h \in Heap, NEW n \in Ptr,
         \A m \in Node : h.parent[m] # Null => h.parent[m] < m
  PROVE  \E f : Climbs(h, f) /\ ClimbFrom(h, n) = f[n]
<1> DEFINE T == [Ptr -> Ptr]
           At(F, k) == IF h.next[k] # Null THEN h.next[k] ELSE F[h.parent[k]]
           step == [x \in T \X (1..MaxNodes) |-> [x[1] EXCEPT ![x[2]] = At(x[1], x[2])]]
           base == [m \in Ptr |-> Null]
           Equation(f) == f = [m \in Ptr |->
                                 IF m = Null THEN Null
                                 ELSE IF h.next[m] # Null THEN h.next[m] ELSE f[h.parent[m]]]
<1>1. MaxNodes \in Nat /\ Node = 1..MaxNodes /\ Ptr = Node \cup {Null} /\ Null \notin Node
  BY MaxNodesAssumption, NullIsNoNode DEF Node, Ptr
<1>2. \A m \in Node : h.next[m] \in Ptr /\ h.parent[m] \in Ptr
  BY HeapTypes
<1>3. \A F \in T, k \in Node : At(F, k) \in Ptr
  BY <1>2
<1>4. step \in [T \X (1..MaxNodes) -> T]
  <2> SUFFICES ASSUME NEW F \in T, NEW k \in 1..MaxNodes
               PROVE  [F EXCEPT ![k] = At(F, k)] \in T
    OBVIOUS
  <2>1. At(F, k) \in Ptr
    BY <1>1, <1>3
  <2> HIDE DEF At
  <2> QED
    BY <2>1
<1>5. \A F \in T, k \in 1..MaxNodes : step[<<F, k>>] = [F EXCEPT ![k] = At(F, k)]
  OBVIOUS
<1> HIDE DEF step
<1>6. PICK F : F \in [0..MaxNodes -> T] /\ F[0] = base
               /\ \A k \in 1..MaxNodes : F[k] = step[<<F[k - 1], k>>]
  <2>1. base \in T
    BY <1>1
  <2>2. \E f : Ind!IsRecursion(f, T, base, MaxNodes, step)
    BY <1>1, <1>4, <2>1, Ind!FunctionByRecursion
  <2> QED
    BY <2>2 DEF Ind!IsRecursion
<1> DEFINE S == {j \in Nat : j <= MaxNodes =>
                   F[j][Null] = Null /\ \A k \in Node : k <= j => F[j][k] = At(F[j], k)}
<1>7. 0 \in S
  <2>1. F[0][Null] = Null
    BY <1>1, <1>6
  <2>2. \A k \in Node : ~(k <= 0)
    BY <1>1
  <2> QED
    BY <2>1, <2>2
<1>8. ASSUME NEW j \in Nat, j \in S PROVE j + 1 \in S
  <2> SUFFICES ASSUME j + 1 <= MaxNodes
               PROVE  /\ F[j + 1][Null] = Null
                      /\ \A k \in Node : k <= j + 1 => F[j + 1][k] = At(F[j + 1], k)
    OBVIOUS
  <2>1. j + 1 \in 1..MaxNodes /\ (j + 1) - 1 = j /\ j \in 0..MaxNodes /\ j <= MaxNodes /\ j + 1 \in Node
    BY <1>1
  <2>2. F[j] \in T /\ F[j][Null] = Null /\ \A k \in Node : k <= j => F[j][k] = At(F[j], k)
    BY <1>6, <1>8, <2>1
  <2>3. F[j + 1] = [F[j] EXCEPT ![j + 1] = At(F[j], j + 1)]
    <3> HIDE DEF At
    <3>1. step[<<F[j], j + 1>>] = [F[j] EXCEPT ![j + 1] = At(F[j], j + 1)]
      BY <1>5, <2>1, <2>2
    <3> QED
      BY <1>6, <2>1, <3>1
  <2>4. \A m \in Ptr : m # j + 1 => F[j + 1][m] = F[j][m]
    <3> HIDE DEF At
    <3> QED BY <2>2, <2>3
  <2>5. F[j + 1][j + 1] = At(F[j], j + 1)
    <3> HIDE DEF At
    <3> QED BY <1>1, <2>1, <2>2, <2>3
  <2>6. ASSUME NEW k \in Node, k <= j + 1 PROVE F[j + 1][k] = At(F[j], k) /\ At(F[j], k) = At(F[j + 1], k)
    <3>1. h.parent[k] \in Ptr /\ h.parent[k] # j + 1
      <4>1. CASE h.parent[k] = Null
        BY <1>1, <2>1, <4>1
      <4>2. CASE h.parent[k] # Null
        <5>1. h.parent[k] < k /\ h.parent[k] \in Node
          BY <1>1, <1>2, <4>2
        <5> QED
          BY <1>1, <2>6, <5>1
      <4> QED
        BY <4>1, <4>2
    <3>2. At(F[j], k) = At(F[j + 1], k)
      BY <2>4, <3>1
    <3>3. CASE k = j + 1
      BY <2>5, <3>2, <3>3
    <3>4. CASE k # j + 1
      <4>1. k <= j
        BY <1>1, <2>6, <3>4
      <4> QED
        BY <1>1, <2>2, <2>4, <3>2, <3>4, <4>1
    <3> QED
      BY <3>3, <3>4
  <2>7. F[j + 1][Null] = Null
    BY <1>1, <2>1, <2>2, <2>4
  <2> QED
    BY <2>6, <2>7
<1> HIDE DEF S
<1>9. MaxNodes \in S
  BY <1>1, <1>7, <1>8, Ind!SetInduction
<1> DEFINE f == F[MaxNodes]
<1>10. f \in T /\ f[Null] = Null /\ \A k \in Node : f[k] = At(f, k)
  BY <1>1, <1>6, <1>9 DEF S
<1> HIDE DEF f
<1>11. Equation(f)
  <2>1. \A m \in Ptr : f[m] = IF m = Null THEN Null ELSE At(f, m)
    BY <1>1, <1>10
  <2> QED
    BY <1>10, <2>1
<1> DEFINE g == CHOOSE f_1 : Equation(f_1)
<1>12. Equation(g)
  BY <1>11
<1>13. ClimbFrom(h, n) = g[n]
  BY DEF ClimbFrom
<1>14. Climbs(h, g)
  BY <1>12 DEF Climbs
<1> QED
  BY <1>13, <1>14

-----------------------------------------------------------------------------
\* A node below p in the trie is a child of p in the tree, or below one.
LEMMA ChildAbove ==
  ASSUME NEW h \in Heap, NEW a \in [Node -> Attr], Parents(h, a),
         NEW p \in h.live, NEW n \in h.live, Below(a, n, p)
  PROVE  \E x \in Kids(h, p) : x = n \/ Below(a, n, x)
<1> DEFINE Under(m) == \E x \in Kids(h, p) : x = m \/ Below(a, m, x)
           Bad == {m \in h.live : Below(a, m, p) /\ ~Under(m)}
<1> SUFFICES ASSUME Bad # {} PROVE FALSE
  OBVIOUS
<1>1. h.live \subseteq Node /\ \A m \in Node : m \in Nat /\ m >= 1
  BY HeapTypes, MaxNodesAssumption DEF Node
<1>2. Bad \in SUBSET Nat
  BY <1>1
<1>3. PICK m \in Bad : \A k \in Bad : m <= k
  BY <1>2, Ind!LeastExists
<1> HIDE DEF Under
<1>4. m \in h.live /\ Below(a, m, p) /\ ~Under(m) /\ p < m /\ m # 1
  <2>1. m \in h.live /\ Below(a, m, p) /\ ~Under(m)
    OBVIOUS
  <2>2. p < m
    BY <1>1, <2>1, BelowInside
  <2> QED
    BY <1>1, <2>1, <2>2
<1> DEFINE y == h.parent[m]
<1>5. y \in h.live /\ Below(a, m, y) /\ p <= y
  BY <1>4 DEF Parents
<1>6. y < m
  BY <1>1, <1>4, <1>5, BelowInside
<1>7. y # p
  <2> SUFFICES ASSUME y = p PROVE FALSE
    OBVIOUS
  <2>1. m \in Kids(h, p)
    BY <1>4 DEF Kids
  <2> QED
    BY <1>4, <2>1 DEF Under
<1>8. Below(a, y, p)
  <2>1. y \in Node /\ p \in Node /\ m \in Node
    BY <1>1, <1>4, <1>5
  <2>2. p < y /\ y <= m
    BY <1>1, <1>5, <1>6, <1>7, <2>1
  <2> HIDE DEF y, Bad
  <2> QED
    BY <1>4, <2>1, <2>2, BelowInside
<1>9. y \notin Bad
  BY <1>1, <1>3, <1>4, <1>5, <1>6
<1>10. PICK x \in Kids(h, p) : x = y \/ Below(a, y, x)
  BY <1>5, <1>8, <1>9 DEF Under
<1>11. x = m \/ Below(a, m, x)
  <2>1. x \in Node /\ y \in Node /\ m \in Node
    BY <1>1, <1>4, <1>5, <1>10 DEF Kids
  <2> HIDE DEF y, Bad
  <2> QED
    BY <1>5, <1>10, <2>1, BelowTransitive
<1> QED
  BY <1>4, <1>10, <1>11 DEF Under

\* No child of a node is below another.
LEMMA SiblingsApart ==
  ASSUME NEW h \in Heap, NEW a, Parents(h, a),
         NEW p, NEW x \in Kids(h, p), NEW y \in Kids(h, p)
  PROVE  ~Below(a, x, y)
<1> SUFFICES ASSUME Below(a, x, y) PROVE FALSE
  OBVIOUS
<1>1. x \in h.live /\ y \in h.live /\ h.parent[x] = p /\ h.parent[y] = p
  BY DEF Kids
<1>2. x \in Node /\ y \in Node /\ (\A n \in Node : n \in Nat /\ n >= 1) /\ h.live \subseteq Node
  BY <1>1, HeapTypes, MaxNodesAssumption DEF Node
<1>3. y < x
  BY <1>2, BelowInside
<1>4. x # 1 /\ p \in h.live /\ y <= p
  BY <1>1, <1>2, <1>3 DEF Parents
<1>5. y # 1
  BY <1>1, <1>2, <1>4, NullIsNoNode DEF Parents
<1>6. Below(a, y, p)
  BY <1>1, <1>5 DEF Parents
<1>7. p < y
  BY <1>2, <1>4, <1>6, BelowInside
<1> QED
  BY <1>2, <1>4, <1>7

\* A child is below its parent.
LEMMA KidIsBelow ==
  ASSUME NEW h \in Heap, NEW a, Parents(h, a), NEW p \in h.live, NEW x \in Kids(h, p)
  PROVE  Below(a, x, p) /\ x # 1
<1>1. x \in h.live /\ h.parent[x] = p /\ p # Null
  BY HeapTypes, NullIsNoNode DEF Kids
<1> QED
  BY <1>1 DEF Parents

\* All that is known of a tree whose nodes are in preorder.
IsWalk(h, a, pos) ==
  /\ a \in [Node -> Attr] /\ pos \in Order
  /\ IsTree(h, a, pos) /\ Preorder(h.live, a, pos)
  /\ 1 \in h.live /\ \A n \in h.live : n # 1 => Below(a, n, 1)

\* Of the nodes below p, those from child m on in preorder are in the subtree of m or
\* in that of a later child.
LEMMA ChildFrom ==
  ASSUME NEW h, NEW a, NEW pos, IsWalk(h, a, pos),
         NEW p \in h.live, NEW m \in Kids(h, p), NEW k \in h.live, Below(a, k, p),
         pos[m] <= pos[k]
  PROVE  \E x \in Kids(h, p) : (x = k \/ Below(a, k, x)) /\ pos[m] <= pos[x] /\ pos[x] <= pos[k]
<1>1. h \in Heap /\ a \in [Node -> Attr] /\ Parents(h, a) /\ pos \in Order
  BY DEF IsWalk, IsTree
<1>2. PICK x \in Kids(h, p) : x = k \/ Below(a, k, x)
  BY <1>1, ChildAbove
<1>3. x \in h.live /\ m \in h.live /\ h.live \subseteq Node /\ (\A n \in Node : pos[n] \in Nat)
      /\ \A i, j \in Node : pos[i] = pos[j] => i = j
  BY <1>1, HeapTypes, PosTypes DEF Kids
<1>4. Below(a, k, x) => pos[x] < pos[k]
  BY <1>3 DEF IsWalk, Preorder
<1>5. ASSUME pos[x] < pos[m] PROVE FALSE
  <2>1. Below(a, k, x)
    BY <1>2, <1>3, <1>5
  <2>2. Below(a, m, x)
    BY <1>3, <1>5, <2>1 DEF IsWalk, Preorder
  <2> QED
    BY <1>1, <2>2, SiblingsApart
<1> QED
  BY <1>2, <1>3, <1>4, <1>5

\* The node after n in preorder, or Null.
IsNext(L, pos, n, s) ==
  IF s = Null THEN \A k \in L : pos[k] <= pos[n]
  ELSE s \in L /\ pos[n] < pos[s] /\ \A k \in L : pos[n] < pos[k] => pos[s] <= pos[k]

\* The node after the subtree of n in preorder, or Null.
IsPast(L, a, pos, n, s) ==
  IF s = Null THEN \A k \in L : pos[n] < pos[k] => Below(a, k, n)
  ELSE /\ s \in L /\ pos[n] < pos[s] /\ ~Below(a, s, n)
       /\ \A k \in L : pos[n] < pos[k] /\ ~Below(a, k, n) => pos[s] <= pos[k]

\* The climb from n ends at the first node after n and all that is below n.
LEMMA ClimbLeadsPast ==
  ASSUME NEW h, NEW a, NEW pos, IsWalk(h, a, pos), NEW f, Climbs(h, f), NEW n \in h.live
  PROVE  IsPast(h.live, a, pos, n, f[n])
<1> DEFINE Bad == {m \in h.live : ~IsPast(h.live, a, pos, m, f[m])}
<1> SUFFICES ASSUME Bad # {} PROVE FALSE
  OBVIOUS
<1>1. h \in Heap /\ a \in [Node -> Attr] /\ Parents(h, a) /\ pos \in Order /\ InOrder(h, pos)
  BY TreeInOrder DEF IsWalk, IsTree
<1>2. h.live \subseteq Node /\ (\A m \in Node : m \in Nat /\ m >= 1 /\ pos[m] \in Nat /\ m \in Ptr)
      /\ \A i, j \in Node : pos[i] = pos[j] => i = j
  BY <1>1, HeapTypes, PosTypes, MaxNodesAssumption DEF Node, Ptr
<1>3. PICK m \in Bad : \A k \in Bad : m <= k
  <2>1. Bad \in SUBSET Nat
    BY <1>2
  <2> QED
    BY <2>1, Ind!LeastExists
<1>4. m \in h.live /\ m \in Node /\ m # Null /\ ~IsPast(h.live, a, pos, m, f[m])
  BY <1>2, NullIsNoNode
<1>5. f[m] = IF h.next[m] # Null THEN h.next[m] ELSE f[h.parent[m]]
  BY <1>2, <1>4 DEF Climbs
<1> DEFINE p == h.parent[m]
<1>6. m # 1 => p \in h.live /\ Below(a, m, p) /\ p < m /\ pos[p] < pos[m] /\ m \in Kids(h, p)
  <2> SUFFICES ASSUME m # 1
               PROVE  p \in h.live /\ Below(a, m, p) /\ p < m /\ pos[p] < pos[m] /\ m \in Kids(h, p)
    OBVIOUS
  <2>1. p \in h.live /\ Below(a, m, p)
    BY <1>1, <1>4 DEF Parents
  <2>2. p < m
    BY <1>2, <1>4, <2>1, BelowInside
  <2>3. pos[p] < pos[m]
    BY <1>4, <2>1 DEF IsWalk, Preorder
  <2> QED
    BY <1>4, <2>1, <2>2, <2>3 DEF Kids
<1>7. CASE h.next[m] # Null
  <2> DEFINE s == h.next[m]
  <2>1. f[m] = s /\ s \in h.live /\ h.parent[s] = p /\ pos[m] < pos[s]
    BY <1>1, <1>4, <1>5, <1>7, NextIsLinked
  <2>2. m # 1
    <3>1. s # 1 => h.parent[s] # Null
      BY <1>1, <1>2, <2>1, NullIsNoNode DEF Parents
    <3>2. m = 1 => p = Null
      BY <1>1, <1>4 DEF Parents
    <3> QED
      BY <1>2, <1>4, <2>1, <3>1, <3>2
  <2>3. s \in Kids(h, p) /\ m \in Kids(h, p)
    BY <1>4, <2>1 DEF Kids
  <2>4. ~Below(a, s, m)
    BY <1>1, <2>3, SiblingsApart
  <2>5. ASSUME NEW k \in h.live, pos[m] < pos[k], ~Below(a, k, m), pos[k] < pos[s] PROVE FALSE
    <3>1. Below(a, s, p)
      BY <1>1, <1>6, <2>2, <2>3, KidIsBelow
    <3>2. pos[p] < pos[k] /\ pos[k] <= pos[s]
      BY <1>2, <1>4, <1>6, <2>1, <2>2, <2>5
    <3>3. Below(a, k, p)
      BY <1>6, <2>1, <2>2, <3>1, <3>2 DEF IsWalk, Preorder
    <3>4. pos[m] <= pos[k]
      BY <1>2, <1>4, <2>5
    <3>5. PICK x \in Kids(h, p) : (x = k \/ Below(a, k, x)) /\ pos[m] <= pos[x] /\ pos[x] <= pos[k]
      BY <1>6, <2>2, <2>3, <3>3, <3>4, ChildFrom
    <3>6. x # m
      BY <1>2, <2>5, <3>5
    <3>7. x \in Node /\ pos[m] < pos[x]
      BY <1>2, <1>4, <3>5, <3>6 DEF Kids
    <3>8. pos[s] <= pos[x]
      BY <1>1, <1>4, <1>7, <3>7 DEF InOrder, NextInOrder, IsAfter
    <3> QED
      BY <1>2, <2>1, <2>5, <3>5, <3>7, <3>8
  <2>6. s # Null
    BY <1>7
  <2>7. \A k \in h.live : pos[m] < pos[k] /\ ~Below(a, k, m) => pos[s] <= pos[k]
    BY <1>2, <2>1, <2>5
  <2> QED
    BY <1>4, <2>1, <2>4, <2>6, <2>7 DEF IsPast
<1>8. CASE h.next[m] = Null /\ m = 1
  <2>1. p = Null
    BY <1>1, <1>4, <1>8 DEF Parents
  <2>2. f[m] = Null
    BY <1>5, <1>8, <2>1 DEF Climbs, Ptr
  <2>3. \A k \in h.live : pos[m] < pos[k] => Below(a, k, m)
    BY <1>2, <1>8 DEF IsWalk
  <2> QED
    BY <1>4, <2>2, <2>3 DEF IsPast
<1>9. CASE h.next[m] = Null /\ m # 1
  <2>1. f[m] = f[p]
    BY <1>5, <1>9
  <2>2. IsPast(h.live, a, pos, p, f[p])
    BY <1>2, <1>3, <1>4, <1>6, <1>9
  <2>3. ASSUME NEW k \in h.live, pos[m] < pos[k], Below(a, k, p) PROVE Below(a, k, m)
    <3>1. pos[m] <= pos[k]
      BY <1>2, <1>4, <2>3
    <3>2. PICK x \in Kids(h, p) : (x = k \/ Below(a, k, x)) /\ pos[m] <= pos[x] /\ pos[x] <= pos[k]
      BY <1>6, <1>9, <2>3, <3>1, ChildFrom
    <3>3. pos[x] <= pos[m]
      BY <1>1, <1>4, <1>9, <3>2 DEF InOrder, NextInOrder
    <3>4. x = m
      BY <1>2, <1>4, <3>2, <3>3 DEF Kids
    <3> QED
      BY <1>2, <2>3, <3>2, <3>4
  <2>4. CASE f[p] = Null
    <3>1. \A k \in h.live : pos[m] < pos[k] => Below(a, k, m)
      <4> SUFFICES ASSUME NEW k \in h.live, pos[m] < pos[k] PROVE Below(a, k, m)
        OBVIOUS
      <4>1. pos[p] < pos[k]
        BY <1>2, <1>4, <1>6, <1>9
      <4> QED
        BY <2>2, <2>3, <2>4, <4>1 DEF IsPast
    <3> QED
      BY <1>4, <2>1, <2>4, <3>1 DEF IsPast
  <2>5. CASE f[p] # Null
    <3> DEFINE s == f[p]
    <3>1. /\ s \in h.live /\ pos[p] < pos[s] /\ ~Below(a, s, p)
          /\ \A k \in h.live : pos[p] < pos[k] /\ ~Below(a, k, p) => pos[s] <= pos[k]
      BY <2>2, <2>5 DEF IsPast
    <3>2. pos[m] < pos[s]
      <4>1. ~(pos[s] <= pos[m])
        BY <1>4, <1>6, <1>9, <3>1 DEF IsWalk, Preorder
      <4> QED
        BY <1>2, <1>4, <3>1, <4>1
    <3>3. ~Below(a, s, m)
      <4>1. p \in Node /\ s \in Node
        BY <1>2, <1>6, <1>9, <3>1
      <4> HIDE DEF s, p, Bad
      <4> QED
        BY <1>1, <1>4, <1>6, <1>9, <3>1, <4>1, BelowTransitive
    <3>4. \A k \in h.live : pos[m] < pos[k] /\ ~Below(a, k, m) => pos[s] <= pos[k]
      <4> SUFFICES ASSUME NEW k \in h.live, pos[m] < pos[k], ~Below(a, k, m)
                   PROVE  pos[s] <= pos[k]
        OBVIOUS
      <4>1. pos[p] < pos[k]
        BY <1>2, <1>4, <1>6, <1>9
      <4> QED
        BY <2>3, <3>1, <4>1
    <3> QED
      BY <1>4, <2>1, <2>5, <3>1, <3>2, <3>3, <3>4 DEF IsPast
  <2> QED
    BY <2>4, <2>5
<1> QED
  BY <1>7, <1>8, <1>9

\* The iterator goes from each node to the one after it in preorder.
LEMMA NextNodeIsNext ==
  ASSUME NEW h, NEW a, NEW pos, IsWalk(h, a, pos), NEW n \in h.live
  PROVE  IsNext(h.live, pos, n, NextNode(h, n))
<1>1. h \in Heap /\ a \in [Node -> Attr] /\ Parents(h, a) /\ pos \in Order /\ InOrder(h, pos)
  BY TreeInOrder DEF IsWalk, IsTree
<1>2. h.live \subseteq Node /\ (\A m \in Node : m \in Nat /\ m >= 1 /\ pos[m] \in Nat /\ m \in Ptr)
      /\ \A i, j \in Node : pos[i] = pos[j] => i = j
  BY <1>1, HeapTypes, PosTypes, MaxNodesAssumption DEF Node, Ptr
<1>3. CASE h.first[n] = Null
  <2>1. \A m \in Node : h.parent[m] # Null => h.parent[m] < m
    <3> SUFFICES ASSUME NEW m \in Node, h.parent[m] # Null PROVE h.parent[m] < m
      OBVIOUS
    <3>1. m \in h.live /\ m # 1
      BY <1>1 DEF IsWalk, IsTree, DeadAreClear, Parents
    <3>2. h.parent[m] \in h.live /\ Below(a, m, h.parent[m])
      BY <1>1, <3>1 DEF Parents
    <3> QED
      BY <1>2, <3>2, BelowInside
  <2>2. PICK f : Climbs(h, f) /\ ClimbFrom(h, n) = f[n]
    BY <1>1, <1>2, <2>1, ClimbFromClimbs
  <2>3. NextNode(h, n) = f[n]
    BY <1>3, <2>2 DEF NextNode, IsLeaf
  <2>4. IsPast(h.live, a, pos, n, f[n])
    BY <2>2, ClimbLeadsPast
  <2>5. \A k \in h.live : ~Below(a, k, n)
    <3>1. Kids(h, n) = {}
      BY <1>1, <1>3 DEF InOrder, FirstInOrder
    <3> QED
      BY <1>1, <3>1, ChildAbove
  <2> QED
    BY <1>2, <2>3, <2>4, <2>5 DEF IsPast, IsNext
<1>4. CASE h.first[n] # Null
  <2> DEFINE s == h.first[n]
  <2>1. NextNode(h, n) = s
    BY <1>4 DEF NextNode, IsLeaf
  <2>2. s \in Kids(h, n) /\ \A k \in Kids(h, n) : pos[s] <= pos[k]
    BY <1>1, <1>4 DEF InOrder, FirstInOrder
  <2>3. s \in h.live /\ Below(a, s, n) /\ pos[n] < pos[s]
    <3>1. s \in h.live /\ Below(a, s, n)
      BY <1>1, <2>2, KidIsBelow DEF Kids
    <3> QED
      BY <3>1 DEF IsWalk, Preorder
  <2>4. ASSUME NEW k \in h.live, pos[n] < pos[k], pos[k] < pos[s] PROVE FALSE
    <3>1. Below(a, k, n)
      BY <1>2, <2>3, <2>4 DEF IsWalk, Preorder
    <3>2. PICK x \in Kids(h, n) : x = k \/ Below(a, k, x)
      BY <1>1, <3>1, ChildAbove
    <3>3. pos[x] <= pos[k]
      BY <1>2, <3>2 DEF IsWalk, Preorder, Kids
    <3> QED
      BY <1>2, <2>2, <2>3, <2>4, <3>2, <3>3 DEF Kids
  <2> QED
    BY <1>2, <1>4, <2>1, <2>3, <2>4 DEF IsNext
<1> QED
  BY <1>3, <1>4

-----------------------------------------------------------------------------
(***************************************************************************)
(* The pointers after a call                                               *)
(***************************************************************************)

\* SetParentOfSiblings, field by field.
LEMMA SetParentFields ==
  ASSUME NEW h, NEW p, NEW n, NEW g,
         h \in Heap, p \in Ptr, g = SetParentOfSiblings(h, p, n)
  PROVE  /\ g \in Heap /\ g.live = h.live /\ g.first = h.first /\ g.last = h.last
         /\ g.prev = h.prev /\ g.next = h.next
         /\ \A k \in Node : g.parent[k] = IF k \in SiblingsFrom(h, n) THEN p ELSE h.parent[k]
<1> DEFINE parent == [m \in Node |-> IF m \in SiblingsFrom(h, n) THEN p ELSE h.parent[m]]
<1>1. parent \in [Node -> Ptr]
  BY HeapTypes
<1>2. g = [h EXCEPT !.parent = parent]
  BY DEF SetParentOfSiblings
<1>3. \A k \in Node : parent[k] = IF k \in SiblingsFrom(h, n) THEN p ELSE h.parent[k]
  OBVIOUS
<1> HIDE DEF parent
<1> QED
  BY <1>1, <1>2, <1>3 DEF Heap

\* An assignment guarded by a test of its pointer.
LEMMA PutFields ==
  ASSUME NEW f, NEW k, NEW v, NEW g,
         f \in [Node -> Ptr], k \in Ptr, v \in Ptr, g = Put(f, k, v)
  PROVE  /\ g \in [Node -> Ptr]
         /\ \A j \in Node : g[j] = IF j = k THEN v ELSE f[j]
<1>1. CASE k = Null
  BY <1>1, NullIsNoNode DEF Put
<1>2. CASE k # Null
  <2>1. k \in Node
    BY <1>2 DEF Ptr
  <2> QED
    BY <1>2, <2>1 DEF Put
<1> QED
  BY <1>1, <1>2

\* AddSiblingsRaw, field by field.
LEMMA AddSiblingsFields ==
  ASSUME NEW h, NEW this, NEW n, NEW b, NEW g,
         h \in Heap, this \in Node, n \in Node, b \in Node, Back(h, n) = b,
         g = AddSiblingsRaw(h, this, n)
  PROVE  /\ g \in Heap /\ g.live = h.live /\ g.first = h.first
         /\ \A k \in Node : g.parent[k] = IF k \in SiblingsFrom(h, n) THEN h.parent[this]
                                          ELSE h.parent[k]
         /\ \A k \in Node : g.prev[k] = IF k = h.next[this] THEN b
                                        ELSE IF k = n THEN this ELSE h.prev[k]
         /\ \A k \in Node : g.next[k] = IF k = this THEN n
                                        ELSE IF k = b THEN h.next[this] ELSE h.next[k]
         /\ \A k \in Node : k # h.parent[this] => g.last[k] = h.last[k]
<1> DEFINE p == h.parent[this]
           s == h.next[this]
           g1 == SetParentOfSiblings(h, p, n)
           prev == Put([g1.prev EXCEPT ![n] = this], s, b)
           next == [[g1.next EXCEPT ![b] = s] EXCEPT ![this] = n]
           last == IF p # Null /\ n = h.last[p] THEN [g1.last EXCEPT ![p] = b] ELSE g1.last
<1>1. p \in Ptr /\ s \in Ptr /\ n \in Ptr /\ b \in Ptr /\ this \in Ptr
  BY HeapTypes DEF Ptr
<1>2. /\ g1 \in Heap /\ g1.live = h.live /\ g1.first = h.first /\ g1.last = h.last
      /\ g1.prev = h.prev /\ g1.next = h.next
      /\ \A k \in Node : g1.parent[k] = IF k \in SiblingsFrom(h, n) THEN p ELSE h.parent[k]
  <2>1. g1 = SetParentOfSiblings(h, p, n)
    OBVIOUS
  <2> HIDE DEF g1, p, s
  <2> QED
    BY <1>1, <2>1, SetParentFields
<1>3. g = [g1 EXCEPT !.prev = prev, !.next = next, !.last = last]
  BY DEF AddSiblingsRaw
<1> HIDE DEF g1, p, s
<1>4. /\ prev \in [Node -> Ptr]
      /\ \A k \in Node : prev[k] = IF k = s THEN b ELSE IF k = n THEN this ELSE h.prev[k]
  <2> DEFINE f == [g1.prev EXCEPT ![n] = this]
  <2>1. f \in [Node -> Ptr] /\ \A k \in Node : f[k] = IF k = n THEN this ELSE h.prev[k]
    BY <1>1, <1>2, HeapTypes
  <2> HIDE DEF f
  <2>2. prev = Put(f, s, b)
    BY DEF f
  <2> HIDE DEF prev
  <2> QED
    BY <1>1, <2>1, <2>2, PutFields
<1>5. /\ next \in [Node -> Ptr]
      /\ \A k \in Node : next[k] = IF k = this THEN n ELSE IF k = b THEN s ELSE h.next[k]
  BY <1>1, <1>2, HeapTypes
<1>6. last \in [Node -> Ptr] /\ \A k \in Node : k # p => last[k] = h.last[k]
  <2>1. h.last \in [Node -> Ptr] /\ g1.last = h.last
    BY <1>2, HeapTypes
  <2>2. CASE p # Null /\ n = h.last[p]
    <3>1. last = [h.last EXCEPT ![p] = b]
      BY <2>1, <2>2
    <3> QED
      BY <1>1, <2>1, <3>1
  <2>3. CASE ~(p # Null /\ n = h.last[p])
    <3>1. last = h.last
      BY <2>1, <2>3
    <3> QED
      BY <2>1, <3>1
  <2> QED
    BY <2>2, <2>3
<1> HIDE DEF prev, next, last
<1>7. /\ g \in Heap /\ g.live = g1.live /\ g.first = g1.first /\ g.parent = g1.parent
      /\ g.prev = prev /\ g.next = next /\ g.last = last
  BY ZenonT(60), <1>2, <1>3, <1>4, <1>5, <1>6 DEF Heap
<1> QED
  BY <1>2, <1>4, <1>5, <1>6, <1>7 DEF p, s

\* JoinSiblings, field by field.
LEMMA JoinFields ==
  ASSUME NEW h, NEW n, NEW g, h \in Heap, n \in Node, g = JoinSiblings(h, n)
  PROVE  /\ g \in Heap /\ g.live = h.live /\ g.first = h.first /\ g.last = h.last
         /\ g.parent = h.parent
         /\ \A k \in Node : g.next[k] = IF k = h.prev[n] THEN h.next[n] ELSE h.next[k]
         /\ \A k \in Node : g.prev[k] = IF k = h.next[n] THEN h.prev[n] ELSE h.prev[k]
<1> DEFINE next == Put(h.next, h.prev[n], h.next[n])
           prev == Put(h.prev, h.next[n], h.prev[n])
<1>1. h.next \in [Node -> Ptr] /\ h.prev \in [Node -> Ptr] /\ h.next[n] \in Ptr /\ h.prev[n] \in Ptr
  BY HeapTypes
<1>2. next \in [Node -> Ptr]
      /\ \A k \in Node : next[k] = IF k = h.prev[n] THEN h.next[n] ELSE h.next[k]
  <2>1. next = Put(h.next, h.prev[n], h.next[n])
    OBVIOUS
  <2> HIDE DEF next
  <2> QED
    BY <1>1, <2>1, PutFields
<1>3. prev \in [Node -> Ptr]
      /\ \A k \in Node : prev[k] = IF k = h.next[n] THEN h.prev[n] ELSE h.prev[k]
  <2>1. prev = Put(h.prev, h.next[n], h.prev[n])
    OBVIOUS
  <2> HIDE DEF prev
  <2> QED
    BY <1>1, <2>1, PutFields
<1>4. g = [h EXCEPT !.next = next, !.prev = prev]
  BY DEF JoinSiblings
<1> HIDE DEF next, prev
<1> QED
  BY ZenonT(60), <1>2, <1>3, <1>4 DEF Heap

\* ClearNode, field by field.
LEMMA ClearFields ==
  ASSUME NEW h, NEW n, NEW g, h \in Heap, n \in Node, g = ClearNode(h, n)
  PROVE  /\ g \in Heap /\ g.live = h.live \ {n}
         /\ \A k \in Node : /\ g.parent[k] = IF k = n THEN Null ELSE h.parent[k]
                            /\ g.first[k] = IF k = n THEN Null ELSE h.first[k]
                            /\ g.last[k] = IF k = n THEN Null ELSE h.last[k]
                            /\ g.prev[k] = IF k = n THEN Null ELSE h.prev[k]
                            /\ g.next[k] = IF k = n THEN Null ELSE h.next[k]
<1>1. /\ h.parent \in [Node -> Ptr] /\ h.first \in [Node -> Ptr] /\ h.last \in [Node -> Ptr]
      /\ h.prev \in [Node -> Ptr] /\ h.next \in [Node -> Ptr] /\ h.live \subseteq Node
  BY HeapTypes
<1>2. \A f \in [Node -> Ptr] :
        /\ [f EXCEPT ![n] = Null] \in [Node -> Ptr]
        /\ \A k \in Node : [f EXCEPT ![n] = Null][k] = IF k = n THEN Null ELSE f[k]
  BY DEF Ptr
<1>3. /\ g.parent = [h.parent EXCEPT ![n] = Null] /\ g.first = [h.first EXCEPT ![n] = Null]
      /\ g.last = [h.last EXCEPT ![n] = Null] /\ g.prev = [h.prev EXCEPT ![n] = Null]
      /\ g.next = [h.next EXCEPT ![n] = Null] /\ g.live = h.live \ {n}
  BY DEF ClearNode
<1>4. g \in Heap
  <2>1. h.live \ {n} \in SUBSET Node
    BY <1>1
  <2> QED
    BY <1>1, <1>2, <2>1 DEF ClearNode, Heap
<1> QED
  BY <1>1, <1>2, <1>3, <1>4

-----------------------------------------------------------------------------
\* What RemoveNode has made of the pointers when n is gone: the children of n,
\* which end with b, are between its siblings if there is one before n, or no
\* other (Spliced); else the first of them is before the siblings, which end
\* with b, and the others after those (Wrapped).
Adopted(h, n, g) ==
  LET p == h.parent[n]  q == h.prev[n]  m == h.next[n]  c == h.first[n]
  IN  /\ g \in Heap /\ g.live = h.live \ {n}
      /\ \A k \in Node : g.parent[k] = IF k = n THEN Null
                                       ELSE IF h.parent[k] = n THEN p ELSE h.parent[k]
      /\ \A k \in Node : g.first[k] = IF k = n THEN Null
                                      ELSE IF k = p /\ q = Null
                                           THEN IF c # Null THEN c ELSE m
                                           ELSE h.first[k]
      /\ \A k \in Node : k # n /\ k # p => g.last[k] = h.last[k]

Spliced(h, n, g, b) ==
  LET q == h.prev[n]  m == h.next[n]  c == h.first[n]
  IN  /\ \A k \in Node : g.next[k] = IF k = n THEN Null
                                     ELSE IF c # Null /\ k = b THEN m
                                     ELSE IF k = q THEN IF c # Null THEN c ELSE m
                                     ELSE h.next[k]
      /\ \A k \in Node : g.prev[k] = IF k = n THEN Null
                                     ELSE IF k = c THEN q
                                     ELSE IF k = m THEN IF c # Null THEN b ELSE q
                                     ELSE h.prev[k]

Wrapped(h, n, g, b) ==
  LET m == h.next[n]  c == h.first[n]
  IN  /\ \A k \in Node : g.next[k] = IF k = n THEN Null
                                     ELSE IF k = c THEN m
                                     ELSE IF k = b THEN h.next[c]
                                     ELSE h.next[k]
      /\ \A k \in Node : g.prev[k] = IF k = n THEN Null
                                     ELSE IF k = h.next[c] THEN b
                                     ELSE IF k = m THEN c
                                     ELSE h.prev[k]

\* The last child of p.
IsLastKid(h, pos, p, b) == b \in Kids(h, p) /\ \A k \in Kids(h, p) : pos[k] <= pos[b]

\* The node around n in a tree.
LEMMA Around ==
  ASSUME NEW h, NEW a, NEW pos \in Order, IsTree(h, a, pos), NEW n \in h.live, n # 1
  PROVE  /\ h \in Heap /\ Parents(h, a) /\ InOrder(h, pos) /\ n \in Node /\ n # Null
         /\ h.parent[n] \in h.live /\ h.parent[n] \in Node /\ h.parent[n] # n
         /\ h.parent[n] # Null
         /\ n \in Kids(h, h.parent[n])
         /\ h.prev[n] # Null => /\ h.prev[n] \in Kids(h, h.parent[n]) /\ h.prev[n] \in Node
                                /\ h.next[h.prev[n]] = n /\ h.prev[n] # n
                                /\ h.parent[h.prev[n]] # n
         /\ h.next[n] # Null => /\ h.next[n] \in Kids(h, h.parent[n]) /\ h.next[n] \in Node
                                /\ h.prev[h.next[n]] = n /\ h.next[n] # n
                                /\ h.parent[h.next[n]] # n
         /\ h.first[n] # Null => /\ h.first[n] \in Kids(h, n) /\ h.first[n] \in Node
                                 /\ h.prev[h.first[n]] = Null /\ h.first[n] # n
         /\ h.first[n] = Null => Kids(h, n) = {}
         /\ (h.first[h.parent[n]] = n) <=> (h.prev[n] = Null)
         /\ \A k \in Node : h.parent[k] = n => k \in Kids(h, n)
<1> DEFINE p == h.parent[n]
<1>1. h \in Heap /\ Parents(h, a) /\ InOrder(h, pos) /\ DeadAreClear(h)
  BY TreeInOrder DEF IsTree
<1>2. h.live \subseteq Node /\ (\A k \in Node : k \in Nat /\ pos[k] \in Nat) /\ Null \notin Node
  BY <1>1, HeapTypes, PosTypes, NullIsNoNode, MaxNodesAssumption DEF Node
<1>3. p \in h.live /\ Below(a, n, p)
  BY <1>1 DEF Parents
<1>4. p # n
  BY <1>2, <1>3, BelowInside
<1>5. h.prev[n] # Null => h.prev[n] \in h.live /\ h.next[h.prev[n]] = n
                          /\ h.parent[h.prev[n]] = p /\ pos[h.prev[n]] < pos[n]
  BY <1>1, PrevIsLinked
<1>6. h.next[n] # Null => h.next[n] \in h.live /\ h.prev[h.next[n]] = n
                          /\ h.parent[h.next[n]] = p /\ pos[n] < pos[h.next[n]]
  BY <1>1, NextIsLinked
<1>7. h.first[n] # Null => h.first[n] \in h.live /\ h.parent[h.first[n]] = n
                           /\ h.prev[h.first[n]] = Null
  BY <1>1, FirstIsLinked
<1>8. h.first[n] = Null => Kids(h, n) = {}
  BY <1>1 DEF InOrder, FirstInOrder
<1>9. (h.first[p] = n) <=> (h.prev[n] = Null)
  <2>1. h.prev[n] = Null => h.first[p] = n
    BY <1>1, <1>2, <1>3, FirstIsLinked
  <2>2. h.first[p] = n => h.prev[n] = Null
    BY <1>1, <1>2, <1>3, FirstIsLinked
  <2> QED
    BY <2>1, <2>2
<1>10. \A k \in Node : h.parent[k] = n => k \in Kids(h, n)
  BY <1>1, <1>2 DEF DeadAreClear, Kids
<1> QED
  BY <1>1, <1>2, <1>3, <1>4, <1>5, <1>6, <1>7, <1>8, <1>9, <1>10 DEF Kids

\* A leaf that is isolated: its siblings are joined, nothing takes its place.
LEMMA LeafIsolated ==
  ASSUME NEW h \in Heap, NEW n \in Node, h.first[n] = Null,
         NEW p \in Node, p = h.parent[n], p # n, (h.first[p] = n) <=> (h.prev[n] = Null),
         h.prev[n] # n, h.next[n] # n,
         NEW i, i = IsolateNode(h, n)
  PROVE  /\ i \in Heap /\ i.live = h.live /\ i.parent = h.parent
         /\ \A k \in Node : i.next[k] = IF k = h.prev[n] THEN h.next[n] ELSE h.next[k]
         /\ \A k \in Node : i.prev[k] = IF k = h.next[n] THEN h.prev[n] ELSE h.prev[k]
         /\ \A k \in Node : i.first[k] = IF k = p /\ h.prev[n] = Null THEN h.next[n]
                                         ELSE h.first[k]
         /\ \A k \in Node : i.last[k] = IF k = p /\ h.prev[n] = Null /\ h.next[n] = Null
                                        THEN Null ELSE h.last[k]
<1> DEFINE q == h.prev[n]
           m == h.next[n]
           j == JoinSiblings(h, n)
           first == [h.first EXCEPT ![p] = m]
           last == [h.last EXCEPT ![p] = Null]
<1>1. /\ j \in Heap /\ j.live = h.live /\ j.first = h.first /\ j.last = h.last
      /\ j.parent = h.parent
      /\ \A k \in Node : j.next[k] = IF k = q THEN m ELSE h.next[k]
      /\ \A k \in Node : j.prev[k] = IF k = m THEN q ELSE h.prev[k]
  <2>1. j = JoinSiblings(h, n)
    OBVIOUS
  <2> HIDE DEF j
  <2> QED
    BY <2>1, JoinFields
<1>2. MergeChildren(j, n) = j
  BY <1>1 DEF MergeChildren
<1>3. j.next[n] = m /\ m \in Ptr /\ Null \in Ptr /\ n # Null /\ p # Null
  BY <1>1, HeapTypes, NullIsNoNode DEF Ptr
<1>4. /\ first \in [Node -> Ptr]
      /\ \A k \in Node : first[k] = IF k = p THEN m ELSE h.first[k]
      /\ last \in [Node -> Ptr]
      /\ \A k \in Node : last[k] = IF k = p THEN Null ELSE h.last[k]
  BY <1>3, HeapTypes
<1>5. CASE q = Null /\ m = Null
  <2>1. IsLeaf(j, n)
    BY <1>1 DEF IsLeaf
  <2>2. i = [j EXCEPT !.first[p] = Null, !.last[p] = Null]
    BY <1>2, <1>3, <1>5, <2>1 DEF IsolateNode
  <2>3. i = [j EXCEPT !.first = first, !.last = last]
    BY <1>1, <1>5, <2>2 DEF Heap
  <2> HIDE DEF first, last, j
  <2>4. /\ i \in Heap /\ i.live = j.live /\ i.parent = j.parent /\ i.next = j.next
        /\ i.prev = j.prev /\ i.first = first /\ i.last = last
    BY ZenonT(60), <1>1, <1>3, <1>4, <2>3 DEF Heap
  <2> QED
    BY <1>1, <1>3, <1>4, <1>5, <2>4
<1>6. CASE q = Null /\ m # Null
  <2>1. i = [j EXCEPT !.first[p] = m]
    BY <1>1, <1>2, <1>3, <1>6 DEF IsolateNode
  <2>2. i = [j EXCEPT !.first = first]
    BY <1>1, <2>1 DEF Heap
  <2> HIDE DEF first, last, j, m
  <2>3. /\ i \in Heap /\ i.live = j.live /\ i.parent = j.parent /\ i.next = j.next
        /\ i.prev = j.prev /\ i.first = first /\ i.last = j.last
    BY <1>1, <1>3, <1>4, <2>2 DEF Heap
  <2> QED
    BY <1>1, <1>3, <1>4, <1>6, <2>3
<1>7. CASE q # Null
  <2>1. i = j
    BY <1>1, <1>2, <1>3, <1>7 DEF IsolateNode
  <2> QED
    BY <1>1, <1>7, <2>1
<1> QED
  BY <1>5, <1>6, <1>7

\* A leaf is isolated: its siblings close up.
LEMMA IsolateLeaf ==
  ASSUME NEW h, NEW a, NEW pos \in Order, IsTree(h, a, pos), NEW n \in h.live, n # 1,
         h.first[n] = Null, NEW i, i = IsolateNode(h, n), NEW g, g = ClearNode(i, n), NEW b
  PROVE  i \in Heap /\ i.parent[n] = h.parent[n] /\ Adopted(h, n, g) /\ Spliced(h, n, g, b)
<1> DEFINE p == h.parent[n]
           q == h.prev[n]
           m == h.next[n]
<1>1. /\ h \in Heap /\ n \in Node /\ n # Null /\ p \in Node /\ p # n /\ p # Null
      /\ (h.first[p] = n) <=> (q = Null)
      /\ q # n /\ m # n
      /\ Kids(h, n) = {} /\ \A k \in Node : h.parent[k] = n => k \in Kids(h, n)
  BY Around
<1>2. /\ i \in Heap /\ i.live = h.live /\ i.parent = h.parent
      /\ \A k \in Node : i.next[k] = IF k = q THEN m ELSE h.next[k]
      /\ \A k \in Node : i.prev[k] = IF k = m THEN q ELSE h.prev[k]
      /\ \A k \in Node : i.first[k] = IF k = p /\ q = Null THEN m ELSE h.first[k]
      /\ \A k \in Node : k # p => i.last[k] = h.last[k]
  BY <1>1, LeafIsolated
<1>3. /\ g \in Heap /\ g.live = i.live \ {n}
      /\ \A k \in Node : /\ g.parent[k] = IF k = n THEN Null ELSE i.parent[k]
                         /\ g.first[k] = IF k = n THEN Null ELSE i.first[k]
                         /\ g.last[k] = IF k = n THEN Null ELSE i.last[k]
                         /\ g.prev[k] = IF k = n THEN Null ELSE i.prev[k]
                         /\ g.next[k] = IF k = n THEN Null ELSE i.next[k]
  <2>1. i \in Heap /\ n \in Node
    BY <1>1, <1>2
  <2> QED
    BY <2>1, ClearFields
<1>4. Adopted(h, n, g)
  BY <1>1, <1>2, <1>3 DEF Adopted
<1>5. Spliced(h, n, g, b)
  BY <1>1, <1>2, <1>3, NullIsNoNode DEF Spliced
<1> QED
  BY <1>2, <1>4, <1>5

\* AddChildrenRaw for a leaf, field by field.
LEMMA AddFirstChildFields ==
  ASSUME NEW h, NEW p, NEW n, NEW g, h \in Heap, p \in Node, n \in Node, h.first[p] = Null,
         g = AddChildrenRaw(h, p, n)
  PROVE  /\ g \in Heap /\ g.live = h.live /\ g.next = h.next
         /\ \A k \in Node : g.parent[k] = IF k \in SiblingsFrom(h, n) THEN p ELSE h.parent[k]
         /\ \A k \in Node : /\ g.prev[k] = IF k = n THEN Null ELSE h.prev[k]
                            /\ g.first[k] = IF k = p THEN n ELSE h.first[k]
                            /\ g.last[k] = IF k = p THEN n ELSE h.last[k]
<1> DEFINE s == SetParentOfSiblings(h, p, n)
           prev == [s.prev EXCEPT ![n] = Null]
           first == [s.first EXCEPT ![p] = n]
           last == [s.last EXCEPT ![p] = n]
<1>1. /\ s \in Heap /\ s.live = h.live /\ s.first = h.first /\ s.last = h.last
      /\ s.prev = h.prev /\ s.next = h.next
      /\ \A k \in Node : s.parent[k] = IF k \in SiblingsFrom(h, n) THEN p ELSE h.parent[k]
  <2>1. s = SetParentOfSiblings(h, p, n) /\ p \in Ptr
    BY DEF Ptr
  <2> HIDE DEF s
  <2> QED
    BY <2>1, SetParentFields
<1>2. g = [s EXCEPT !.prev = prev, !.first = first, !.last = last]
  BY DEF AddChildrenRaw, IsLeaf
<1> HIDE DEF s
<1>3. /\ prev \in [Node -> Ptr] /\ first \in [Node -> Ptr] /\ last \in [Node -> Ptr]
      /\ \A k \in Node : /\ prev[k] = IF k = n THEN Null ELSE h.prev[k]
                         /\ first[k] = IF k = p THEN n ELSE h.first[k]
                         /\ last[k] = IF k = p THEN n ELSE h.last[k]
  BY <1>1, HeapTypes DEF Ptr
<1> HIDE DEF prev, first, last
<1>4. /\ g \in Heap /\ g.live = s.live /\ g.parent = s.parent /\ g.next = s.next
      /\ g.prev = prev /\ g.first = first /\ g.last = last
  BY ZenonT(60), <1>1, <1>2, <1>3 DEF Heap
<1> QED
  BY <1>1, <1>3, <1>4

\* The children of n as RemoveNode finds them, once the siblings of n are joined.
LEMMA JoinedKids ==
  ASSUME NEW h, NEW a, NEW pos \in Order, IsTree(h, a, pos), NEW n \in h.live, n # 1,
         h.first[n] # Null, NEW b, IsLastKid(h, pos, n, b),
         NEW j, \A k \in Kids(h, n) : j.next[k] = h.next[k]
  PROVE  SiblingsFrom(j, h.first[n]) = Kids(h, n) /\ Back(j, h.first[n]) = b /\ b \in Node
<1> DEFINE c == h.first[n]
           R == {k \in Kids(h, n) : pos[c] <= pos[k]}
<1>1. InOrder(h, pos) /\ h \in Heap
  BY TreeInOrder DEF IsTree
<1>2. c \in Kids(h, n) /\ \A k \in Kids(h, n) : pos[c] <= pos[k]
  BY <1>1 DEF InOrder, FirstInOrder
<1>3. R = Kids(h, n)
  BY <1>2
<1>4. /\ SiblingsFrom(j, c) = R /\ Back(j, c) \in R
      /\ \A k \in Kids(h, n) : pos[k] <= pos[Back(j, c)]
  <2> HIDE DEF c
  <2>1. \A k \in R : j.next[k] = h.next[k]
    OBVIOUS
  <2>2. \A k : k \in R <=> k \in Kids(h, n) /\ pos[c] <= pos[k]
    OBVIOUS
  <2> HIDE DEF R
  <2> QED
    BY <1>1, <1>2, <2>1, <2>2, RangeOfSiblings
<1>5. h.live \subseteq Node /\ (\A k \in Node : pos[k] \in Nat)
      /\ \A x, y \in Node : pos[x] = pos[y] => x = y
  BY <1>1, HeapTypes, PosTypes
<1>6. Back(j, c) = b /\ b \in Node
  <2>1. Back(j, c) \in Node /\ b \in Node /\ b \in Kids(h, n) /\ Back(j, c) \in Kids(h, n)
    BY <1>3, <1>4, <1>5 DEF IsLastKid, Kids
  <2>2. pos[b] <= pos[Back(j, c)] /\ pos[Back(j, c)] <= pos[b]
    BY <1>3, <1>4, <2>1 DEF IsLastKid
  <2> QED
    BY <1>5, <2>1, <2>2
<1> QED
  BY <1>3, <1>4, <1>6

\* A node with a previous sibling is isolated: its children take its place.
LEMMA IsolateBehind ==
  ASSUME NEW h, NEW a, NEW pos \in Order, IsTree(h, a, pos), NEW n \in h.live, n # 1,
         h.first[n] # Null, h.prev[n] # Null, NEW b, IsLastKid(h, pos, n, b),
         NEW i, i = IsolateNode(h, n), NEW g, g = ClearNode(i, n)
  PROVE  i \in Heap /\ i.parent[n] = h.parent[n] /\ Adopted(h, n, g) /\ Spliced(h, n, g, b)
<1> DEFINE p == h.parent[n]
           q == h.prev[n]
           m == h.next[n]
           c == h.first[n]
           j == JoinSiblings(h, n)
           s == SetParentOfSiblings(j, p, c)
           x == AddSiblingsRaw(s, q, c)
<1>1. /\ h \in Heap /\ n \in Node /\ n # Null /\ p \in Node /\ p # n /\ p # Null
      /\ h.first[p] # n
      /\ q \in Node /\ q # n /\ h.parent[q] = p /\ q \notin Kids(h, n)
      /\ m # n /\ m \in Ptr
      /\ c \in Node /\ c # n /\ c \in Kids(h, n)
      /\ \A k \in Node : h.parent[k] = n <=> k \in Kids(h, n)
  BY Around, HeapTypes DEF Kids
<1>2. /\ j \in Heap /\ j.live = h.live /\ j.first = h.first /\ j.last = h.last
      /\ j.parent = h.parent
      /\ \A k \in Node : j.next[k] = IF k = q THEN m ELSE h.next[k]
      /\ \A k \in Node : j.prev[k] = IF k = m THEN q ELSE h.prev[k]
  <2>1. j = JoinSiblings(h, n)
    OBVIOUS
  <2> HIDE DEF j
  <2> QED
    BY <1>1, <2>1, JoinFields
<1>3. \A k \in Kids(h, n) : j.next[k] = h.next[k] /\ k \in Node
  BY <1>1, <1>2, HeapTypes DEF Kids
<1>4. SiblingsFrom(j, c) = Kids(h, n) /\ b \in Node
  <2> HIDE DEF j
  <2> QED
    BY <1>3, JoinedKids
<1>5. /\ s \in Heap /\ s.live = j.live /\ s.first = j.first /\ s.last = j.last
      /\ s.prev = j.prev /\ s.next = j.next
      /\ \A k \in Node : s.parent[k] = IF k \in Kids(h, n) THEN p ELSE h.parent[k]
  <2>1. s = SetParentOfSiblings(j, p, c) /\ p \in Ptr
    BY <1>1 DEF Ptr
  <2> HIDE DEF s, j, p, c
  <2>2. /\ s \in Heap /\ s.live = j.live /\ s.first = j.first /\ s.last = j.last
        /\ s.prev = j.prev /\ s.next = j.next
        /\ \A k \in Node : s.parent[k] = IF k \in SiblingsFrom(j, c) THEN p ELSE j.parent[k]
    BY <1>2, <2>1, SetParentFields
  <2> QED
    BY <1>2, <1>4, <2>2
<1>6. SiblingsFrom(s, c) = Kids(h, n) /\ Back(s, c) = b
  <2>1. \A k \in Kids(h, n) : s.next[k] = h.next[k]
    BY <1>3, <1>5
  <2> HIDE DEF s
  <2> QED
    BY <2>1, JoinedKids
<1>7. s.parent[q] = p /\ s.next[q] = m
  BY <1>1, <1>2, <1>5
<1>8. /\ x \in Heap /\ x.live = h.live /\ x.first = h.first
      /\ \A k \in Node : x.parent[k] = IF k \in Kids(h, n) THEN p ELSE h.parent[k]
      /\ \A k \in Node : x.prev[k] = IF k = m THEN b ELSE IF k = c THEN q ELSE s.prev[k]
      /\ \A k \in Node : x.next[k] = IF k = q THEN c ELSE IF k = b THEN m ELSE s.next[k]
      /\ \A k \in Node : k # p => x.last[k] = h.last[k]
  <2>1. x = AddSiblingsRaw(s, q, c)
    OBVIOUS
  <2> HIDE DEF x, s, q, c, m, p, j
  <2>2. /\ x \in Heap /\ x.live = s.live /\ x.first = s.first
        /\ \A k \in Node : x.parent[k] = IF k \in SiblingsFrom(s, c) THEN s.parent[q]
                                         ELSE s.parent[k]
        /\ \A k \in Node : x.prev[k] = IF k = s.next[q] THEN b
                                       ELSE IF k = c THEN q ELSE s.prev[k]
        /\ \A k \in Node : x.next[k] = IF k = q THEN c
                                       ELSE IF k = b THEN s.next[q] ELSE s.next[k]
        /\ \A k \in Node : k # s.parent[q] => x.last[k] = s.last[k]
    BY <1>1, <1>4, <1>5, <1>6, <2>1, AddSiblingsFields
  <2> QED
    BY <1>1, <1>2, <1>5, <1>6, <1>7, <2>2
<1>9. IsolateNode(h, n) = x
  <2>1. j.first[n] = c /\ j.prev[n] = q /\ j.next[n] = m /\ j.parent[n] = p
    BY <1>1, <1>2
  <2>2. MergeChildren(j, n) = x
    <3> HIDE DEF j, x, s
    <3>1. MergeChildren(j, n) = AddSiblingsRaw(SetParentOfSiblings(j, p, c), q, c)
      BY <1>1, <2>1 DEF MergeChildren
    <3> QED
      BY <3>1 DEF s, x
  <2>3. x.first[p] # n
    BY <1>1, <1>8
  <2> HIDE DEF x
  <2> QED
    BY <1>1, <2>2, <2>3 DEF IsolateNode
<1> HIDE DEF x, s, j
<1>10. /\ g \in Heap /\ g.live = x.live \ {n}
       /\ \A k \in Node : /\ g.parent[k] = IF k = n THEN Null ELSE x.parent[k]
                          /\ g.first[k] = IF k = n THEN Null ELSE x.first[k]
                          /\ g.last[k] = IF k = n THEN Null ELSE x.last[k]
                          /\ g.prev[k] = IF k = n THEN Null ELSE x.prev[k]
                          /\ g.next[k] = IF k = n THEN Null ELSE x.next[k]
  <2>1. g = ClearNode(x, n) /\ x \in Heap /\ n \in Node
    BY <1>1, <1>8, <1>9
  <2> QED
    BY <2>1, ClearFields
<1>11. Adopted(h, n, g)
  BY <1>1, <1>8, <1>10 DEF Adopted
<1>12. Spliced(h, n, g, b)
  <2>1. b # q /\ c # m /\ b # n
    BY <1>1, Around DEF IsLastKid, Kids
  <2> QED
    BY <1>1, <1>2, <1>5, <1>8, <1>10, <2>1 DEF Spliced
<1> QED
  BY <1>1, <1>8, <1>9, <1>11, <1>12

\* The siblings from m on, as RemoveNode finds them.
LEMMA LaterSiblings ==
  ASSUME NEW h, NEW pos, InOrder(h, pos), NEW p, NEW m \in Kids(h, p),
         NEW b, IsLastKid(h, pos, p, b),
         NEW t, \A k \in Node : t.next[k] = h.next[k]
  PROVE  Back(t, m) = b /\ b \in Node /\ \A k \in SiblingsFrom(t, m) : h.parent[k] = p
<1> DEFINE R == {k \in Kids(h, p) : pos[m] <= pos[k]}
<1>1. /\ h.live \subseteq Node /\ \A k \in Kids(h, p) : k \in Node /\ h.parent[k] = p
      /\ \A k \in Node : pos[k] \in Nat
      /\ \A x, y \in Node : pos[x] = pos[y] => x = y
  BY HeapTypes, PosTypes DEF InOrder, Kids
<1>2. /\ SiblingsFrom(t, m) = R /\ Back(t, m) \in R
      /\ \A k \in Kids(h, p) : pos[k] <= pos[Back(t, m)]
  <2>1. \A k \in R : t.next[k] = h.next[k]
    BY <1>1
  <2>2. \A k : k \in R <=> k \in Kids(h, p) /\ pos[m] <= pos[k]
    OBVIOUS
  <2> HIDE DEF R
  <2> QED
    BY <2>1, <2>2, RangeOfSiblings
<1>3. b \in Kids(h, p) /\ Back(t, m) \in Kids(h, p) /\ pos[Back(t, m)] <= pos[b]
      /\ pos[b] <= pos[Back(t, m)]
  BY <1>2 DEF IsLastKid
<1> QED
  BY <1>1, <1>2, <1>3

\* A first child that is not an only one is isolated: its siblings move behind
\* its children.
LEMMA IsolateFirst ==
  ASSUME NEW h, NEW a, NEW pos \in Order, IsTree(h, a, pos), NEW n \in h.live, n # 1,
         h.first[n] # Null, h.last[n] = h.first[n], h.prev[n] = Null, h.next[n] # Null,
         NEW b, IsLastKid(h, pos, h.parent[n], b),
         NEW i, i = IsolateNode(h, n), NEW g, g = ClearNode(i, n)
  PROVE  i \in Heap /\ i.parent[n] = h.parent[n] /\ Adopted(h, n, g) /\ Wrapped(h, n, g, b)
<1> DEFINE p == h.parent[n]
           m == h.next[n]
           c == h.first[n]
           j == JoinSiblings(h, n)
           s == SetParentOfSiblings(j, p, c)
           first == [s.first EXCEPT ![p] = c]
           t == [s EXCEPT !.first = first]
           x == AddSiblingsRaw(t, c, m)
<1>1. /\ h \in Heap /\ InOrder(h, pos) /\ n \in Node /\ n # Null
      /\ p \in Node /\ p # n /\ p # Null /\ p \in h.live
      /\ m \in Node /\ m # n /\ m \in Kids(h, p) /\ m \notin Kids(h, n)
      /\ c \in Node /\ c # n /\ c \in Kids(h, n)
      /\ \A k \in Node : h.parent[k] = n <=> k \in Kids(h, n)
  BY Around, HeapTypes DEF Kids
<1>2. /\ j \in Heap /\ j.live = h.live /\ j.first = h.first /\ j.last = h.last
      /\ j.parent = h.parent
      /\ \A k \in Node : j.next[k] = h.next[k]
      /\ \A k \in Node : j.prev[k] = IF k = m THEN Null ELSE h.prev[k]
  <2>1. j = JoinSiblings(h, n) /\ h \in Heap /\ n \in Node
    BY <1>1
  <2>2. \A k \in Node : k # h.prev[n]
    BY NullIsNoNode
  <2> HIDE DEF j
  <2>3. /\ j \in Heap /\ j.live = h.live /\ j.first = h.first /\ j.last = h.last
        /\ j.parent = h.parent
        /\ \A k \in Node : j.next[k] = IF k = h.prev[n] THEN h.next[n] ELSE h.next[k]
        /\ \A k \in Node : j.prev[k] = IF k = h.next[n] THEN h.prev[n] ELSE h.prev[k]
    BY <2>1, JoinFields
  <2> QED
    BY <2>2, <2>3
<1>3. SiblingsFrom(j, c) = Kids(h, n)
  <2>1. Kids(h, n) \subseteq Node
    BY <1>1, HeapTypes DEF Kids
  <2>2. PICK b2 : IsLastKid(h, pos, n, b2)
    <3>1. PICK b2 \in Kids(h, n) : \A k \in Kids(h, n) : pos[k] <= pos[b2]
      BY <1>1, <2>1, LastExists
    <3> QED
      BY <3>1 DEF IsLastKid
  <2>3. \A k \in Kids(h, n) : j.next[k] = h.next[k]
    BY <1>2, <2>1
  <2> HIDE DEF j
  <2> QED
    BY <2>2, <2>3, JoinedKids
<1>4. /\ s \in Heap /\ s.live = j.live /\ s.first = j.first /\ s.last = j.last
      /\ s.prev = j.prev /\ s.next = j.next
      /\ \A k \in Node : s.parent[k] = IF k \in Kids(h, n) THEN p ELSE h.parent[k]
  <2>1. s = SetParentOfSiblings(j, p, c) /\ p \in Ptr
    BY <1>1 DEF Ptr
  <2> HIDE DEF s, j, p, c
  <2>2. /\ s \in Heap /\ s.live = j.live /\ s.first = j.first /\ s.last = j.last
        /\ s.prev = j.prev /\ s.next = j.next
        /\ \A k \in Node : s.parent[k] = IF k \in SiblingsFrom(j, c) THEN p ELSE j.parent[k]
    BY <1>2, <2>1, SetParentFields
  <2> QED
    BY <1>2, <1>3, <2>2
<1>5. /\ t \in Heap /\ t.live = h.live /\ t.last = h.last /\ t.prev = j.prev /\ t.next = j.next
      /\ t.parent = s.parent /\ \A k \in Node : t.first[k] = IF k = p THEN c ELSE h.first[k]
  <2>1. first \in [Node -> Ptr] /\ \A k \in Node : first[k] = IF k = p THEN c ELSE h.first[k]
    BY <1>1, <1>2, <1>4, HeapTypes DEF Ptr
  <2> HIDE DEF first, s, j
  <2> QED
    BY <1>2, <1>4, <2>1 DEF Heap
<1> HIDE DEF t
<1>6. Back(t, m) = b /\ b \in Node /\ \A k \in SiblingsFrom(t, m) : h.parent[k] = p
  <2>1. \A k \in Node : t.next[k] = h.next[k]
    BY <1>2, <1>5
  <2> HIDE DEF m, p
  <2>2. m \in Kids(h, p) /\ IsLastKid(h, pos, p, b)
    BY <1>1 DEF p
  <2> QED
    BY <1>1, <2>1, <2>2, LaterSiblings
<1>7. t.parent[c] = p /\ t.next[c] = h.next[c]
  BY <1>1, <1>2, <1>4, <1>5
<1>8. /\ x \in Heap /\ x.live = h.live /\ x.first = t.first
      /\ \A k \in Node : x.parent[k] = IF k \in Kids(h, n) THEN p ELSE h.parent[k]
      /\ \A k \in Node : x.prev[k] = IF k = h.next[c] THEN b ELSE IF k = m THEN c ELSE t.prev[k]
      /\ \A k \in Node : x.next[k] = IF k = c THEN m ELSE IF k = b THEN h.next[c] ELSE h.next[k]
      /\ \A k \in Node : k # p => x.last[k] = h.last[k]
  <2>1. x = AddSiblingsRaw(t, c, m)
    OBVIOUS
  <2> HIDE DEF x, s, c, m, p, j
  <2>3. /\ x \in Heap /\ x.live = t.live /\ x.first = t.first
        /\ \A k \in Node : x.parent[k] = IF k \in SiblingsFrom(t, m) THEN t.parent[c]
                                         ELSE t.parent[k]
        /\ \A k \in Node : x.prev[k] = IF k = t.next[c] THEN b
                                       ELSE IF k = m THEN c ELSE t.prev[k]
        /\ \A k \in Node : x.next[k] = IF k = c THEN m
                                       ELSE IF k = b THEN t.next[c] ELSE t.next[k]
        /\ \A k \in Node : k # t.parent[c] => x.last[k] = t.last[k]
    BY <1>1, <1>5, <1>6, <2>1, AddSiblingsFields
  <2> QED
    BY <1>1, <1>2, <1>4, <1>5, <1>6, <1>7, <2>3
<1>9. IsolateNode(h, n) = x
  <2>1. /\ j.first[n] = c /\ j.prev[n] = Null /\ j.next[n] = m /\ j.parent[n] = p
        /\ j.last[n] = c
    BY <1>1, <1>2
  <2>2. MergeChildren(j, n) = x
    <3> HIDE DEF j, x, s
    <3>1. MergeChildren(j, n)
            = AddSiblingsRaw([SetParentOfSiblings(j, p, c) EXCEPT !.first[p] = c], c, m)
      BY <1>1, <2>1 DEF MergeChildren
    <3>2. [s EXCEPT !.first[p] = c] = t
      BY <1>4 DEF t, Heap
    <3> QED
      BY <3>1, <3>2 DEF s, x
  <2>3. x.first[p] # n
    BY <1>1, <1>5, <1>8
  <2> HIDE DEF x
  <2> QED
    BY <1>1, <2>2, <2>3 DEF IsolateNode
<1> HIDE DEF x, s, j
<1>10. /\ g \in Heap /\ g.live = x.live \ {n}
       /\ \A k \in Node : /\ g.parent[k] = IF k = n THEN Null ELSE x.parent[k]
                          /\ g.first[k] = IF k = n THEN Null ELSE x.first[k]
                          /\ g.last[k] = IF k = n THEN Null ELSE x.last[k]
                          /\ g.prev[k] = IF k = n THEN Null ELSE x.prev[k]
                          /\ g.next[k] = IF k = n THEN Null ELSE x.next[k]
  <2>1. g = ClearNode(x, n) /\ x \in Heap /\ n \in Node
    BY <1>1, <1>8, <1>9
  <2> QED
    BY <2>1, ClearFields
<1>11. Adopted(h, n, g)
  BY <1>1, <1>5, <1>8, <1>10 DEF Adopted
<1>12. Wrapped(h, n, g, b)
  BY <1>1, <1>2, <1>5, <1>8, <1>10 DEF Wrapped
<1> QED
  BY <1>1, <1>8, <1>9, <1>11, <1>12

\* An only child is isolated: its children become its parent's.
LEMMA IsolateOnly ==
  ASSUME NEW h, NEW a, NEW pos \in Order, IsTree(h, a, pos), NEW n \in h.live, n # 1,
         h.first[n] # Null, h.prev[n] = Null, h.next[n] = Null,
         NEW b, IsLastKid(h, pos, n, b),
         NEW i, i = IsolateNode(h, n), NEW g, g = ClearNode(i, n)
  PROVE  i \in Heap /\ i.parent[n] = h.parent[n] /\ Adopted(h, n, g) /\ Spliced(h, n, g, b)
<1> DEFINE p == h.parent[n]
           c == h.first[n]
           j == JoinSiblings(h, n)
           first == [j.first EXCEPT ![p] = Null]
           last == [j.last EXCEPT ![p] = Null]
           t == [j EXCEPT !.first = first, !.last = last]
           x == AddChildrenRaw(t, p, c)
<1>1. /\ h \in Heap /\ InOrder(h, pos) /\ n \in Node /\ n # Null
      /\ p \in Node /\ p # n /\ p # Null
      /\ c \in Node /\ c # n /\ c \in Kids(h, n) /\ h.prev[c] = Null
      /\ \A k \in Node : h.parent[k] = n <=> k \in Kids(h, n)
  BY Around, HeapTypes DEF Kids
<1>2. /\ j \in Heap /\ j.live = h.live /\ j.first = h.first /\ j.last = h.last
      /\ j.parent = h.parent
      /\ \A k \in Node : j.next[k] = h.next[k] /\ j.prev[k] = h.prev[k]
  <2>1. j = JoinSiblings(h, n) /\ h \in Heap /\ n \in Node
    BY <1>1
  <2>2. \A k \in Node : k # h.prev[n] /\ k # h.next[n]
    BY NullIsNoNode
  <2> HIDE DEF j
  <2>3. /\ j \in Heap /\ j.live = h.live /\ j.first = h.first /\ j.last = h.last
        /\ j.parent = h.parent
        /\ \A k \in Node : j.next[k] = IF k = h.prev[n] THEN h.next[n] ELSE h.next[k]
        /\ \A k \in Node : j.prev[k] = IF k = h.next[n] THEN h.prev[n] ELSE h.prev[k]
    BY <2>1, JoinFields
  <2> QED
    BY <2>2, <2>3
<1> HIDE DEF j
<1>3. /\ t \in Heap /\ t.live = h.live /\ t.prev = j.prev /\ t.next = j.next /\ t.parent = h.parent
      /\ \A k \in Node : t.first[k] = IF k = p THEN Null ELSE h.first[k]
      /\ \A k \in Node : t.last[k] = IF k = p THEN Null ELSE h.last[k]
  <2>1. /\ first \in [Node -> Ptr] /\ last \in [Node -> Ptr]
        /\ \A k \in Node : first[k] = IF k = p THEN Null ELSE h.first[k]
        /\ \A k \in Node : last[k] = IF k = p THEN Null ELSE h.last[k]
    BY <1>1, <1>2, HeapTypes DEF Ptr
  <2> HIDE DEF first, last
  <2> QED
    BY <1>2, <2>1 DEF Heap
<1>4. t = [j EXCEPT !.first[p] = Null, !.last[p] = Null]
  BY <1>2 DEF Heap
<1> HIDE DEF t
<1>5. SiblingsFrom(t, c) = Kids(h, n)
  <2>1. \A k \in Kids(h, n) : t.next[k] = h.next[k]
    BY <1>1, <1>2, <1>3, HeapTypes DEF Kids
  <2> QED
    BY <2>1, JoinedKids
<1>6. /\ x \in Heap /\ x.live = h.live /\ x.next = t.next
      /\ \A k \in Node : x.parent[k] = IF k \in Kids(h, n) THEN p ELSE h.parent[k]
      /\ \A k \in Node : /\ x.prev[k] = IF k = c THEN Null ELSE h.prev[k]
                         /\ x.first[k] = IF k = p THEN c ELSE h.first[k]
                         /\ k # p => x.last[k] = h.last[k]
  <2>1. x = AddChildrenRaw(t, p, c) /\ t.first[p] = Null
    BY <1>1, <1>3
  <2> HIDE DEF x, p, c
  <2>2. /\ x \in Heap /\ x.live = t.live /\ x.next = t.next
        /\ \A k \in Node : x.parent[k] = IF k \in SiblingsFrom(t, c) THEN p ELSE t.parent[k]
        /\ \A k \in Node : /\ x.prev[k] = IF k = c THEN Null ELSE t.prev[k]
                           /\ x.first[k] = IF k = p THEN c ELSE t.first[k]
                           /\ x.last[k] = IF k = p THEN c ELSE t.last[k]
    BY <1>1, <1>3, <2>1, AddFirstChildFields
  <2> QED
    BY <1>2, <1>3, <1>5, <2>2
<1>7. IsolateNode(h, n) = x
  <2>1. /\ j.first[n] = c /\ j.prev[n] = Null /\ j.next[n] = Null /\ j.parent[n] = p
    BY <1>1, <1>2
  <2>2. MergeChildren(j, n) = x
    <3> HIDE DEF x
    <3>1. MergeChildren(j, n)
            = AddChildrenRaw([j EXCEPT !.first[p] = Null, !.last[p] = Null], p, c)
      BY <1>1, <2>1 DEF MergeChildren
    <3> QED
      BY <1>4, <3>1 DEF x
  <2>3. ~IsLeaf(x, n)
    BY <1>1, <1>6 DEF IsLeaf
  <2> HIDE DEF x
  <2> QED
    BY <1>1, <2>2, <2>3 DEF IsolateNode, j
<1> HIDE DEF x
<1>8. /\ g \in Heap /\ g.live = x.live \ {n}
       /\ \A k \in Node : /\ g.parent[k] = IF k = n THEN Null ELSE x.parent[k]
                          /\ g.first[k] = IF k = n THEN Null ELSE x.first[k]
                          /\ g.last[k] = IF k = n THEN Null ELSE x.last[k]
                          /\ g.prev[k] = IF k = n THEN Null ELSE x.prev[k]
                          /\ g.next[k] = IF k = n THEN Null ELSE x.next[k]
  <2>1. g = ClearNode(x, n) /\ x \in Heap /\ n \in Node
    BY <1>1, <1>6, <1>7
  <2> QED
    BY <2>1, ClearFields
<1>9. Adopted(h, n, g)
  BY <1>1, <1>6, <1>8 DEF Adopted
<1>10. Spliced(h, n, g, b)
  <2>1. h.next[b] = Null /\ b \in Node
    <3>1. b \in h.live /\ b \in Node
      BY <1>1, HeapTypes DEF IsLastKid, Kids
    <3>2. h.next[b] # Null => /\ h.next[b] \in h.live /\ h.parent[h.next[b]] = h.parent[b]
                              /\ pos[b] < pos[h.next[b]]
      BY <1>1, <3>1, NextIsLinked
    <3>3. h.next[b] # Null => h.next[b] \in Kids(h, n)
      BY <3>2 DEF IsLastKid, Kids
    <3> QED
      BY <1>1, <3>1, <3>2, <3>3, PosTypes, HeapTypes DEF IsLastKid, Kids
  <2> QED
    BY <1>1, <1>2, <1>3, <1>6, <1>8, <2>1, NullIsNoNode DEF Spliced
<1> QED
  BY <1>1, <1>6, <1>7, <1>9, <1>10

-----------------------------------------------------------------------------
(***************************************************************************)
(* The tree after a node is removed                                        *)
(***************************************************************************)

\* Previous pointers that match the next ones are in order if those are.
LEMMA PrevFromNext ==
  ASSUME NEW g, NEW pos \in Order, g \in Heap, NextInOrder(g, pos), FirstInOrder(g, pos),
         \A k \in g.live : g.parent[k] \notin g.live =>
           g.parent[k] = Null /\ g.prev[k] = Null /\ Kids(g, Null) = {k},
         \A k \in g.live : g.next[k] # Null => g.prev[g.next[k]] = k,
         \A k \in g.live : g.first[k] # Null => g.prev[g.first[k]] = Null
  PROVE  PrevInOrder(g, pos)
<1>1. g.live \subseteq Node /\ (\A k \in Node : pos[k] \in Nat)
      /\ \A x, y \in Node : pos[x] = pos[y] => x = y
  BY HeapTypes, PosTypes
<1> SUFFICES ASSUME NEW k \in g.live
             PROVE  IF g.prev[k] = Null THEN \A y \in Kids(g, g.parent[k]) : pos[k] <= pos[y]
                    ELSE IsBefore(g, pos, g.parent[k], k, g.prev[k])
  BY DEF PrevInOrder
<1>2. CASE g.parent[k] \notin g.live
  <2>1. g.prev[k] = Null /\ Kids(g, g.parent[k]) = {k}
    BY <1>2
  <2> QED
    BY <1>1, <2>1
<1>3. CASE g.parent[k] \in g.live
  <2> DEFINE p == g.parent[k]
             f == g.first[p]
             R == {y \in Kids(g, p) : pos[y] < pos[k]}
  <2>1. k \in Kids(g, p) /\ Kids(g, p) \subseteq g.live
    BY DEF Kids
  <2>2. f # Null /\ f \in Kids(g, p) /\ \A y \in Kids(g, p) : pos[f] <= pos[y]
    BY <1>3, <2>1 DEF FirstInOrder
  <2>3. CASE k = f
    BY <1>3, <2>2, <2>3
  <2>4. CASE k # f
    <3>1. f \in R /\ R \subseteq Node
      BY <1>1, <2>1, <2>2, <2>4
    <3>2. PICK j \in R : \A y \in R : pos[y] <= pos[j]
      <4> HIDE DEF R
      <4> QED
        BY <3>1, LastExists
    <3>3. j \in g.live /\ g.parent[j] = p /\ pos[j] < pos[k] /\ j \in Kids(g, p)
      BY <2>1, <3>2 DEF Kids
    <3>4. g.next[j] # Null /\ IsAfter(g, pos, p, j, g.next[j])
      BY <1>1, <2>1, <3>3 DEF NextInOrder
    <3>5. g.next[j] \in Kids(g, p) /\ g.next[j] \in Node /\ pos[g.next[j]] <= pos[k]
          /\ pos[j] < pos[g.next[j]]
      BY <1>1, <2>1, <3>3, <3>4 DEF IsAfter
    <3>6. ~(pos[g.next[j]] < pos[k])
      <4>1. pos[g.next[j]] < pos[k] => g.next[j] \in R
        BY <3>5
      <4> HIDE DEF R, p, f
      <4> QED
        BY <1>1, <2>1, <3>2, <3>3, <3>5, <4>1
    <3>7. g.next[j] = k
      <4> HIDE DEF R, p, f
      <4> QED
        BY <1>1, <2>1, <3>5, <3>6
    <3>8. g.prev[k] = j /\ j # Null
      BY <1>1, <3>3, <3>4, <3>7, NullIsNoNode
    <3>9. \A y \in Kids(g, p) : pos[y] < pos[k] => pos[y] <= pos[j]
      BY <3>2
    <3> HIDE DEF R, p, f
    <3>10. IsBefore(g, pos, p, k, j)
      BY <3>3, <3>9 DEF IsBefore
    <3> QED
      BY <3>8, <3>10 DEF p
  <2> QED
    BY <2>3, <2>4
<1> QED
  BY <1>2, <1>3

\* The nodes that n leaves behind have its parent for theirs.
LEMMA AdoptedParents ==
  ASSUME NEW h, NEW a \in [Node -> Attr], NEW pos \in Order, IsTree(h, a, pos),
         NEW n \in h.live, n # 1, NEW g, Adopted(h, n, g)
  PROVE  /\ Parents(g, a)
         /\ \A k : k \in Kids(g, h.parent[n])
                     <=> k # n /\ (k \in Kids(h, h.parent[n]) \/ k \in Kids(h, n))
         /\ \A x : x # n /\ x # h.parent[n] => Kids(g, x) = Kids(h, x)
<1> DEFINE p == h.parent[n]
<1>1. /\ h \in Heap /\ Parents(h, a) /\ n \in Node /\ n # Null /\ p \in h.live /\ p # n
      /\ p # Null /\ h.live \subseteq Node /\ g.live = h.live \ {n}
      /\ \A k \in Node : g.parent[k] = IF k = n THEN Null
                                       ELSE IF h.parent[k] = n THEN p ELSE h.parent[k]
  BY Around, HeapTypes DEF Adopted
<1>2. Below(a, n, p) /\ \A k \in h.live : Below(a, n, k) => k <= p
  BY <1>1 DEF Parents
<1>3. Parents(g, a)
  <2> SUFFICES ASSUME NEW k \in g.live
               PROVE  IF k = 1 THEN g.parent[k] = Null
                      ELSE /\ g.parent[k] \in g.live /\ Below(a, k, g.parent[k])
                           /\ \A j \in g.live : Below(a, k, j) => j <= g.parent[k]
    BY DEF Parents
  <2>1. k \in h.live /\ k \in Node /\ k # n
    BY <1>1
  <2>2. IF k = 1 THEN h.parent[k] = Null
        ELSE /\ h.parent[k] \in h.live /\ Below(a, k, h.parent[k])
             /\ \A j \in h.live : Below(a, k, j) => j <= h.parent[k]
    BY <1>1, <2>1 DEF Parents
  <2>3. CASE k = 1
    BY <1>1, <2>1, <2>2, <2>3
  <2>4. CASE k # 1 /\ h.parent[k] # n
    BY <1>1, <2>1, <2>2, <2>4
  <2>5. CASE k # 1 /\ h.parent[k] = n
    <3>1. g.parent[k] = p /\ p \in g.live
      BY <1>1, <2>1, <2>5
    <3>2. Below(a, k, n) /\ \A j \in h.live : Below(a, k, j) => j <= n
      BY <2>2, <2>5
    <3>3. Below(a, k, p)
      BY <1>1, <1>2, <2>1, <3>2, BelowTransitive
    <3>4. ASSUME NEW j \in g.live, Below(a, k, j)
          PROVE  j <= p
      <4>1. j \in Node /\ j \in h.live /\ j # n /\ j <= n
        BY <1>1, <3>2, <3>4
      <4>2. Below(a, j, n) \/ Below(a, n, j)
        BY <1>1, <2>1, <3>2, <3>4, <4>1, BelowLinear
      <4>3. ~Below(a, j, n)
        BY <1>1, <4>1 DEF Below, Node
      <4> QED
        BY <1>2, <4>1, <4>2, <4>3
    <3> QED
      BY <2>5, <3>1, <3>3, <3>4
  <2> QED
    BY <2>3, <2>4, <2>5
<1>4. \A k : k \in Kids(g, p) <=> k # n /\ (k \in Kids(h, p) \/ k \in Kids(h, n))
  BY <1>1 DEF Kids
<1>5. \A x : x # n /\ x # p => Kids(g, x) = Kids(h, x)
  BY <1>1 DEF Kids
<1> QED
  BY <1>3, <1>4, <1>5

\* The children of n are right after it, before its later siblings.
LEMMA KidsPlace ==
  ASSUME NEW h, NEW a \in [Node -> Attr], NEW pos \in Order, IsTree(h, a, pos),
         Preorder(h.live, a, pos), NEW n \in h.live, n # 1, NEW k \in Kids(h, n)
  PROVE  /\ pos[n] < pos[k]
         /\ \A y \in Kids(h, h.parent[n]) : pos[n] < pos[y] => pos[k] < pos[y]
<1>1. /\ h \in Heap /\ Parents(h, a) /\ n \in Node /\ n \in Kids(h, h.parent[n])
      /\ h.live \subseteq Node /\ k \in h.live /\ k \in Node
      /\ \A x \in Node : pos[x] \in Nat
  <2>1. /\ h \in Heap /\ Parents(h, a) /\ n \in Node /\ n \in Kids(h, h.parent[n])
    BY Around
  <2>2. h.live \subseteq Node /\ k \in h.live
    BY <2>1, HeapTypes DEF Kids
  <2> QED
    BY <2>1, <2>2, PosTypes
<1>2. Below(a, k, n) /\ k # n
  <2>1. Below(a, k, n)
    BY <1>1, KidIsBelow
  <2> QED
    BY <1>1, <2>1 DEF Below, Node
<1>3. pos[n] < pos[k]
  BY <1>1, <1>2 DEF Preorder
<1>4. ASSUME NEW y \in Kids(h, h.parent[n]), pos[n] < pos[y]
      PROVE  pos[k] < pos[y]
  <2>1. y \in h.live /\ y \in Node
    BY <1>1 DEF Kids
  <2>2. ~Below(a, y, n)
    BY <1>1, SiblingsApart
  <2>3. ~(pos[y] <= pos[k])
    BY <1>1, <1>2, <1>4, <2>1, <2>2 DEF Preorder
  <2> QED
    BY <1>1, <2>1, <2>3
<1> QED
  BY <1>3, <1>4

\* When the children take the place of their parent the order stays.
LEMMA SplicedTree ==
  ASSUME NEW h, NEW a \in [Node -> Attr], NEW pos \in Order, IsTree(h, a, pos),
         Preorder(h.live, a, pos), NEW n \in h.live, n # 1,
         NEW b, h.first[n] # Null => IsLastKid(h, pos, n, b),
         h.first[n] = Null \/ h.prev[n] # Null \/ h.next[n] = Null,
         NEW g, Adopted(h, n, g), Spliced(h, n, g, b)
  PROVE  IsTree(g, a, pos)
<1> DEFINE p == h.parent[n]
           q == h.prev[n]
           m == h.next[n]
           c == h.first[n]
<1>1. /\ h \in Heap /\ Parents(h, a) /\ InOrder(h, pos) /\ n \in Node /\ n # Null
      /\ p \in h.live /\ p \in Node /\ p # n /\ p # Null
      /\ n \in Kids(h, p) /\ h.live \subseteq Node
  BY Around, HeapTypes
<1>2. /\ g \in Heap /\ g.live = h.live \ {n}
      /\ \A k \in Node : g.first[k] = IF k = n THEN Null
                                      ELSE IF k = p /\ q = Null
                                           THEN IF c # Null THEN c ELSE m
                                           ELSE h.first[k]
      /\ \A k \in Node : g.parent[k] = IF k = n THEN Null
                                       ELSE IF h.parent[k] = n THEN p ELSE h.parent[k]
  BY DEF Adopted
<1>3. /\ \A k \in Node : g.next[k] = IF k = n THEN Null
                                     ELSE IF c # Null /\ k = b THEN m
                                     ELSE IF k = q THEN IF c # Null THEN c ELSE m
                                     ELSE h.next[k]
      /\ \A k \in Node : g.prev[k] = IF k = n THEN Null
                                     ELSE IF k = c THEN q
                                     ELSE IF k = m THEN IF c # Null THEN b ELSE q
                                     ELSE h.prev[k]
  BY DEF Spliced
<1>4. /\ Parents(g, a)
      /\ \A k : k \in Kids(g, p) <=> k # n /\ (k \in Kids(h, p) \/ k \in Kids(h, n))
      /\ \A x : x # n /\ x # p => Kids(g, x) = Kids(h, x)
  BY AdoptedParents
<1>5. /\ \A x \in Node : pos[x] \in Nat
      /\ \A x, y \in Node : pos[x] = pos[y] => x = y
  BY PosTypes
<1>6. /\ q # Null => /\ q \in Kids(h, p) /\ q \in Node /\ q # n /\ h.next[q] = n
                     /\ IsBefore(h, pos, p, n, q)
      /\ m # Null => /\ m \in Kids(h, p) /\ m \in Node /\ m # n /\ h.prev[m] = n
                     /\ IsAfter(h, pos, p, n, m)
      /\ c # Null => /\ c \in Kids(h, n) /\ c \in Node /\ c # n /\ h.prev[c] = Null
                     /\ \A k \in Kids(h, n) : pos[c] <= pos[k]
      /\ c # Null => b \in Kids(h, n) /\ b \in Node /\ b # n
                     /\ \A k \in Kids(h, n) : pos[k] <= pos[b]
      /\ q = Null => \A k \in Kids(h, p) : pos[n] <= pos[k]
      /\ m = Null => \A k \in Kids(h, p) : pos[k] <= pos[n]
      /\ c = Null => Kids(h, n) = {}
  <2>1. /\ q # Null => IsBefore(h, pos, p, n, q)
        /\ m # Null => IsAfter(h, pos, p, n, m)
        /\ q = Null => \A k \in Kids(h, p) : pos[n] <= pos[k]
        /\ m = Null => \A k \in Kids(h, p) : pos[k] <= pos[n]
        /\ c # Null => \A k \in Kids(h, n) : pos[c] <= pos[k]
    BY <1>1 DEF InOrder, NextInOrder, PrevInOrder, FirstInOrder
  <2>2. c # Null => b \in Kids(h, n) /\ b \in Node /\ b # n
                     /\ \A k \in Kids(h, n) : pos[k] <= pos[b]
    BY <1>1 DEF IsLastKid, Kids
  <2> QED
    BY <1>1, <2>1, <2>2, Around
<1>7. \A k \in Kids(h, n) : /\ pos[n] < pos[k] /\ k \in Node /\ k \in h.live
                            /\ k # n /\ k \notin Kids(h, p)
                            /\ \A y \in Kids(h, p) : pos[n] < pos[y] => pos[k] < pos[y]
  <2> SUFFICES ASSUME NEW k \in Kids(h, n)
               PROVE  /\ pos[n] < pos[k] /\ k \in Node /\ k \in h.live
                      /\ k # n /\ k \notin Kids(h, p)
                      /\ \A y \in Kids(h, p) : pos[n] < pos[y] => pos[k] < pos[y]
    OBVIOUS
  <2>1. k \in h.live /\ k \in Node /\ k \notin Kids(h, p) /\ h.parent[k] = n
    BY <1>1 DEF Kids
  <2>2. pos[n] < pos[k] /\ \A y \in Kids(h, p) : pos[n] < pos[y] => pos[k] < pos[y]
    BY KidsPlace
  <2> QED
    BY <1>1, <2>1, <2>2
<1>8. \A k \in Kids(h, p) : k \in Node /\ k \in h.live /\ k \notin Kids(h, n)
  BY <1>1, <1>7 DEF Kids
<1>9. FirstInOrder(g, pos)
  <2> SUFFICES ASSUME NEW k \in g.live
               PROVE  IF g.first[k] = Null THEN Kids(g, k) = {}
                      ELSE /\ g.first[k] \in Kids(g, k)
                           /\ \A y \in Kids(g, k) : pos[g.first[k]] <= pos[y]
    BY DEF FirstInOrder
  <2>1. k \in h.live /\ k \in Node /\ k # n
    BY <1>1, <1>2
  <2>2. CASE k # p
    BY <1>1, <1>2, <1>4, <2>1, <2>2 DEF InOrder, FirstInOrder
  <2>3. CASE k = p /\ q # Null
    <3>1. /\ h.first[p] # Null /\ h.first[p] \in Kids(h, p) /\ h.first[p] # n
          /\ \A y \in Kids(h, p) : pos[h.first[p]] <= pos[y]
      BY <1>1, <2>3, Around DEF InOrder, FirstInOrder
    <3>2. g.first[k] = h.first[p]
      BY <1>2, <2>1, <2>3
    <3>3. \A y \in Kids(h, n) : pos[h.first[p]] <= pos[y]
      BY <1>1, <1>5, <1>7, <1>8, <3>1
    <3> QED
      BY <1>4, <2>3, <3>1, <3>2, <3>3
  <2>4. CASE k = p /\ q = Null /\ c # Null
    <3>1. g.first[k] = c /\ c \in Kids(g, p)
      BY <1>2, <1>4, <1>6, <2>1, <2>4
    <3>2. \A y \in Kids(h, p) : y # n => pos[c] <= pos[y]
      BY <1>1, <1>5, <1>6, <1>7, <1>8, <2>4
    <3> QED
      BY <1>4, <1>6, <2>4, <3>1, <3>2
  <2>5. CASE k = p /\ q = Null /\ c = Null
    <3>1. g.first[k] = m /\ \A y : y \in Kids(g, p) <=> y # n /\ y \in Kids(h, p)
      BY <1>2, <1>4, <1>6, <2>1, <2>5
    <3>2. CASE m = Null
      BY <1>1, <1>5, <1>6, <1>8, <2>5, <3>1, <3>2
    <3>3. CASE m # Null
      <4>1. \A y \in Kids(h, p) : y # n => pos[n] < pos[y]
        BY <1>1, <1>5, <1>6, <1>8, <2>5
      <4>2. \A y \in Kids(h, p) : y # n => pos[m] <= pos[y]
        BY <1>6, <3>3, <4>1 DEF IsAfter
      <4> QED
        BY <1>6, <2>5, <3>1, <3>3, <4>2
    <3> QED
      BY <3>2, <3>3
  <2> QED
    BY <2>2, <2>3, <2>4, <2>5
<1>10. NextInOrder(g, pos)
  <2> SUFFICES ASSUME NEW k \in g.live
               PROVE  IF g.next[k] = Null THEN \A y \in Kids(g, g.parent[k]) : pos[y] <= pos[k]
                      ELSE IsAfter(g, pos, g.parent[k], k, g.next[k])
    BY DEF NextInOrder
  <2>1. k \in h.live /\ k \in Node /\ k # n
    BY <1>1, <1>2
  <2>2. IF h.next[k] = Null THEN \A y \in Kids(h, h.parent[k]) : pos[y] <= pos[k]
        ELSE IsAfter(h, pos, h.parent[k], k, h.next[k])
    BY <1>1, <2>1 DEF InOrder, NextInOrder
  <2>3. CASE k \in Kids(h, n)
    <3>1. g.parent[k] = p /\ h.parent[k] = n /\ c # Null
      BY <1>2, <1>6, <2>1, <2>3 DEF Kids
    <3>2. CASE k = b /\ m = Null
      <4>1. g.next[k] = Null
        BY <1>3, <2>1, <3>1, <3>2
      <4>2. \A y \in Kids(h, p) : pos[y] <= pos[k]
        BY <1>1, <1>5, <1>6, <1>7, <1>8, <2>3, <3>2
      <4> QED
        BY <1>4, <1>6, <3>1, <3>2, <4>1, <4>2
    <3>3. CASE k = b /\ m # Null
      <4>1. g.next[k] = m
        BY <1>3, <2>1, <3>1, <3>3
      <4>2. m \in Kids(g, p) /\ pos[k] < pos[m]
        BY <1>4, <1>6, <1>7, <2>3, <3>3 DEF IsAfter
      <4>3. \A y \in Kids(h, p) : pos[k] < pos[y] => pos[m] <= pos[y]
        BY <1>1, <1>5, <1>6, <1>7, <1>8, <2>1, <2>3, <3>3 DEF IsAfter
      <4>4. \A y \in Kids(h, n) : ~(pos[k] < pos[y])
        BY <1>5, <1>6, <1>7, <2>1, <3>1, <3>3
      <4>5. \A y \in Kids(g, p) : pos[k] < pos[y] => pos[m] <= pos[y]
        BY <1>4, <4>3, <4>4
      <4> QED
        BY <3>1, <3>3, <4>1, <4>2, <4>5 DEF IsAfter
    <3>4. CASE k # b
      <4>1. k # q
        BY <1>6, <1>8, <2>3, NullIsNoNode, <2>1
      <4>2. g.next[k] = h.next[k]
        BY <1>3, <2>1, <3>4, <4>1
      <4>3. pos[k] < pos[b]
        BY <1>5, <1>6, <2>1, <2>3, <3>1, <3>4
      <4>4. h.next[k] # Null /\ IsAfter(h, pos, n, k, h.next[k])
        BY <1>5, <1>6, <2>1, <2>2, <3>1, <4>3
      <4>5. h.next[k] \in Kids(h, n) /\ h.next[k] \in Kids(g, p)
            /\ pos[k] < pos[h.next[k]]
            /\ \A y \in Kids(h, n) : pos[k] < pos[y] => pos[h.next[k]] <= pos[y]
        BY <1>4, <1>7, <4>4 DEF IsAfter
      <4>6. \A y \in Kids(h, p) : pos[k] < pos[y] => pos[h.next[k]] <= pos[y]
        BY <1>1, <1>5, <1>7, <1>8, <2>1, <2>3, <4>5
      <4>7. \A y \in Kids(g, p) : pos[k] < pos[y] => pos[h.next[k]] <= pos[y]
        BY <1>4, <4>5, <4>6
      <4> QED
        BY <3>1, <4>2, <4>4, <4>5, <4>7 DEF IsAfter
    <3> QED
      BY <3>2, <3>3, <3>4
  <2>4. CASE k \in Kids(h, p) /\ k = q
    <3>1. g.parent[k] = p /\ q # Null /\ (c # Null => k # b)
      <4>1. h.parent[k] = p
        BY <2>4 DEF Kids
      <4>2. c # Null => b \notin Kids(h, p)
        BY <1>6, <1>8
      <4> QED
        BY <1>1, <1>2, <2>1, <2>4, <4>1, <4>2, NullIsNoNode
    <3>2. pos[q] < pos[n] /\ \A y \in Kids(h, p) : pos[y] < pos[n] => pos[y] <= pos[q]
      BY <1>6, <3>1 DEF IsBefore
    <3>3. CASE c # Null
      <4>1. g.next[k] = c /\ c \in Kids(g, p)
        BY <1>3, <1>4, <1>6, <2>1, <2>4, <3>1, <3>3
      <4>2. pos[k] < pos[c]
        BY <1>1, <1>5, <1>6, <1>7, <2>1, <2>4, <3>2, <3>3
      <4>3. \A y \in Kids(h, p) : y # n /\ pos[k] < pos[y] => pos[c] <= pos[y]
        BY <1>1, <1>5, <1>6, <1>7, <1>8, <2>1, <2>4, <3>2, <3>3
      <4>4. \A y \in Kids(g, p) : pos[k] < pos[y] => pos[c] <= pos[y]
        BY <1>4, <1>6, <3>3, <4>3
      <4> QED
        BY <3>1, <3>3, <4>1, <4>2, <4>4 DEF IsAfter
    <3>4. CASE c = Null
      <4>1. g.next[k] = m /\ \A y : y \in Kids(g, p) <=> y # n /\ y \in Kids(h, p)
        BY <1>3, <1>4, <1>6, <2>1, <2>4, <3>1, <3>4
      <4>2. CASE m = Null
        <5>1. \A y \in Kids(h, p) : y # n => pos[y] <= pos[k]
          BY <1>1, <1>5, <1>6, <1>8, <2>1, <2>4, <3>2, <4>2
        <5> QED
          BY <3>1, <4>1, <4>2, <5>1
      <4>3. CASE m # Null
        <5>1. m \in Kids(g, p) /\ pos[k] < pos[m]
          BY <1>1, <1>5, <1>6, <2>1, <2>4, <3>2, <4>1, <4>3 DEF IsAfter
        <5>2. \A y \in Kids(h, p) : y # n /\ pos[k] < pos[y] => pos[m] <= pos[y]
          BY <1>1, <1>5, <1>6, <1>8, <2>1, <2>4, <3>2, <4>3 DEF IsAfter
        <5> QED
          BY <3>1, <4>1, <4>3, <5>1, <5>2 DEF IsAfter
      <4> QED
        BY <4>2, <4>3
    <3> QED
      BY <3>3, <3>4
  <2>5. CASE k \in Kids(h, p) /\ k # q
    <3>1. g.parent[k] = p /\ h.parent[k] = p /\ (c # Null => k # b)
      BY <1>1, <1>2, <1>6, <1>8, <2>1, <2>5 DEF Kids
    <3>2. g.next[k] = h.next[k]
      BY <1>3, <2>1, <2>5, <3>1
    <3>3. h.next[k] # n
      BY <1>1, <2>1, <2>5, NextIsLinked
    <3>4. CASE h.next[k] = Null
      <4>1. \A y \in Kids(h, p) : pos[y] <= pos[k]
        BY <2>2, <3>1, <3>4
      <4>2. pos[n] < pos[k]
        BY <1>1, <1>5, <2>1, <4>1
      <4>3. \A y \in Kids(h, n) : pos[y] <= pos[k]
        BY <1>5, <1>7, <2>1, <2>5, <4>2
      <4> QED
        BY <1>4, <3>1, <3>2, <3>4, <4>1, <4>3
    <3>5. CASE h.next[k] # Null
      <4>1. /\ h.next[k] \in Kids(h, p) /\ pos[k] < pos[h.next[k]]
            /\ \A y \in Kids(h, p) : pos[k] < pos[y] => pos[h.next[k]] <= pos[y]
        BY <2>2, <3>1, <3>5 DEF IsAfter
      <4>2. h.next[k] \in Kids(g, p) /\ h.next[k] \in Node
        BY <1>4, <1>8, <3>3, <4>1
      <4>3. ASSUME NEW y \in Kids(h, n), pos[k] < pos[y]
            PROVE  pos[h.next[k]] <= pos[y]
        <5>1. pos[k] < pos[n]
          BY <1>1, <1>5, <1>7, <2>1, <2>5, <4>3
        <5>2. pos[h.next[k]] <= pos[n] /\ pos[n] < pos[y]
          BY <1>1, <1>7, <4>1, <5>1
        <5> QED
          BY <1>1, <1>5, <1>7, <4>2, <5>2
      <4>4. \A y \in Kids(g, p) : pos[k] < pos[y] => pos[h.next[k]] <= pos[y]
        BY <1>4, <4>1, <4>3
      <4> QED
        BY <3>1, <3>2, <3>5, <4>1, <4>2, <4>4 DEF IsAfter
    <3> QED
      BY <3>4, <3>5
  <2>6. CASE h.parent[k] # n /\ h.parent[k] # p
    <3>1. k # q /\ (c # Null => k # b)
      BY <1>6, <2>1, <2>6, NullIsNoNode DEF Kids
    <3>2. g.next[k] = h.next[k] /\ g.parent[k] = h.parent[k]
      BY <1>2, <1>3, <2>1, <2>6, <3>1
    <3>3. Kids(g, h.parent[k]) = Kids(h, h.parent[k])
      BY <1>4, <2>6
    <3> QED
      BY <2>2, <3>2, <3>3 DEF IsAfter
  <2> QED
    BY <2>1, <2>3, <2>4, <2>5, <2>6 DEF Kids
<1>11. PrevInOrder(g, pos)
  <2>1. \A k \in g.live : g.parent[k] \notin g.live =>
          g.parent[k] = Null /\ g.prev[k] = Null /\ Kids(g, Null) = {k}
    <3> SUFFICES ASSUME NEW k \in g.live, g.parent[k] \notin g.live
                 PROVE  g.parent[k] = Null /\ g.prev[k] = Null /\ Kids(g, Null) = {k}
      OBVIOUS
    <3>1. k = 1 /\ g.parent[k] = Null
      BY <1>4 DEF Parents
    <3>2. \A y \in g.live : g.parent[y] = Null => y = 1
      BY <1>4, <1>2, <1>1, NullIsNoNode DEF Parents
    <3>3. Kids(g, Null) = {k}
      BY <3>1, <3>2 DEF Kids
    <3>4. g.prev[k] = Null
      <4>1. k \in h.live /\ k \in Node /\ k # n /\ h.parent[k] = Null
        BY <1>1, <1>2, <3>1 DEF Parents
      <4>2. k # c /\ k # m
        BY <1>1, <1>6, <4>1, NullIsNoNode DEF Kids
      <4>3. h.prev[k] = Null
        <5>1. h.prev[k] # Null => /\ h.prev[k] \in h.live /\ h.next[h.prev[k]] = k
                                  /\ h.parent[h.prev[k]] = Null /\ pos[h.prev[k]] < pos[k]
          BY <1>1, <4>1, PrevIsLinked
        <5>2. \A y \in h.live : h.parent[y] = Null => y = 1
          BY <1>1, NullIsNoNode DEF Parents
        <5> QED
          BY <1>1, <1>5, <3>1, <4>1, <5>1, <5>2
      <4> QED
        BY <1>3, <4>1, <4>2, <4>3
    <3> QED
      BY <3>1, <3>3, <3>4
  <2>2. \A k \in g.live : g.next[k] # Null => g.prev[g.next[k]] = k
    <3> SUFFICES ASSUME NEW k \in g.live, g.next[k] # Null
                 PROVE  g.prev[g.next[k]] = k
      OBVIOUS
    <3>1. k \in h.live /\ k \in Node /\ k # n
      BY <1>1, <1>2
    <3>2. CASE c # Null /\ k = b
      BY <1>3, <1>6, <1>8, <3>1, <3>2
    <3>3. CASE k = q /\ ~(c # Null /\ k = b)
      BY <1>3, <1>6, <1>8, <3>1, <3>3, NullIsNoNode
    <3>4. CASE k # q /\ ~(c # Null /\ k = b)
      <4>1. g.next[k] = h.next[k]
        BY <1>3, <3>1, <3>4
      <4>2. h.next[k] \in h.live /\ h.next[k] \in Node /\ h.prev[h.next[k]] = k
        BY <1>1, <3>1, <4>1, NextIsLinked
      <4>3. h.next[k] # n /\ h.next[k] # c /\ h.next[k] # m
        BY <1>1, <1>6, <3>1, <3>4, <4>2, NullIsNoNode
      <4> QED
        BY <1>3, <4>1, <4>2, <4>3
    <3> QED
      BY <3>2, <3>3, <3>4
  <2>3. \A k \in g.live : g.first[k] # Null => g.prev[g.first[k]] = Null
    <3> SUFFICES ASSUME NEW k \in g.live, g.first[k] # Null
                 PROVE  g.prev[g.first[k]] = Null
      OBVIOUS
    <3>1. k \in h.live /\ k \in Node /\ k # n
      BY <1>1, <1>2
    <3>2. CASE k = p /\ q = Null
      BY <1>2, <1>3, <1>6, <3>1, <3>2
    <3>3. CASE ~(k = p /\ q = Null)
      <4>1. g.first[k] = h.first[k]
        BY <1>2, <3>1, <3>3
      <4>2. /\ h.first[k] \in h.live /\ h.first[k] \in Node /\ h.parent[h.first[k]] = k
            /\ h.prev[h.first[k]] = Null
        BY <1>1, <3>1, <4>1, FirstIsLinked
      <4>3. h.first[k] # n
        BY <1>1, <3>3, <4>2, Around
      <4>4. h.first[k] # c /\ h.first[k] # m
        BY <1>1, <1>6, <3>1, <4>1, <4>2 DEF Kids
      <4> QED
        BY <1>3, <4>1, <4>2, <4>3, <4>4
    <3> QED
      BY <3>2, <3>3
  <2> QED
    BY <1>2, <1>9, <1>10, <2>1, <2>2, <2>3, PrevFromNext
<1>12. DeadAreClear(g)
  <2> SUFFICES ASSUME NEW k \in Node \ g.live
               PROVE  /\ g.parent[k] = Null /\ g.first[k] = Null
                      /\ g.prev[k] = Null /\ g.next[k] = Null
    BY DEF DeadAreClear
  <2>1. CASE k = n
    BY <1>2, <1>3, <2>1
  <2>2. CASE k # n
    <3>1. k \notin h.live
      BY <1>2, <2>2
    <3>2. h.parent[k] = Null /\ h.first[k] = Null /\ h.prev[k] = Null /\ h.next[k] = Null
      BY <3>1 DEF IsTree, DeadAreClear
    <3>3. k # p /\ k # q /\ k # m /\ k # c /\ (c # Null => k # b)
      BY <1>1, <1>6, <3>1, NullIsNoNode DEF Kids
    <3> QED
      BY <1>1, <1>2, <1>3, <2>2, <3>2, <3>3
  <2> QED
    BY <2>1, <2>2
<1> QED
  BY <1>2, <1>4, <1>9, <1>10, <1>11, <1>12 DEF IsTree

\* pos2 is the order of the siblings when the first of them, n, is replaced by
\* its children: the first child, the siblings, and then the other children.
IsWrapOrder(h, pos, n, pos2) ==
  /\ \A x, y \in h.live : x # n /\ y # n /\ h.parent[x] = h.parent[y] /\ pos[x] < pos[y]
       => pos2[x] < pos2[y]
  /\ \A y \in Kids(h, h.parent[n]), x \in Kids(h, n) :
       y # n => IF x = h.first[n] THEN pos2[x] < pos2[y] ELSE pos2[y] < pos2[x]

\* When the siblings move behind the children the tree is in the order in which
\* they come last.
LEMMA WrappedTree ==
  ASSUME NEW h, NEW a \in [Node -> Attr], NEW pos \in Order, IsTree(h, a, pos),
         NEW n \in h.live, n # 1, h.first[n] # Null, h.prev[n] = Null, h.next[n] # Null,
         NEW b, IsLastKid(h, pos, h.parent[n], b),
         NEW g, Adopted(h, n, g), Wrapped(h, n, g, b),
         NEW pos2 \in Order, IsWrapOrder(h, pos, n, pos2)
  PROVE  IsTree(g, a, pos2)
<1> DEFINE p == h.parent[n]
           m == h.next[n]
           c == h.first[n]
           e == h.next[c]
<1>1. /\ h \in Heap /\ Parents(h, a) /\ InOrder(h, pos) /\ n \in Node /\ n # Null
      /\ p \in h.live /\ p \in Node /\ p # n /\ p # Null
      /\ n \in Kids(h, p) /\ h.live \subseteq Node
  BY Around, HeapTypes
<1>2. /\ g \in Heap /\ g.live = h.live \ {n}
      /\ \A k \in Node : g.first[k] = IF k = n THEN Null
                                      ELSE IF k = p THEN c ELSE h.first[k]
      /\ \A k \in Node : g.parent[k] = IF k = n THEN Null
                                       ELSE IF h.parent[k] = n THEN p ELSE h.parent[k]
  BY DEF Adopted
<1>3. /\ \A k \in Node : g.next[k] = IF k = n THEN Null
                                     ELSE IF k = c THEN m
                                     ELSE IF k = b THEN e
                                     ELSE h.next[k]
      /\ \A k \in Node : g.prev[k] = IF k = n THEN Null
                                     ELSE IF k = e THEN b
                                     ELSE IF k = m THEN c
                                     ELSE h.prev[k]
  BY DEF Wrapped
<1>4. /\ Parents(g, a)
      /\ \A k : k \in Kids(g, p) <=> k # n /\ (k \in Kids(h, p) \/ k \in Kids(h, n))
      /\ \A x : x # n /\ x # p => Kids(g, x) = Kids(h, x)
  BY AdoptedParents
<1>5. /\ \A x \in Node : pos[x] \in Nat /\ pos2[x] \in Nat
      /\ \A x, y \in Node : pos[x] = pos[y] => x = y
  BY PosTypes
<1>6. /\ m \in Kids(h, p) /\ m \in Node /\ m # n /\ h.prev[m] = n /\ IsAfter(h, pos, p, n, m)
      /\ c \in Kids(h, n) /\ c \in Node /\ c # n /\ h.prev[c] = Null
      /\ \A k \in Kids(h, n) : pos[c] <= pos[k]
      /\ b \in Kids(h, p) /\ b \in Node
      /\ \A k \in Kids(h, p) : pos[k] <= pos[b]
      /\ \A k \in Kids(h, p) : pos[n] <= pos[k]
  <2>1. /\ IsAfter(h, pos, p, n, m)
        /\ \A k \in Kids(h, p) : pos[n] <= pos[k]
        /\ \A k \in Kids(h, n) : pos[c] <= pos[k]
    BY <1>1 DEF InOrder, NextInOrder, PrevInOrder, FirstInOrder
  <2>2. b \in Kids(h, p) /\ b \in Node /\ \A k \in Kids(h, p) : pos[k] <= pos[b]
    BY <1>1 DEF IsLastKid, Kids
  <2> QED
    BY <1>1, <2>1, <2>2, Around
<1>7. \A k \in Kids(h, n) : /\ k \in Node /\ k \in h.live /\ k # n
                            /\ h.parent[k] = n /\ k \notin Kids(h, p)
  BY <1>1 DEF Kids
<1>8. \A k \in Kids(h, p) : k \in Node /\ k \in h.live /\ k \notin Kids(h, n) /\ h.parent[k] = p
  BY <1>1, <1>7 DEF Kids
<1>9. /\ e # Null => /\ e \in Kids(h, n) /\ e \in Node /\ e # c /\ h.prev[e] = c
                      /\ IsAfter(h, pos, n, c, e)
      /\ e = Null => \A k \in Kids(h, n) : k = c
  <2>1. c \in h.live /\ h.parent[c] = n
    BY <1>6, <1>7
  <2>2. IF e = Null THEN \A k \in Kids(h, n) : pos[k] <= pos[c]
        ELSE IsAfter(h, pos, n, c, e)
    BY <1>1, <2>1 DEF InOrder, NextInOrder
  <2>3. e # Null => h.prev[e] = c
    BY <1>1, <2>1, NextIsLinked
  <2>4. e # Null => e \in Kids(h, n) /\ pos[c] < pos[e]
    BY <2>2 DEF IsAfter
  <2>5. e = Null => \A k \in Kids(h, n) : k = c
    BY <1>5, <1>6, <1>7, <2>2
  <2> QED
    BY <1>5, <1>6, <1>7, <2>2, <2>3, <2>4, <2>5
<1>11. /\ \A x, y \in h.live : x # n /\ y # n /\ h.parent[x] = h.parent[y]
            => (pos[x] < pos[y] <=> pos2[x] < pos2[y]) /\ (pos[x] <= pos[y] <=> pos2[x] <= pos2[y])
       /\ \A y \in Kids(h, p), x \in Kids(h, n) :
            y # n => IF x = c THEN pos2[x] < pos2[y] ELSE pos2[y] < pos2[x]
  <2>1. \A x, y \in h.live : x # n /\ y # n /\ h.parent[x] = h.parent[y] /\ pos[x] < pos[y]
          => pos2[x] < pos2[y]
    BY DEF IsWrapOrder
  <2>2. \A y \in Kids(h, p), x \in Kids(h, n) :
          y # n => IF x = c THEN pos2[x] < pos2[y] ELSE pos2[y] < pos2[x]
    BY DEF IsWrapOrder
  <2>3. ASSUME NEW x \in h.live, NEW y \in h.live, x # n, y # n, h.parent[x] = h.parent[y]
        PROVE  (pos[x] < pos[y] <=> pos2[x] < pos2[y]) /\ (pos[x] <= pos[y] <=> pos2[x] <= pos2[y])
    <3>1. x \in Node /\ y \in Node /\ pos[x] \in Nat /\ pos[y] \in Nat
          /\ pos2[x] \in Nat /\ pos2[y] \in Nat
      BY <1>1, <1>5
    <3>2. (pos[x] < pos[y] => pos2[x] < pos2[y]) /\ (pos[y] < pos[x] => pos2[y] < pos2[x])
      BY <2>1, <2>3
    <3>3. pos[x] = pos[y] => x = y
      BY <1>5, <3>1
    <3> QED
      BY <3>1, <3>2, <3>3
  <2> QED
    BY <2>2, <2>3
<1> HIDE DEF p, m, c, e
<1>12. FirstInOrder(g, pos2)
  <2> SUFFICES ASSUME NEW k \in g.live
               PROVE  IF g.first[k] = Null THEN Kids(g, k) = {}
                      ELSE /\ g.first[k] \in Kids(g, k)
                           /\ \A y \in Kids(g, k) : pos2[g.first[k]] <= pos2[y]
    BY DEF FirstInOrder
  <2>1. k \in h.live /\ k \in Node /\ k # n
    BY <1>1, <1>2
  <2>2. CASE k # p
    <3>1. IF h.first[k] = Null THEN Kids(h, k) = {}
          ELSE /\ h.first[k] \in Kids(h, k)
               /\ \A y \in Kids(h, k) : pos[h.first[k]] <= pos[y]
      BY <1>1, <2>1 DEF InOrder, FirstInOrder
    <3>2. g.first[k] = h.first[k] /\ Kids(g, k) = Kids(h, k)
      BY <1>2, <1>4, <2>1, <2>2
    <3>3. \A y \in Kids(h, k) : y \in h.live /\ y # n /\ h.parent[y] = k
      BY <1>1, <2>2 DEF Kids
    <3> QED
      BY <1>11, <3>1, <3>2, <3>3
  <2>3. CASE k = p
    <3>1. g.first[k] = c /\ c # Null /\ c \in Kids(g, p)
      BY <1>2, <1>4, <1>6, <2>1, <2>3, NullIsNoNode
    <3>2. \A y \in Kids(h, n) : pos2[c] <= pos2[y]
      BY <1>6, <1>7, <1>11
    <3>3. \A y \in Kids(h, p) : y # n => pos2[c] <= pos2[y]
      BY <1>5, <1>6, <1>8, <1>11
    <3> QED
      BY <1>4, <2>3, <3>1, <3>2, <3>3
  <2> QED
    BY <2>2, <2>3
<1>13. NextInOrder(g, pos2)
  <2> SUFFICES ASSUME NEW k \in g.live
               PROVE  IF g.next[k] = Null THEN \A y \in Kids(g, g.parent[k]) : pos2[y] <= pos2[k]
                      ELSE IsAfter(g, pos2, g.parent[k], k, g.next[k])
    BY DEF NextInOrder
  <2>1. k \in h.live /\ k \in Node /\ k # n
    BY <1>1, <1>2
  <2>2. IF h.next[k] = Null THEN \A y \in Kids(h, h.parent[k]) : pos[y] <= pos[k]
        ELSE IsAfter(h, pos, h.parent[k], k, h.next[k])
    BY <1>1, <2>1 DEF InOrder, NextInOrder
  <2>3. CASE k = c
    <3>1. g.next[k] = m /\ g.parent[k] = p /\ m # Null /\ m \in Kids(g, p)
      BY <1>2, <1>3, <1>4, <1>6, <1>7, <2>1, <2>3, NullIsNoNode
    <3>2. pos2[c] < pos2[m]
      BY <1>6, <1>11
    <3>3. \A y \in Kids(h, p) : y # n => pos2[m] <= pos2[y]
      <4>1. \A y \in Kids(h, p) : y # n => pos[m] <= pos[y]
        BY <1>1, <1>5, <1>6, <1>8 DEF IsAfter
      <4> QED
        BY <1>6, <1>8, <1>11, <4>1
    <3>4. \A y \in Kids(h, n) : pos2[c] < pos2[y] => pos2[m] <= pos2[y]
      BY <1>5, <1>6, <1>7, <1>11
    <3> QED
      BY <1>4, <2>3, <3>1, <3>2, <3>3, <3>4 DEF IsAfter
  <2>4. CASE k = b
    <3>1. g.next[k] = e /\ g.parent[k] = p /\ k # c
      BY <1>1, <1>2, <1>3, <1>6, <1>7, <1>8, <2>1, <2>4
    <3>2. \A y \in Kids(h, p) : y # n => pos2[y] <= pos2[k]
      BY <1>6, <1>8, <1>11, <2>1, <2>4
    <3>3. pos2[c] <= pos2[k]
      BY <1>5, <1>6, <1>11, <2>1, <2>4
    <3>4. CASE e = Null
      BY <1>4, <1>9, <3>1, <3>2, <3>3, <3>4
    <3>5. CASE e # Null
      <4>1. e \in Kids(g, p) /\ pos2[k] < pos2[e]
        BY <1>4, <1>6, <1>7, <1>9, <1>11, <2>1, <2>4, <3>5
      <4>2. \A y \in Kids(h, n) : y # c => pos2[e] <= pos2[y]
        <5>1. \A y \in Kids(h, n) : y # c => pos[e] <= pos[y]
          BY <1>5, <1>6, <1>7, <1>9, <3>5 DEF IsAfter
        <5> QED
          BY <1>7, <1>9, <1>11, <3>5, <5>1
      <4>3. \A y \in Kids(g, p) : pos2[k] < pos2[y] => pos2[e] <= pos2[y]
        BY <1>1, <1>4, <1>5, <1>6, <1>7, <1>8, <2>1, <3>2, <3>3, <4>2
      <4> QED
        BY <3>1, <3>5, <4>1, <4>3 DEF IsAfter
    <3> QED
      BY <3>4, <3>5
  <2>5. CASE k \in Kids(h, n) /\ k # c
    <3>1. g.next[k] = h.next[k] /\ g.parent[k] = p /\ h.parent[k] = n
      BY <1>2, <1>3, <1>6, <1>7, <2>1, <2>5
    <3>2. \A y \in Kids(h, p) : y # n => pos2[y] < pos2[k]
      BY <1>11, <2>5
    <3>3. CASE h.next[k] = Null
      <4>1. \A y \in Kids(h, n) : pos2[y] <= pos2[k]
        BY <1>7, <1>11, <2>1, <2>2, <3>1, <3>3
      <4> QED
        BY <1>4, <1>5, <1>8, <2>1, <3>1, <3>2, <3>3, <4>1
    <3>4. CASE h.next[k] # Null
      <4>1. /\ h.next[k] \in Kids(h, n) /\ pos[k] < pos[h.next[k]]
            /\ \A y \in Kids(h, n) : pos[k] < pos[y] => pos[h.next[k]] <= pos[y]
        BY <2>2, <3>1, <3>4 DEF IsAfter
      <4>2. h.next[k] \in Kids(g, p) /\ pos2[k] < pos2[h.next[k]]
        BY <1>4, <1>7, <1>11, <2>1, <3>1, <4>1
      <4>3. \A y \in Kids(h, n) : pos2[k] < pos2[y] => pos2[h.next[k]] <= pos2[y]
        BY <1>7, <1>11, <2>1, <3>1, <4>1
      <4>4. \A y \in Kids(h, p) : y # n => ~(pos2[k] < pos2[y])
        BY <1>5, <1>8, <2>1, <3>2
      <4>5. \A y \in Kids(g, p) : pos2[k] < pos2[y] => pos2[h.next[k]] <= pos2[y]
        BY <1>4, <4>3, <4>4
      <4> QED
        BY <3>1, <3>4, <4>2, <4>5 DEF IsAfter
    <3> QED
      BY <3>3, <3>4
  <2>6. CASE k \in Kids(h, p) /\ k # b
    <3>1. g.next[k] = h.next[k] /\ g.parent[k] = p /\ h.parent[k] = p
      BY <1>1, <1>2, <1>3, <1>6, <1>8, <2>1, <2>6
    <3>2. pos[k] < pos[b]
      BY <1>5, <1>6, <2>1, <2>6
    <3>3. h.next[k] # Null
      BY <1>5, <1>6, <2>1, <2>2, <3>1, <3>2
    <3>4. /\ h.next[k] \in Kids(h, p) /\ pos[k] < pos[h.next[k]]
          /\ \A y \in Kids(h, p) : pos[k] < pos[y] => pos[h.next[k]] <= pos[y]
      BY <2>2, <3>1, <3>3 DEF IsAfter
    <3>5. h.next[k] # n
      BY <1>1, <1>5, <1>6, <1>8, <2>1, <2>6, <3>4
    <3>6. h.next[k] \in Kids(g, p) /\ pos2[k] < pos2[h.next[k]]
      BY <1>4, <1>8, <1>11, <2>1, <3>1, <3>4, <3>5
    <3>7. \A y \in Kids(h, p) : y # n /\ pos2[k] < pos2[y] => pos2[h.next[k]] <= pos2[y]
      BY <1>8, <1>11, <2>1, <3>1, <3>4, <3>5
    <3>8. \A y \in Kids(h, n) : pos2[k] < pos2[y] => pos2[h.next[k]] <= pos2[y]
      BY <1>5, <1>6, <1>7, <1>8, <1>11, <2>1, <2>6, <3>4, <3>5
    <3> QED
      BY <1>4, <3>1, <3>3, <3>6, <3>7, <3>8 DEF IsAfter
  <2>7. CASE h.parent[k] # n /\ h.parent[k] # p
    <3>1. k # c /\ k # b
      BY <1>6, <1>7, <1>8, <2>7
    <3>2. g.next[k] = h.next[k] /\ g.parent[k] = h.parent[k]
      BY <1>2, <1>3, <2>1, <2>7, <3>1
    <3>3. Kids(g, h.parent[k]) = Kids(h, h.parent[k])
      BY <1>4, <2>7
    <3>4. \A y \in Kids(h, h.parent[k]) : y \in h.live /\ y # n /\ h.parent[y] = h.parent[k]
      BY <1>1, <1>8, <2>7 DEF Kids
    <3>5. CASE h.next[k] = Null
      BY <1>11, <2>1, <2>2, <3>2, <3>3, <3>4, <3>5
    <3>6. CASE h.next[k] # Null
      <4>1. /\ h.next[k] \in Kids(h, h.parent[k]) /\ pos[k] < pos[h.next[k]]
            /\ \A y \in Kids(h, h.parent[k]) : pos[k] < pos[y] => pos[h.next[k]] <= pos[y]
        BY <2>2, <3>6 DEF IsAfter
      <4>2. pos2[k] < pos2[h.next[k]]
        BY <1>11, <2>1, <3>4, <4>1
      <4>3. \A y \in Kids(h, h.parent[k]) : pos2[k] < pos2[y] => pos2[h.next[k]] <= pos2[y]
        BY <1>11, <2>1, <3>4, <4>1
      <4> QED
        BY <3>2, <3>3, <3>6, <4>1, <4>2, <4>3 DEF IsAfter
    <3> QED
      BY <3>5, <3>6
  <2> QED
    BY <2>1, <2>3, <2>4, <2>5, <2>6, <2>7 DEF Kids
<1>14. PrevInOrder(g, pos2)
  <2>1. \A k \in g.live : g.parent[k] \notin g.live =>
          g.parent[k] = Null /\ g.prev[k] = Null /\ Kids(g, Null) = {k}
    <3> SUFFICES ASSUME NEW k \in g.live, g.parent[k] \notin g.live
                 PROVE  g.parent[k] = Null /\ g.prev[k] = Null /\ Kids(g, Null) = {k}
      OBVIOUS
    <3>1. k = 1 /\ g.parent[k] = Null
      BY <1>4 DEF Parents
    <3>2. \A y \in g.live : g.parent[y] = Null => y = 1
      BY <1>4, <1>2, <1>1, NullIsNoNode DEF Parents
    <3>3. Kids(g, Null) = {k}
      BY <3>1, <3>2 DEF Kids
    <3>4. g.prev[k] = Null
      <4>1. k \in h.live /\ k \in Node /\ k # n /\ h.parent[k] = Null
        BY <1>1, <1>2, <3>1 DEF Parents
      <4>2. k # e /\ k # m
        BY <1>1, <1>6, <1>7, <1>8, <1>9, <4>1, NullIsNoNode
      <4>3. h.prev[k] = Null
        <5>1. h.prev[k] # Null => /\ h.prev[k] \in h.live /\ h.next[h.prev[k]] = k
                                  /\ h.parent[h.prev[k]] = Null /\ pos[h.prev[k]] < pos[k]
          BY <1>1, <4>1, PrevIsLinked
        <5>2. \A y \in h.live : h.parent[y] = Null => y = 1
          BY <1>1, NullIsNoNode DEF Parents
        <5> QED
          BY <1>1, <1>5, <3>1, <4>1, <5>1, <5>2
      <4> QED
        BY <1>3, <4>1, <4>2, <4>3
    <3> QED
      BY <3>1, <3>3, <3>4
  <2>2. \A k \in g.live : g.next[k] # Null => g.prev[g.next[k]] = k
    <3> SUFFICES ASSUME NEW k \in g.live, g.next[k] # Null
                 PROVE  g.prev[g.next[k]] = k
      OBVIOUS
    <3>1. k \in h.live /\ k \in Node /\ k # n
      BY <1>1, <1>2
    <3>2. CASE k = c
      BY <1>3, <1>6, <1>7, <1>9, <3>1, <3>2
    <3>3. CASE k = b /\ k # c
      BY <1>3, <1>6, <1>7, <1>8, <1>9, <3>1, <3>3
    <3>4. CASE k # c /\ k # b
      <4>1. g.next[k] = h.next[k]
        BY <1>3, <3>1, <3>4
      <4>2. h.next[k] \in h.live /\ h.next[k] \in Node /\ h.prev[h.next[k]] = k
        BY <1>1, <3>1, <4>1, NextIsLinked
      <4>3. h.next[k] # n /\ h.next[k] # e /\ h.next[k] # m
        <5>1. h.prev[n] = Null
          OBVIOUS
        <5> QED
          BY <1>1, <1>6, <1>9, <3>1, <3>4, <4>2, <5>1, NullIsNoNode
      <4> QED
        BY <1>3, <4>1, <4>2, <4>3
    <3> QED
      BY <3>2, <3>3, <3>4
  <2>3. \A k \in g.live : g.first[k] # Null => g.prev[g.first[k]] = Null
    <3> SUFFICES ASSUME NEW k \in g.live, g.first[k] # Null
                 PROVE  g.prev[g.first[k]] = Null
      OBVIOUS
    <3>1. k \in h.live /\ k \in Node /\ k # n
      BY <1>1, <1>2
    <3>2. CASE k = p
      BY <1>2, <1>3, <1>6, <1>7, <1>9, <3>1, <3>2
    <3>3. CASE k # p
      <4>1. g.first[k] = h.first[k]
        BY <1>2, <3>1, <3>3
      <4>2. /\ h.first[k] \in h.live /\ h.first[k] \in Node /\ h.parent[h.first[k]] = k
            /\ h.prev[h.first[k]] = Null
        BY <1>1, <3>1, <4>1, FirstIsLinked
      <4>3. h.first[k] # n /\ h.first[k] # e /\ h.first[k] # m
        BY <1>1, <1>6, <1>7, <1>8, <1>9, <3>1, <3>3, <4>1, <4>2
      <4> QED
        BY <1>3, <4>1, <4>2, <4>3
    <3> QED
      BY <3>2, <3>3
  <2> QED
    BY <1>2, <1>12, <1>13, <2>1, <2>2, <2>3, PrevFromNext
<1>15. DeadAreClear(g)
  <2> SUFFICES ASSUME NEW k \in Node \ g.live
               PROVE  /\ g.parent[k] = Null /\ g.first[k] = Null
                      /\ g.prev[k] = Null /\ g.next[k] = Null
    BY DEF DeadAreClear
  <2>1. CASE k = n
    BY <1>2, <1>3, <2>1
  <2>2. CASE k # n
    <3>1. k \notin h.live
      BY <1>2, <2>2
    <3>2. h.parent[k] = Null /\ h.first[k] = Null /\ h.prev[k] = Null /\ h.next[k] = Null
      BY <3>1 DEF IsTree, DeadAreClear
    <3>3. k # p /\ k # e /\ k # m /\ k # c /\ k # b
      BY <1>1, <1>6, <1>7, <1>8, <1>9, <3>1, NullIsNoNode
    <3> QED
      BY <1>1, <1>2, <1>3, <2>2, <3>2, <3>3
  <2> QED
    BY <2>1, <2>2
<1> QED
  BY <1>2, <1>4, <1>12, <1>13, <1>14, <1>15 DEF IsTree

\* An order with the nodes of a lower class first, and as in pos within a class.
LEMMA Reorder ==
  ASSUME NEW pos \in Order, NEW cl \in [Node -> 0..2]
  PROVE  \E pos2 \in Order : \A x, y \in Node :
           pos2[x] < pos2[y] <=> cl[x] < cl[y] \/ (cl[x] = cl[y] /\ pos[x] < pos[y])
<1>1. PICK b \in Nat : \A n \in Node : pos[n] <= b
  BY PosBound
<1> DEFINE pos2 == [n \in Node |-> pos[n] + (IF cl[n] = 0 THEN 0
                                             ELSE IF cl[n] = 1 THEN b + 1 ELSE b + b + 2)]
<1>2. /\ \A n \in Node : pos[n] \in Nat /\ pos[n] <= b /\ cl[n] \in 0..2
      /\ \A m, n \in Node : pos[m] = pos[n] => m = n
  BY <1>1, PosTypes
<1>3. pos2 \in [Node -> Nat]
  BY <1>2
<1>4. \A n \in Node : pos2[n] = pos[n] + (IF cl[n] = 0 THEN 0
                                          ELSE IF cl[n] = 1 THEN b + 1 ELSE b + b + 2)
  OBVIOUS
<1> HIDE DEF pos2
<1>5. ASSUME NEW x \in Node, NEW y \in Node
      PROVE  /\ pos2[x] < pos2[y] <=> cl[x] < cl[y] \/ (cl[x] = cl[y] /\ pos[x] < pos[y])
             /\ pos2[x] = pos2[y] => x = y
  <2>1. /\ pos[x] \in Nat /\ pos[x] <= b /\ cl[x] \in 0..2
        /\ pos[y] \in Nat /\ pos[y] <= b /\ cl[y] \in 0..2
        /\ pos[x] = pos[y] => x = y
    BY <1>2
  <2>2. /\ pos2[x] = pos[x] + (IF cl[x] = 0 THEN 0 ELSE IF cl[x] = 1 THEN b + 1 ELSE b + b + 2)
        /\ pos2[y] = pos[y] + (IF cl[y] = 0 THEN 0 ELSE IF cl[y] = 1 THEN b + 1 ELSE b + b + 2)
    BY <1>4
  <2> QED
    BY <2>1, <2>2
<1>6. pos2 \in Order
  BY <1>3, <1>5 DEF Order
<1> QED
  BY <1>5, <1>6

\* Nodes that follow n in pos follow, in pos2, all that went before n, and none
\* of them goes before s.
Resumes(L, pos, pos2, n, s) ==
  /\ \A x, y \in L : pos[x] < pos[n] /\ pos[n] < pos[y] => pos2[x] < pos2[y]
  /\ \A y \in L : pos[n] < pos[y] => pos2[s] <= pos2[y]

\* There is such an order, and an iterator walks the tree in it.
LEMMA WrappedOrder ==
  ASSUME NEW h, NEW a, NEW pos, IsWalk(h, a, pos),
         NEW n \in h.live, n # 1, h.first[n] # Null, h.prev[n] = Null
  PROVE  \E pos2 \in Order : /\ IsWrapOrder(h, pos, n, pos2)
                             /\ Preorder(h.live \ {n}, a, pos2)
                             /\ Resumes(h.live, pos, pos2, n, h.first[n])
<1> DEFINE p == h.parent[n]
           c == h.first[n]
           L == h.live
           A(k) == Below(a, k, n) /\ k # c /\ ~Below(a, k, c)
           S(k) == Below(a, k, p) /\ ~Below(a, k, n) /\ pos[n] < pos[k]
           After(k) == pos[n] < pos[k] /\ ~Below(a, k, p)
           cl == [k \in Node |-> IF A(k) THEN 1 ELSE IF After(k) THEN 2 ELSE 0]
<1>1. /\ a \in [Node -> Attr] /\ pos \in Order /\ IsTree(h, a, pos) /\ Preorder(L, a, pos)
  BY DEF IsWalk
<1>2. /\ h \in Heap /\ Parents(h, a) /\ InOrder(h, pos) /\ n \in Node /\ n # Null
      /\ p \in h.live /\ p \in Node /\ p # n /\ p # Null
      /\ n \in Kids(h, p) /\ h.live \subseteq Node
      /\ c \in Kids(h, n) /\ c \in Node /\ c # n
      /\ \A k \in Kids(h, n) : pos[c] <= pos[k]
  <2>1. \A k \in Kids(h, n) : pos[c] <= pos[k]
    BY <1>1 DEF IsTree, FirstInOrder
  <2> QED
    BY <1>1, <2>1, Around, HeapTypes
<1>3. /\ \A x \in Node : pos[x] \in Nat
      /\ \A x, y \in Node : pos[x] = pos[y] => x = y
  BY <1>1, PosTypes
<1>4. /\ \A x, y \in L : Below(a, x, y) => pos[y] < pos[x]
      /\ \A x, y, k \in L : Below(a, x, y) /\ pos[y] < pos[k] /\ pos[k] <= pos[x] => Below(a, k, y)
  BY <1>1 DEF Preorder
<1>5. Below(a, n, p) /\ \A k \in L : Below(a, n, k) => k <= p
  BY <1>2 DEF Parents
<1>6. c \in L /\ Below(a, c, n) /\ pos[p] < pos[n] /\ pos[n] < pos[c]
  <2>1. c \in L
    BY <1>2 DEF Kids
  <2>2. Below(a, c, n)
    BY <1>2, KidIsBelow
  <2> QED
    BY <1>2, <1>4, <1>5, <2>1, <2>2
<1>7. \A x \in L : Below(a, x, n) => Below(a, x, p) /\ pos[n] < pos[x]
  BY <1>1, <1>2, <1>4, <1>5, BelowTransitive
<1>8. \A x \in L : A(x) => pos[c] < pos[x]
  <2> SUFFICES ASSUME NEW x \in L, A(x)
               PROVE  pos[c] < pos[x]
    OBVIOUS
  <2>1. PICK z \in Kids(h, n) : z = x \/ Below(a, x, z)
    BY <1>1, <1>2, ChildAbove
  <2>2. z \in L /\ z # c /\ pos[c] <= pos[z]
    BY <1>2, <2>1 DEF Kids
  <2>3. pos[z] <= pos[x]
    BY <1>2, <1>3, <1>4, <2>1, <2>2
  <2> QED
    BY <1>2, <1>3, <2>2, <2>3
<1>9. \A x, y \in L : A(x) /\ (y = c \/ Below(a, y, c)) => pos[y] < pos[x]
  <2> SUFFICES ASSUME NEW x \in L, NEW y \in L, A(x), y = c \/ Below(a, y, c)
               PROVE  pos[y] < pos[x]
    OBVIOUS
  <2>1. pos[c] < pos[x] /\ ~Below(a, x, c)
    BY <1>8
  <2>2. CASE y = c
    BY <2>1, <2>2
  <2>3. CASE Below(a, y, c)
    <3>1. ~(pos[x] <= pos[y])
      BY <1>4, <1>6, <2>1, <2>3
    <3> QED
      BY <1>2, <1>3, <3>1
  <2> QED
    BY <2>2, <2>3
<1>10. \A x, y \in L : After(x) /\ Below(a, y, p) => pos[y] < pos[x]
  <2> SUFFICES ASSUME NEW x \in L, NEW y \in L, After(x), Below(a, y, p)
               PROVE  pos[y] < pos[x]
    OBVIOUS
  <2>1. pos[p] < pos[x]
    BY <1>2, <1>3, <1>6
  <2>2. ~(pos[x] <= pos[y])
    BY <1>2, <1>4, <2>1
  <2> QED
    BY <1>2, <1>3, <2>2
<1>11. PICK pos2 \in Order : \A x, y \in Node :
         pos2[x] < pos2[y] <=> cl[x] < cl[y] \/ (cl[x] = cl[y] /\ pos[x] < pos[y])
  <2>1. cl \in [Node -> 0..2]
    OBVIOUS
  <2> HIDE DEF cl
  <2> QED
    BY <1>1, <2>1, Reorder
<1>12. \A x \in Node : cl[x] = IF A(x) THEN 1 ELSE IF After(x) THEN 2 ELSE 0
  OBVIOUS
<1>13. /\ \A x \in Node : pos2[x] \in Nat
       /\ \A x, y \in Node : pos2[x] = pos2[y] => x = y
  BY PosTypes
<1> HIDE DEF cl
<1>14. \A x, y \in L : A(x) /\ S(y) => pos[x] < pos[y] /\ pos2[y] < pos2[x]
  <2> SUFFICES ASSUME NEW x \in L, NEW y \in L, A(x), S(y)
               PROVE  pos[x] < pos[y] /\ pos2[y] < pos2[x]
    OBVIOUS
  <2>1. ~(pos[y] <= pos[x])
    BY <1>4
  <2>2. x \in Node /\ y \in Node /\ pos[x] < pos[y]
    BY <1>2, <1>3, <2>1
  <2>3. cl[x] = 1 /\ cl[y] = 0
    BY <1>12, <2>2
  <2> QED
    BY <1>11, <2>2, <2>3
<1>15. \A x, y \in L : x # n /\ y # n /\ pos[x] < pos[y] => pos2[x] < pos2[y] \/ (A(x) /\ S(y))
  <2> SUFFICES ASSUME NEW x \in L, NEW y \in L, x # n, y # n, pos[x] < pos[y], ~(A(x) /\ S(y))
               PROVE  pos2[x] < pos2[y]
    OBVIOUS
  <2>1. x \in Node /\ y \in Node /\ pos[x] \in Nat /\ pos[y] \in Nat /\ pos[n] \in Nat
    BY <1>2, <1>3
  <2>2. cl[x] <= cl[y]
    <3>1. cl[x] \in 0..2 /\ cl[y] \in 0..2
      BY <1>12, <2>1
    <3>2. CASE A(x)
      <4>1. cl[x] = 1 /\ pos[n] < pos[x] /\ pos[n] < pos[y]
        BY <1>7, <1>12, <2>1, <3>2
      <4>2. y # c /\ ~Below(a, y, c)
        <5>1. y = c \/ Below(a, y, c) => pos[y] < pos[x]
          BY <1>9, <3>2
        <5> QED
          BY <2>1, <5>1
      <4>3. ~S(y)
        BY <3>2
      <4>4. A(y) \/ After(y)
        BY <4>1, <4>2, <4>3
      <4>5. cl[y] \in {1, 2}
        BY <1>12, <2>1, <4>4
      <4> QED
        BY <4>1, <4>5
    <3>3. CASE After(x) /\ ~A(x)
      <4>1. cl[x] = 2 /\ pos[n] < pos[y]
        BY <1>12, <2>1, <3>3
      <4>2. ~Below(a, y, p)
        <5>1. Below(a, y, p) => pos[y] < pos[x]
          BY <1>10, <3>3
        <5> QED
          BY <2>1, <5>1
      <4>3. ~A(y) /\ After(y)
        BY <1>7, <4>1, <4>2
      <4> QED
        BY <1>12, <2>1, <4>1, <4>3
    <3>4. CASE ~After(x) /\ ~A(x)
      <4>1. cl[x] = 0
        BY <1>12, <2>1, <3>4
      <4> QED
        BY <3>1, <4>1
    <3> QED
      BY <3>2, <3>3, <3>4
  <2>3. cl[x] \in 0..2 /\ cl[y] \in 0..2
    BY <1>12, <2>1
  <2> QED
    BY <1>11, <2>1, <2>2, <2>3
<1>16. IsWrapOrder(h, pos, n, pos2)
  <2>1. ASSUME NEW x \in L, NEW y \in L, x # n, y # n, h.parent[x] = h.parent[y],
               pos[x] < pos[y]
        PROVE  pos2[x] < pos2[y]
    <3>1. ~(A(x) /\ S(y))
      <4> SUFFICES ASSUME A(x), S(y)
                   PROVE  FALSE
        OBVIOUS
      <4> DEFINE u == h.parent[x]
      <4>1. x \in Node /\ y \in Node /\ x # 1
        BY <1>2 DEF Below, Node
      <4>2. u \in L /\ Below(a, x, u) /\ n <= u
        BY <1>2, <4>1 DEF Parents
      <4>3. y # 1
        BY <1>2, <2>1, <4>2, NullIsNoNode DEF Parents
      <4>4. u \in Node /\ Below(a, y, u)
        BY <1>2, <2>1, <4>2, <4>3 DEF Parents
      <4> HIDE DEF u
      <4>5. u = n \/ Below(a, u, n) \/ Below(a, n, u)
        BY <1>2, <4>1, <4>2, <4>4, BelowLinear
      <4>6. ~Below(a, n, u)
        BY <1>2, <4>2, <4>4 DEF Below, Node
      <4>7. Below(a, y, n)
        BY <1>1, <1>2, <4>1, <4>4, <4>5, <4>6, BelowTransitive
      <4> QED
        BY <4>7
    <3> QED
      BY <1>15, <2>1, <3>1
  <2>2. ASSUME NEW y \in Kids(h, p), NEW x \in Kids(h, n), y # n
        PROVE  IF x = c THEN pos2[x] < pos2[y] ELSE pos2[y] < pos2[x]
    <3>1. x \in L /\ y \in L /\ x \in Node /\ y \in Node
      BY <1>2 DEF Kids
    <3>2. Below(a, y, p) /\ Below(a, x, n)
      BY <1>2, KidIsBelow
    <3>3. ~Below(a, y, n)
      BY <1>2, SiblingsApart
    <3>4. pos[n] < pos[y]
      <4>1. \A k \in Kids(h, p) : pos[n] <= pos[k]
        BY <1>1 DEF IsTree, PrevInOrder
      <4> QED
        BY <1>2, <1>3, <2>2, <3>1, <4>1
    <3>5. S(y)
      BY <3>2, <3>3, <3>4
    <3>6. CASE x = c
      <4>1. pos[x] < pos[y]
        BY <1>1, <3>4, KidsPlace
      <4> QED
        BY <1>2, <1>15, <2>2, <3>1, <3>6, <4>1
    <3>7. CASE x # c
      <4>1. ~Below(a, x, c)
        BY <1>2, SiblingsApart
      <4> QED
        BY <1>14, <3>1, <3>2, <3>5, <3>7, <4>1
    <3> QED
      BY <3>6, <3>7
  <2> HIDE DEF A, S
  <2> QED
    BY <2>1, <2>2 DEF IsWrapOrder
<1>17. Preorder(L \ {n}, a, pos2)
  <2>1. ASSUME NEW x \in L \ {n}, NEW y \in L \ {n}, Below(a, x, y)
        PROVE  pos[y] < pos[x] /\ pos2[y] < pos2[x]
    <3>1. pos[y] < pos[x] /\ x \in Node /\ y \in Node
      BY <1>2, <1>4, <2>1
    <3>2. ~(A(y) /\ S(x))
      BY <1>1, <1>2, <2>1, <3>1, BelowTransitive
    <3> QED
      BY <1>15, <3>1, <3>2
  <2>2. ASSUME NEW x \in L \ {n}, NEW y \in L \ {n}, NEW z \in L \ {n},
               Below(a, x, y), pos2[y] < pos2[z], pos2[z] <= pos2[x]
        PROVE  Below(a, z, y)
    <3>1. /\ x \in Node /\ y \in Node /\ z \in Node /\ x \in L /\ y \in L /\ z \in L
          /\ pos[y] < pos[x] /\ pos2[y] < pos2[x]
      BY <1>2, <2>1, <2>2
    <3>2. CASE pos[y] < pos[z] /\ pos[z] <= pos[x]
      BY <1>4, <2>2, <3>1, <3>2
    <3>3. CASE ~(pos[y] < pos[z])
      <4>1. pos[z] < pos[y]
        BY <1>3, <1>13, <2>2, <3>1, <3>3
      <4>2. ~(pos2[z] < pos2[y])
        BY <1>13, <2>2, <3>1
      <4>3. A(z) /\ S(y)
        BY <1>15, <3>1, <4>1, <4>2
      <4>4. Below(a, x, p)
        BY <1>1, <1>2, <2>2, <3>1, <4>3, BelowTransitive
      <4>5. ~A(x)
        <5>1. ASSUME Below(a, x, n)
              PROVE  FALSE
          <6>1. y = n \/ Below(a, y, n) \/ Below(a, n, y)
            BY <1>2, <2>2, <3>1, <5>1, BelowLinear
          <6>2. Below(a, n, y)
            BY <4>3, <6>1
          <6>3. pos[y] < pos[n]
            BY <1>4, <3>1, <6>2
          <6> QED
            BY <1>2, <1>3, <3>1, <4>3, <6>3
        <5> QED
          BY <5>1
      <4>6. cl[z] = 1 /\ cl[x] = 0
        BY <1>12, <3>1, <4>3, <4>4, <4>5
      <4>7. pos2[x] < pos2[z]
        BY <1>11, <3>1, <4>6
      <4> QED
        BY <1>13, <2>2, <3>1, <4>7
    <3>4. CASE pos[y] < pos[z] /\ ~(pos[z] <= pos[x])
      <4>1. pos[x] < pos[z] /\ ~(pos2[x] < pos2[z])
        BY <1>3, <1>13, <2>2, <3>1, <3>4
      <4>3. CASE pos[x] < pos[z] /\ ~(pos2[x] < pos2[z])
        <5>1. x # z
          BY <1>3, <3>1, <4>3
        <5>2. pos2[z] < pos2[x]
          BY <1>13, <2>2, <3>1, <5>1
        <5>3. A(x) /\ S(z)
          BY <1>15, <2>2, <3>1, <4>3
        <5>4. y = n \/ Below(a, y, n) \/ Below(a, n, y)
          BY <1>2, <2>2, <3>1, <5>3, BelowLinear
        <5>5. ~Below(a, y, n)
          <6> SUFFICES ASSUME Below(a, y, n)
                       PROVE  FALSE
            OBVIOUS
          <6>1. CASE A(y)
            <7>1. pos2[z] < pos2[y]
              BY <1>14, <3>1, <5>3, <6>1
            <7> QED
              BY <1>13, <2>2, <3>1, <7>1
          <6>2. CASE ~A(y)
            <7>1. Below(a, x, c)
              BY <1>1, <1>2, <2>2, <3>1, <6>2, BelowTransitive
            <7> QED
              BY <5>3, <7>1
          <6> QED
            BY <6>1, <6>2
        <5>6. Below(a, n, y)
          BY <2>2, <5>4, <5>5
        <5>7. y <= p
          BY <1>5, <3>1, <5>6
        <5>8. y = p \/ Below(a, p, y) \/ Below(a, y, p)
          BY <1>2, <1>5, <3>1, <5>6, BelowLinear
        <5>9. ~Below(a, y, p)
          BY <1>2, <3>1, <5>7 DEF Below, Node
        <5> QED
          BY <1>1, <1>2, <3>1, <5>3, <5>8, <5>9, BelowTransitive
      <4> QED
        BY <4>1, <4>3
    <3> QED
      BY <3>2, <3>3, <3>4
  <2> HIDE DEF A, S
  <2> QED
    BY <2>1, <2>2 DEF Preorder
<1>18. Resumes(L, pos, pos2, n, c)
  <2>1. ASSUME NEW x \in L, NEW y \in L, pos[x] < pos[n], pos[n] < pos[y]
        PROVE  pos2[x] < pos2[y]
    <3>1. /\ x \in Node /\ y \in Node /\ pos[x] \in Nat /\ pos[y] \in Nat /\ pos[n] \in Nat
          /\ pos[x] < pos[y] /\ x # n /\ y # n
      BY <1>2, <1>3, <2>1
    <3>2. ~A(x)
      BY <1>7, <2>1, <3>1
    <3> QED
      BY <1>15, <3>1, <3>2
  <2>2. ASSUME NEW y \in L, pos[n] < pos[y]
        PROVE  pos2[c] <= pos2[y]
    <3>1. y \in Node /\ y # n
      BY <1>2, <1>3, <2>2
    <3>2. CASE y = c
      BY <1>2, <1>13, <3>2
    <3>3. CASE y # c
      <4>1. ~(pos[y] < pos[c])
        <5> SUFFICES ASSUME pos[y] < pos[c]
                     PROVE  FALSE
          OBVIOUS
        <5>1. Below(a, y, n)
          BY <1>2, <1>3, <1>4, <1>6, <2>2, <3>1
        <5>2. ~A(y)
          BY <1>2, <1>3, <1>8, <3>1
        <5>3. pos[c] < pos[y]
          BY <1>4, <1>6, <3>3, <5>1, <5>2
        <5> QED
          BY <1>2, <1>3, <3>1, <5>3
      <4>2. pos[c] < pos[y]
        BY <1>2, <1>3, <3>1, <3>3, <4>1
      <4>3. pos2[c] < pos2[y]
        BY <1>2, <1>6, <1>15, <3>1, <4>2
      <4> QED
        BY <1>2, <1>13, <3>1, <4>3
    <3> QED
      BY <3>2, <3>3
  <2> HIDE DEF A, S
  <2> QED
    BY <2>1, <2>2 DEF Resumes
<1> QED
  BY <1>16, <1>17, <1>18

\* What a removal makes of the tree: the nodes are in preorder still, those
\* before the iterator's next node are the ones that were before n, and siblings
\* stay in their order.
LEMMA RemovedTree ==
  ASSUME NEW h, NEW a, NEW pos, IsWalk(h, a, pos), NEW n \in h.live, n # 1,
         h.first[n] # Null => h.last[n] = h.first[n],
         NEW i, i = IsolateNode(h, n), NEW g, g = ClearNode(i, n),
         NEW s, s = NextNode(h, n)
  PROVE  /\ i \in Heap /\ i.parent[n] = h.parent[n] /\ Adopted(h, n, g)
         /\ s \in g.live \cup {Null}
         /\ \E pos2 \in Order :
              /\ IsTree(g, a, pos2) /\ Preorder(g.live, a, pos2)
              /\ h.first[n] = Null => pos2 = pos
              /\ \A k \in g.live : IF s = Null THEN pos[k] < pos[n]
                                   ELSE pos2[k] < pos2[s] <=> pos[k] < pos[n]
              /\ \A x, y \in g.live : h.parent[x] = h.parent[y] =>
                   (pos2[x] < pos2[y] <=> pos[x] < pos[y])
<1>1. /\ a \in [Node -> Attr] /\ pos \in Order /\ IsTree(h, a, pos) /\ Preorder(h.live, a, pos)
  BY DEF IsWalk
<1>2. /\ h \in Heap /\ InOrder(h, pos) /\ h.live \subseteq Node /\ n \in Node
      /\ \A x \in Node : pos[x] \in Nat
      /\ \A x, y \in Node : pos[x] = pos[y] => x = y
      /\ n \in Kids(h, h.parent[n])
  BY <1>1, Around, HeapTypes, PosTypes
<1>3. IsNext(h.live, pos, n, s)
  BY NextNodeIsNext
<1>4. s = Null \/ (s \in h.live /\ s # n)
  <2>1. s # Null => s \in h.live /\ pos[n] < pos[s]
    BY <1>3 DEF IsNext
  <2> QED
    BY <1>2, <2>1
<1>5. \A p : \E b : Kids(h, p) # {} => IsLastKid(h, pos, p, b)
  <2> TAKE p
  <2>1. Kids(h, p) \in SUBSET Node
    BY <1>2 DEF Kids
  <2>2. CASE Kids(h, p) # {}
    BY <1>1, <2>1, <2>2, LastExists DEF IsLastKid
  <2> QED
    BY <2>2
<1>6. CASE h.first[n] = Null \/ h.prev[n] # Null \/ h.next[n] = Null
  <2>1. PICK b : Kids(h, n) # {} => IsLastKid(h, pos, n, b)
    BY <1>5
  <2>2. h.first[n] # Null => IsLastKid(h, pos, n, b)
    BY <1>1, <2>1, Around
  <2>3. i \in Heap /\ i.parent[n] = h.parent[n] /\ Adopted(h, n, g) /\ Spliced(h, n, g, b)
    <3>1. CASE h.first[n] = Null
      BY <1>1, <3>1, IsolateLeaf
    <3>2. CASE h.first[n] # Null /\ h.prev[n] # Null
      BY <1>1, <2>2, <3>2, IsolateBehind
    <3>3. CASE h.first[n] # Null /\ h.prev[n] = Null /\ h.next[n] = Null
      BY <1>1, <2>2, <3>3, IsolateOnly
    <3> QED
      BY <1>6, <3>1, <3>2, <3>3
  <2>4. g.live = h.live \ {n}
    BY <2>3 DEF Adopted
  <2>5. IsTree(g, a, pos)
    BY <1>1, <1>6, <2>2, <2>3, SplicedTree
  <2>6. Preorder(g.live, a, pos)
    BY <1>1, <2>4 DEF Preorder
  <2>7. \A k \in g.live : IF s = Null THEN pos[k] < pos[n]
                          ELSE pos[k] < pos[s] <=> pos[k] < pos[n]
    <3> SUFFICES ASSUME NEW k \in g.live
                 PROVE  IF s = Null THEN pos[k] < pos[n] ELSE pos[k] < pos[s] <=> pos[k] < pos[n]
      OBVIOUS
    <3>1. k \in h.live /\ k \in Node /\ k # n /\ pos[k] # pos[n]
      BY <1>2, <2>4
    <3>2. CASE s = Null
      BY <1>2, <1>3, <3>1, <3>2 DEF IsNext
    <3>3. CASE s # Null
      <4>1. s \in Node /\ pos[n] < pos[s] /\ (pos[n] < pos[k] => pos[s] <= pos[k])
        BY <1>2, <1>3, <3>1, <3>3 DEF IsNext
      <4> QED
        BY <1>2, <3>1, <3>3, <4>1
    <3> QED
      BY <3>2, <3>3
  <2> QED
    BY <1>1, <1>4, <2>3, <2>4, <2>5, <2>6, <2>7
<1>7. CASE h.first[n] # Null /\ h.prev[n] = Null /\ h.next[n] # Null
  <2>1. Kids(h, h.parent[n]) # {}
    BY <1>2
  <2>2. PICK b : IsLastKid(h, pos, h.parent[n], b)
    BY <1>5, <2>1
  <2>3. i \in Heap /\ i.parent[n] = h.parent[n] /\ Adopted(h, n, g) /\ Wrapped(h, n, g, b)
    BY <1>1, <1>7, <2>2, IsolateFirst
  <2>4. PICK pos2 \in Order : /\ IsWrapOrder(h, pos, n, pos2)
                              /\ Preorder(h.live \ {n}, a, pos2)
                              /\ Resumes(h.live, pos, pos2, n, h.first[n])
    BY <1>7, WrappedOrder
  <2>5. g.live = h.live \ {n}
    BY <2>3 DEF Adopted
  <2>6. IsTree(g, a, pos2)
    BY <1>1, <1>7, <2>2, <2>3, <2>4, WrappedTree
  <2>7. s = h.first[n] /\ s # Null /\ s \in h.live /\ s # n
    BY <1>4, <1>7 DEF NextNode, IsLeaf
  <2>8. \A k \in g.live : pos2[k] < pos2[s] <=> pos[k] < pos[n]
    <3> SUFFICES ASSUME NEW k \in g.live
                 PROVE  pos2[k] < pos2[s] <=> pos[k] < pos[n]
      OBVIOUS
    <3>1. k \in h.live /\ k \in Node /\ k # n /\ pos[k] # pos[n]
      BY <1>2, <2>5
    <3>2. pos2[k] \in Nat /\ pos2[s] \in Nat /\ s \in Node
      BY <1>2, <2>7, <3>1, PosTypes
    <3>3. pos[n] < pos[s]
      BY <1>3, <2>7 DEF IsNext
    <3>4. pos[k] < pos[n] => pos2[k] < pos2[s]
      BY <2>4, <2>7, <3>1, <3>3 DEF Resumes
    <3>5. pos[n] < pos[k] => pos2[s] <= pos2[k]
      BY <2>4, <2>7, <3>1 DEF Resumes
    <3> QED
      BY <1>2, <3>1, <3>2, <3>4, <3>5
  <2>9. ASSUME NEW x \in g.live, NEW y \in g.live, h.parent[x] = h.parent[y]
        PROVE  pos2[x] < pos2[y] <=> pos[x] < pos[y]
    <3>1. x \in h.live /\ y \in h.live /\ x # n /\ y # n
      BY <2>5
    <3>2. /\ pos[x] < pos[y] => pos2[x] < pos2[y]
          /\ pos[y] < pos[x] => pos2[y] < pos2[x]
      BY <2>4, <2>9, <3>1 DEF IsWrapOrder
    <3>3. pos[x] = pos[y] => x = y
      BY <1>2, <3>1
    <3>4. pos[x] \in Nat /\ pos[y] \in Nat /\ pos2[x] \in Nat /\ pos2[y] \in Nat
      BY <1>2, <2>4, <3>1, PosTypes
    <3> QED
      BY <3>2, <3>3, <3>4
  <2> QED
    BY <1>4, <1>7, <2>3, <2>4, <2>5, <2>6, <2>7, <2>8, <2>9
<1> QED
  BY <1>6, <1>7

\* Heaps with the same pointers are the same.
LEMMA HeapsEqual ==
  ASSUME NEW x \in Heap, NEW y \in Heap, x.live = y.live,
         \A k \in Node : /\ x.parent[k] = y.parent[k] /\ x.first[k] = y.first[k]
                         /\ x.last[k] = y.last[k] /\ x.prev[k] = y.prev[k]
                         /\ x.next[k] = y.next[k]
  PROVE  x = y
<1>1. /\ x.parent \in [Node -> Ptr] /\ x.first \in [Node -> Ptr] /\ x.last \in [Node -> Ptr]
      /\ x.prev \in [Node -> Ptr] /\ x.next \in [Node -> Ptr]
      /\ y.parent \in [Node -> Ptr] /\ y.first \in [Node -> Ptr] /\ y.last \in [Node -> Ptr]
      /\ y.prev \in [Node -> Ptr] /\ y.next \in [Node -> Ptr]
  BY HeapTypes
<1>2. x.parent = y.parent /\ x.first = y.first /\ x.last = y.last
  BY <1>1
<1>3. x.prev = y.prev /\ x.next = y.next
  BY <1>1
<1> QED
  BY <1>2, <1>3 DEF Heap

\* It is the same to delete a node before, or after, a leaf that has no pointer to it.
LEMMA ClearCommutes ==
  ASSUME NEW h \in Heap, NEW v \in Node, NEW n \in Node, n # v,
         NEW t, t = ClearNode(h, v),
         h.first[n] = Null, h.parent[n] \in Node, h.parent[n] # n,
         (h.first[h.parent[n]] = n) <=> (h.prev[n] = Null),
         h.prev[n] # n, h.next[n] # n,
         h.parent[n] # v, h.prev[n] # v, h.next[n] # v
  PROVE  /\ IsolateNode(h, n) \in Heap
         /\ ClearNode(ClearNode(IsolateNode(h, n), n), v) = ClearNode(IsolateNode(t, n), n)
<1> DEFINE p == h.parent[n]
           q == h.prev[n]
           m == h.next[n]
           i == IsolateNode(h, n)
           i2 == IsolateNode(t, n)
           x == ClearNode(i, n)
           y == ClearNode(x, v)
           z == ClearNode(i2, n)
<1>1. /\ t \in Heap /\ t.live = h.live \ {v}
      /\ \A k \in Node : /\ t.parent[k] = IF k = v THEN Null ELSE h.parent[k]
                         /\ t.first[k] = IF k = v THEN Null ELSE h.first[k]
                         /\ t.last[k] = IF k = v THEN Null ELSE h.last[k]
                         /\ t.prev[k] = IF k = v THEN Null ELSE h.prev[k]
                         /\ t.next[k] = IF k = v THEN Null ELSE h.next[k]
  BY ClearFields
<1>2. t.parent[n] = p /\ t.prev[n] = q /\ t.next[n] = m /\ t.first[n] = Null /\ t.first[p] = h.first[p]
  BY <1>1
<1>3. /\ i \in Heap /\ i.live = h.live /\ i.parent = h.parent
      /\ \A k \in Node : i.next[k] = IF k = q THEN m ELSE h.next[k]
      /\ \A k \in Node : i.prev[k] = IF k = m THEN q ELSE h.prev[k]
      /\ \A k \in Node : i.first[k] = IF k = p /\ q = Null THEN m ELSE h.first[k]
      /\ \A k \in Node : i.last[k] = IF k = p /\ q = Null /\ m = Null THEN Null ELSE h.last[k]
  <2> HIDE DEF i
  <2>1. i = IsolateNode(h, n)
    BY DEF i
  <2> QED
    BY <2>1, LeafIsolated
<1>4. /\ i2 \in Heap /\ i2.live = t.live /\ i2.parent = t.parent
      /\ \A k \in Node : i2.next[k] = IF k = q THEN m ELSE t.next[k]
      /\ \A k \in Node : i2.prev[k] = IF k = m THEN q ELSE t.prev[k]
      /\ \A k \in Node : i2.first[k] = IF k = p /\ q = Null THEN m ELSE t.first[k]
      /\ \A k \in Node : i2.last[k] = IF k = p /\ q = Null /\ m = Null THEN Null ELSE t.last[k]
  <2>1. /\ t \in Heap /\ n \in Node /\ t.first[n] = Null /\ p \in Node /\ p = t.parent[n] /\ p # n
        /\ (t.first[p] = n) <=> (t.prev[n] = Null)
        /\ t.prev[n] # n /\ t.next[n] # n
    BY <1>1, <1>2
  <2>2. i2 = IsolateNode(t, n)
    OBVIOUS
  <2>3. t.prev[n] = q /\ t.next[n] = m
    BY <1>2
  <2> HIDE DEF i2, p, q, m
  <2>4. /\ i2 \in Heap /\ i2.live = t.live /\ i2.parent = t.parent
        /\ \A k \in Node : i2.next[k] = IF k = t.prev[n] THEN t.next[n] ELSE t.next[k]
        /\ \A k \in Node : i2.prev[k] = IF k = t.next[n] THEN t.prev[n] ELSE t.prev[k]
        /\ \A k \in Node : i2.first[k] = IF k = p /\ t.prev[n] = Null THEN t.next[n]
                                         ELSE t.first[k]
        /\ \A k \in Node : i2.last[k] = IF k = p /\ t.prev[n] = Null /\ t.next[n] = Null
                                        THEN Null ELSE t.last[k]
    BY <2>1, <2>2, LeafIsolated
  <2> QED
    BY <2>3, <2>4
<1> HIDE DEF i, i2
<1>5. /\ x \in Heap /\ x.live = i.live \ {n}
      /\ \A k \in Node : /\ x.parent[k] = IF k = n THEN Null ELSE i.parent[k]
                         /\ x.first[k] = IF k = n THEN Null ELSE i.first[k]
                         /\ x.last[k] = IF k = n THEN Null ELSE i.last[k]
                         /\ x.prev[k] = IF k = n THEN Null ELSE i.prev[k]
                         /\ x.next[k] = IF k = n THEN Null ELSE i.next[k]
  <2>1. x = ClearNode(i, n)
    OBVIOUS
  <2> HIDE DEF x
  <2> QED
    BY <1>3, <2>1, ClearFields
<1> HIDE DEF x
<1>6. /\ y \in Heap /\ y.live = x.live \ {v}
      /\ \A k \in Node : /\ y.parent[k] = IF k = v THEN Null ELSE x.parent[k]
                         /\ y.first[k] = IF k = v THEN Null ELSE x.first[k]
                         /\ y.last[k] = IF k = v THEN Null ELSE x.last[k]
                         /\ y.prev[k] = IF k = v THEN Null ELSE x.prev[k]
                         /\ y.next[k] = IF k = v THEN Null ELSE x.next[k]
  <2>1. y = ClearNode(x, v)
    OBVIOUS
  <2> HIDE DEF y
  <2> QED
    BY <1>5, <2>1, ClearFields
<1>7. /\ z \in Heap /\ z.live = i2.live \ {n}
      /\ \A k \in Node : /\ z.parent[k] = IF k = n THEN Null ELSE i2.parent[k]
                         /\ z.first[k] = IF k = n THEN Null ELSE i2.first[k]
                         /\ z.last[k] = IF k = n THEN Null ELSE i2.last[k]
                         /\ z.prev[k] = IF k = n THEN Null ELSE i2.prev[k]
                         /\ z.next[k] = IF k = n THEN Null ELSE i2.next[k]
  <2>1. z = ClearNode(i2, n)
    OBVIOUS
  <2> HIDE DEF z
  <2> QED
    BY <1>4, <2>1, ClearFields
<1> HIDE DEF y, z
<1>8. y.live = z.live
  BY <1>1, <1>3, <1>4, <1>5, <1>6, <1>7
<1>9. \A k \in Node : /\ y.parent[k] = z.parent[k] /\ y.first[k] = z.first[k]
                      /\ y.last[k] = z.last[k] /\ y.prev[k] = z.prev[k]
                      /\ y.next[k] = z.next[k]
  <2> SUFFICES ASSUME NEW k \in Node
               PROVE  /\ y.parent[k] = z.parent[k] /\ y.first[k] = z.first[k]
                      /\ y.last[k] = z.last[k] /\ y.prev[k] = z.prev[k]
                      /\ y.next[k] = z.next[k]
    OBVIOUS
  <2>1. y.parent[k] = z.parent[k] /\ y.first[k] = z.first[k]
    BY <1>1, <1>3, <1>4, <1>5, <1>6, <1>7
  <2>2. y.last[k] = z.last[k]
    BY <1>1, <1>3, <1>4, <1>5, <1>6, <1>7
  <2>3. y.prev[k] = z.prev[k] /\ y.next[k] = z.next[k]
    BY <1>1, <1>3, <1>4, <1>5, <1>6, <1>7
  <2> QED
    BY <2>1, <2>2, <2>3
<1>10. y = z
  BY ZenonT(60), <1>6, <1>7, <1>8, <1>9, HeapsEqual
<1> QED
  BY <1>3, <1>10 DEF i, i2, x, y, z

-----------------------------------------------------------------------------
(***************************************************************************)
(* The tree after a node is added                                          *)
(***************************************************************************)

\* What ParseFromTrie makes of the pointers when it adds n to p, which has first
\* child f and LastChild f as well: n is the first child, or goes right after it.
Added(h, p, n, g) ==
  LET f == h.first[p]
      e == IF f = Null THEN Null ELSE h.next[f]
  IN  /\ g \in Heap /\ g.live = h.live \cup {n}
      /\ \A k \in Node : /\ g.parent[k] = IF k = n THEN p ELSE h.parent[k]
                         /\ g.first[k] = IF k = p /\ f = Null THEN n ELSE h.first[k]
                         /\ g.last[k] = IF k = p /\ f = Null THEN n ELSE h.last[k]
                         /\ g.next[k] = IF k = n THEN e ELSE IF k = f THEN n ELSE h.next[k]
                         /\ g.prev[k] = IF k = n THEN f ELSE IF k = e THEN n ELSE h.prev[k]

\* The pointers after a node without siblings is added to p.
LEMMA AttachFields ==
  ASSUME NEW h, NEW a, NEW pos, IsWalk(h, a, pos), Lasts(h, h.live),
         NEW p \in h.live, NEW n \in Node, n \notin h.live,
         NEW g, g = AddChildrenRaw(Allocate(h, n), p, n)
  PROVE  Added(h, p, n, g)
<1> DEFINE f == h.first[p]
           e == IF f = Null THEN Null ELSE h.next[f]
           t == Allocate(h, n)
<1>1. /\ a \in [Node -> Attr] /\ pos \in Order /\ IsTree(h, a, pos) /\ h \in Heap
      /\ InOrder(h, pos) /\ h.live \subseteq Node /\ p \in Node /\ p # n /\ n # Null
  <2>1. pos \in Order /\ IsTree(h, a, pos) /\ h \in Heap
    BY DEF IsWalk, IsTree
  <2>2. InOrder(h, pos)
    BY <2>1, TreeInOrder
  <2> QED
    BY <2>1, <2>2, HeapTypes, NullIsNoNode DEF IsWalk
<1>2. h.parent[n] = Null /\ h.first[n] = Null /\ h.prev[n] = Null /\ h.next[n] = Null
  BY <1>1 DEF IsTree, DeadAreClear
<1>3. f # Null => f \in h.live /\ f \in Node /\ f # n /\ h.parent[f] = p /\ h.last[p] = f
  BY <1>1, FirstIsLinked DEF Lasts
<1>4. /\ t \in Heap /\ t.live = h.live \cup {n} /\ t.parent = h.parent /\ t.first = h.first
      /\ t.last = h.last /\ t.prev = h.prev /\ t.next = h.next
  BY <1>1 DEF Allocate, Heap
<1> HIDE DEF t
<1>5. SiblingsFrom(t, n) = {n} /\ Back(t, n) = n
  BY <1>2, <1>4, LoneRange
<1>6. t.last[p] = f \/ f = Null
  BY <1>3, <1>4
<1>7. /\ g \in Heap /\ g.last = IF IsLeaf(t, p) THEN [t.last EXCEPT ![p] = n] ELSE t.last
  <2>1. t.next[n] = Null /\ (~IsLeaf(t, p) => t.last[p] \in Node \ {n} /\ t.parent[t.last[p]] = p)
    BY <1>2, <1>3, <1>4 DEF IsLeaf
  <2>2. g = AddChildrenRaw(t, p, n)
    BY DEF t
  <2>3. t \in Heap /\ p \in Node /\ n \in Node /\ p # n
    BY <1>1, <1>4
  <2> HIDE DEF f, e
  <2>4. /\ AddChildrenRaw(t, p, n) \in Heap
        /\ AddChildrenRaw(t, p, n).last
             = IF IsLeaf(t, p) THEN [t.last EXCEPT ![p] = n] ELSE t.last
    BY <2>1, <2>3, AddNewChild, ZenonT(60)
  <2> QED
    BY <2>2, <2>4
<1>8. \A k \in Node : g.last[k] = IF k = p /\ f = Null THEN n ELSE h.last[k]
  BY <1>1, <1>4, <1>7, HeapTypes DEF IsLeaf
<1>9. CASE f = Null
  <2>1. t.first[p] = Null /\ g = AddChildrenRaw(t, p, n)
    BY <1>4, <1>9 DEF t
  <2>2. /\ g.live = t.live /\ g.next = t.next
        /\ \A k \in Node : g.parent[k] = IF k \in SiblingsFrom(t, n) THEN p ELSE t.parent[k]
        /\ \A k \in Node : /\ g.prev[k] = IF k = n THEN Null ELSE t.prev[k]
                           /\ g.first[k] = IF k = p THEN n ELSE t.first[k]
    BY <1>1, <1>4, <2>1, AddFirstChildFields
  <2> QED
    BY <1>1, <1>2, <1>4, <1>5, <1>7, <1>8, <1>9, <2>2, NullIsNoNode DEF Added
<1>10. CASE f # Null
  <2>1. g = AddSiblingsRaw(t, f, n)
    BY <1>3, <1>4, <1>10 DEF AddChildrenRaw, IsLeaf, t
  <2> HIDE DEF f
  <2>2. /\ g.live = t.live /\ g.first = t.first
        /\ \A k \in Node : g.parent[k] = IF k \in SiblingsFrom(t, n) THEN t.parent[f]
                                         ELSE t.parent[k]
        /\ \A k \in Node : g.prev[k] = IF k = t.next[f] THEN n
                                       ELSE IF k = n THEN f ELSE t.prev[k]
        /\ \A k \in Node : g.next[k] = IF k = f THEN n
                                       ELSE IF k = n THEN t.next[f] ELSE t.next[k]
    BY <1>3, <1>4, <1>5, <1>10, <2>1, AddSiblingsFields
  <2>3. h.next[f] # n
    <3>1. h.next[f] # Null => h.next[f] \in h.live
      BY <1>1, <1>3, <1>10, NextIsLinked
    <3> QED
      BY <1>1, <3>1
  <2> QED
    BY <1>1, <1>3, <1>4, <1>5, <1>7, <1>8, <1>10, <2>2, <2>3 DEF Added, f
<1> QED
  BY <1>9, <1>10

\* pos2 puts n after p, the first child of p and all below that, and before all
\* other nodes that follow p.
IsAddOrder(h, a, pos, p, n, pos2) ==
  LET f == h.first[p]
      Before(k) == pos[k] <= pos[p] \/ (f # Null /\ (k = f \/ Below(a, k, f)))
  IN  /\ \A x, y \in h.live : pos2[x] < pos2[y] <=> pos[x] < pos[y]
      /\ \A x \in h.live : IF Before(x) THEN pos2[x] < pos2[n] ELSE pos2[n] < pos2[x]

\* There is a place for the new node behind all that is below p.
LEMMA AddOrder ==
  ASSUME NEW h, NEW a, NEW pos, IsWalk(h, a, pos), NEW p \in h.live,
         NEW n \in Node, n \notin h.live
  PROVE  \E pos2 \in Order : IsAddOrder(h, a, pos, p, n, pos2)
<1> DEFINE f == h.first[p]
           Before(k) == pos[k] <= pos[p] \/ (f # Null /\ (k = f \/ Below(a, k, f)))
           cl == [k \in Node |-> IF k = n THEN 1 ELSE IF Before(k) THEN 0 ELSE 2]
<1>1. /\ a \in [Node -> Attr] /\ pos \in Order /\ IsTree(h, a, pos) /\ Preorder(h.live, a, pos)
      /\ h \in Heap /\ Parents(h, a) /\ h.live \subseteq Node /\ p \in Node
      /\ \A x \in Node : pos[x] \in Nat
      /\ \A x, y \in Node : pos[x] = pos[y] => x = y
  <2>1. /\ a \in [Node -> Attr] /\ pos \in Order /\ IsTree(h, a, pos)
        /\ Preorder(h.live, a, pos) /\ h \in Heap /\ Parents(h, a)
    BY DEF IsWalk, IsTree
  <2> QED
    BY <2>1, HeapTypes, PosTypes
<1>2. f # Null => /\ f \in Kids(h, p) /\ f \in h.live /\ f \in Node /\ Below(a, f, p)
                  /\ \A k \in Kids(h, p) : pos[f] <= pos[k]
  <2>1. f # Null => f \in Kids(h, p) /\ \A k \in Kids(h, p) : pos[f] <= pos[k]
    BY <1>1 DEF IsTree, FirstInOrder
  <2>2. f # Null => Below(a, f, p)
    BY <1>1, <2>1, KidIsBelow
  <2> QED
    BY <1>1, <2>1, <2>2 DEF Kids
<1>3. PICK pos2 \in Order : \A x, y \in Node :
         pos2[x] < pos2[y] <=> cl[x] < cl[y] \/ (cl[x] = cl[y] /\ pos[x] < pos[y])
  <2>1. cl \in [Node -> 0..2]
    OBVIOUS
  <2> HIDE DEF cl
  <2> QED
    BY <1>1, <2>1, Reorder
<1>4. \A x \in Node : cl[x] = IF x = n THEN 1 ELSE IF Before(x) THEN 0 ELSE 2
  OBVIOUS
<1> HIDE DEF cl
<1>5. ASSUME NEW x \in h.live, NEW y \in h.live, Before(x), ~Before(y)
      PROVE  pos[x] < pos[y]
  <2>1. x \in Node /\ y \in Node /\ pos[p] < pos[y]
    BY <1>1, <1>5
  <2>2. CASE pos[x] <= pos[p]
    BY <1>1, <2>1, <2>2
  <2>3. CASE f # Null /\ (x = f \/ Below(a, x, f))
    <3> SUFFICES ASSUME pos[y] <= pos[x]
                 PROVE  FALSE
      BY <1>1, <2>1
    <3>1. Below(a, x, p)
      BY <1>1, <1>2, <2>1, <2>3, BelowTransitive
    <3>2. Below(a, y, p)
      BY <1>1, <2>1, <3>1 DEF Preorder
    <3>3. PICK z \in Kids(h, p) : z = y \/ Below(a, y, z)
      BY <1>1, <3>2, ChildAbove
    <3>4. z \in h.live /\ z \in Node /\ z # f /\ pos[f] <= pos[z] /\ pos[z] <= pos[y]
      <4>1. z \in h.live
        BY DEF Kids
      <4>2. z = y \/ pos[z] < pos[y]
        BY <1>1, <3>3, <4>1 DEF Preorder
      <4> QED
        BY <1>1, <1>2, <1>5, <2>1, <2>3, <3>3, <4>1, <4>2
    <3>5. pos[f] < pos[y]
      BY <1>1, <1>2, <2>1, <2>3, <3>4
    <3>6. Below(a, x, f)
      BY <1>1, <1>2, <2>1, <2>3, <3>5
    <3>7. Below(a, y, f)
      BY <1>1, <1>2, <2>3, <3>5, <3>6 DEF Preorder
    <3> QED
      BY <1>5, <2>3, <3>7
  <2> QED
    BY <1>5, <2>2, <2>3
<1>6. ASSUME NEW x \in h.live, NEW y \in h.live
      PROVE  pos2[x] < pos2[y] <=> pos[x] < pos[y]
  <2>1. x \in Node /\ y \in Node /\ x # n /\ y # n /\ pos[x] \in Nat /\ pos[y] \in Nat
    BY <1>1
  <2>2. (Before(x) /\ ~Before(y) => pos[x] < pos[y]) /\ (Before(y) /\ ~Before(x) => pos[y] < pos[x])
    BY <1>5
  <2>3. cl[x] = (IF Before(x) THEN 0 ELSE 2) /\ cl[y] = (IF Before(y) THEN 0 ELSE 2)
    BY <1>4, <2>1
  <2>4. pos2[x] < pos2[y] <=> cl[x] < cl[y] \/ (cl[x] = cl[y] /\ pos[x] < pos[y])
    BY <1>3, <2>1
  <2> HIDE DEF Before
  <2> QED
    BY <2>1, <2>2, <2>3, <2>4
<1>7. ASSUME NEW x \in h.live
      PROVE  IF Before(x) THEN pos2[x] < pos2[n] ELSE pos2[n] < pos2[x]
  <2>1. x \in Node /\ x # n
    BY <1>1
  <2> HIDE DEF Before
  <2> QED
    BY <1>3, <1>4, <2>1
<1> QED
  BY <1>6, <1>7 DEF IsAddOrder

\* The order with the new node in that place is one an iterator walks.
LEMMA AddedPreorder ==
  ASSUME NEW h, NEW a, NEW pos, IsWalk(h, a, pos), NEW p \in h.live,
         NEW n \in Node, h.live = 1..(n - 1),
         NEW a1 \in [Node -> Attr], \A k \in h.live : a1[k] = a[k],
         Below(a1, n, p), \A k \in h.live : Below(a1, n, k) => k <= p,
         NEW pos2 \in Order, IsAddOrder(h, a, pos, p, n, pos2)
  PROVE  Preorder(h.live \cup {n}, a1, pos2)
<1> DEFINE f == h.first[p]
           Before(k) == pos[k] <= pos[p] \/ (f # Null /\ (k = f \/ Below(a, k, f)))
           L == h.live
<1>1. /\ a \in [Node -> Attr] /\ pos \in Order /\ IsTree(h, a, pos) /\ Preorder(L, a, pos)
      /\ h \in Heap /\ Parents(h, a) /\ L \subseteq Node /\ p \in Node /\ n \notin L
      /\ \A x \in Node : pos[x] \in Nat /\ pos2[x] \in Nat
      /\ \A x, y \in Node : pos[x] = pos[y] => x = y
      /\ \A x, y \in Node : pos2[x] = pos2[y] => x = y
  <2>1. /\ a \in [Node -> Attr] /\ pos \in Order /\ IsTree(h, a, pos)
        /\ Preorder(L, a, pos) /\ h \in Heap /\ Parents(h, a)
    BY DEF IsWalk, IsTree
  <2>2. n \notin L
    BY DEF Node
  <2> QED
    BY <2>1, <2>2, HeapTypes, PosTypes
<1>2. \A x, y \in L : Below(a1, x, y) <=> Below(a, x, y)
  <2> SUFFICES ASSUME NEW x \in L, NEW y \in L
               PROVE  Below(a1, x, y) <=> Below(a, x, y)
    OBVIOUS
  <2>1. x \in 1..(n - 1) /\ y \in 1..(n - 1) /\ n \in Nat
    BY DEF Node
  <2>2. \A k \in (y + 1)..x : k \in L
    BY <2>1
  <2> QED
    BY <2>2 DEF Below
<1>3. \A x \in L : ~Below(a1, x, n)
  <2> SUFFICES ASSUME NEW x \in L
               PROVE  ~Below(a1, x, n)
    OBVIOUS
  <2>1. x \in 1..(n - 1) /\ n \in Nat
    BY DEF Node
  <2> QED
    BY <2>1 DEF Below
<1>4. ~Below(a1, n, n)
  BY DEF Below, Node
<1>5. \A y \in L : Below(a1, n, y) => y = p \/ Below(a, p, y)
  <2> SUFFICES ASSUME NEW y \in L, Below(a1, n, y), y # p
               PROVE  Below(a, p, y)
    OBVIOUS
  <2>1. y \in Node /\ y <= p
    BY <1>1
  <2>2. Below(a1, p, y) \/ Below(a1, y, p)
    BY <1>1, <2>1, BelowLinear
  <2>3. ~Below(a1, y, p)
    BY <1>1, <2>1 DEF Below, Node
  <2> QED
    BY <1>2, <2>2, <2>3
<1>6. f # Null => f \in L /\ f \in Node /\ Below(a, f, p)
  <2>1. f # Null => f \in Kids(h, p)
    BY <1>1 DEF IsTree, FirstInOrder
  <2>2. f # Null => Below(a, f, p)
    BY <1>1, <2>1, KidIsBelow
  <2> QED
    BY <1>1, <2>1, <2>2 DEF Kids
<1>7. /\ \A x, y \in L : pos2[x] < pos2[y] <=> pos[x] < pos[y]
      /\ \A x \in L : IF Before(x) THEN pos2[x] < pos2[n] ELSE pos2[n] < pos2[x]
  BY DEF IsAddOrder
<1>8. ASSUME NEW x \in L \cup {n}, NEW y \in L \cup {n}, Below(a1, x, y)
      PROVE  pos2[y] < pos2[x]
  <2>1. y \in L /\ y \in Node
    BY <1>1, <1>3, <1>4, <1>8
  <2>2. CASE x = n
    <3>1. pos[y] <= pos[p]
      BY <1>1, <1>5, <1>8, <2>1, <2>2 DEF Preorder
    <3> QED
      BY <1>7, <2>1, <2>2, <3>1
  <2>3. CASE x # n
    BY <1>1, <1>2, <1>7, <1>8, <2>1, <2>3 DEF Preorder
  <2> QED
    BY <2>2, <2>3
<1>9. ASSUME NEW x \in L \cup {n}, NEW y \in L \cup {n}, NEW z \in L \cup {n},
             Below(a1, x, y), pos2[y] < pos2[z], pos2[z] <= pos2[x]
      PROVE  Below(a1, z, y)
  <2>1. y \in L /\ y \in Node /\ z # y
    BY <1>1, <1>3, <1>4, <1>9
  <2>2. CASE z = x
    BY <1>9, <2>2
  <2>3. CASE x = n /\ z # n
    <3>1. z \in L /\ z \in Node /\ pos[y] < pos[z]
      BY <1>1, <1>7, <1>9, <2>1, <2>3
    <3>2. Before(z)
      BY <1>1, <1>7, <1>9, <2>3, <3>1
    <3>3. y = p \/ Below(a, p, y)
      BY <1>5, <1>9, <2>1, <2>3
    <3>4. CASE pos[z] <= pos[p]
      <4>1. y # p
        BY <1>1, <3>1, <3>4
      <4>2. Below(a, z, y)
        BY <1>1, <2>1, <3>1, <3>3, <3>4, <4>1 DEF Preorder
      <4> QED
        BY <1>2, <2>1, <3>1, <4>2
    <3>5. CASE f # Null /\ (z = f \/ Below(a, z, f))
      <4>1. Below(a, z, p)
        BY <1>1, <1>6, <3>1, <3>5, BelowTransitive
      <4>2. Below(a, z, y)
        BY <1>1, <2>1, <3>1, <3>3, <4>1, BelowTransitive
      <4> QED
        BY <1>2, <2>1, <3>1, <4>2
    <3> QED
      BY <3>2, <3>4, <3>5
  <2>4. CASE z = n /\ x # n
    <3>1. x \in L /\ x \in Node /\ Below(a, x, y)
      BY <1>1, <1>2, <1>9, <2>1, <2>4
    <3>2. Before(y) /\ ~Before(x)
      <4>1. pos2[n] < pos2[x]
        BY <1>1, <1>9, <2>4, <3>1
      <4> QED
        BY <1>1, <1>7, <1>9, <2>1, <2>4, <3>1, <4>1
    <3>3. ~(f # Null /\ (y = f \/ Below(a, y, f)))
      <4>1. f # Null /\ (y = f \/ Below(a, y, f)) => Below(a, x, f)
        BY <1>1, <1>6, <2>1, <3>1, BelowTransitive
      <4> QED
        BY <3>2, <4>1
    <3>4. pos[y] <= pos[p] /\ pos[p] < pos[x]
      BY <1>1, <3>1, <3>2, <3>3
    <3>5. y = p \/ Below(a, p, y)
      BY <1>1, <2>1, <3>1, <3>4, SMTT(30) DEF Preorder
    <3>6. y = p \/ Below(a1, p, y)
      BY <1>2, <2>1, <3>5
    <3> QED
      BY <1>1, <2>1, <2>4, <3>6, BelowTransitive
  <2>5. CASE z # n /\ x # n
    <3>1. z \in L /\ x \in L /\ z \in Node /\ x \in Node /\ Below(a, x, y)
      BY <1>1, <1>2, <1>9, <2>1, <2>5
    <3>2. pos[y] < pos[z] /\ ~(pos[x] < pos[z])
      BY <1>1, <1>7, <1>9, <2>1, <3>1
    <3>3. Below(a, z, y)
      BY <1>1, <2>1, <3>1, <3>2 DEF Preorder
    <3> QED
      BY <1>2, <2>1, <3>1, <3>3
  <2> QED
    BY <2>2, <2>3, <2>4, <2>5
<1> QED
  BY <1>8, <1>9 DEF Preorder

\* The links of every node that has a next sibling.
LEMMA NextLinks ==
  ASSUME NEW h, NEW pos, InOrder(h, pos)
  PROVE  \A k \in h.live : h.next[k] # Null =>
           h.next[k] \in h.live /\ h.prev[h.next[k]] = k
BY NextIsLinked

\* And the tree is in that order.
LEMMA AddedTree ==
  ASSUME NEW h, NEW a, NEW pos, IsWalk(h, a, pos), NEW p \in h.live,
         NEW n \in Node, h.live = 1..(n - 1), n # 1,
         NEW a1 \in [Node -> Attr], \A k \in h.live : a1[k] = a[k],
         Below(a1, n, p), \A k \in h.live : Below(a1, n, k) => k <= p,
         NEW pos2 \in Order, IsAddOrder(h, a, pos, p, n, pos2),
         NEW g, Added(h, p, n, g)
  PROVE  IsTree(g, a1, pos2)
<1> DEFINE f == h.first[p]
           e == IF f = Null THEN Null ELSE h.next[f]
           Before(k) == pos[k] <= pos[p] \/ (f # Null /\ (k = f \/ Below(a, k, f)))
           L == h.live
<1>1. /\ a \in [Node -> Attr] /\ pos \in Order /\ IsTree(h, a, pos) /\ Preorder(L, a, pos)
      /\ h \in Heap /\ Parents(h, a) /\ InOrder(h, pos) /\ L \subseteq Node /\ p \in Node
      /\ n \notin L /\ p # n /\ n # Null /\ p # Null
      /\ \A x \in Node : pos[x] \in Nat /\ pos2[x] \in Nat
      /\ \A x, y \in Node : pos[x] = pos[y] => x = y
      /\ \A x, y \in Node : pos2[x] = pos2[y] => x = y
  <2>1. /\ a \in [Node -> Attr] /\ pos \in Order /\ IsTree(h, a, pos)
        /\ Preorder(L, a, pos) /\ h \in Heap /\ Parents(h, a)
    BY DEF IsWalk, IsTree
  <2>2. n \notin L
    BY DEF Node
  <2>3. InOrder(h, pos)
    BY <2>1, TreeInOrder
  <2> QED
    BY <2>1, <2>2, <2>3, HeapTypes, PosTypes, NullIsNoNode
<1>0. InOrder(h, pos) /\ L \subseteq Node
  BY <1>1
<1>00. \A k \in h.live : h.next[k] # Null =>
         h.next[k] \in h.live /\ h.prev[h.next[k]] = k
  BY <1>0, NextLinks
<1>2. /\ g \in Heap /\ g.live = L \cup {n}
      /\ \A k \in Node : /\ g.parent[k] = IF k = n THEN p ELSE h.parent[k]
                         /\ g.first[k] = IF k = p /\ f = Null THEN n ELSE h.first[k]
                         /\ g.next[k] = IF k = n THEN e ELSE IF k = f THEN n ELSE h.next[k]
                         /\ g.prev[k] = IF k = n THEN f ELSE IF k = e THEN n ELSE h.prev[k]
  BY DEF Added
<1>3. \A x, y \in L : Below(a1, x, y) <=> Below(a, x, y)
  <2> SUFFICES ASSUME NEW x \in L, NEW y \in L
               PROVE  Below(a1, x, y) <=> Below(a, x, y)
    OBVIOUS
  <2>1. x \in 1..(n - 1) /\ y \in 1..(n - 1) /\ n \in Nat
    BY DEF Node
  <2>2. \A k \in (y + 1)..x : k \in L
    BY <2>1
  <2> QED
    BY <2>2 DEF Below
<1>4. \A k \in L : h.parent[k] \in L \/ (k = 1 /\ h.parent[k] = Null)
  BY <1>1 DEF Parents
<1>5. Parents(g, a1)
  <2> SUFFICES ASSUME NEW k \in g.live
               PROVE  IF k = 1 THEN g.parent[k] = Null
                      ELSE /\ g.parent[k] \in g.live /\ Below(a1, k, g.parent[k])
                           /\ \A j \in g.live : Below(a1, k, j) => j <= g.parent[k]
    BY DEF Parents
  <2>1. \A j \in L : ~Below(a1, j, n)
    <3> SUFFICES ASSUME NEW j \in L
                 PROVE  ~Below(a1, j, n)
      OBVIOUS
    <3>1. j \in 1..(n - 1) /\ n \in Nat
      BY DEF Node
    <3> QED
      BY <3>1 DEF Below
  <2>2. ~Below(a1, n, n)
    BY DEF Below, Node
  <2>3. CASE k = n
    BY <1>1, <1>2, <2>2, <2>3
  <2>4. CASE k # n
    <3>1. k \in L /\ k \in Node /\ g.parent[k] = h.parent[k]
      BY <1>1, <1>2, <2>4
    <3>2. IF k = 1 THEN h.parent[k] = Null
          ELSE /\ h.parent[k] \in L /\ Below(a, k, h.parent[k])
               /\ \A j \in L : Below(a, k, j) => j <= h.parent[k]
      BY <1>1, <3>1 DEF Parents
    <3> QED
      BY <1>2, <1>3, <2>1, <3>1, <3>2
  <2> QED
    BY <2>3, <2>4
<1>6. /\ \A k : k \in Kids(g, p) <=> k = n \/ k \in Kids(h, p)
      /\ \A x : x # p => Kids(g, x) = Kids(h, x)
      /\ Kids(h, n) = {}
      /\ \A x, k : k \in Kids(h, x) => k \in L /\ k \in Node /\ k # n /\ h.parent[k] = x
  BY <1>1, <1>2, <1>4 DEF Kids
<1>7. /\ f # Null => /\ f \in Kids(h, p) /\ f \in Node /\ f # n /\ h.prev[f] = Null
                     /\ \A k \in Kids(h, p) : pos[f] <= pos[k]
      /\ f = Null => Kids(h, p) = {}
  <2>1. /\ f # Null => f \in Kids(h, p) /\ \A k \in Kids(h, p) : pos[f] <= pos[k]
        /\ f = Null => Kids(h, p) = {}
    BY <1>1 DEF InOrder, FirstInOrder
  <2>2. p \in L => (f # Null => h.prev[f] = Null)
    BY <1>0, FirstIsLinked
  <2> QED
    BY <1>6, <2>1, <2>2
<1>8. /\ e # Null => /\ e \in Kids(h, p) /\ e \in Node /\ e # f /\ e # n /\ h.prev[e] = f
                     /\ f # Null /\ IsAfter(h, pos, p, f, e)
      /\ e = Null => \A k \in Kids(h, p) : k = f
  <2>1. CASE f = Null
    BY <1>7, <2>1
  <2>2. CASE f # Null
    <3>1. f \in L /\ h.parent[f] = p /\ e = h.next[f]
      BY <1>6, <1>7, <2>2
    <3>2. IF e = Null THEN \A k \in Kids(h, p) : pos[k] <= pos[f] ELSE IsAfter(h, pos, p, f, e)
      BY <1>1, <3>1 DEF InOrder, NextInOrder
    <3>3. e # Null => h.prev[e] = f
      <4>1. h.next[f] # Null => h.prev[h.next[f]] = f
        BY <1>00, <3>1
      <4> QED
        BY <3>1, <4>1
    <3>4. e # Null => e \in Kids(h, p) /\ pos[f] < pos[e]
      BY <3>2 DEF IsAfter
    <3>5. e = Null => \A k \in Kids(h, p) : k = f
      <4> SUFFICES ASSUME e = Null, NEW k \in Kids(h, p)
                   PROVE  k = f
        OBVIOUS
      <4>1. pos[k] <= pos[f] /\ pos[f] <= pos[k] /\ k \in Node
        BY <1>6, <1>7, <2>2, <3>2
      <4> HIDE DEF e
      <4> QED
        BY <1>1, <1>7, <2>2, <4>1
    <3> HIDE DEF e
    <3> QED
      BY <1>1, <1>6, <1>7, <2>2, <3>2, <3>3, <3>4, <3>5
  <2> QED
    BY <2>1, <2>2
<1>9. /\ \A x, y \in L : (pos2[x] < pos2[y] <=> pos[x] < pos[y])
                         /\ (pos2[x] <= pos2[y] <=> pos[x] <= pos[y])
      /\ f # Null => pos2[f] < pos2[n]
      /\ \A k \in Kids(h, p) : k # f => pos2[n] < pos2[k]
  <2>1. /\ \A x, y \in L : pos2[x] < pos2[y] <=> pos[x] < pos[y]
        /\ \A x \in L : IF Before(x) THEN pos2[x] < pos2[n] ELSE pos2[n] < pos2[x]
    BY DEF IsAddOrder
  <2>2. ASSUME NEW k \in Kids(h, p), k # f PROVE pos2[n] < pos2[k]
    <3>1. f # Null /\ k \in L
      BY <1>6, <1>7
    <3>2. ~Below(a, k, f)
      BY <1>1, <1>7, <3>1, SiblingsApart
    <3>3. Below(a, k, p)
      BY <1>1, KidIsBelow
    <3>4. pos[p] < pos[k]
      BY <1>1, <3>1, <3>3 DEF Preorder
    <3>5. ~Before(k)
      BY <1>1, <1>6, <2>2, <3>2, <3>4
    <3> QED
      BY <2>1, <3>1, <3>5
  <2>3. f # Null => Before(f) /\ f \in L
    BY <1>6, <1>7
  <2>4. f # Null => pos2[f] < pos2[n]
    BY <2>1, <2>3
  <2>5. \A x, y \in L : pos2[x] <= pos2[y] <=> pos[x] <= pos[y]
    <3> SUFFICES ASSUME NEW x \in L, NEW y \in L
                 PROVE  pos2[x] <= pos2[y] <=> pos[x] <= pos[y]
      OBVIOUS
    <3>1. pos2[y] < pos2[x] <=> pos[y] < pos[x]
      BY <2>1
    <3> QED
      BY <1>1, <3>1
  <2> QED
    BY <2>1, <2>2, <2>4, <2>5
<1> HIDE DEF f, e, Before
<1>10. FirstInOrder(g, pos2)
  <2> SUFFICES ASSUME NEW k \in g.live
               PROVE  IF g.first[k] = Null THEN Kids(g, k) = {}
                      ELSE /\ g.first[k] \in Kids(g, k)
                           /\ \A y \in Kids(g, k) : pos2[g.first[k]] <= pos2[y]
    BY DEF FirstInOrder
  <2>1. k \in Node /\ (k # n => k \in L)
    BY <1>1, <1>2
  <2>2. CASE k = n
    <3>1. h.first[n] = Null
      BY <1>1 DEF IsTree, DeadAreClear
    <3> QED
      BY <1>1, <1>2, <1>6, <2>1, <2>2, <3>1
  <2>3. CASE k # n /\ k # p
    <3>1. IF h.first[k] = Null THEN Kids(h, k) = {}
          ELSE h.first[k] \in Kids(h, k) /\ \A y \in Kids(h, k) : pos[h.first[k]] <= pos[y]
      BY <1>1, <2>1, <2>3 DEF InOrder, FirstInOrder
    <3> QED
      BY <1>2, <1>6, <1>9, <2>1, <2>3, <3>1
  <2>4. CASE k = p /\ f = Null
    <3>1. g.first[k] = n /\ n \in Kids(g, p) /\ \A y \in Kids(g, p) : y = n
      BY <1>2, <1>6, <1>7, <2>1, <2>4
    <3> QED
      BY <1>1, <2>4, <3>1
  <2>5. CASE k = p /\ f # Null
    <3>1. g.first[k] = f /\ f \in Kids(g, p)
      BY <1>2, <1>6, <1>7, <2>1, <2>5 DEF f
    <3>2. \A y \in Kids(h, p) : pos2[f] <= pos2[y]
      BY <1>6, <1>7, <1>9, <2>5
    <3>3. pos2[f] <= pos2[n]
      BY <1>1, <1>7, <1>9, <2>5
    <3> QED
      BY <1>6, <2>5, <3>1, <3>2, <3>3
  <2> QED
    BY <2>2, <2>3, <2>4, <2>5
<1>11. NextInOrder(g, pos2)
  <2> SUFFICES ASSUME NEW k \in g.live
               PROVE  IF g.next[k] = Null THEN \A y \in Kids(g, g.parent[k]) : pos2[y] <= pos2[k]
                      ELSE IsAfter(g, pos2, g.parent[k], k, g.next[k])
    BY DEF NextInOrder
  <2>1. k \in Node /\ (k # n => k \in L)
    BY <1>1, <1>2
  <2>2. k # n => IF h.next[k] = Null THEN \A y \in Kids(h, h.parent[k]) : pos[y] <= pos[k]
                 ELSE IsAfter(h, pos, h.parent[k], k, h.next[k])
    BY <1>1, <2>1 DEF InOrder, NextInOrder
  <2>3. CASE k = n
    <3>1. g.next[k] = e /\ g.parent[k] = p
      BY <1>2, <2>1, <2>3
    <3>2. CASE e = Null
      <4>1. \A y \in Kids(g, p) : pos2[y] <= pos2[n]
        BY <1>1, <1>6, <1>7, <1>8, <1>9, <3>2
      <4> QED
        BY <2>3, <3>1, <3>2, <4>1
    <3>3. CASE e # Null
      <4>1. e \in Kids(g, p) /\ pos2[n] < pos2[e]
        BY <1>6, <1>8, <1>9, <3>3
      <4>2. \A y \in Kids(h, p) : y # f => pos2[e] <= pos2[y]
        <5>1. \A y \in Kids(h, p) : y # f => pos[e] <= pos[y]
          BY <1>1, <1>6, <1>7, <1>8, <3>3 DEF IsAfter
        <5> QED
          BY <1>6, <1>8, <1>9, <3>3, <5>1
      <4>3. \A y \in Kids(g, p) : pos2[n] < pos2[y] => pos2[e] <= pos2[y]
        BY <1>1, <1>6, <1>7, <1>8, <1>9, <3>3, <4>2
      <4> QED
        BY <2>3, <3>1, <3>3, <4>1, <4>3 DEF IsAfter
    <3> QED
      BY <3>2, <3>3
  <2>4. CASE k = f
    <3>1. f # Null /\ k # n /\ g.next[k] = n /\ g.parent[k] = p /\ n # Null /\ n \in Kids(g, p)
      BY <1>1, <1>2, <1>6, <1>7, <2>1, <2>4, NullIsNoNode
    <3>2. pos2[k] < pos2[n]
      BY <1>9, <2>4, <3>1
    <3>3. \A y \in Kids(h, p) : pos2[k] < pos2[y] => pos2[n] <= pos2[y]
      BY <1>1, <1>6, <1>9, <2>1, <2>4
    <3>4. \A y \in Kids(g, p) : pos2[k] < pos2[y] => pos2[n] <= pos2[y]
      BY <1>1, <1>6, <3>3
    <3> QED
      BY <3>1, <3>2, <3>4 DEF IsAfter
  <2>5. CASE k # n /\ k # f /\ h.parent[k] = p
    <3>1. k \in L /\ g.next[k] = h.next[k] /\ g.parent[k] = p /\ k \in Kids(h, p)
      BY <1>2, <2>1, <2>5 DEF Kids
    <3>2. pos2[n] < pos2[k]
      BY <1>9, <2>5, <3>1
    <3>3. CASE h.next[k] = Null
      <4>1. \A y \in Kids(h, p) : pos2[y] <= pos2[k]
        BY <1>6, <1>9, <2>2, <2>5, <3>1, <3>3
      <4> QED
        BY <1>1, <1>6, <2>1, <3>1, <3>2, <3>3, <4>1
    <3>4. CASE h.next[k] # Null
      <4>1. /\ h.next[k] \in Kids(h, p) /\ pos[k] < pos[h.next[k]]
            /\ \A y \in Kids(h, p) : pos[k] < pos[y] => pos[h.next[k]] <= pos[y]
        BY <2>2, <2>5, <3>4 DEF IsAfter
      <4>2. /\ h.next[k] \in Kids(g, p) /\ pos2[k] < pos2[h.next[k]]
            /\ \A y \in Kids(h, p) : pos2[k] < pos2[y] => pos2[h.next[k]] <= pos2[y]
        BY <1>6, <1>9, <3>1, <4>1
      <4>3. \A y \in Kids(g, p) : pos2[k] < pos2[y] => pos2[h.next[k]] <= pos2[y]
        BY <1>1, <1>6, <2>1, <3>2, <4>2
      <4> QED
        BY <3>1, <3>4, <4>2, <4>3 DEF IsAfter
    <3> QED
      BY <3>3, <3>4
  <2>6. CASE k # n /\ h.parent[k] # p
    <3>1. k \in L /\ k # f
      BY <1>6, <1>7, <2>1, <2>6, NullIsNoNode
    <3>2. g.next[k] = h.next[k] /\ g.parent[k] = h.parent[k]
          /\ Kids(g, h.parent[k]) = Kids(h, h.parent[k])
      BY <1>2, <1>6, <2>1, <2>6, <3>1
    <3>3. CASE h.next[k] = Null
      BY <1>6, <1>9, <2>2, <2>6, <3>1, <3>2, <3>3
    <3>4. CASE h.next[k] # Null
      <4>1. /\ h.next[k] \in Kids(h, h.parent[k]) /\ pos[k] < pos[h.next[k]]
            /\ \A y \in Kids(h, h.parent[k]) : pos[k] < pos[y] => pos[h.next[k]] <= pos[y]
        BY <2>2, <2>6, <3>4 DEF IsAfter
      <4>2. /\ pos2[k] < pos2[h.next[k]]
            /\ \A y \in Kids(h, h.parent[k]) : pos2[k] < pos2[y] => pos2[h.next[k]] <= pos2[y]
        BY <1>6, <1>9, <3>1, <4>1
      <4> QED
        BY <3>2, <3>4, <4>1, <4>2 DEF IsAfter
    <3> QED
      BY <3>3, <3>4
  <2> QED
    BY <2>3, <2>4, <2>5, <2>6
<1>12. PrevInOrder(g, pos2)
  <2>1. \A k \in g.live : g.parent[k] \notin g.live =>
          g.parent[k] = Null /\ g.prev[k] = Null /\ Kids(g, Null) = {k}
    <3> SUFFICES ASSUME NEW k \in g.live, g.parent[k] \notin g.live
                 PROVE  g.parent[k] = Null /\ g.prev[k] = Null /\ Kids(g, Null) = {k}
      OBVIOUS
    <3>1. k = 1 /\ g.parent[k] = Null
      BY <1>5 DEF Parents
    <3>2. \A y \in g.live : g.parent[y] = Null => y = 1
      BY <1>1, <1>2, <1>5, NullIsNoNode DEF Parents
    <3>3. Kids(g, Null) = {k}
      BY <3>1, <3>2 DEF Kids
    <3>4. g.prev[k] = Null
      <4>1. k \in L /\ k \in Node /\ k # n /\ h.parent[k] = Null
        BY <1>1, <1>2, <3>1 DEF Parents
      <4>2. k # e
        BY <1>1, <1>6, <1>8, <4>1, NullIsNoNode
      <4>3. h.prev[k] = Null
        <5>1. h.prev[k] # Null => /\ h.prev[k] \in L /\ h.next[h.prev[k]] = k
                                  /\ h.parent[h.prev[k]] = Null /\ pos[h.prev[k]] < pos[k]
          BY ZenonT(60), <1>0, <4>1, PrevIsLinked
        <5>2. \A y \in L : h.parent[y] = Null => y = 1
          BY <1>1, NullIsNoNode DEF Parents
        <5> QED
          BY <1>1, <3>1, <4>1, <5>1, <5>2
      <4> QED
        BY <1>2, <4>1, <4>2, <4>3
    <3> QED
      BY <3>1, <3>3, <3>4
  <2>2. \A k \in g.live : g.next[k] # Null => g.prev[g.next[k]] = k
    <3> SUFFICES ASSUME NEW k \in g.live, g.next[k] # Null
                 PROVE  g.prev[g.next[k]] = k
      OBVIOUS
    <3>1. k \in Node /\ (k # n => k \in L)
      BY <1>1, <1>2
    <3>2. CASE k = n
      BY <1>2, <1>8, <3>1, <3>2
    <3>3. CASE k = f
      BY <1>2, <1>7, <3>1, <3>3, NullIsNoNode
    <3>4. CASE k # n /\ k # f
      <4>1. g.next[k] = h.next[k]
        BY <1>2, <3>1, <3>4
      <4>2. h.next[k] \in L /\ h.next[k] \in Node /\ h.prev[h.next[k]] = k
        <5>1. k \in L /\ h.next[k] # Null
          BY <3>1, <3>4, <4>1
        <5>2. h.next[k] \in L /\ h.prev[h.next[k]] = k
          BY <1>00, <5>1
        <5> QED
          BY <1>1, <5>2
      <4>3. h.next[k] # n /\ h.next[k] # e
        BY <1>1, <1>8, <3>4, <4>2, NullIsNoNode
      <4> QED
        BY <1>2, <4>1, <4>2, <4>3
    <3> QED
      BY <3>2, <3>3, <3>4
  <2>3. \A k \in g.live : g.first[k] # Null => g.prev[g.first[k]] = Null
    <3> SUFFICES ASSUME NEW k \in g.live, g.first[k] # Null
                 PROVE  g.prev[g.first[k]] = Null
      OBVIOUS
    <3>1. k \in Node /\ (k # n => k \in L)
      BY <1>1, <1>2
    <3>2. CASE k = p /\ f = Null
      BY <1>2, <3>1, <3>2
    <3>3. CASE k = n
      <4>1. h.first[n] = Null
        BY <1>1 DEF IsTree, DeadAreClear
      <4> QED
        BY <1>1, <1>2, <3>1, <3>3, <4>1
    <3>4. CASE k # n /\ ~(k = p /\ f = Null)
      <4>1. g.first[k] = h.first[k]
        BY <1>2, <3>1, <3>4
      <4>2. /\ h.first[k] \in L /\ h.first[k] \in Node
            /\ h.prev[h.first[k]] = Null
        BY ZenonT(60), <1>1, <3>1, <3>4, <4>1, FirstIsLinked
      <4>3. h.first[k] # n /\ h.first[k] # e
        BY <1>1, <1>7, <1>8, <4>2, NullIsNoNode
      <4> QED
        BY <1>2, <4>1, <4>2, <4>3
    <3> QED
      BY <3>2, <3>3, <3>4
  <2> QED
    BY <1>2, <1>10, <1>11, <2>1, <2>2, <2>3, PrevFromNext
<1>13. DeadAreClear(g)
  <2> SUFFICES ASSUME NEW k \in Node \ g.live
               PROVE  /\ g.parent[k] = Null /\ g.first[k] = Null
                      /\ g.prev[k] = Null /\ g.next[k] = Null
    BY DEF DeadAreClear
  <2>1. k \notin L /\ k # n
    BY <1>2
  <2>2. h.parent[k] = Null /\ h.first[k] = Null /\ h.prev[k] = Null /\ h.next[k] = Null
    BY <1>1, <2>1 DEF IsTree, DeadAreClear
  <2>3. k # p /\ k # e /\ k # f
    BY <1>6, <1>7, <1>8, <2>1, NullIsNoNode
  <2> QED
    BY <1>2, <2>1, <2>2, <2>3
<1> QED
  BY <1>2, <1>5, <1>10, <1>11, <1>12, <1>13 DEF IsTree

-----------------------------------------------------------------------------
(***************************************************************************)
(* Two children of a node are exchanged                                    *)
(***************************************************************************)

\* The node in the place of k once l and r are exchanged.
Sw(l, r, k) == IF k = l THEN r ELSE IF k = r THEN l ELSE k

\* Swap exchanges the two in every pointer that can lead to one of them.
Swapped(h, l, r, g) ==
  /\ g \in Heap /\ g.live = h.live /\ g.parent = h.parent /\ g.last = h.last
  /\ \A k \in Node : g.first[k] = Sw(l, r, h.first[k])
  /\ \A k \in h.live : /\ g.next[k] = Sw(l, r, h.next[Sw(l, r, k)])
                       /\ g.prev[k] = Sw(l, r, h.prev[Sw(l, r, k)])
  /\ \A k \in Node \ h.live : g.next[k] = h.next[k] /\ g.prev[k] = h.prev[k]

\* Swap changes Prev, Next and First as its assignments do, one after another.
LEMMA SwapFields ==
  ASSUME NEW h \in Heap, NEW l \in Node, NEW r \in Node, l # r,
         h.next[l] # l, h.next[r] # r, h.prev[l] # l, h.prev[r] # r,
         h.next[r] # l, h.prev[l] # r, h.prev[r] # h.prev[l], h.next[l] # h.next[r],
         h.next[l] = r <=> h.prev[r] = l,
         h.parent[l] \in Node,
         NEW g, g = Swap(h, l, r)
  PROVE  /\ g \in Heap /\ g.live = h.live /\ g.parent = h.parent /\ g.last = h.last
         /\ \A k \in Node :
              g.first[k] = IF k = h.parent[l] /\ h.first[k] = l THEN r ELSE h.first[k]
         /\ \A k \in Node :
              g.next[k] = IF k = h.prev[l] THEN r ELSE IF k = l THEN h.next[r]
                          ELSE IF k = h.prev[r] THEN l
                          ELSE IF k = r THEN IF h.next[l] = r THEN l ELSE h.next[l]
                          ELSE h.next[k]
         /\ \A k \in Node :
              g.prev[k] = IF k = h.next[r] THEN l ELSE IF k = r THEN h.prev[l]
                          ELSE IF k = h.next[l] THEN r
                          ELSE IF k = l THEN IF h.next[l] = r THEN r ELSE h.prev[r]
                          ELSE h.prev[k]
<1> DEFINE lp == h.prev[l]
           ln == h.next[l]
           rp == h.prev[r]
           rn == h.next[r]
           p == h.parent[l]
           prev1 == IF ln # r THEN Put([h.prev EXCEPT ![l] = rp], ln, r)
                              ELSE [h.prev EXCEPT ![l] = r]
           next1 == IF ln # r THEN Put([h.next EXCEPT ![r] = ln], rp, l)
                              ELSE [h.next EXCEPT ![r] = l]
           prev2 == Put([prev1 EXCEPT ![r] = lp], rn, l)
           next2 == Put([next1 EXCEPT ![l] = rn], lp, r)
           first2 == IF p # Null /\ h.first[p] = l THEN [h.first EXCEPT ![p] = r] ELSE h.first
<1>1. /\ lp \in Ptr /\ ln \in Ptr /\ rp \in Ptr /\ rn \in Ptr /\ l \in Ptr /\ r \in Ptr
      /\ h.prev \in [Node -> Ptr] /\ h.next \in [Node -> Ptr] /\ h.first \in [Node -> Ptr]
      /\ h.last \in [Node -> Ptr] /\ h.parent \in [Node -> Ptr] /\ h.live \subseteq Node
      /\ p # Null
  BY HeapTypes, NullIsNoNode DEF Ptr
<1>2. /\ prev1 \in [Node -> Ptr]
      /\ \A k \in Node : prev1[k] = IF ln # r /\ k = ln THEN r
                                    ELSE IF k = l THEN IF ln = r THEN r ELSE rp
                                    ELSE h.prev[k]
  <2> DEFINE f == [h.prev EXCEPT ![l] = rp]
  <2>1. f \in [Node -> Ptr] /\ \A k \in Node : f[k] = IF k = l THEN rp ELSE h.prev[k]
    BY <1>1
  <2> HIDE DEF f
  <2>2. CASE ln = r
    BY <1>1, <2>2
  <2>3. CASE ln # r
    <3> DEFINE q == Put(f, ln, r)
    <3>1. q \in [Node -> Ptr] /\ \A k \in Node : q[k] = IF k = ln THEN r ELSE f[k]
      <4> HIDE DEF ln
      <4> QED
        BY <1>1, <2>1, PutFields
    <3>2. prev1 = q
      BY <2>3 DEF f
    <3> HIDE DEF q, prev1
    <3> QED
      BY <2>1, <2>3, <3>1, <3>2
  <2> QED
    BY <2>2, <2>3
<1>3. /\ next1 \in [Node -> Ptr]
      /\ \A k \in Node : next1[k] = IF ln # r /\ k = rp THEN l
                                    ELSE IF k = r THEN IF ln = r THEN l ELSE ln
                                    ELSE h.next[k]
  <2> DEFINE f == [h.next EXCEPT ![r] = ln]
  <2>1. f \in [Node -> Ptr] /\ \A k \in Node : f[k] = IF k = r THEN ln ELSE h.next[k]
    BY <1>1
  <2> HIDE DEF f
  <2>2. CASE ln = r
    BY <1>1, <2>2
  <2>3. CASE ln # r
    <3> DEFINE q == Put(f, rp, l)
    <3>1. q \in [Node -> Ptr] /\ \A k \in Node : q[k] = IF k = rp THEN l ELSE f[k]
      <4> HIDE DEF rp
      <4> QED
        BY <1>1, <2>1, PutFields
    <3>2. next1 = q
      BY <2>3 DEF f
    <3> HIDE DEF q, next1
    <3> QED
      BY <2>1, <2>3, <3>1, <3>2
  <2> QED
    BY <2>2, <2>3
<1>4. /\ prev2 \in [Node -> Ptr]
      /\ \A k \in Node : prev2[k] = IF k = rn THEN l ELSE IF k = r THEN lp ELSE prev1[k]
  <2> HIDE DEF prev1
  <2> DEFINE f == [prev1 EXCEPT ![r] = lp]
  <2>1. f \in [Node -> Ptr] /\ \A k \in Node : f[k] = IF k = r THEN lp ELSE prev1[k]
    BY <1>1, <1>2
  <2> HIDE DEF f, rn
  <2>2. prev2 = Put(f, rn, l)
    BY DEF f
  <2> HIDE DEF prev2
  <2>3. prev2 \in [Node -> Ptr] /\ \A k \in Node : prev2[k] = IF k = rn THEN l ELSE f[k]
    BY <1>1, <2>1, <2>2, PutFields
  <2> QED
    BY <2>1, <2>3
<1>5. /\ next2 \in [Node -> Ptr]
      /\ \A k \in Node : next2[k] = IF k = lp THEN r ELSE IF k = l THEN rn ELSE next1[k]
  <2> HIDE DEF next1
  <2> DEFINE f == [next1 EXCEPT ![l] = rn]
  <2>1. f \in [Node -> Ptr] /\ \A k \in Node : f[k] = IF k = l THEN rn ELSE next1[k]
    BY <1>1, <1>3
  <2> HIDE DEF f, lp
  <2>2. next2 = Put(f, lp, r)
    BY DEF f
  <2> HIDE DEF next2
  <2>3. next2 \in [Node -> Ptr] /\ \A k \in Node : next2[k] = IF k = lp THEN r ELSE f[k]
    BY <1>1, <2>1, <2>2, PutFields
  <2> QED
    BY <2>1, <2>3
<1>6. /\ first2 \in [Node -> Ptr]
      /\ \A k \in Node : first2[k] = IF k = p /\ h.first[k] = l THEN r ELSE h.first[k]
  BY <1>1
<1>7. g = [h EXCEPT !.prev = prev2, !.next = next2, !.first = first2]
  BY Zenon DEF Swap
<1> HIDE DEF prev2, next2, first2, prev1, next1
<1>8. /\ g \in Heap /\ g.live = h.live /\ g.parent = h.parent /\ g.last = h.last
      /\ g.prev = prev2 /\ g.next = next2 /\ g.first = first2
  BY ZenonT(60), <1>1, <1>4, <1>5, <1>6, <1>7 DEF Heap
<1>9. \A k \in Node :
        g.next[k] = IF k = lp THEN r ELSE IF k = l THEN rn
                    ELSE IF k = rp THEN l
                    ELSE IF k = r THEN IF ln = r THEN l ELSE ln
                    ELSE h.next[k]
  <2> HIDE DEF lp, ln, rp, rn
  <2> QED
    BY <1>1, <1>3, <1>5, <1>8 DEF lp, ln, rp, rn
<1>10. \A k \in Node :
        g.prev[k] = IF k = rn THEN l ELSE IF k = r THEN lp
                    ELSE IF k = ln THEN r
                    ELSE IF k = l THEN IF ln = r THEN r ELSE rp
                    ELSE h.prev[k]
  BY <1>1, <1>2, <1>4, <1>8
<1> QED
  BY <1>6, <1>8, <1>9, <1>10

\* For two siblings of a tree Swap does just that.
LEMMA SwapExchanges ==
  ASSUME NEW h, NEW a, NEW pos \in Order, IsTree(h, a, pos),
         NEW l \in h.live, NEW r \in h.live,
         h.parent[l] \in h.live, h.parent[r] = h.parent[l], pos[l] < pos[r],
         NEW g, g = Swap(h, l, r)
  PROVE  Swapped(h, l, r, g)
<1>00. InOrder(h, pos)
  BY TreeInOrder
<1>1. /\ h \in Heap /\ h.live \subseteq Node /\ l \in Node /\ r \in Node /\ h.parent[l] \in Node
      /\ pos[l] \in Nat /\ pos[r] \in Nat /\ l # r
  BY <1>00, HeapTypes, PosTypes DEF InOrder
<1>0. \A k \in Node : pos[k] \in Nat
  BY PosTypes
<1>2. \A k \in h.live : h.next[k] # Null =>
        /\ h.next[k] \in h.live /\ h.prev[h.next[k]] = k /\ pos[k] < pos[h.next[k]]
        /\ h.parent[h.next[k]] = h.parent[k]
  BY <1>00, NextIsLinked
<1>3. \A k \in h.live : h.prev[k] # Null =>
        /\ h.prev[k] \in h.live /\ h.next[h.prev[k]] = k /\ pos[h.prev[k]] < pos[k]
        /\ h.parent[h.prev[k]] = h.parent[k]
  BY <1>00, PrevIsLinked
<1>4. /\ h.next[l] # l /\ h.next[r] # r /\ h.prev[l] # l /\ h.prev[r] # r
      /\ h.next[r] # l /\ h.prev[l] # r
  BY <1>0, <1>1, <1>2, <1>3, NullIsNoNode
<1>5. h.next[l] = r <=> h.prev[r] = l
  BY <1>1, <1>2, <1>3, NullIsNoNode
<1>6. h.prev[r] # Null
  <2>1. r \in Kids(h, h.parent[r]) /\ l \in Kids(h, h.parent[r]) /\ ~(pos[r] <= pos[l])
    BY <1>1 DEF Kids
  <2> QED
    BY <1>00, <2>1 DEF InOrder, PrevInOrder
<1>7. h.next[l] # Null
  <2>1. r \in Kids(h, h.parent[l]) /\ l \in Kids(h, h.parent[l]) /\ ~(pos[r] <= pos[l])
    BY <1>1 DEF Kids
  <2> QED
    BY <1>00, <2>1 DEF InOrder, NextInOrder
<1>8. h.prev[r] # h.prev[l] /\ h.next[l] # h.next[r]
  BY <1>1, <1>2, <1>3, <1>6, <1>7
<1>9. \A k \in Node : (h.first[k] = l => k = h.parent[l]) /\ h.first[k] # r
  <2> SUFFICES ASSUME NEW k \in Node, h.first[k] \in {l, r}
               PROVE  k = h.parent[l] /\ h.first[k] # r
    OBVIOUS
  <2>1. k \in h.live
    BY <1>1, NullIsNoNode DEF IsTree, DeadAreClear
  <2>2. h.first[k] # Null
    BY <1>1, NullIsNoNode
  <2>3. h.parent[h.first[k]] = k /\ h.prev[h.first[k]] = Null
    BY <1>00, <2>1, <2>2, FirstIsLinked
  <2> QED
    BY <1>6, <2>3
<1>10. /\ g \in Heap /\ g.live = h.live /\ g.parent = h.parent /\ g.last = h.last
       /\ \A k \in Node :
            g.first[k] = IF k = h.parent[l] /\ h.first[k] = l THEN r ELSE h.first[k]
       /\ \A k \in Node :
            g.next[k] = IF k = h.prev[l] THEN r ELSE IF k = l THEN h.next[r]
                        ELSE IF k = h.prev[r] THEN l
                        ELSE IF k = r THEN IF h.next[l] = r THEN l ELSE h.next[l]
                        ELSE h.next[k]
       /\ \A k \in Node :
            g.prev[k] = IF k = h.next[r] THEN l ELSE IF k = r THEN h.prev[l]
                        ELSE IF k = h.next[l] THEN r
                        ELSE IF k = l THEN IF h.next[l] = r THEN r ELSE h.prev[r]
                        ELSE h.prev[k]
  BY <1>1, <1>4, <1>5, <1>8, SwapFields
<1>11. \A k \in h.live : /\ h.next[k] = l <=> k = h.prev[l]
                         /\ h.next[k] = r <=> k = h.prev[r]
                         /\ h.prev[k] = l <=> k = h.next[l]
                         /\ h.prev[k] = r <=> k = h.next[r]
  BY <1>1, <1>2, <1>3, NullIsNoNode
<1>12. \A k \in Node : g.first[k] = Sw(l, r, h.first[k])
  BY <1>1, <1>9, <1>10 DEF Sw
<1>13. \A k \in Node \ h.live : g.next[k] = h.next[k] /\ g.prev[k] = h.prev[k]
  BY <1>1, <1>2, <1>3, <1>10, NullIsNoNode
<1>14. ASSUME NEW k \in h.live
       PROVE  g.next[k] = Sw(l, r, h.next[Sw(l, r, k)]) /\ g.prev[k] = Sw(l, r, h.prev[Sw(l, r, k)])
  <2>1. CASE k = l
    BY <1>1, <1>4, <1>5, <1>8, <1>10, <2>1 DEF Sw
  <2>2. CASE k = r
    BY <1>1, <1>4, <1>5, <1>8, <1>10, <2>2 DEF Sw
  <2>3. CASE k # l /\ k # r
    <3>1. Sw(l, r, k) = k /\ k \in Node
      BY <1>1, <2>3 DEF Sw
    <3> QED
      BY <1>1, <1>10, <1>11, <2>3, <3>1 DEF Sw
  <2> QED
    BY <2>1, <2>2, <2>3
<1> QED
  BY <1>10, <1>12, <1>13, <1>14 DEF Swapped

\* The tree is in the order in which the two have changed places.
LEMMA SwappedTree ==
  ASSUME NEW h, NEW a, NEW pos \in Order, IsTree(h, a, pos),
         NEW l \in h.live, NEW r \in h.live,
         h.parent[l] \in h.live, h.parent[r] = h.parent[l], pos[l] < pos[r],
         NEW g, g = Swap(h, l, r), NEW pos2, pos2 = [k \in Node |-> pos[Sw(l, r, k)]]
  PROVE  /\ pos2 \in Order /\ IsTree(g, a, pos2) /\ Swapped(h, l, r, g)
         /\ \A k \in Node : pos2[k] = pos[Sw(l, r, k)]
         /\ \A p : Kids(g, p) = Kids(h, p)
<1> DEFINE S(k) == Sw(l, r, k)
<1>1. /\ h \in Heap /\ h.live \subseteq Node /\ l \in Node /\ r \in Node
      /\ \A k \in Node : pos[k] \in Nat
      /\ \A x, y \in Node : pos[x] = pos[y] => x = y
      /\ l # Null /\ r # Null
  BY TreeInOrder, HeapTypes, PosTypes, NullIsNoNode DEF InOrder
<1>2. Swapped(h, l, r, g)
  BY SwapExchanges
<1>3. /\ \A k : S(S(k)) = k /\ (k \in Node <=> S(k) \in Node) /\ (S(k) = Null <=> k = Null)
      /\ \A k : k \in h.live <=> S(k) \in h.live
      /\ \A k \in h.live : h.parent[S(k)] = h.parent[k]
  BY <1>1 DEF Sw
<1>4. \A p : Kids(g, p) = Kids(h, p) /\ \A k : k \in Kids(h, p) <=> S(k) \in Kids(h, p)
  <2>1. \A p : Kids(g, p) = Kids(h, p)
    BY <1>2 DEF Kids, Swapped
  <2>2. \A p, k : k \in Kids(h, p) <=> S(k) \in Kids(h, p)
    <3> HIDE DEF S
    <3> QED
      BY <1>3 DEF Kids
  <2> QED
    BY <2>1, <2>2
<1>5. \A k \in Node : pos2[k] = pos[S(k)] /\ pos2[k] \in Nat
  BY <1>1 DEF Sw
<1>6. pos2 \in Order
  <2>1. pos2 \in [Node -> Nat]
    BY <1>1 DEF Sw
  <2>2. \A x, y \in Node : pos2[x] = pos2[y] => x = y
    <3> HIDE DEF S
    <3> QED
      BY <1>1, <1>3, <1>5
  <2> QED
    BY <2>1, <2>2 DEF Order
<1>7. /\ \A k \in Node : g.first[k] = S(h.first[k])
      /\ \A k \in h.live : g.next[k] = S(h.next[S(k)]) /\ g.prev[k] = S(h.prev[S(k)])
      /\ \A k \in Node \ h.live : g.next[k] = h.next[k] /\ g.prev[k] = h.prev[k]
      /\ g \in Heap /\ g.live = h.live /\ g.parent = h.parent
  BY <1>2 DEF Swapped
<1>8. Parents(g, a)
  BY <1>7 DEF IsTree, Parents
<1>9. \A p : \A k \in Kids(h, p) : k \in h.live /\ k \in Node
  BY <1>1 DEF Kids
<1> HIDE DEF S
<1>10. NextInOrder(g, pos2)
  <2> SUFFICES ASSUME NEW k \in g.live
               PROVE  IF g.next[k] = Null THEN \A m \in Kids(g, g.parent[k]) : pos2[m] <= pos2[k]
                      ELSE IsAfter(g, pos2, g.parent[k], k, g.next[k])
    BY DEF NextInOrder
  <2> DEFINE q == S(k)
             p == h.parent[k]
             m == h.next[q]
  <2>1. q \in h.live /\ h.parent[q] = p /\ g.parent[k] = p /\ g.next[k] = S(m) /\ k \in Node
        /\ pos2[k] = pos[q] /\ (g.next[k] = Null <=> m = Null)
    BY <1>1, <1>3, <1>5, <1>7
  <2>2. IF m = Null THEN \A x \in Kids(h, p) : pos[x] <= pos[q]
        ELSE IsAfter(h, pos, p, q, m)
    BY <2>1 DEF IsTree, NextInOrder
  <2> HIDE DEF q, p, m
  <2>3. CASE m = Null
    BY <1>3, <1>4, <1>5, <1>9, <2>1, <2>2, <2>3
  <2>4. CASE m # Null
    <3>1. m \in Kids(h, p) /\ pos[q] < pos[m]
          /\ \A x \in Kids(h, p) : pos[q] < pos[x] => pos[m] <= pos[x]
      BY <2>2, <2>4 DEF IsAfter
    <3>2. S(m) \in Kids(g, p) /\ pos2[S(m)] = pos[m]
      BY <1>3, <1>4, <1>5, <1>9, <3>1
    <3>3. \A x \in Kids(g, p) : pos2[x] = pos[S(x)] /\ S(x) \in Kids(h, p)
      BY <1>4, <1>5, <1>9
    <3>4. \A x \in Kids(g, p) : pos2[k] < pos2[x] => pos2[S(m)] <= pos2[x]
      BY <2>1, <3>1, <3>2, <3>3
    <3> QED
      BY <2>1, <2>4, <3>1, <3>2, <3>4 DEF IsAfter
  <2> QED
    BY <2>3, <2>4
<1>11. PrevInOrder(g, pos2)
  <2> SUFFICES ASSUME NEW k \in g.live
               PROVE  IF g.prev[k] = Null THEN \A m \in Kids(g, g.parent[k]) : pos2[k] <= pos2[m]
                      ELSE IsBefore(g, pos2, g.parent[k], k, g.prev[k])
    BY DEF PrevInOrder
  <2> DEFINE q == S(k)
             p == h.parent[k]
             m == h.prev[q]
  <2>1. q \in h.live /\ h.parent[q] = p /\ g.parent[k] = p /\ g.prev[k] = S(m) /\ k \in Node
        /\ pos2[k] = pos[q] /\ (g.prev[k] = Null <=> m = Null)
    BY <1>1, <1>3, <1>5, <1>7
  <2>2. IF m = Null THEN \A x \in Kids(h, p) : pos[q] <= pos[x]
        ELSE IsBefore(h, pos, p, q, m)
    BY <2>1 DEF IsTree, PrevInOrder
  <2> HIDE DEF q, p, m
  <2>3. CASE m = Null
    BY <1>3, <1>4, <1>5, <1>9, <2>1, <2>2, <2>3
  <2>4. CASE m # Null
    <3>1. m \in Kids(h, p) /\ pos[m] < pos[q]
          /\ \A x \in Kids(h, p) : pos[x] < pos[q] => pos[x] <= pos[m]
      BY <2>2, <2>4 DEF IsBefore
    <3>2. S(m) \in Kids(g, p) /\ pos2[S(m)] = pos[m]
      BY <1>3, <1>4, <1>5, <1>9, <3>1
    <3>3. \A x \in Kids(g, p) : pos2[x] = pos[S(x)] /\ S(x) \in Kids(h, p)
      BY <1>4, <1>5, <1>9
    <3>4. \A x \in Kids(g, p) : pos2[x] < pos2[k] => pos2[x] <= pos2[S(m)]
      BY <2>1, <3>1, <3>2, <3>3
    <3> QED
      BY <2>1, <2>4, <3>1, <3>2, <3>4 DEF IsBefore
  <2> QED
    BY <2>3, <2>4
<1>12. FirstInOrder(g, pos2)
  <2> SUFFICES ASSUME NEW k \in g.live
               PROVE  IF g.first[k] = Null THEN Kids(g, k) = {}
                      ELSE g.first[k] \in Kids(g, k)
                           /\ \A x \in Kids(g, k) : pos2[g.first[k]] <= pos2[x]
    BY DEF FirstInOrder
  <2> DEFINE m == h.first[k]
  <2>1. k \in h.live /\ k \in Node /\ g.first[k] = S(m) /\ (g.first[k] = Null <=> m = Null)
    BY <1>1, <1>3, <1>7
  <2>2. IF m = Null THEN Kids(h, k) = {}
        ELSE m \in Kids(h, k) /\ \A x \in Kids(h, k) : pos[m] <= pos[x]
    BY <2>1 DEF IsTree, FirstInOrder
  <2> HIDE DEF m
  <2> QED
    BY <1>3, <1>4, <1>5, <1>9, <2>1, <2>2
<1>13. DeadAreClear(g)
  <2> SUFFICES ASSUME NEW k \in Node \ g.live
               PROVE  /\ g.parent[k] = Null /\ g.first[k] = Null
                      /\ g.prev[k] = Null /\ g.next[k] = Null
    BY DEF DeadAreClear
  <2>1. h.parent[k] = Null /\ h.first[k] = Null /\ h.prev[k] = Null /\ h.next[k] = Null
    BY <1>7 DEF IsTree, DeadAreClear
  <2>2. S(Null) = Null
    BY <1>3
  <2> QED
    BY <1>7, <2>1, <2>2
<1> QED
  BY <1>2, <1>4, <1>5, <1>6, <1>7, <1>8, <1>10, <1>11, <1>12, <1>13 DEF IsTree, S

-----------------------------------------------------------------------------
(***************************************************************************)
(* The inductive invariant                                                 *)
(***************************************************************************)

\* The nodes that were made.
Made == 1..parse.made

\* The root is node 1, and stays until the tree is empty.
Rooted ==
  /\ heap.live \subseteq Made
  /\ IF root = Null THEN heap.live = {} ELSE root = 1 /\ 1 \in heap.live

RootIsAbove == root # Null => ~attr[1].export /\ \A n \in 2..parse.made : Below(attr, n, 1)

NamesDiffer ==
  opts.sort => \A m, n \in Made : attr[m].name = attr[n].name => m = n

Leaves(L) == \A n \in L : IsLeaf(heap, n) => attr[n].export
NoneUnmet(L) == \A n \in L : ~Unmet(n)

\* Only the node made last may have no children yet, if it is to have some.
Parsing ==
  /\ heap.live = Made
  /\ \E pos \in Order : IsTree(heap, attr, pos) /\ Preorder(heap.live, attr, pos)
  /\ Lasts(heap, heap.live)
  /\ \A n \in Made : IsLeaf(heap, n) /\ ~attr[n].export =>
       /\ n = parse.made /\ parse.parent = n
       /\ IF pc = "parse" THEN parse.open ELSE parse.up = 0

\* The nodes in L before n, or all if there is none, meet the requirements; the
\* others have the LastChild that the parse gave them.
Passed(L, pos, n) ==
  /\ NoneUnmet({m \in L : n = Null \/ pos[m] < pos[n]})
  /\ Lasts(heap, {m \in L : n # Null /\ pos[n] <= pos[m]})

Filtering ==
  /\ Leaves(heap.live)
  /\ filter.iter \in heap.live \cup {Null}
  /\ \E pos \in Order :
       /\ IsTree(heap, attr, pos) /\ Preorder(heap.live, attr, pos)
       /\ Passed(heap.live, pos, filter.iter)

\* The victim is out of the tree, though it is not deleted yet; Child is to go.
Branch(v, c) ==
  /\ root = 1 /\ v \in heap.live /\ v # 1
  /\ c \in heap.live /\ Below(attr, v, c) /\ IsLeaf(heap, c)
  /\ Leaves(heap.live \ {v, c})

RemovingParents ==
  LET v == filter.victim
  IN  /\ Branch(v, filter.child)
      /\ filter.next \in heap.live \cup {Null}
      /\ \E pos \in Order :
           /\ IsTree(ClearNode(heap, v), attr, pos) /\ Preorder(heap.live, attr, pos)
           /\ filter.next # Null => pos[v] < pos[filter.next]
           /\ Passed(heap.live \ {v}, pos, filter.next)

Kept ==
  /\ root = 1 /\ Leaves(heap.live)
  /\ opts.require = "section" => NoneUnmet(heap.live)

Counting ==
  /\ Kept
  /\ \E pos \in Order : IsTree(heap, attr, pos) /\ Preorder(heap.live, attr, pos)

\* The children of p before n in the order of pos are sorted, or all of them.
SortedBefore(h, pos, p, n) ==
  \A k, m \in Kids(h, p) :
    pos[k] < pos[m] /\ pos[m] < pos[n] => attr[k].name > attr[m].name
SortedKids(h, pos, p) ==
  \A k, m \in Kids(h, p) : pos[k] < pos[m] => attr[k].name > attr[m].name

\* IChild goes into its place among the children before it, which are sorted.
SortingKids(h, pos, p, i, j) ==
  /\ i \in Kids(h, p) \cup {Null}
  /\ i # Null => /\ j \in Kids(h, p) /\ pos[j] <= pos[i]
                 /\ SortedBefore(h, pos, p, i)
                 /\ \A k \in Kids(h, p) : pos[k] < pos[j] => attr[k].name > attr[i].name
  /\ i = Null => SortedKids(h, pos, p)

\* The children of the nodes before p are sorted.
SortedTo(h, pos, p) ==
  p # 1 => /\ SortedKids(h, pos, 1)
           /\ \A k \in Kids(h, 1) : pos[k] < pos[p] => SortedKids(h, pos, k)

Sorting(pos) ==
  /\ opts.sort /\ Kept
  /\ sorting.node \in {1} \cup Kids(heap, 1)
  /\ sorting.first = heap.first[sorting.node]
  /\ SortingKids(heap, pos, sorting.node, sorting.i, sorting.j)
  /\ SortedTo(heap, pos, sorting.node)

Sorted(pos) ==
  opts.sort /\ count # 0 =>
    root = 1 /\ \A p \in {1} \cup Kids(heap, 1) : SortedKids(heap, pos, p)

Printing ==
  /\ count # 0 => count = Cardinality(heap.live)
  /\ \E pos \in Order : /\ IsTree(heap, attr, pos)
                        /\ pc = "sort" => Sorting(pos)
                        /\ pc = "done" => Sorted(pos)

IInv ==
  /\ TypeOK /\ Rooted /\ RootIsAbove /\ NamesDiffer
  /\ pc \notin {"sort", "done"} => count = 0
  /\ Building => Parsing
  /\ pc = "filter" => Filtering
  /\ pc = "removeParents" => RemovingParents
  /\ pc = "count" => Counting
  /\ pc \in {"sort", "done"} => Printing

-----------------------------------------------------------------------------
(***************************************************************************)
(* The iterator passes every node once                                     *)
(***************************************************************************)

\* The nodes that the iterator is at, one turn of the loop after another.
Visits(n, f) ==
  /\ f[0] = n
  /\ \A k \in 1..MaxNodes :
       f[k] = IF f[k - 1] = Null THEN Null ELSE NextNode(heap, f[k - 1])

\* Walk is what the turns of the iterator's loop visit.
LEMMA WalkVisits ==
  ASSUME NEW T, T = heap.live \cup {Null}, NEW n \in T,
         \A m \in heap.live : NextNode(heap, m) \in T
  PROVE  \E f : Visits(n, f) /\ Walk(n) = {k \in 0..MaxNodes : f[k] # Null}
                /\ \A k \in 0..MaxNodes : f[k] \in T
<1> DEFINE After(m) == IF m = Null THEN Null ELSE NextNode(heap, m)
           step == [x \in T \X (1..MaxNodes) |-> After(x[1])]
           Equation(f) == f = [k \in 0..MaxNodes |->
                                 IF k = 0 THEN n
                                 ELSE LET at == f[k - 1]
                                      IN  IF at = Null THEN Null ELSE NextNode(heap, at)]
<1>1. MaxNodes \in Nat
  BY MaxNodesAssumption
<1>2. \A m \in T : After(m) \in T
  OBVIOUS
<1>3. step \in [T \X (1..MaxNodes) -> T]
  BY <1>2
<1>4. \A m \in T, k \in 1..MaxNodes : step[<<m, k>>] = After(m)
  OBVIOUS
<1> HIDE DEF step
<1>5. PICK f : f \in [0..MaxNodes -> T] /\ f[0] = n
               /\ \A k \in 1..MaxNodes : f[k] = step[<<f[k - 1], k>>]
  <2>1. \E f : Ind!IsRecursion(f, T, n, MaxNodes, step)
    BY <1>1, <1>3, Ind!FunctionByRecursion
  <2> QED
    BY <2>1 DEF Ind!IsRecursion
<1>6. \A k \in 1..MaxNodes : f[k] = After(f[k - 1])
  <2> SUFFICES ASSUME NEW k \in 1..MaxNodes PROVE f[k] = After(f[k - 1])
    OBVIOUS
  <2>1. k - 1 \in 0..MaxNodes
    BY <1>1
  <2>2. f[k - 1] \in T
    BY <1>5, <2>1
  <2> QED
    BY <1>4, <1>5, <2>2
<1>7. Equation(f)
  <2>1. \A k \in 0..MaxNodes : f[k] = IF k = 0 THEN n ELSE After(f[k - 1])
    <3> SUFFICES ASSUME NEW k \in 0..MaxNodes
                 PROVE  f[k] = IF k = 0 THEN n ELSE After(f[k - 1])
      OBVIOUS
    <3>1. k = 0 \/ (k # 0 /\ k \in 1..MaxNodes)
      BY <1>1
    <3> QED
      BY <1>5, <1>6, <3>1
  <2> QED
    BY <1>5, <2>1
<1> DEFINE g == CHOOSE f_1 : Equation(f_1)
<1>8. Equation(g)
  BY <1>7
<1>9. Walk(n) = {k \in 0..MaxNodes : g[k] # Null}
  BY DEF Walk
<1>10. \A k \in 0..MaxNodes : g[k] = IF k = 0 THEN n ELSE After(g[k - 1])
  BY <1>1, <1>8
<1> HIDE DEF g, Equation
<1>11. Visits(n, g)
  <2>1. \A k \in 1..MaxNodes : g[k] = After(g[k - 1])
    <3> SUFFICES ASSUME NEW k \in 1..MaxNodes PROVE g[k] = After(g[k - 1])
      OBVIOUS
    <3>1. k \in 0..MaxNodes /\ k # 0
      BY <1>1
    <3> QED
      BY <1>10, <3>1
  <2>2. g[0] = n
    <3>1. 0 \in 0..MaxNodes
      BY <1>1
    <3> QED
      BY <1>10, <3>1, Zenon
  <2> QED
    BY <2>1, <2>2 DEF Visits
<1>12. \A k \in 0..MaxNodes : g[k] \in T
  <2> DEFINE S == {k \in Nat : k <= MaxNodes => g[k] \in T}
  <2>1. 0 \in S
    BY <1>11 DEF Visits
  <2>2. ASSUME NEW k \in Nat, k \in S PROVE k + 1 \in S
    <3> SUFFICES ASSUME k + 1 <= MaxNodes PROVE g[k + 1] \in T
      OBVIOUS
    <3>1. k + 1 \in 1..MaxNodes /\ (k + 1) - 1 = k /\ g[k] \in T
      BY <1>1, <2>2
    <3>2. g[k + 1] = After(g[k])
      BY <1>11, <3>1 DEF Visits
    <3> QED
      BY <1>2, <3>1, <3>2
  <2> HIDE DEF S
  <2>3. Nat \subseteq S
    BY <2>1, <2>2, Ind!SetInduction
  <2> QED
    BY <2>3 DEF S
<1> QED
  BY <1>9, <1>11, <1>12

\* There are as many steps of the walk as there are nodes in the tree.
LEMMA WalkCounts ==
  ASSUME NEW a, NEW pos, IsWalk(heap, a, pos)
  PROVE  /\ Cardinality(Walk(1)) = Cardinality(heap.live)
         /\ Cardinality(heap.live) \in 0..MaxNodes
<1> DEFINE L == heap.live
           T == L \cup {Null}
<1>1. /\ L \subseteq Node /\ 1 \in L /\ Null \notin L /\ MaxNodes \in Nat
      /\ \A x \in Node : pos[x] \in Nat
      /\ \A x, y \in Node : pos[x] = pos[y] => x = y
      /\ \A x \in L : x # 1 => pos[1] < pos[x]
  BY HeapTypes, PosTypes, NullIsNoNode, MaxNodesAssumption DEF IsWalk, IsTree, Preorder
<1>2. \A x \in L : IsNext(L, pos, x, NextNode(heap, x))
  BY NextNodeIsNext
<1>3. \A x \in L : NextNode(heap, x) \in T
  BY <1>2 DEF IsNext
<1>4. PICK f : /\ Visits(1, f) /\ Walk(1) = {k \in 0..MaxNodes : f[k] # Null}
               /\ \A k \in 0..MaxNodes : f[k] \in T
  BY <1>1, <1>3, WalkVisits
<1>5. f[0] = 1 /\ 0 \in 0..MaxNodes
  BY <1>1, <1>4 DEF Visits
<1>6. ASSUME NEW k \in Nat, k + 1 <= MaxNodes
      PROVE  /\ f[k] \in T /\ f[k + 1] \in T
             /\ f[k] = Null => f[k + 1] = Null
             /\ f[k] # Null => f[k] \in L /\ IsNext(L, pos, f[k], f[k + 1])
  <2>1. k \in 0..MaxNodes /\ k + 1 \in 0..MaxNodes /\ k + 1 \in 1..MaxNodes /\ (k + 1) - 1 = k
    BY <1>1, <1>6
  <2>2. f[k + 1] = IF f[k] = Null THEN Null ELSE NextNode(heap, f[k])
    BY <1>4, <2>1 DEF Visits
  <2>3. f[k] \in T /\ f[k + 1] \in T
    BY <1>4, <2>1
  <2> QED
    BY <1>2, <2>2, <2>3
<1> DEFINE Before(j) == \A i \in 0..(j - 1) : f[i] # Null /\ pos[f[i]] < pos[f[j]]
<1>7. \A j \in 0..MaxNodes : f[j] # Null => Before(j)
  <2> DEFINE S == {j \in Nat : j <= MaxNodes /\ f[j] # Null => Before(j)}
  <2>1. 0 \in S
    OBVIOUS
  <2>2. ASSUME NEW j \in Nat, j \in S PROVE j + 1 \in S
    <3> SUFFICES ASSUME j + 1 <= MaxNodes, f[j + 1] # Null, NEW i \in 0..((j + 1) - 1)
                 PROVE  f[i] # Null /\ pos[f[i]] < pos[f[j + 1]]
      OBVIOUS
    <3>1. f[j] # Null /\ f[j] \in L /\ IsNext(L, pos, f[j], f[j + 1]) /\ j <= MaxNodes
      BY <1>1, <1>6
    <3>2. f[j + 1] \in L /\ pos[f[j]] < pos[f[j + 1]]
      BY <3>1 DEF IsNext
    <3>3. CASE i = j
      BY <3>1, <3>2, <3>3
    <3>4. CASE i # j
      <4>1. i \in 0..(j - 1) /\ i \in 0..MaxNodes
        BY <1>1, <3>1, <3>4
      <4>2. f[i] # Null /\ pos[f[i]] < pos[f[j]]
        BY <2>2, <3>1, <4>1
      <4>3. f[i] \in L
        BY <1>4, <4>1, <4>2
      <4>4. pos[f[i]] \in Nat /\ pos[f[j]] \in Nat /\ pos[f[j + 1]] \in Nat
        BY <1>1, <3>1, <3>2, <4>3
      <4> QED
        BY <3>2, <4>2, <4>4
    <3> QED
      BY <3>3, <3>4
  <2> HIDE DEF S
  <2>3. Nat \subseteq S
    BY <2>1, <2>2, Ind!SetInduction
  <2> QED
    BY <2>3 DEF S
<1>8. \A i, j \in 0..MaxNodes : f[i] # Null /\ f[j] # Null /\ f[i] = f[j] => i = j
  <2>1. ASSUME NEW i \in 0..MaxNodes, NEW j \in 0..MaxNodes, f[i] # Null, f[j] # Null, i < j
        PROVE  f[i] # f[j]
    <3>1. i \in 0..(j - 1)
      BY <1>1, <2>1
    <3>2. pos[f[i]] < pos[f[j]]
      BY <1>7, <2>1, <3>1
    <3>3. f[i] \in Node
      BY <1>1, <1>4, <2>1
    <3> QED
      BY <1>1, <3>2, <3>3
  <2> QED
    BY <2>1
<1>9. ASSUME NEW x \in L, \A k \in 0..MaxNodes : f[k] # x PROVE FALSE
  <2> DEFINE S == {k \in Nat : k <= MaxNodes => f[k] # Null /\ pos[f[k]] < pos[x]}
  <2>1. 0 \in S
    BY <1>1, <1>5, <1>9
  <2>2. ASSUME NEW k \in Nat, k \in S PROVE k + 1 \in S
    <3> SUFFICES ASSUME k + 1 <= MaxNodes
                 PROVE  f[k + 1] # Null /\ pos[f[k + 1]] < pos[x]
      OBVIOUS
    <3>1. f[k] # Null /\ pos[f[k]] < pos[x] /\ k + 1 \in 0..MaxNodes
      BY <1>1, <2>2
    <3>2. f[k] \in L /\ IsNext(L, pos, f[k], f[k + 1])
      BY <1>6, <3>1
    <3>3. f[k + 1] # x
      BY <1>9, <3>1
    <3>4. pos[f[k]] \in Nat /\ pos[x] \in Nat
      BY <1>1, <3>2
    <3>5. f[k + 1] # Null
      BY <3>1, <3>2, <3>4 DEF IsNext
    <3>6. f[k + 1] \in L /\ pos[f[k + 1]] <= pos[x]
      BY <3>1, <3>2, <3>5 DEF IsNext
    <3>7. pos[f[k + 1]] # pos[x]
      BY <1>1, <3>3, <3>6
    <3>8. pos[f[k + 1]] \in Nat
      BY <1>1, <3>6
    <3> QED
      BY <3>4, <3>5, <3>6, <3>7, <3>8
  <2> HIDE DEF S
  <2>3. Nat \subseteq S
    BY <2>1, <2>2, Ind!SetInduction
  <2>4. \A k \in 0..MaxNodes : f[k] # Null
    BY <2>3 DEF S
  <2> DEFINE g == [k \in 0..MaxNodes |-> f[k]]
  <2>5. g \in [0..MaxNodes -> Node]
    BY <1>1, <1>4, <2>4
  <2>6. \A i, j \in 0..MaxNodes : g[i] = g[j] => i = j
    BY <1>8, <2>4
  <2>7. IsFiniteSet(0..MaxNodes) /\ Cardinality(0..MaxNodes) = MaxNodes + 1
    BY <1>1, FS_Interval
  <2>8. IsFiniteSet(Node) /\ Cardinality(Node) < Cardinality(0..MaxNodes)
    BY <1>1, <2>7, NodeCount
  <2> HIDE DEF g
  <2>9. \E i, j \in 0..MaxNodes : i # j /\ g[i] = g[j]
    BY <2>5, <2>7, <2>8, FS_PigeonHole
  <2> QED
    BY <2>6, <2>9
<1> DEFINE W == Walk(1)
           b == [k \in W |-> f[k]]
<1>10. b \in Bijection(W, L)
  <2>1. \A k \in W : k \in 0..MaxNodes /\ f[k] # Null /\ f[k] \in L
    BY <1>4
  <2>2. b \in [W -> L]
    BY <2>1
  <2>3. \A i, j \in W : b[i] = b[j] => i = j
    BY <1>8, <2>1
  <2>4. \A x \in L : \E k \in W : b[k] = x
    <3> SUFFICES ASSUME NEW x \in L PROVE \E k \in W : b[k] = x
      OBVIOUS
    <3>1. PICK k \in 0..MaxNodes : f[k] = x
      BY <1>9
    <3>2. k \in W
      BY <1>1, <1>4, <3>1
    <3> QED
      BY <3>1, <3>2
  <2> HIDE DEF b, W
  <2> QED
    BY <2>2, <2>3, <2>4 DEF Bijection, Injection, Surjection, IsInjective
<1> HIDE DEF b
<1>11. IsFiniteSet(W)
  <2>1. IsFiniteSet(0..MaxNodes) /\ W \in SUBSET (0..MaxNodes)
    BY <1>1, <1>4, FS_Interval
  <2> HIDE DEF W
  <2> QED
    BY <2>1, FS_Subset
<1>12. Cardinality(L) = Cardinality(W)
  <2>1. ExistsBijection(W, L)
    BY <1>10 DEF ExistsBijection
  <2> HIDE DEF W, L
  <2> QED
    BY <1>11, <2>1, FS_Bijection
<1>13. Cardinality(L) \in 0..MaxNodes
  <2>1. IsFiniteSet(Node) /\ Cardinality(Node) = MaxNodes
    BY NodeCount
  <2>2. IsFiniteSet(L) /\ Cardinality(L) <= MaxNodes
    BY <1>1, <2>1, FS_Subset
  <2>3. Cardinality(L) \in Nat
    BY <2>2, FS_CardinalityType
  <2> QED
    BY <1>1, <2>2, <2>3
<1> QED
  BY <1>12, <1>13

-----------------------------------------------------------------------------
(***************************************************************************)
(* The steps of the parse                                                  *)
(***************************************************************************)

\* A tree with a root is one the iterator can walk.
LEMMA TreeIsWalk ==
  ASSUME TypeOK, Rooted, RootIsAbove, root # Null,
         NEW pos \in Order, IsTree(heap, attr, pos), Preorder(heap.live, attr, pos)
  PROVE  IsWalk(heap, attr, pos) /\ root = 1 /\ 1 \in heap.live
<1>1. parse.made \in Nat /\ attr \in [Node -> Attr] /\ root = 1 /\ 1 \in heap.live
      /\ heap.live \subseteq 1..parse.made
  BY MaxNodesAssumption DEF TypeOK, Rooted, Made
<1>2. \A n \in heap.live : n # 1 => n \in 2..parse.made
  BY <1>1
<1> QED
  BY <1>1, <1>2 DEF RootIsAbove, IsWalk

\* The invariant holds before the first entry is read.
LEMMA IInvInit == Init => IInv
<1> SUFFICES ASSUME Init PROVE IInv
  OBVIOUS
<1>1. /\ heap.live = {} /\ heap \in Heap
      /\ \A n \in Node : /\ heap.parent[n] = Null /\ heap.first[n] = Null
                         /\ heap.prev[n] = Null /\ heap.next[n] = Null
  BY DEF Init, EmptyHeap, Heap, Ptr
<1>2. parse.made = 0 /\ root = Null /\ pc = "parse" /\ count = 0 /\ Made = {}
  BY DEF Init, Made
<1>3. TypeOK
  <2>1. attr \in [Node -> Attr]
    BY DEF Init, Attr, Node
  <2>2. parse \in [parent : Ptr, depth : Nat, up : Nat, made : 0..MaxNodes, open : BOOLEAN]
    BY MaxNodesAssumption DEF Init, Ptr
  <2>3. /\ opts \in [require : Requirements, sort : SortOptions]
        /\ filter \in [iter : Ptr, victim : Ptr, next : Ptr, child : Ptr]
        /\ sorting \in [node : Ptr, first : Ptr, i : Ptr, j : Ptr]
        /\ root \in Ptr /\ count \in 0..MaxNodes
    BY MaxNodesAssumption DEF Init, Ptr
  <2> QED
    BY <1>1, <1>2, <2>1, <2>2, <2>3 DEF TypeOK
<1>4. Parsing
  <2> DEFINE pos == [n \in Node |-> n]
  <2>1. pos \in Order
    BY DEF Order, Node
  <2>2. IsTree(heap, attr, pos) /\ Preorder(heap.live, attr, pos)
    <3> HIDE DEF pos
    <3> QED
      BY <1>1 DEF IsTree, Preorder, Parents, NextInOrder, PrevInOrder, FirstInOrder, DeadAreClear
  <2>3. Lasts(heap, heap.live)
    BY <1>1 DEF Lasts
  <2> HIDE DEF pos
  <2> QED
    BY <1>1, <1>2, <2>1, <2>2, <2>3 DEF Parsing
<1>5. Rooted /\ RootIsAbove /\ NamesDiffer
  BY <1>1, <1>2 DEF Rooted, RootIsAbove, NamesDiffer
<1> QED
  BY <1>2, <1>3, <1>4, <1>5 DEF IInv

\* MakeNode keeps the strings of the nodes different, if they matter.
LEMMA MakeNodeNames ==
  ASSUME TypeOK, NEW n, n = parse.made + 1, n \in Node, NEW d, NEW e,
         MakeNode(n, d, e), NamesDiffer
  PROVE  /\ attr'[n].export = e /\ attr'[n].depth = d
         /\ \A k \in Node \ {n} : attr'[k] = attr[k]
         /\ opts.sort => \A j, k \in 1..n : attr'[j].name = attr'[k].name => j = k
<1>1. PICK meets \in BOOLEAN, name \in FreshNames :
        attr' = [attr EXCEPT ![n] = [export |-> e, meets |-> meets, name |-> name, depth |-> d]]
  BY DEF MakeNode
<1>2. attr \in [Node -> Attr] /\ parse.made \in 0..MaxNodes /\ n \in 1..MaxNodes
      /\ MaxNodes \in Nat
  BY MaxNodesAssumption DEF TypeOK, Node
<1>3. /\ attr'[n].export = e /\ attr'[n].depth = d /\ attr'[n].name = name
      /\ \A k \in Node \ {n} : attr'[k] = attr[k]
  BY <1>1, <1>2
<1>4. ASSUME opts.sort, NEW j \in 1..n, NEW k \in 1..n, attr'[j].name = attr'[k].name
      PROVE  j = k
  <2>1. \A m \in 1..parse.made : name # attr[m].name
    BY <1>1, <1>4 DEF FreshNames
  <2>2. \A m \in 1..n : m # n => m \in 1..parse.made /\ m \in Node /\ attr'[m] = attr[m]
    BY <1>2, <1>3 DEF Node
  <2>3. \A x, y \in 1..parse.made : attr[x].name = attr[y].name => x = y
    BY <1>4 DEF NamesDiffer, Made
  <2> QED
    BY <1>3, <1>4, <2>1, <2>2, <2>3
<1> QED
  BY <1>3, <1>4

\* The first entry is the root, alone in its tree.
LEMMA ParseRootKeeps ==
  ASSUME IInv, BuildInv, BuildInv', ParseRoot
  PROVE  IInv'
<1>1. /\ TypeOK /\ Rooted /\ NamesDiffer /\ Parsing /\ pc = "parse" /\ root = Null
      /\ count = 0 /\ MaxNodes > 1 /\ heap.live = {}
  BY DEF IInv, ParseRoot, Building, Rooted
<1>2. /\ pc' = "parse" /\ root' = 1 /\ heap' = Allocate(heap, 1) /\ count' = 0
      /\ parse' = [parent |-> 1, depth |-> 1, up |-> 0, made |-> 1, open |-> TRUE]
      /\ UNCHANGED <<opts, filter, sorting, count>> /\ MakeNode(1, 1, FALSE)
  BY <1>1, Zenon DEF ParseRoot
<1>3. 1 \in Node /\ MaxNodes \in Nat /\ 1 # Null
  BY <1>1, MaxNodesAssumption, NullIsNoNode DEF Node
<1>4. parse.made = 0
  <2>1. parse.made \in Nat
    BY <1>1, MaxNodesAssumption DEF TypeOK
  <2>2. 1 \notin 1..parse.made
    BY <1>1 DEF Parsing, Made
  <2> QED
    BY <2>1, <2>2
<1>5. /\ heap' \in Heap /\ heap'.live = {1} /\ heap'.parent = heap.parent
      /\ heap'.first = heap.first /\ heap'.prev = heap.prev /\ heap'.next = heap.next
  BY <1>1, <1>2, <1>3 DEF Allocate, Heap, TypeOK
<1>6. TypeOK'
  <2>1. heap' \in Heap /\ root' \in Ptr /\ attr' \in [Node -> Attr]
    BY <1>2 DEF BuildInv, Building, BuildTypes
  <2>2. parse' \in ParseState /\ parse'.made \in 0..MaxNodes
    BY <1>2, <1>3 DEF BuildInv, Building, BuildTypes
  <2>3. parse' \in [parent : Ptr, depth : Nat, up : Nat, made : 0..MaxNodes, open : BOOLEAN]
    BY <2>2 DEF ParseState
  <2> QED
    BY <1>1, <1>2, <2>1, <2>3 DEF TypeOK
<1>7. parse'.made = 1 /\ parse'.parent = 1 /\ parse'.open
  BY <1>2
<1>8. ~attr'[1].export /\ (opts.sort => \A j, k \in 1..1 : attr'[j].name = attr'[k].name => j = k)
  <2>1. 1 = parse.made + 1
    BY <1>4
  <2>2. attr'[1].export = FALSE
    BY <1>1, <1>2, <1>3, <2>1, MakeNodeNames, ZenonT(60)
  <2>3. \A j, k \in 1..1 : j = k
    OBVIOUS
  <2> QED
    BY <2>2, <2>3
<1>9. PICK pos \in Order : IsTree(heap, attr, pos)
  BY <1>1 DEF Parsing
<1>10. \A n \in Node : /\ heap'.parent[n] = Null /\ heap'.first[n] = Null
                       /\ heap'.prev[n] = Null /\ heap'.next[n] = Null
  BY <1>1, <1>5, <1>9 DEF IsTree, DeadAreClear
<1>11. IsTree(heap', attr', pos)
  <2>1. Parents(heap', attr')
    BY <1>3, <1>5, <1>10 DEF Parents
  <2>2. NextInOrder(heap', pos) /\ PrevInOrder(heap', pos)
    <3>1. \A k \in Kids(heap', heap'.parent[1]) : k = 1
      BY <1>5 DEF Kids
    <3>2. pos[1] \in Nat
      BY <1>3, PosTypes
    <3> QED
      BY <1>3, <1>5, <1>10, <3>1, <3>2 DEF NextInOrder, PrevInOrder
  <2>3. FirstInOrder(heap', pos)
    BY <1>3, <1>5, <1>10 DEF FirstInOrder, Kids
  <2>4. DeadAreClear(heap')
    BY <1>10 DEF DeadAreClear
  <2> QED
    BY <1>5, <2>1, <2>2, <2>3, <2>4 DEF IsTree
<1>12. Preorder(heap'.live, attr', pos)
  BY <1>5 DEF Preorder, Below
<1>13. Parsing'
  <2>1. Made' = {1} /\ heap'.live = Made'
    BY <1>5, <1>7 DEF Made
  <2>2. Lasts(heap', heap'.live)
    BY <1>3, <1>5, <1>10 DEF Lasts
  <2> QED
    BY <1>2, <1>7, <1>11, <1>12, <2>1, <2>2 DEF Parsing
<1>14. Rooted' /\ RootIsAbove' /\ NamesDiffer'
  BY <1>2, <1>3, <1>5, <1>7, <1>8 DEF Rooted, RootIsAbove, NamesDiffer, Made
<1> QED
  BY <1>2, <1>6, <1>13, <1>14 DEF IInv

\* Reading an entry changes no pointer.
LEMMA ReadEntryKeeps ==
  ASSUME IInv, BuildInv', NEW d \in 2..MaxNodes, NEW open \in BOOLEAN, ReadEntry(d, open)
  PROVE  IInv'
<1>1. /\ TypeOK /\ Rooted /\ RootIsAbove /\ NamesDiffer /\ Parsing /\ pc = "parse"
      /\ count = 0
  BY DEF IInv, ReadEntry, Building
<1>2. /\ pc' = "attach"
      /\ parse' = [parse EXCEPT !.depth = d, !.open = open,
                     !.up = IF parse.depth > d THEN parse.depth - d ELSE 0]
      /\ heap' = heap /\ root' = root /\ attr' = attr /\ opts' = opts
      /\ filter' = filter /\ sorting' = sorting /\ count' = count
      /\ IF parse.open THEN d = parse.depth + 1 ELSE d <= parse.depth
  BY DEF ReadEntry
<1>3. /\ parse \in [parent : Ptr, depth : Nat, up : Nat, made : 0..MaxNodes, open : BOOLEAN]
      /\ parse.depth \in Nat /\ d \in Nat /\ MaxNodes \in Nat
  BY <1>1, MaxNodesAssumption DEF TypeOK
<1>4. /\ parse'.made = parse.made /\ parse'.parent = parse.parent
      /\ parse'.up = IF parse.depth > d THEN parse.depth - d ELSE 0
  BY <1>2, <1>3
<1>5. TypeOK'
  <2> DEFINE u == IF parse.depth > d THEN parse.depth - d ELSE 0
  <2>1. u \in Nat
    BY <1>3
  <2> HIDE DEF u
  <2>2. parse' = [parse EXCEPT !.depth = d, !.open = open, !.up = u]
    BY <1>2 DEF u
  <2>3. parse' \in [parent : Ptr, depth : Nat, up : Nat, made : 0..MaxNodes, open : BOOLEAN]
    BY <1>3, <2>1, <2>2
  <2> QED
    BY <1>1, <1>2, <2>3 DEF TypeOK
<1>6. parse.open => parse'.up = 0
  BY <1>2, <1>3, <1>4
<1>7. Parsing'
  BY <1>1, <1>2, <1>4, <1>6 DEF Parsing, Made, IsLeaf
<1>8. Rooted' /\ RootIsAbove' /\ NamesDiffer'
  BY <1>1, <1>2, <1>4 DEF Rooted, RootIsAbove, NamesDiffer, Made
<1> QED
  BY <1>1, <1>2, <1>5, <1>7, <1>8 DEF IInv

\* Nor does the climb.
LEMMA MoveUpKeeps ==
  ASSUME IInv, BuildInv', MoveUp
  PROVE  IInv'
<1>1. /\ TypeOK /\ Rooted /\ RootIsAbove /\ NamesDiffer /\ Parsing /\ pc = "attach"
      /\ count = 0 /\ parse.up # 0
  BY DEF IInv, MoveUp, Building
<1>2. /\ pc' = pc /\ parse' = [parse EXCEPT !.parent = heap.parent[@], !.up = @ - 1]
      /\ heap' = heap /\ root' = root /\ attr' = attr /\ opts' = opts
      /\ filter' = filter /\ sorting' = sorting /\ count' = count
  BY DEF MoveUp
<1>3. parse \in [parent : Ptr, depth : Nat, up : Nat, made : 0..MaxNodes, open : BOOLEAN]
  BY <1>1 DEF TypeOK
<1>4. parse'.made = parse.made
  BY <1>2, <1>3
<1>5. TypeOK'
  <2>1. parse' \in ParseState
    BY <1>1, <1>2 DEF BuildInv, Building, BuildTypes
  <2>2. parse'.made \in 0..MaxNodes
    BY <1>3, <1>4
  <2>3. parse' \in [parent : Ptr, depth : Nat, up : Nat, made : 0..MaxNodes, open : BOOLEAN]
    BY <2>1, <2>2 DEF ParseState
  <2> QED
    BY <1>1, <1>2, <2>3 DEF TypeOK
<1>6. \A n \in Made : ~(IsLeaf(heap, n) /\ ~attr[n].export)
  BY <1>1 DEF Parsing
<1>7. Parsing'
  BY <1>1, <1>2, <1>4, <1>6 DEF Parsing, Made, IsLeaf
<1>8. Rooted' /\ RootIsAbove' /\ NamesDiffer'
  BY <1>1, <1>2, <1>4 DEF Rooted, RootIsAbove, NamesDiffer, Made
<1> QED
  BY <1>1, <1>2, <1>5, <1>7, <1>8 DEF IInv

\* What Attach assigns.
LEMMA AttachEffect ==
  ASSUME IInv, BuildInv, BuildInv', Attach, NEW n, n = parse.made + 1, NEW p, p = parse.parent
  PROVE  /\ TypeOK /\ Rooted /\ RootIsAbove /\ NamesDiffer /\ Parsing /\ TypeOK'
         /\ count = 0 /\ root = 1 /\ root # Null
         /\ n \in Node /\ n # 1 /\ p \in heap.live /\ parse.up = 0
         /\ heap' = AddChildrenRaw(Allocate(heap, n), p, n)
         /\ pc' = "parse" /\ root' = root /\ opts' = opts /\ count' = count
         /\ parse'.made = n /\ parse'.parent = (IF parse.open THEN n ELSE p)
         /\ parse'.open = parse.open
         /\ \E export \in BOOLEAN : (export \/ parse.open) /\ MakeNode(n, parse.depth, export)
<1>1. /\ TypeOK /\ Rooted /\ RootIsAbove /\ NamesDiffer /\ Parsing /\ pc = "attach"
      /\ count = 0 /\ parse.up = 0
  BY DEF IInv, Attach, Building
<1>2. BuildTypes /\ BuildTypes' /\ root # Null /\ root = 1
  BY <1>1 DEF BuildInv, Building, BuildTypes, Attach
<1>3. /\ heap' = AddChildrenRaw(Allocate(heap, n), p, n)
      /\ pc' = "parse" /\ root' = root /\ opts' = opts /\ count' = count
      /\ filter' = filter /\ sorting' = sorting
      /\ parse' = [parse EXCEPT !.made = n, !.parent = IF parse.open THEN n ELSE p]
      /\ \E export \in BOOLEAN : (export \/ parse.open) /\ MakeNode(n, parse.depth, export)
  BY Zenon DEF Attach
<1>4. /\ parse \in [parent : Ptr, depth : Nat, up : Nat, made : 0..MaxNodes, open : BOOLEAN]
      /\ parse.made \in Nat /\ MaxNodes \in Nat
  BY <1>1, MaxNodesAssumption DEF TypeOK
<1>5. parse.made < MaxNodes /\ p \in 1..parse.made
  BY <1>1, <1>2 DEF BuildTypes
<1>6. n \in Node /\ n # 1 /\ p \in heap.live
  BY <1>1, <1>4, <1>5 DEF Node, Parsing, Made
<1>7. /\ parse'.made = n /\ parse'.open = parse.open
      /\ parse'.parent = (IF parse.open THEN n ELSE p)
  <2> DEFINE q == IF parse.open THEN n ELSE p
  <2>1. parse' = [parse EXCEPT !.made = n, !.parent = q]
    BY <1>3
  <2> HIDE DEF q
  <2>2. parse'.made = n /\ parse'.open = parse.open /\ parse'.parent = q
    BY <1>4, <2>1
  <2> QED
    BY <2>2 DEF q
<1>8. TypeOK'
  <2>1. parse' \in ParseState /\ parse'.made \in 0..MaxNodes
    BY <1>2, <1>4, <1>6, <1>7 DEF BuildTypes, Node
  <2>2. parse' \in [parent : Ptr, depth : Nat, up : Nat, made : 0..MaxNodes, open : BOOLEAN]
    BY <2>1 DEF ParseState
  <2>3. heap' \in Heap /\ root' \in Ptr /\ attr' \in [Node -> Attr]
    BY <1>2 DEF BuildTypes
  <2> QED
    BY <1>1, <1>3, <2>2, <2>3 DEF TypeOK
<1> QED
  BY <1>1, <1>2, <1>3, <1>6, <1>7, <1>8

\* The new node comes last in the order.
LEMMA AttachTree ==
  ASSUME IInv, BuildInv, BuildInv', Attach, NEW n, n = parse.made + 1, NEW p, p = parse.parent
  PROVE  /\ heap.live = 1..(n - 1) /\ attr'[n].depth = parse.depth /\ parse.depth > 1
         /\ attr[1].depth = 1
         /\ \A k \in heap.live : attr'[k] = attr[k] /\ k # n
         /\ Below(attr', n, p) /\ \A k \in heap.live : Below(attr', n, k) => k <= p
         /\ Added(heap, p, n, heap')
         /\ \E pos, pos2 \in Order :
              /\ IsWalk(heap, attr, pos) /\ IsAddOrder(heap, attr, pos, p, n, pos2)
              /\ IsTree(heap', attr', pos2)
<1>1. /\ TypeOK /\ Rooted /\ RootIsAbove /\ NamesDiffer /\ Parsing /\ TypeOK'
      /\ count = 0 /\ root = 1 /\ root # Null
      /\ n \in Node /\ n # 1 /\ p \in heap.live /\ parse.up = 0
      /\ heap' = AddChildrenRaw(Allocate(heap, n), p, n)
      /\ pc' = "parse" /\ root' = root /\ opts' = opts /\ count' = count
      /\ parse'.made = n /\ parse'.parent = (IF parse.open THEN n ELSE p)
      /\ parse'.open = parse.open
      /\ \E export \in BOOLEAN : (export \/ parse.open) /\ MakeNode(n, parse.depth, export)
  BY AttachEffect, Zenon
<1>2. /\ heap.live = 1..parse.made /\ parse.made \in Nat /\ attr \in [Node -> Attr]
      /\ attr' \in [Node -> Attr] /\ heap.live \subseteq Node /\ parse.depth \in Nat
      /\ \A m \in Node : attr[m].depth \in Nat
  BY <1>1, MaxNodesAssumption, HeapTypes DEF TypeOK, Parsing, Made, Attr
<1>3. heap.live = 1..(n - 1)
  BY <1>2
<1>4. PICK export \in BOOLEAN : (export \/ parse.open) /\ MakeNode(n, parse.depth, export)
  BY <1>1
<1>5. /\ attr'[n].export = export /\ attr'[n].depth = parse.depth
      /\ \A k \in Node \ {n} : attr'[k] = attr[k]
      /\ opts.sort => \A j, k \in 1..n : attr'[j].name = attr'[k].name => j = k
  <2>1. TypeOK /\ NamesDiffer /\ n \in Node /\ MakeNode(n, parse.depth, export)
    BY <1>1, <1>4
  <2> QED
    BY <2>1, MakeNodeNames
<1>6. \A k \in heap.live : attr'[k] = attr[k] /\ k # n
  BY <1>2, <1>3, <1>5
<1>7. PICK pos \in Order : IsTree(heap, attr, pos) /\ Preorder(heap.live, attr, pos)
  BY <1>1 DEF Parsing
<1>8. IsWalk(heap, attr, pos)
  BY <1>1, <1>7, TreeIsWalk
<1>9. /\ attr[p].depth + 1 = parse.depth /\ parse.depth > 1 /\ attr[1].depth = 1
      /\ \A m \in (p + 1)..parse.made : attr[m].depth > attr[p].depth
  <2>1. Climb /\ BuildTypes /\ pc = "attach"
    BY DEF Attach, BuildInv, Building
  <2> QED
    BY <1>1, <1>2, <2>1 DEF Climb, BuildTypes
<1>10. Below(attr', n, p) /\ \A k \in heap.live : Below(attr', n, k) => k <= p
  <2>1. p \in 1..parse.made /\ attr'[p] = attr[p]
    BY <1>1, <1>2, <1>6
  <2>2. ASSUME NEW m \in (p + 1)..n PROVE attr'[m].depth > attr'[p].depth
    <3>1. CASE m = n
      BY <1>2, <1>5, <1>9, <2>1, <3>1
    <3>2. CASE m # n
      <4>1. m \in (p + 1)..parse.made /\ m \in 1..parse.made
        BY <1>2, <2>1, <2>2, <3>2
      <4> QED
        BY <1>2, <1>6, <1>9, <2>1, <4>1
    <3> QED
      BY <3>1, <3>2
  <2>3. Below(attr', n, p)
    BY <1>2, <2>1, <2>2 DEF Below
  <2>4. ASSUME NEW k \in heap.live, Below(attr', n, k) PROVE k <= p
    <3>1. k \in 1..parse.made /\ attr'[k] = attr[k] /\ n \in (k + 1)..n
      BY <1>2, <1>6, <2>4
    <3>2. attr'[n].depth > attr'[k].depth
      BY <2>4, <3>1 DEF Below
    <3>3. CASE k > p
      <4>1. attr[k].depth > attr[p].depth
        BY <1>2, <1>9, <2>1, <3>1, <3>3, SMTT(30)
      <4>2. attr[k].depth \in Nat /\ attr[p].depth \in Nat
        BY <1>1, <1>2
      <4>3. attr[p].depth + 1 > attr[k].depth
        BY <1>5, <1>9, <3>1, <3>2
      <4> QED
        BY <4>1, <4>2, <4>3
    <3> QED
      BY <1>2, <2>1, <3>1, <3>3
  <2> QED
    BY <2>3, <2>4
<1>11. n \notin heap.live
  BY <1>6
<1>12. Added(heap, p, n, heap')
  BY <1>1, <1>8, <1>11, AttachFields DEF Parsing
<1>13. PICK pos2 \in Order : IsAddOrder(heap, attr, pos, p, n, pos2)
  BY <1>1, <1>8, <1>11, AddOrder
<1>14. IsTree(heap', attr', pos2)
  BY <1>1, <1>2, <1>3, <1>6, <1>8, <1>10, <1>12, <1>13, AddedTree
<1> QED
  BY <1>3, <1>5, <1>6, <1>8, <1>9, <1>10, <1>12, <1>13, <1>14

\* The new node keeps what is known of the others, and is itself well made.
LEMMA AttachKeeps ==
  ASSUME IInv, BuildInv, BuildInv', Attach
  PROVE  IInv'
<1> SUFFICES ASSUME NEW n, n = parse.made + 1, NEW p, p = parse.parent PROVE IInv'
  OBVIOUS
<1>1. /\ TypeOK /\ Rooted /\ RootIsAbove /\ NamesDiffer /\ Parsing /\ TypeOK'
      /\ count = 0 /\ root = 1 /\ root # Null
      /\ n \in Node /\ n # 1 /\ p \in heap.live /\ parse.up = 0
      /\ heap' = AddChildrenRaw(Allocate(heap, n), p, n)
      /\ pc' = "parse" /\ root' = root /\ opts' = opts /\ count' = count
      /\ parse'.made = n /\ parse'.parent = (IF parse.open THEN n ELSE p)
      /\ parse'.open = parse.open
      /\ \E export \in BOOLEAN : (export \/ parse.open) /\ MakeNode(n, parse.depth, export)
  BY AttachEffect, Zenon
<1>2. /\ heap.live = 1..parse.made /\ parse.made \in Nat /\ attr \in [Node -> Attr]
      /\ attr' \in [Node -> Attr] /\ heap.live \subseteq Node /\ parse.depth \in Nat
      /\ \A m \in Node : attr[m].depth \in Nat
  BY <1>1, MaxNodesAssumption, HeapTypes DEF TypeOK, Parsing, Made, Attr
<1>3. /\ heap.live = 1..(n - 1) /\ attr'[n].depth = parse.depth /\ parse.depth > 1
      /\ attr[1].depth = 1
      /\ \A k \in heap.live : attr'[k] = attr[k] /\ k # n
      /\ Below(attr', n, p) /\ \A k \in heap.live : Below(attr', n, k) => k <= p
      /\ Added(heap, p, n, heap')
  BY AttachTree
<1>4. PICK export \in BOOLEAN : (export \/ parse.open) /\ MakeNode(n, parse.depth, export)
  BY <1>1
<1>5. /\ attr'[n].export = export /\ attr'[n].depth = parse.depth
      /\ \A k \in Node \ {n} : attr'[k] = attr[k]
      /\ opts.sort => \A j, k \in 1..n : attr'[j].name = attr'[k].name => j = k
  <2>1. TypeOK /\ NamesDiffer /\ n \in Node /\ MakeNode(n, parse.depth, export)
    BY <1>1, <1>4
  <2> QED
    BY <2>1, MakeNodeNames
<1>6. n \notin heap.live
  BY <1>3
<1>7. PICK pos, pos2 \in Order :
        /\ IsWalk(heap, attr, pos) /\ IsAddOrder(heap, attr, pos, p, n, pos2)
        /\ IsTree(heap', attr', pos2)
  BY AttachTree
<1>8. heap'.live = heap.live \cup {n}
  BY <1>3 DEF Added
<1>9. Preorder(heap'.live, attr', pos2)
  <2>1. n \in Node /\ p \in heap.live /\ n # 1 /\ attr' \in [Node -> Attr]
        /\ \A k \in heap.live : attr'[k] = attr[k]
    BY <1>1, <1>2, <1>3
  <2>2. Preorder(heap.live \cup {n}, attr', pos2)
    BY <1>3, <1>7, <2>1, AddedPreorder
  <2> QED
    BY <1>8, <2>2
<1>10. Made' = 1..n /\ heap'.live = Made'
  <2>1. Made' = 1..n
    BY <1>1 DEF Made
  <2>2. n \in Nat /\ n > 0
    BY <1>2
  <2>3. (1..(n - 1)) \cup {n} = 1..n
    BY <2>2
  <2> QED
    BY <1>3, <1>8, <2>1, <2>3
<1>11. p \in Node /\ p # n /\ n # Null
  BY <1>1, <1>2, <1>3, NullIsNoNode
<1>12. \A k \in Node :
         /\ heap'.first[k] = IF k = p /\ heap.first[p] = Null THEN n ELSE heap.first[k]
         /\ heap'.last[k] = IF k = p /\ heap.first[p] = Null THEN n ELSE heap.last[k]
  BY <1>3 DEF Added
<1>13. Parsing'
  <2>1. Lasts(heap', heap'.live)
    <3> SUFFICES ASSUME NEW k \in heap'.live, heap'.first[k] # Null
                 PROVE  heap'.last[k] = heap'.first[k]
      BY DEF Lasts
    <3>1. CASE k = n
      <4>1. heap.first[n] = Null
        BY <1>1, <1>6, <1>7 DEF IsWalk, IsTree, DeadAreClear
      <4> QED
        BY <1>1, <1>11, <1>12, <3>1, <4>1
    <3>2. CASE k # n
      <4>1. k \in heap.live /\ k \in Node
        BY <1>2, <1>8, <3>2
      <4>2. heap.first[k] # Null => heap.last[k] = heap.first[k]
        BY <1>1, <4>1 DEF Parsing, Lasts
      <4> QED
        BY <1>12, <4>1, <4>2
    <3> QED
      BY <3>1, <3>2
  <2>2. ASSUME NEW k \in Made', IsLeaf(heap', k), ~attr'[k].export
        PROVE  k = n /\ parse'.parent = n /\ parse.open
    <3>1. k \in heap.live \cup {n}
      BY <1>8, <1>10
    <3>2. CASE k = n
      BY <1>1, <1>4, <1>5, <2>2, <3>2
    <3>3. CASE k # n
      <4>1. k \in heap.live /\ k \in Node /\ attr'[k] = attr[k] /\ k \in Made
        BY <1>1, <1>2, <1>3, <3>1, <3>3 DEF Parsing
      <4>2. k # p /\ heap.first[k] = Null
        BY <1>11, <1>12, <2>2, <4>1 DEF IsLeaf
      <4>3. k = p
        BY <1>1, <2>2, <4>1, <4>2 DEF Parsing, IsLeaf
      <4> QED
        BY <4>2, <4>3
    <3> QED
      BY <3>2, <3>3
  <2> QED
    BY <1>1, <1>7, <1>9, <1>10, <2>1, <2>2 DEF Parsing
<1>14. RootIsAbove'
  <2>1. ~attr'[1].export /\ attr'[1].depth = 1
    <3>1. 1 \in heap.live
      BY <1>1 DEF Rooted
    <3>2. ~attr[1].export
      BY <1>1 DEF RootIsAbove
    <3> QED
      BY <1>3, <3>1, <3>2
  <2>2. ASSUME NEW m \in 2..n, NEW k \in (1 + 1)..m PROVE attr'[k].depth > 1
    <3>1. CASE k = n
      BY <1>5, <1>3, <3>1
    <3>2. CASE k # n
      <4>1. k \in 2..parse.made /\ k \in heap.live /\ k \in (1 + 1)..k
        BY <1>2, <2>2, <3>2
      <4>2. Below(attr, k, 1)
        BY <1>1, <4>1 DEF RootIsAbove
      <4>3. attr[k].depth > attr[1].depth
        BY <4>1, <4>2 DEF Below
      <4> QED
        BY <1>3, <4>1, <4>3
    <3> QED
      BY <3>1, <3>2
  <2>3. \A m \in 2..n : Below(attr', m, 1)
    BY <1>2, <2>1, <2>2 DEF Below
  <2> QED
    BY <1>1, <2>1, <2>3 DEF RootIsAbove
<1>15. Rooted' /\ NamesDiffer'
  <2>1. NamesDiffer'
    BY <1>1, <1>5, <1>10 DEF NamesDiffer
  <2>2. 1 \in heap'.live
    BY <1>1, <1>8 DEF Rooted
  <2> QED
    BY <1>1, <1>10, <2>1, <2>2 DEF Rooted
<1> QED
  BY <1>1, <1>13, <1>14, <1>15 DEF IInv

\* An error leaves the tree as it is.
LEMMA ParseErrorKeeps ==
  ASSUME IInv, BuildInv, ParseError
  PROVE  IInv'
<1>1. /\ TypeOK /\ Rooted /\ RootIsAbove /\ NamesDiffer /\ Parsing /\ count = 0
  BY DEF IInv, ParseError, Building
<1>2. /\ pc' = "done" /\ heap' = heap /\ root' = root /\ attr' = attr /\ opts' = opts
      /\ parse' = parse /\ filter' = filter /\ sorting' = sorting /\ count' = count
  BY DEF ParseError
<1>3. TypeOK' /\ Rooted' /\ RootIsAbove' /\ NamesDiffer'
  BY <1>1, <1>2 DEF TypeOK, Rooted, RootIsAbove, NamesDiffer, Made
<1>4. Printing'
  BY <1>1, <1>2 DEF Parsing, Printing, Sorted
<1> QED
  BY <1>2, <1>3, <1>4 DEF IInv, Building

-----------------------------------------------------------------------------
(***************************************************************************)
(* The steps of the filter                                                 *)
(***************************************************************************)

\* No node of the tree comes before its root.
LEMMA RootIsFirst ==
  ASSUME NEW h, NEW a, NEW pos, IsWalk(h, a, pos)
  PROVE  \A n \in h.live : ~(pos[n] < pos[1])
<1>1. /\ 1 \in h.live /\ \A n \in h.live : n # 1 => pos[1] < pos[n]
      /\ \A n \in h.live : pos[n] \in Nat
  BY HeapTypes, PosTypes DEF IsWalk, IsTree, Preorder
<1> QED
  BY <1>1

\* At the end of the trie every leaf is an export, and the filter starts at the
\* root with nothing passed.
LEMMA ParseEndKeeps ==
  ASSUME IInv, BuildInv, ParseEnd
  PROVE  IInv'
<1>1. /\ TypeOK /\ Rooted /\ RootIsAbove /\ NamesDiffer /\ Parsing /\ count = 0
      /\ pc = "parse" /\ ~parse.open
  BY DEF IInv, ParseEnd, Building
<1>2. /\ filter' = [filter EXCEPT !.iter = root]
      /\ heap' = heap /\ root' = root /\ attr' = attr /\ opts' = opts
      /\ parse' = parse /\ sorting' = sorting /\ count' = count
  BY DEF ParseEnd
<1>3. pc' = IF root = Null THEN "done"
            ELSE IF opts.require = "section" THEN "filter" ELSE "count"
  <2>1. pc' = CASE root = Null -> "done"
                [] root # Null /\ opts.require = "section" -> "filter"
                [] OTHER -> "count"
    BY Zenon DEF ParseEnd
  <2> QED
    BY <2>1
<1>4. filter \in [iter : Ptr, victim : Ptr, next : Ptr, child : Ptr] /\ root \in Ptr
  BY <1>1 DEF TypeOK
<1>5. filter' \in [iter : Ptr, victim : Ptr, next : Ptr, child : Ptr] /\ filter'.iter = root
  BY <1>2, <1>4
<1>6. TypeOK' /\ Rooted' /\ RootIsAbove' /\ NamesDiffer'
  BY <1>1, <1>2, <1>3, <1>5 DEF TypeOK, Rooted, RootIsAbove, NamesDiffer, Made
<1>7. Leaves(heap.live)
  BY <1>1 DEF Parsing, Leaves
<1>8. PICK pos \in Order : IsTree(heap, attr, pos) /\ Preorder(heap.live, attr, pos)
  BY <1>1 DEF Parsing
<1>9. CASE root = Null
  <2>1. pc' = "done"
    BY <1>3, <1>9
  <2>2. Printing'
    BY <1>1, <1>2, <1>8, <2>1 DEF Printing, Sorted
  <2> QED
    BY <1>6, <2>1, <2>2 DEF IInv, Building
<1>10. CASE root # Null
  <2>1. IsWalk(heap, attr, pos) /\ root = 1 /\ 1 \in heap.live
    BY <1>1, <1>8, <1>10, TreeIsWalk
  <2>2. CASE opts.require = "section"
    <3>1. pc' = "filter"
      BY <1>3, <1>10, <2>2
    <3>2. \A n \in heap.live : ~(pos[n] < pos[1])
      BY <2>1, RootIsFirst
    <3>3. Passed(heap.live, pos, 1)
      <4>1. 1 # Null
        BY <1>10, <2>1
      <4>2. Lasts(heap, heap.live)
        BY <1>1 DEF Parsing
      <4> QED
        BY <3>2, <4>1, <4>2 DEF Passed, NoneUnmet, Lasts
    <3>4. Filtering'
      BY <1>2, <1>5, <1>7, <1>8, <2>1, <3>3
         DEF Filtering, Leaves, Passed, NoneUnmet, Unmet, Lasts, IsLeaf
    <3> QED
      BY <1>1, <1>2, <1>6, <3>1, <3>4 DEF IInv, Building
  <2>3. CASE opts.require # "section"
    <3>1. pc' = "count"
      BY <1>3, <1>10, <2>3
    <3>2. Counting'
      BY <1>2, <1>7, <1>8, <2>1, <2>3 DEF Counting, Kept, Leaves, IsLeaf
    <3> QED
      BY <1>1, <1>2, <1>6, <3>1, <3>2 DEF IInv, Building
  <2> QED
    BY <2>2, <2>3
<1> QED
  BY <1>9, <1>10

\* The iterator goes on to the next node in the order: all before it is passed.
LEMMA FilterKeepKeeps ==
  ASSUME IInv, FilterKeep
  PROVE  IInv'
<1> DEFINE n == filter.iter
           s == NextNode(heap, n)
<1>1. /\ TypeOK /\ Rooted /\ RootIsAbove /\ NamesDiffer /\ Filtering /\ count = 0
      /\ pc = "filter" /\ n # Null /\ ~Unmet(n)
  BY DEF IInv, FilterKeep
<1>2. /\ filter' = [filter EXCEPT !.iter = s] /\ pc' = pc
      /\ heap' = heap /\ root' = root /\ attr' = attr /\ opts' = opts
      /\ parse' = parse /\ sorting' = sorting /\ count' = count
  BY DEF FilterKeep
<1>3. n \in heap.live /\ heap.live \subseteq Node
  BY <1>1, HeapTypes DEF Filtering, TypeOK
<1>4. PICK pos \in Order : /\ IsTree(heap, attr, pos) /\ Preorder(heap.live, attr, pos)
                           /\ Passed(heap.live, pos, n)
  BY <1>1 DEF Filtering
<1>5. root # Null
  BY <1>1, <1>3 DEF Rooted
<1>6. IsWalk(heap, attr, pos)
  BY <1>1, <1>4, <1>5, TreeIsWalk
<1>7. IsNext(heap.live, pos, n, s)
  BY <1>3, <1>6, NextNodeIsNext
<1>8. s \in heap.live \cup {Null}
  BY <1>7 DEF IsNext
<1>9. filter' \in [iter : Ptr, victim : Ptr, next : Ptr, child : Ptr] /\ filter'.iter = s
  <2>1. filter \in [iter : Ptr, victim : Ptr, next : Ptr, child : Ptr] /\ s \in Ptr
    BY <1>1, <1>3, <1>8 DEF TypeOK, Ptr
  <2> HIDE DEF s
  <2> QED
    BY <1>2, <2>1
<1> HIDE DEF n, s
<1>10. \A m \in heap.live : pos[m] \in Nat /\ (pos[m] = pos[n] => m = n)
  BY <1>3, PosTypes
<1>11. Passed(heap.live, pos, s)
  <2>1. ASSUME NEW m \in heap.live, s = Null \/ pos[m] < pos[s] PROVE ~Unmet(m)
    <3>1. pos[m] <= pos[n]
      BY <1>3, <1>7, <1>10, <2>1 DEF IsNext
    <3>2. m = n \/ pos[m] < pos[n]
      BY <1>3, <1>10, <3>1
    <3> QED
      BY <1>1, <1>4, <3>2 DEF Passed, NoneUnmet
  <2>2. ASSUME NEW m \in heap.live, s # Null, pos[s] <= pos[m]
        PROVE  heap.first[m] # Null => heap.last[m] = heap.first[m]
    <3>1. pos[n] <= pos[m]
      BY <1>3, <1>7, <1>10, <2>2 DEF IsNext
    <3> QED
      BY <1>1, <1>4, <3>1 DEF Passed, Lasts
  <2> QED
    BY <2>1, <2>2 DEF Passed, NoneUnmet, Lasts
<1>12. Filtering'
  BY <1>1, <1>2, <1>4, <1>8, <1>9, <1>11
     DEF Filtering, Leaves, Passed, NoneUnmet, Unmet, Lasts, IsLeaf
<1>13. TypeOK' /\ Rooted' /\ RootIsAbove' /\ NamesDiffer'
  BY <1>1, <1>2, <1>9 DEF TypeOK, Rooted, RootIsAbove, NamesDiffer, Made
<1> QED
  BY <1>1, <1>2, <1>12, <1>13 DEF IInv, Building

\* At the end of the iterator all nodes are passed.
LEMMA FilterEndKeeps ==
  ASSUME IInv, FilterEnd
  PROVE  IInv'
<1>1. /\ TypeOK /\ Rooted /\ RootIsAbove /\ NamesDiffer /\ Filtering /\ count = 0
      /\ pc = "filter" /\ filter.iter = Null
  BY DEF IInv, FilterEnd
<1>2. /\ pc' = (IF root = Null THEN "done" ELSE "count")
      /\ heap' = heap /\ root' = root /\ attr' = attr /\ opts' = opts
      /\ parse' = parse /\ filter' = filter /\ sorting' = sorting /\ count' = count
  BY DEF FilterEnd
<1>3. TypeOK' /\ Rooted' /\ RootIsAbove' /\ NamesDiffer'
  BY <1>1, <1>2 DEF TypeOK, Rooted, RootIsAbove, NamesDiffer, Made
<1>4. PICK pos \in Order : /\ IsTree(heap, attr, pos) /\ Preorder(heap.live, attr, pos)
                           /\ Passed(heap.live, pos, Null)
  BY <1>1 DEF Filtering
<1>5. CASE root = Null
  <2>1. Printing'
    BY <1>1, <1>2, <1>4, <1>5 DEF Printing, Sorted
  <2> QED
    BY <1>2, <1>3, <1>5, <2>1 DEF IInv, Building
<1>6. CASE root # Null
  <2>1. root = 1
    BY <1>1, <1>6 DEF Rooted
  <2>2. NoneUnmet(heap.live)
    BY <1>4 DEF Passed, NoneUnmet
  <2>3. Leaves(heap.live)
    BY <1>1 DEF Filtering
  <2>4. Counting'
    BY <1>2, <1>4, <2>1, <2>2, <2>3 DEF Counting, Kept, Leaves, NoneUnmet, Unmet, IsLeaf
  <2> QED
    BY <1>1, <1>2, <1>3, <1>6, <2>4 DEF IInv, Building
<1> QED
  BY <1>5, <1>6

\* The two ways in which FilterRemove ends: the parent of n keeps a child, or the
\* branch above n is left without one.
LEMMA FilterRemoveEffect ==
  ASSUME TypeOK, FilterRemove, NEW n, n = filter.iter, NEW i, i = IsolateNode(heap, n),
         NEW s, s = NextNode(heap, n), s \in Ptr
  PROVE  /\ n # Null /\ Unmet(n) /\ n # root
         /\ root' = root /\ attr' = attr /\ opts' = opts /\ parse' = parse
         /\ sorting' = sorting /\ count' = count
         /\ filter \in [iter : Ptr, victim : Ptr, next : Ptr, child : Ptr]
         /\ IF i.parent[n] # Null /\ IsLeaf(i, i.parent[n])
            THEN /\ heap' = i /\ pc' = "removeParents"
                 /\ filter' = [iter |-> n, victim |-> n, next |-> s, child |-> i.parent[n]]
            ELSE /\ heap' = ClearNode(i, n) /\ pc' = "filter"
                 /\ filter' = [filter EXCEPT !.iter = s]
  BY Zenon DEF FilterRemove, TypeOK

\* Each way of isolating a node keeps a tree, with the iterator's next node in
\* place; a parent left without children is to be removed.
LEMMA FilterRemoveKeeps ==
  ASSUME IInv, FilterRemove
  PROVE  IInv'
<1> SUFFICES ASSUME NEW n, n = filter.iter, NEW i, i = IsolateNode(heap, n),
                    NEW g, g = ClearNode(i, n), NEW s, s = NextNode(heap, n),
                    NEW p, p = heap.parent[n], NEW L, L = heap.live
             PROVE  IInv'
  OBVIOUS
<1>1. /\ TypeOK /\ Rooted /\ RootIsAbove /\ NamesDiffer /\ Filtering /\ count = 0
      /\ pc = "filter" /\ n # Null /\ n # root
  BY DEF IInv, FilterRemove
<1>2. n \in L /\ L \subseteq Node /\ Leaves(L) /\ heap \in Heap /\ Null \notin L
  BY <1>1, HeapTypes, NullIsNoNode DEF Filtering, TypeOK
<1>3. PICK pos \in Order : /\ IsTree(heap, attr, pos) /\ Preorder(L, attr, pos)
                           /\ Passed(L, pos, n)
  BY <1>1 DEF Filtering
<1>4. root # Null
  BY <1>1, <1>2 DEF Rooted
<1>5. IsWalk(heap, attr, pos) /\ root = 1 /\ n # 1 /\ 1 \in L
  BY <1>1, <1>3, <1>4, TreeIsWalk
<1>6. \A m \in Node : pos[m] \in Nat
  BY PosTypes
<1>7. heap.first[n] # Null => heap.last[n] = heap.first[n]
  BY <1>1, <1>2, <1>3, <1>6 DEF Passed, Lasts
<1>8. /\ n \in Kids(heap, p) /\ p \in L /\ p # n /\ p # Null /\ Below(attr, n, p) /\ n \in Node
      /\ heap.next[n] # Null => heap.next[n] # n
      /\ heap.prev[n] # Null => heap.prev[n] # n
      /\ (heap.first[p] = n) <=> (heap.prev[n] = Null)
  BY <1>2, <1>3, <1>5, Around DEF Parents
<1>9. /\ i \in Heap /\ i.parent[n] = p /\ Adopted(heap, n, g) /\ s \in g.live \cup {Null}
      /\ \E pos2 \in Order :
           /\ IsTree(g, attr, pos2) /\ Preorder(g.live, attr, pos2)
           /\ heap.first[n] = Null => pos2 = pos
           /\ \A k \in g.live : IF s = Null THEN pos[k] < pos[n]
                                ELSE pos2[k] < pos2[s] <=> pos[k] < pos[n]
  <2>1. i = IsolateNode(heap, n) /\ g = ClearNode(i, n) /\ s = NextNode(heap, n)
    OBVIOUS
  <2> QED
    BY <1>2, <1>5, <1>7, <2>1, RemovedTree
<1>10. PICK pos2 \in Order :
         /\ IsTree(g, attr, pos2) /\ Preorder(g.live, attr, pos2)
         /\ heap.first[n] = Null => pos2 = pos
         /\ \A k \in g.live : IF s = Null THEN pos[k] < pos[n]
                              ELSE pos2[k] < pos2[s] <=> pos[k] < pos[n]
  BY <1>9
<1>11. IsNext(L, pos, n, s)
  BY <1>2, <1>5, NextNodeIsNext
<1>12. /\ g \in Heap /\ g.live = L \ {n}
       /\ \A k \in Node :
            g.first[k] = IF k = n THEN Null
                         ELSE IF k = p /\ heap.prev[n] = Null
                              THEN IF heap.first[n] # Null THEN heap.first[n] ELSE heap.next[n]
                              ELSE heap.first[k]
       /\ \A k \in Node : k # n /\ k # p => g.last[k] = heap.last[k]
  <2>1. /\ g \in Heap /\ g.live = heap.live \ {n}
        /\ \A k \in Node :
             g.first[k] = IF k = n THEN Null
                          ELSE IF k = heap.parent[n] /\ heap.prev[n] = Null
                               THEN IF heap.first[n] # Null THEN heap.first[n] ELSE heap.next[n]
                               ELSE heap.first[k]
        /\ \A k \in Node : k # n /\ k # heap.parent[n] => g.last[k] = heap.last[k]
    BY <1>9, Zenon DEF Adopted
  <2> QED
    BY <2>1
<1>13. s \in Ptr /\ s \in L \cup {Null}
  BY <1>2, <1>9, <1>12 DEF Ptr
<1>14. /\ \A k \in g.live : (s = Null \/ pos2[k] < pos2[s]) => pos[k] < pos[n]
       /\ \A k \in g.live : s # Null /\ pos2[s] <= pos2[k] => pos[n] <= pos[k] /\ k # p
  <2>1. \A k \in g.live : k \in Node /\ pos[k] \in Nat /\ pos2[k] \in Nat
    BY <1>2, <1>12, PosTypes
  <2>2. pos[p] < pos[n]
    BY <1>2, <1>3, <1>8 DEF Preorder
  <2>3. pos[n] \in Nat /\ pos[p] \in Nat
    BY <1>2, <1>6, <1>8
  <2>4. s # Null => pos2[s] \in Nat
    BY <1>9, <2>1
  <2> QED
    BY <1>10, <2>1, <2>2, <2>3, <2>4
<1>15. NoneUnmet({m \in g.live : s = Null \/ pos2[m] < pos2[s]})
  <2>1. \A m \in L : pos[m] < pos[n] => ~Unmet(m)
    BY <1>3 DEF Passed, NoneUnmet
  <2> QED
    BY <1>12, <1>14, <2>1 DEF NoneUnmet
<1>16. Lasts(g, {m \in g.live : s # Null /\ pos2[s] <= pos2[m]})
  <2>1. \A m \in L : pos[n] <= pos[m] /\ heap.first[m] # Null => heap.last[m] = heap.first[m]
    BY <1>1, <1>3 DEF Passed, Lasts
  <2> SUFFICES ASSUME NEW m \in g.live, s # Null, pos2[s] <= pos2[m], g.first[m] # Null
               PROVE  g.last[m] = g.first[m]
    BY DEF Lasts
  <2>2. pos[n] <= pos[m] /\ m # p /\ m # n /\ m \in L /\ m \in Node
    BY <1>2, <1>12, <1>14
  <2> QED
    BY <1>12, <2>1, <2>2
<1>17. g = ClearNode(i, n) /\ i \in Heap /\ n \in Node
  BY <1>2, <1>9
<1>18. /\ g.live = i.live \ {n}
       /\ \A k \in Node : k # n => g.first[k] = i.first[k] /\ g.last[k] = i.last[k]
  BY <1>17, ClearFields
<1>19. /\ root' = root /\ attr' = attr /\ opts' = opts /\ parse' = parse
       /\ sorting' = sorting /\ count' = count
       /\ filter \in [iter : Ptr, victim : Ptr, next : Ptr, child : Ptr]
       /\ IF IsLeaf(i, p)
          THEN /\ heap' = i /\ pc' = "removeParents"
               /\ filter' = [iter |-> n, victim |-> n, next |-> s, child |-> p]
          ELSE /\ heap' = g /\ pc' = "filter" /\ filter' = [filter EXCEPT !.iter = s]
  <2>1. n = filter.iter /\ i = IsolateNode(heap, n) /\ s = NextNode(heap, n)
    OBVIOUS
  <2>2. IF i.parent[n] # Null /\ IsLeaf(i, i.parent[n])
        THEN /\ heap' = i /\ pc' = "removeParents"
             /\ filter' = [iter |-> n, victim |-> n, next |-> s, child |-> i.parent[n]]
        ELSE /\ heap' = ClearNode(i, n) /\ pc' = "filter"
             /\ filter' = [filter EXCEPT !.iter = s]
    BY <1>1, <1>13, <2>1, FilterRemoveEffect, Zenon
  <2>3. /\ root' = root /\ attr' = attr /\ opts' = opts /\ parse' = parse
        /\ sorting' = sorting /\ count' = count
        /\ filter \in [iter : Ptr, victim : Ptr, next : Ptr, child : Ptr]
    BY <1>1, <1>13, <2>1, FilterRemoveEffect, Zenon
  <2> QED
    BY <1>8, <1>9, <1>17, <2>2, <2>3
<1>20. RootIsAbove' /\ NamesDiffer'
  BY <1>1, <1>19 DEF RootIsAbove, NamesDiffer, Made
<1>21. CASE ~IsLeaf(i, p)
  <2>1. heap' = g /\ pc' = "filter" /\ filter' = [filter EXCEPT !.iter = s]
    BY <1>19, <1>21
  <2>2. filter' \in [iter : Ptr, victim : Ptr, next : Ptr, child : Ptr] /\ filter'.iter = s
    BY <1>13, <1>19, <2>1
  <2>3. TypeOK'
    BY <1>1, <1>12, <1>19, <2>1, <2>2 DEF TypeOK
  <2>4. Rooted'
    BY <1>1, <1>5, <1>12, <1>19, <2>1 DEF Rooted, Made
  <2>5. ASSUME NEW k \in g.live, g.first[k] = Null PROVE attr[k].export
    <3>1. k \in L /\ k # n /\ k \in Node
      BY <1>2, <1>12
    <3>2. CASE k = p
      <4>1. i.first[p] = Null
        BY <1>18, <2>5, <3>1, <3>2
      <4> QED
        BY <1>21, <4>1 DEF IsLeaf
    <3>3. CASE k # p
      BY <1>2, <1>12, <2>5, <3>1, <3>3 DEF Leaves, IsLeaf
    <3> QED
      BY <3>2, <3>3
  <2>6. Leaves(heap.live)'
    BY <1>19, <2>1, <2>5 DEF Leaves, IsLeaf
  <2>7. Passed(heap.live, pos2, filter.iter)'
    <3>1. NoneUnmet({m \in g.live : s = Null \/ pos2[m] < pos2[s]})'
      BY <1>15, <1>19 DEF NoneUnmet, Unmet
    <3> QED
      BY <1>16, <2>1, <2>2, <3>1 DEF Passed
  <2>8. Filtering'
    BY <1>9, <1>10, <1>19, <2>1, <2>2, <2>6, <2>7 DEF Filtering
  <2> QED
    BY <1>1, <1>19, <1>20, <2>1, <2>3, <2>4, <2>8 DEF IInv, Building
<1>22. CASE IsLeaf(i, p)
  <2>1. heap' = i /\ pc' = "removeParents"
        /\ filter' = [iter |-> n, victim |-> n, next |-> s, child |-> p]
    BY <1>19, <1>22
  <2>2. p \in Node /\ g.first[p] = Null
    <3>1. p \in Node /\ p # n
      BY <1>2, <1>8
    <3> QED
      BY <1>18, <1>22, <3>1 DEF IsLeaf
  <2>3. heap.first[n] = Null
    <3>1. heap.first[p] # Null
      BY <1>3, <1>8 DEF IsTree, FirstInOrder
    <3> QED
      BY <1>8, <1>12, <2>2, <3>1
  <2>4. i.live = L
    <3>1. i = IsolateNode(heap, n) /\ p = heap.parent[n]
      OBVIOUS
    <3>2. heap.prev[n] # n /\ heap.next[n] # n
      BY <1>2, <1>8
    <3> QED
      BY <1>2, <1>8, <2>2, <2>3, <3>1, <3>2, LeafIsolated
  <2>5. pos2 = pos
    BY <1>10, <2>3
  <2>6. filter' \in [iter : Ptr, victim : Ptr, next : Ptr, child : Ptr]
        /\ filter'.victim = n /\ filter'.next = s /\ filter'.child = p
    BY <1>2, <1>13, <2>1, <2>2 DEF Ptr
  <2>7. TypeOK'
    BY <1>1, <1>9, <1>19, <2>1, <2>6 DEF TypeOK
  <2>8. Rooted'
    BY <1>1, <1>19, <2>1, <2>4 DEF Rooted, Made
  <2>9. ASSUME NEW k \in L \ {n, p}, i.first[k] = Null PROVE attr[k].export
    <3>1. k \in L /\ k # n /\ k # p /\ k \in Node
      BY <1>2
    <3>2. heap.first[k] = Null
      BY <1>12, <1>18, <2>9, <3>1
    <3> QED
      BY <1>2, <3>1, <3>2 DEF Leaves, IsLeaf
  <2>11. Branch(filter.victim, filter.child)'
    <3>1. IsLeaf(heap, p)'
      BY <1>22, <2>1 DEF IsLeaf
    <3> QED
      BY <1>2, <1>5, <1>8, <1>19, <2>1, <2>4, <2>6, <2>9, <1>22 DEF Branch, Leaves, IsLeaf
  <2>12. Passed(heap.live \ {filter.victim}, pos, filter.next)'
    <3>1. heap'.live \ {filter'.victim} = g.live
      BY <1>12, <2>1, <2>4, <2>6
    <3>2. NoneUnmet({m \in g.live : s = Null \/ pos[m] < pos[s]})'
      BY <1>15, <1>19, <2>5 DEF NoneUnmet, Unmet
    <3>3. Lasts(i, {m \in g.live : s # Null /\ pos[s] <= pos[m]})
      <4>1. \A m \in g.live : m \in Node /\ m # n
        BY <1>2, <1>12
      <4> QED
        BY <1>16, <1>18, <2>5, <4>1 DEF Lasts
    <3> QED
      BY <2>1, <2>6, <3>1, <3>2, <3>3 DEF Passed
  <2>13. RemovingParents'
    <3>1. IsTree(ClearNode(heap', filter'.victim), attr', pos)
      BY <1>10, <1>17, <1>19, <2>1, <2>5, <2>6
    <3>2. Preorder(heap'.live, attr', pos)
      BY <1>3, <1>19, <2>1, <2>4
    <3>3. s # Null => pos[n] < pos[s]
      BY <1>11 DEF IsNext
    <3> QED
      BY <1>13, <2>1, <2>4, <2>6, <2>11, <2>12, <3>1, <3>2, <3>3 DEF RemovingParents
  <2> QED
    BY <1>1, <1>19, <1>20, <2>1, <2>7, <2>8, <2>13 DEF IInv, Building
<1> QED
  BY <1>21, <1>22

\* DoRemoveLeafParents removes c, a leaf that is not the root, while the node v
\* that RemoveNode was called for is out of the tree but not yet deleted.
LEMMA LeafCleared ==
  ASSUME NEW h \in Heap, NEW a \in [Node -> Attr], NEW pos \in Order,
         NEW v \in h.live, NEW t, t = ClearNode(h, v), IsTree(t, a, pos),
         Preorder(h.live, a, pos),
         NEW c \in h.live, c # v, c # 1, h.first[c] = Null,
         NEW p, p = h.parent[c],
         NEW w, w = ClearNode(IsolateNode(h, c), c), NEW g, g = ClearNode(w, v)
  PROVE  /\ w \in Heap /\ w.live = h.live \ {c}
         /\ IsTree(g, a, pos) /\ g.live = h.live \ {v, c} /\ Adopted(t, c, g)
         /\ p \in h.live /\ p # v /\ p # c /\ p # Null /\ Below(a, c, p)
         /\ \A k \in Node : k # c /\ k # p => w.first[k] = h.first[k] /\ w.last[k] = h.last[k]
         /\ \A k \in Node : k # v => g.first[k] = w.first[k] /\ g.last[k] = w.last[k]
<1>1. /\ h.live \subseteq Node /\ v \in Node /\ c \in Node /\ Null \notin Node
  BY HeapTypes, NullIsNoNode
<1>2. /\ t \in Heap /\ t.live = h.live \ {v}
      /\ \A k \in Node : k # v => /\ t.parent[k] = h.parent[k] /\ t.first[k] = h.first[k]
                                  /\ t.last[k] = h.last[k] /\ t.prev[k] = h.prev[k]
                                  /\ t.next[k] = h.next[k]
  BY <1>1, ClearFields
<1>3. c \in t.live /\ t.first[c] = Null /\ t.parent[c] = p /\ t.prev[c] = h.prev[c]
      /\ t.next[c] = h.next[c]
  BY <1>1, <1>2
<1>4. /\ Parents(t, a) /\ p \in t.live /\ p # c /\ p # Null
      /\ t.prev[c] # Null => t.prev[c] \in Kids(t, p) /\ t.prev[c] # c
      /\ t.next[c] # Null => t.next[c] \in Kids(t, p) /\ t.next[c] # c
      /\ (t.first[p] = c) <=> (t.prev[c] = Null)
  BY <1>3, Around
<1>5. /\ p \in h.live /\ p \in Node /\ p # v /\ (h.first[p] = c <=> h.prev[c] = Null)
      /\ h.prev[c] # c /\ h.next[c] # c /\ h.prev[c] # v /\ h.next[c] # v
  BY <1>1, <1>2, <1>3, <1>4 DEF Kids
<1>6. Below(a, c, p)
  BY <1>3, <1>4 DEF Parents
<1> DEFINE i == IsolateNode(h, c)
<1>7. /\ i \in Heap /\ i.live = h.live
      /\ \A k \in Node : i.first[k] = IF k = p /\ h.prev[c] = Null THEN h.next[c] ELSE h.first[k]
      /\ \A k \in Node : i.last[k] = IF k = p /\ h.prev[c] = Null /\ h.next[c] = Null
                                     THEN Null ELSE h.last[k]
  <2> HIDE DEF i
  <2>1. i = IsolateNode(h, c)
    BY DEF i
  <2> QED
    BY <1>1, <1>4, <1>5, <2>1, LeafIsolated
<1> HIDE DEF i
<1>8. /\ w \in Heap /\ w.live = h.live \ {c}
      /\ \A k \in Node : k # c => w.first[k] = i.first[k] /\ w.last[k] = i.last[k]
  <2>1. w = ClearNode(i, c)
    BY DEF i
  <2> QED
    BY <1>1, <1>7, <2>1, ClearFields
<1>9. /\ g.live = w.live \ {v}
      /\ \A k \in Node : k # v => g.first[k] = w.first[k] /\ g.last[k] = w.last[k]
  BY <1>1, <1>8, ClearFields
<1>10. g = ClearNode(IsolateNode(t, c), c)
  BY <1>1, <1>4, <1>5, ClearCommutes
<1>11. Preorder(t.live, a, pos)
  BY <1>2 DEF Preorder
<1>12. IsTree(g, a, pos) /\ Adopted(t, c, g)
  <2> DEFINE i2 == IsolateNode(t, c)
  <2>1. i2 = IsolateNode(t, c) /\ g = ClearNode(i2, c)
    BY <1>10
  <2> HIDE DEF i2
  <2>2. Adopted(t, c, g) /\ Spliced(t, c, g, Null)
    BY <1>3, <2>1, IsolateLeaf
  <2> QED
    BY <1>3, <1>11, <2>2, SplicedTree
<1> QED
  BY <1>1, <1>5, <1>6, <1>4, <1>7, <1>8, <1>9, <1>12

\* DoRemoveLeafParents reaches the root: then nothing else is left.
LEMMA RootCleared ==
  ASSUME NEW h \in Heap, NEW a \in [Node -> Attr], NEW pos \in Order,
         NEW v \in h.live, v # 1, NEW t, t = ClearNode(h, v), IsTree(t, a, pos),
         1 \in h.live, h.first[1] = Null, \A k \in h.live : k # 1 => Below(a, k, 1),
         NEW w, w = ClearNode(IsolateNode(h, 1), 1), NEW g, g = ClearNode(w, v)
  PROVE  h.parent[1] = Null /\ h.live = {v, 1} /\ g.live = {} /\ IsTree(g, a, pos)
<1>1. /\ h.live \subseteq Node /\ v \in Node /\ 1 \in Node /\ 1 # Null
  BY HeapTypes, NullIsNoNode
<1>2. /\ t \in Heap /\ t.live = h.live \ {v}
      /\ \A k \in Node : k # v => /\ t.parent[k] = h.parent[k] /\ t.first[k] = h.first[k]
                                  /\ t.prev[k] = h.prev[k] /\ t.next[k] = h.next[k]
  BY <1>1, ClearFields
<1>3. 1 \in t.live /\ Parents(t, a) /\ t.parent[1] = Null /\ Kids(t, 1) = {}
  BY <1>1, <1>2 DEF IsTree, Parents, FirstInOrder
<1>4. \A k \in t.live : k = 1
  <2> SUFFICES ASSUME NEW k \in t.live, k # 1 PROVE FALSE
    OBVIOUS
  <2>1. Below(a, k, 1)
    BY <1>2
  <2> QED
    BY <1>2, <1>3, <2>1, ChildAbove
<1>5. h.live = {v, 1}
  BY <1>2, <1>3, <1>4
<1>6. h.parent[1] = Null
  BY <1>1, <1>2, <1>3
<1>7. h.prev[1] = Null /\ h.next[1] = Null
  <2>1. \A k \in t.live : ~(pos[k] < pos[1]) /\ ~(pos[1] < pos[k])
    <3>1. pos[1] \in Nat
      BY <1>1, PosTypes
    <3> QED
      BY <1>4, <3>1
  <2>2. t.prev[1] = Null /\ t.next[1] = Null
    BY <1>3, <2>1 DEF IsTree, NextInOrder, PrevInOrder, IsAfter, IsBefore, Kids
  <2> QED
    BY <1>1, <1>2, <2>2
<1>8. IsolateNode(h, 1) = h
  <2>1. JoinSiblings(h, 1) = h
    BY <1>7 DEF JoinSiblings, Put, Heap
  <2>2. MergeChildren(h, 1) = h
    BY Zenon DEF MergeChildren
  <2> QED
    BY <1>6, <2>1, <2>2 DEF IsolateNode
<1>9. /\ w \in Heap /\ w.live = h.live \ {1}
      /\ \A k \in Node : /\ w.parent[k] = IF k = 1 THEN Null ELSE h.parent[k]
                         /\ w.first[k] = IF k = 1 THEN Null ELSE h.first[k]
                         /\ w.prev[k] = IF k = 1 THEN Null ELSE h.prev[k]
                         /\ w.next[k] = IF k = 1 THEN Null ELSE h.next[k]
  BY <1>1, <1>8, ClearFields
<1>10. /\ g \in Heap /\ g.live = w.live \ {v}
       /\ \A k \in Node : /\ g.parent[k] = IF k = v THEN Null ELSE w.parent[k]
                          /\ g.first[k] = IF k = v THEN Null ELSE w.first[k]
                          /\ g.prev[k] = IF k = v THEN Null ELSE w.prev[k]
                          /\ g.next[k] = IF k = v THEN Null ELSE w.next[k]
  BY <1>1, <1>9, ClearFields
<1>11. g.live = {}
  BY <1>5, <1>9, <1>10
<1>12. \A k \in Node : /\ g.parent[k] = Null /\ g.first[k] = Null
                       /\ g.prev[k] = Null /\ g.next[k] = Null
  <2> SUFFICES ASSUME NEW k \in Node, k # v, k # 1
               PROVE  /\ g.parent[k] = Null /\ g.first[k] = Null
                      /\ g.prev[k] = Null /\ g.next[k] = Null
    BY <1>9, <1>10
  <2>1. k \notin t.live
    BY <1>4
  <2>2. t.parent[k] = Null /\ t.first[k] = Null /\ t.prev[k] = Null /\ t.next[k] = Null
    BY <2>1 DEF IsTree, DeadAreClear
  <2> QED
    BY <1>2, <1>9, <1>10, <2>2
<1>13. IsTree(g, a, pos)
  BY <1>10, <1>11, <1>12
     DEF IsTree, Parents, NextInOrder, PrevInOrder, FirstInOrder, DeadAreClear
<1> QED
  BY <1>5, <1>6, <1>11, <1>13

\* One turn of DoRemoveLeafParents' loop.
LEMMA RemoveLeafParentEffect ==
  ASSUME RemoveLeafParent, NEW c, c = filter.child, NEW p, p = heap.parent[c],
         NEW w, w = ClearNode(IsolateNode(heap, c), c)
  PROVE  /\ pc = "removeParents" /\ attr' = attr /\ opts' = opts /\ parse' = parse
         /\ sorting' = sorting /\ count' = count
         /\ IF p = Null \/ ~IsLeaf(w, p)
            THEN /\ heap' = ClearNode(w, filter.victim) /\ pc' = "filter"
                 /\ root' = (IF c = root THEN Null ELSE root)
                 /\ filter' = [iter |-> filter.next, victim |-> Null, next |-> Null,
                               child |-> Null]
            ELSE /\ heap' = w /\ pc' = pc /\ root' = root
                 /\ filter' = [filter EXCEPT !.child = p]
  BY Zenon DEF RemoveLeafParent, ParentStays

\* A parent left without children is removed like a leaf, up to the root.
LEMMA RemoveLeafParentKeeps ==
  ASSUME IInv, RemoveLeafParent
  PROVE  IInv'
<1> SUFFICES ASSUME NEW v, v = filter.victim, NEW c, c = filter.child, NEW s, s = filter.next,
                    NEW p, p = heap.parent[c], NEW t, t = ClearNode(heap, v),
                    NEW w, w = ClearNode(IsolateNode(heap, c), c),
                    NEW g, g = ClearNode(w, v), NEW L, L = heap.live
             PROVE  IInv'
  OBVIOUS
<1>1. /\ pc = "removeParents" /\ attr' = attr /\ opts' = opts /\ parse' = parse
      /\ sorting' = sorting /\ count' = count
      /\ IF p = Null \/ ~IsLeaf(w, p)
         THEN /\ heap' = g /\ pc' = "filter"
              /\ root' = (IF c = root THEN Null ELSE root)
              /\ filter' = [iter |-> s, victim |-> Null, next |-> Null, child |-> Null]
         ELSE /\ heap' = w /\ pc' = pc /\ root' = root /\ filter' = [filter EXCEPT !.child = p]
  BY RemoveLeafParentEffect, Zenon
<1>2. /\ TypeOK /\ Rooted /\ RootIsAbove /\ NamesDiffer /\ RemovingParents /\ count = 0
  BY <1>1 DEF IInv
<1>3. /\ heap \in Heap /\ attr \in [Node -> Attr] /\ L \subseteq Node /\ Null \notin Node
      /\ filter \in [iter : Ptr, victim : Ptr, next : Ptr, child : Ptr]
      /\ parse.made \in Nat /\ s \in Ptr
  BY <1>2, HeapTypes, NullIsNoNode, MaxNodesAssumption DEF TypeOK
<1>4. /\ root = 1 /\ v \in L /\ v # 1 /\ c \in L /\ Below(attr, v, c) /\ heap.first[c] = Null
      /\ \A k \in L \ {v, c} : heap.first[k] = Null => attr[k].export
      /\ s \in L \cup {Null}
  BY <1>2 DEF RemovingParents, Branch, Leaves, IsLeaf
<1>5. PICK pos \in Order :
        /\ IsTree(t, attr, pos) /\ Preorder(L, attr, pos)
        /\ s # Null => pos[v] < pos[s]
        /\ Passed(L \ {v}, pos, s)
  BY <1>2 DEF RemovingParents
<1>6. \A k \in L : pos[k] \in Nat
  BY <1>3, PosTypes
<1>7. /\ c # v /\ pos[c] < pos[v] /\ 1 \in L
      /\ \A k \in L : k # 1 => Below(attr, k, 1)
  <2>1. 1 \in L /\ L \subseteq 1..parse.made
    BY <1>2, <1>4 DEF Rooted, Made
  <2>2. \A k \in L : k # 1 => k \in 2..parse.made
    BY <1>3, <2>1
  <2>5. root # Null
    BY <1>3, <1>4, <2>1
  <2>3. pos[c] < pos[v]
    BY <1>4, <1>5 DEF Preorder
  <2>4. c # v
    BY <1>4, <1>6, <2>3
  <2> QED
    BY <1>2, <2>1, <2>2, <2>3, <2>4, <2>5 DEF RootIsAbove
<1>8. s \in (L \ {v, c}) \cup {Null} /\ (s # Null => pos[v] < pos[s])
  <2>1. s # Null => pos[v] < pos[s]
    BY <1>5
  <2>2. ASSUME s # Null PROVE s \in L /\ s # v /\ s # c
    <3>1. s \in L /\ pos[v] \in Nat /\ pos[c] \in Nat /\ pos[s] \in Nat
      BY <1>4, <1>6, <2>2
    <3>2. pos[c] < pos[v] /\ pos[v] < pos[s]
      BY <1>7, <2>1, <2>2
    <3> QED
      BY <3>1, <3>2
  <2> QED
    BY <2>1, <2>2
<1>9. \A m \in L \ {v} : (s = Null \/ pos[m] < pos[s]) => ~Unmet(m)
  BY <1>5 DEF Passed, NoneUnmet
<1>10. \A m \in L \ {v} : s # Null /\ pos[s] <= pos[m] /\ heap.first[m] # Null =>
         heap.last[m] = heap.first[m]
  BY <1>5 DEF Passed, Lasts
<1>11. RootIsAbove' \/ root' = Null
  BY <1>1, <1>2 DEF RootIsAbove
<1>12. NamesDiffer' /\ Made' = Made
  BY <1>1, <1>2 DEF NamesDiffer, Made
<1>13. CASE c = 1
  <2>1. p = Null /\ L = {v, 1} /\ g.live = {} /\ IsTree(g, attr, pos)
    BY <1>3, <1>4, <1>5, <1>7, <1>13, RootCleared
  <2>2. s = Null
    BY <1>8, <1>13, <2>1
  <2>3. /\ heap' = g /\ pc' = "filter" /\ root' = Null
        /\ filter' = [iter |-> s, victim |-> Null, next |-> Null, child |-> Null]
    BY <1>1, <1>4, <1>13, <2>1
  <2>4. g \in Heap
    BY <2>1 DEF IsTree
  <2>5. filter' \in [iter : Ptr, victim : Ptr, next : Ptr, child : Ptr] /\ filter'.iter = s
    BY <1>3, <2>3 DEF Ptr
  <2>6. TypeOK'
    BY <1>1, <1>2, <2>3, <2>4, <2>5 DEF TypeOK, Ptr
  <2>7. Rooted' /\ RootIsAbove'
    BY <2>1, <2>3 DEF Rooted, RootIsAbove
  <2>8. Filtering'
    <3>1. Passed(heap.live, pos, filter.iter)'
      BY <2>1, <2>3 DEF Passed, NoneUnmet, Lasts
    <3>2. Leaves(heap.live)'
      BY <2>1, <2>3 DEF Leaves
    <3>3. Preorder(heap'.live, attr', pos)
      BY <2>1, <2>3 DEF Preorder
    <3> QED
      BY <1>1, <2>1, <2>2, <2>3, <2>5, <3>1, <3>2, <3>3 DEF Filtering
  <2> QED
    BY <1>1, <1>2, <1>12, <2>3, <2>6, <2>7, <2>8 DEF IInv, Building
<1>14. CASE c # 1
  <2>1. /\ w \in Heap /\ w.live = L \ {c}
        /\ IsTree(g, attr, pos) /\ g.live = L \ {v, c}
        /\ p \in L /\ p # v /\ p # c /\ p # Null /\ Below(attr, c, p)
        /\ \A k \in Node : k # c /\ k # p =>
             w.first[k] = heap.first[k] /\ w.last[k] = heap.last[k]
        /\ \A k \in Node : k # v => g.first[k] = w.first[k] /\ g.last[k] = w.last[k]
    BY <1>3, <1>4, <1>5, <1>7, <1>14, LeafCleared
  <2>2. pos[p] < pos[c] /\ p \in Node
    BY <1>3, <1>4, <1>5, <2>1 DEF Preorder
  <2>3. \A m \in L : s # Null /\ pos[s] <= pos[m] => m # p /\ m # c
    <3>1. p \in L /\ c \in L /\ v \in L
      BY <1>4, <2>1
    <3> SUFFICES ASSUME NEW m \in L, s # Null, pos[s] <= pos[m] PROVE m # p /\ m # c
      OBVIOUS
    <3>2. s \in L /\ pos[v] < pos[s] /\ pos[p] < pos[c] /\ pos[c] < pos[v]
      BY <1>7, <1>8, <2>2
    <3>3. pos[p] \in Nat /\ pos[c] \in Nat /\ pos[v] \in Nat /\ pos[s] \in Nat
      BY <1>6, <3>1, <3>2
    <3> QED
      BY <3>2, <3>3
  <2>4. \A k \in L \ {v, c, p} : k \in Node /\ w.first[k] = heap.first[k] /\ g.first[k] = heap.first[k]
          /\ w.last[k] = heap.last[k] /\ g.last[k] = heap.last[k]
    BY <1>3, <2>1
  <2>5. \A x : \A m \in L \ {v, c} : s # Null /\ pos[s] <= pos[m] /\ x \in {w, g} /\ x.first[m] # Null =>
          x.last[m] = x.first[m]
    BY <1>10, <2>3, <2>4
  <2>6. CASE ~IsLeaf(w, p)
    <3>1. /\ heap' = g /\ pc' = "filter" /\ root' = root
          /\ filter' = [iter |-> s, victim |-> Null, next |-> Null, child |-> Null]
      BY <1>1, <1>4, <1>14, <2>1, <2>6
    <3>2. g \in Heap
      BY <2>1 DEF IsTree
    <3>3. filter' \in [iter : Ptr, victim : Ptr, next : Ptr, child : Ptr] /\ filter'.iter = s
      BY <1>3, <3>1 DEF Ptr
    <3>4. TypeOK'
      BY <1>1, <1>2, <3>1, <3>2, <3>3 DEF TypeOK
    <3>5. Rooted'
      BY <1>2, <1>4, <1>7, <1>12, <1>14, <2>1, <3>1 DEF Rooted
    <3>6. Leaves(heap.live)'
      <4> SUFFICES ASSUME NEW k \in g.live, g.first[k] = Null PROVE attr[k].export
        BY <1>1, <3>1 DEF Leaves, IsLeaf
      <4>1. k \in L \ {v, c}
        BY <2>1
      <4>2. k # p
        BY <2>1, <2>2, <2>6 DEF IsLeaf
      <4> QED
        BY <1>4, <2>4, <4>1, <4>2
    <3>7. Passed(heap.live, pos, filter.iter)'
      <4>1. NoneUnmet({m \in g.live : s = Null \/ pos[m] < pos[s]})'
        BY <1>1, <1>9, <2>1 DEF NoneUnmet, Unmet
      <4>2. Lasts(g, {m \in g.live : s # Null /\ pos[s] <= pos[m]})
        BY <2>1, <2>5 DEF Lasts
      <4> QED
        BY <3>1, <3>3, <4>1, <4>2 DEF Passed
    <3>8. Preorder(heap'.live, attr', pos)
      BY <1>1, <1>5, <2>1, <3>1 DEF Preorder
    <3>9. Filtering'
      BY <1>1, <1>8, <2>1, <3>1, <3>3, <3>6, <3>7, <3>8 DEF Filtering
    <3> QED
      BY <1>1, <1>2, <1>4, <1>11, <1>12, <2>1, <3>1, <3>4, <3>5, <3>9, NullIsNoNode DEF IInv, Building, RootIsAbove
  <2>7. CASE IsLeaf(w, p)
    <3>1. heap' = w /\ pc' = "removeParents" /\ root' = root /\ filter' = [filter EXCEPT !.child = p]
      BY <1>1, <2>1, <2>7
    <3>2. filter' \in [iter : Ptr, victim : Ptr, next : Ptr, child : Ptr]
          /\ filter'.victim = v /\ filter'.next = s /\ filter'.child = p
      BY <1>3, <2>2, <3>1 DEF Ptr
    <3>3. TypeOK'
      BY <1>1, <1>2, <2>1, <3>1, <3>2 DEF TypeOK
    <3>4. Rooted'
      BY <1>2, <1>4, <1>7, <1>12, <1>14, <2>1, <3>1 DEF Rooted
    <3>5. Below(attr, v, p)
      <4>1. v \in Node /\ c \in Node
        BY <1>3, <1>4
      <4> QED
        BY <1>3, <1>4, <2>1, <2>2, <4>1, BelowTransitive
    <3>6. Branch(filter.victim, filter.child)'
      <4>1. \A k \in w.live \ {v, p} : w.first[k] = Null => attr[k].export
        BY <1>4, <2>1, <2>4
      <4>2. Leaves(heap.live \ {filter.victim, filter.child})'
        BY <1>1, <3>1, <3>2, <4>1 DEF Leaves, IsLeaf
      <4>3. IsLeaf(heap, filter.child)'
        BY <2>7, <3>1, <3>2 DEF IsLeaf
      <4> QED
        BY <1>1, <1>4, <1>7, <2>1, <3>1, <3>2, <3>5, <4>2, <4>3 DEF Branch
    <3>7. Passed(heap.live \ {filter.victim}, pos, filter.next)'
      <4>1. heap'.live \ {filter'.victim} = L \ {v, c}
        BY <2>1, <3>1, <3>2
      <4>2. NoneUnmet({m \in L \ {v, c} : s = Null \/ pos[m] < pos[s]})'
        BY <1>1, <1>9 DEF NoneUnmet, Unmet
      <4>3. Lasts(w, {m \in L \ {v, c} : s # Null /\ pos[s] <= pos[m]})
        BY <2>5 DEF Lasts
      <4> QED
        BY <3>1, <3>2, <4>1, <4>2, <4>3, SMTT(30) DEF Passed
    <3>8. Preorder(heap'.live, attr', pos)
      BY <1>1, <1>5, <2>1, <3>1 DEF Preorder
    <3>9. RemovingParents'
      <4>1. IsTree(ClearNode(heap', filter'.victim), attr', pos)
        BY <1>1, <2>1, <3>1, <3>2
      <4>2. filter'.next \in heap'.live \cup {Null}
        BY <1>8, <2>1, <3>1, <3>2
      <4> QED
        BY <1>5, <3>2, <3>6, <3>7, <3>8, <4>1, <4>2 DEF RemovingParents
    <3> QED
      BY <1>1, <1>2, <1>4, <1>11, <1>12, <2>1, <3>1, <3>3, <3>4, <3>9, NullIsNoNode DEF IInv, Building, RootIsAbove
  <2> QED
    BY <2>6, <2>7
<1> QED
  BY <1>13, <1>14

-----------------------------------------------------------------------------
(***************************************************************************)
(* The steps of the count and of the sort                                  *)
(***************************************************************************)

\* The insertion starts with the first child, which is sorted.
LEMMA SortStarts ==
  ASSUME NEW h, NEW pos, InOrder(h, pos), NEW n \in h.live, h.first[n] # Null
  PROVE  SortingKids(h, pos, n, h.next[h.first[n]], h.first[n])
         /\ h.first[n] \in Ptr /\ h.next[h.first[n]] \in Ptr
<1> DEFINE f == h.first[n]
           i == h.next[f]
<1>1. /\ f \in Kids(h, n) /\ \A k \in Kids(h, n) : pos[f] <= pos[k]
  BY DEF InOrder, FirstInOrder
<1>2. /\ h.live \subseteq Node /\ \A k \in Kids(h, n) : k \in h.live /\ pos[k] \in Nat /\ h.parent[k] = n
      /\ \A k, m \in Kids(h, n) : pos[k] = pos[m] => k = m
  BY HeapTypes, PosTypes DEF InOrder, Kids
<1>3. IF i = Null THEN \A k \in Kids(h, n) : pos[k] <= pos[f] ELSE IsAfter(h, pos, n, f, i)
  BY <1>1, <1>2 DEF InOrder, NextInOrder
<1>4. f \in Ptr /\ i \in Ptr
  BY <1>1, <1>2, HeapTypes DEF InOrder
<1> HIDE DEF f, i
<1>5. i # Null => /\ i \in Kids(h, n) /\ pos[f] < pos[i]
                  /\ \A k \in Kids(h, n) : pos[f] < pos[k] => pos[i] <= pos[k]
  BY <1>3 DEF IsAfter
<1>6. ASSUME i # Null PROVE SortedBefore(h, pos, n, i)
  <2> SUFFICES ASSUME NEW k \in Kids(h, n), NEW m \in Kids(h, n),
                      pos[k] < pos[m], pos[m] < pos[i]
               PROVE  FALSE
    BY DEF SortedBefore
  <2>1. pos[k] \in Nat /\ pos[m] \in Nat /\ pos[f] \in Nat /\ pos[i] \in Nat
    BY <1>1, <1>2, <1>5, <1>6
  <2>2. pos[f] <= pos[k] /\ (pos[f] < pos[m] => pos[i] <= pos[m])
    BY <1>1, <1>5, <1>6
  <2> QED
    BY <2>1, <2>2
<1>7. ASSUME i = Null PROVE SortedKids(h, pos, n)
  <2> SUFFICES ASSUME NEW k \in Kids(h, n), NEW m \in Kids(h, n), pos[k] < pos[m]
               PROVE  FALSE
    BY DEF SortedKids
  <2>1. pos[k] \in Nat /\ pos[m] \in Nat /\ pos[f] \in Nat
    BY <1>1, <1>2
  <2>2. pos[f] <= pos[k] /\ pos[m] <= pos[f]
    BY <1>1, <1>3, <1>7
  <2> QED
    BY <2>1, <2>2
<1>8. \A k \in Kids(h, n) : ~(pos[k] < pos[f])
  BY <1>1, <1>2
<1>9. i # Null => pos[f] <= pos[i]
  BY <1>1, <1>2, <1>5
<1>10. SortingKids(h, pos, n, i, f)
  BY <1>1, <1>5, <1>6, <1>7, <1>8, <1>9 DEF SortingKids
<1> QED
  BY <1>4, <1>10 DEF f, i

\* The count is the number of nodes, and the sort starts at the root.
LEMMA CountNodesKeeps ==
  ASSUME IInv, CountNodes
  PROVE  IInv'
<1>1. /\ TypeOK /\ Rooted /\ RootIsAbove /\ NamesDiffer /\ Counting /\ count = 0
      /\ pc = "count"
  BY DEF IInv, CountNodes
<1>2. /\ count' = Cardinality(Walk(root)) /\ pc' = (IF opts.sort THEN "sort" ELSE "done")
      /\ sorting' = (IF opts.sort THEN SortNode(root) ELSE sorting)
      /\ heap' = heap /\ root' = root /\ attr' = attr /\ opts' = opts
      /\ parse' = parse /\ filter' = filter
  BY DEF CountNodes
<1>3. PICK pos \in Order : IsTree(heap, attr, pos) /\ Preorder(heap.live, attr, pos)
  BY <1>1 DEF Counting
<1>4. root = 1 /\ 1 \in heap.live /\ root # Null /\ heap.live \subseteq Node /\ heap \in Heap
  <2>1. heap.live \subseteq Node /\ root = 1 /\ heap \in Heap
    BY <1>1, HeapTypes DEF TypeOK, Counting, Kept
  <2>2. root # Null
    BY <2>1, NullIsNoNode, MaxNodesAssumption DEF Node
  <2> QED
    BY <1>1, <2>1, <2>2 DEF Rooted
<1>5. IsWalk(heap, attr, pos)
  BY <1>1, <1>3, <1>4, TreeIsWalk
<1>6. count' = Cardinality(heap.live) /\ count' \in 0..MaxNodes
  BY <1>2, <1>4, <1>5, WalkCounts
<1>7. Rooted' /\ RootIsAbove' /\ NamesDiffer' /\ Kept'
  BY <1>1, <1>2 DEF Rooted, RootIsAbove, NamesDiffer, Made, Counting, Kept, Leaves, NoneUnmet,
                    Unmet, IsLeaf
<1>8. CASE ~opts.sort
  <2>1. TypeOK'
    BY <1>1, <1>2, <1>6, <1>8 DEF TypeOK
  <2>2. Printing'
    BY <1>2, <1>3, <1>6, <1>8 DEF Printing, Sorted
  <2> QED
    BY <1>2, <1>7, <1>8, <2>1, <2>2 DEF IInv, Building
<1>9. CASE opts.sort
  <2>1. heap.first[1] # Null
    BY <1>1, <1>4 DEF Counting, Kept, Leaves, IsLeaf, RootIsAbove
  <2>2. InOrder(heap, pos)
    BY <1>3, TreeInOrder
  <2>3. SortingKids(heap, pos, 1, heap.next[heap.first[1]], heap.first[1])
        /\ heap.first[1] \in Ptr /\ heap.next[heap.first[1]] \in Ptr
    BY <1>4, <2>1, <2>2, SortStarts
  <2>4. sorting' = [node |-> 1, first |-> heap.first[1],
                    i |-> heap.next[heap.first[1]], j |-> heap.first[1]]
    BY <1>2, <1>4, <1>9 DEF SortNode
  <2>5. 1 \in Ptr
    BY <1>4 DEF Ptr
  <2>6. TypeOK'
    BY <1>1, <1>2, <1>6, <1>9, <2>3, <2>4, <2>5 DEF TypeOK
  <2>7. Sorting(pos)'
    <3>1. SortingKids(heap, pos, sorting.node, sorting.i, sorting.j)'
      BY <1>2, <2>3, <2>4 DEF SortingKids, SortedBefore, SortedKids
    <3>2. SortedTo(heap, pos, sorting.node)'
      BY <2>4 DEF SortedTo
    <3>3. sorting'.node = 1 /\ sorting'.first = heap'.first[1]
      BY <1>2, <2>4
    <3> QED
      BY <1>2, <1>7, <1>9, <3>1, <3>2, <3>3 DEF Sorting
  <2>8. Printing'
    BY <1>2, <1>3, <1>6, <1>9, <2>7 DEF Printing
  <2> QED
    BY <1>2, <1>7, <1>9, <2>6, <2>8 DEF IInv, Building
<1> QED
  BY <1>8, <1>9

-----------------------------------------------------------------------------
(***************************************************************************)
(* The steps of the sort of one node's children                            *)
(***************************************************************************)

\* The names and the places of the children of a node are numbers, and no two
\* children have the same place.
LEMMA KidsAreNumbered ==
  ASSUME attr \in [Node -> Attr], NEW h, NEW pos, InOrder(h, pos), NEW p
  PROVE  /\ \A k \in Kids(h, p) : /\ k \in h.live /\ k \in Node /\ h.parent[k] = p
                                  /\ attr[k].name \in Nat /\ pos[k] \in Nat
         /\ \A k, m \in Kids(h, p) : pos[k] = pos[m] => k = m
<1>1. /\ h.live \subseteq Node /\ (\A k \in Node : pos[k] \in Nat)
      /\ \A k, m \in Node : pos[k] = pos[m] => k = m
  BY HeapTypes, PosTypes DEF InOrder
<1>2. \A k \in Node : attr[k].name \in Nat
  BY DEF Attr, Node
<1> QED
  BY <1>1, <1>2 DEF Kids

\* IChild is above JChild in the order asked for: they change places, and go
\* on from the node after the one that moved forward.
LEMMA SwapSorts ==
  ASSUME attr \in [Node -> Attr],
         NEW h, NEW pos \in Order, IsTree(h, attr, pos), NEW p \in h.live,
         NEW i \in Kids(h, p), NEW j, SortingKids(h, pos, p, i, j), i # Null, j # i,
         attr[j].name < attr[i].name,
         NEW g, g = Swap(h, j, i), NEW pos2, pos2 = [k \in Node |-> pos[Sw(j, i, k)]]
  PROVE  /\ pos2 \in Order /\ IsTree(g, attr, pos2) /\ Swapped(h, j, i, g)
         /\ \A k \in Node : pos2[k] = pos[Sw(j, i, k)]
         /\ \A x : Kids(g, x) = Kids(h, x)
         /\ SortingKids(g, pos2, p, j, g.next[i])
<1>1. InOrder(h, pos)
  BY TreeInOrder
<1>2. /\ \A k \in Kids(h, p) : k \in h.live /\ k \in Node /\ h.parent[k] = p
                               /\ attr[k].name \in Nat /\ pos[k] \in Nat
      /\ \A k, m \in Kids(h, p) : pos[k] = pos[m] => k = m
  BY <1>1, KidsAreNumbered
<1>3. /\ j \in Kids(h, p) /\ pos[j] <= pos[i] /\ SortedBefore(h, pos, p, i)
      /\ \A k \in Kids(h, p) : pos[k] < pos[j] => attr[k].name > attr[i].name
  BY DEF SortingKids
<1>4. pos[j] < pos[i]
  BY <1>2, <1>3
<1>5. /\ pos2 \in Order /\ IsTree(g, attr, pos2) /\ Swapped(h, j, i, g)
      /\ \A k \in Node : pos2[k] = pos[Sw(j, i, k)]
      /\ \A x : Kids(g, x) = Kids(h, x)
  <2>1. j \in h.live /\ i \in h.live /\ h.parent[j] = p /\ h.parent[i] = p
    BY <1>2, <1>3
  <2> QED
    BY <1>4, <2>1, SwappedTree
<1>6. pos2[j] = pos[i] /\ pos2[i] = pos[j]
      /\ \A k \in Kids(h, p) : k # i /\ k # j => pos2[k] = pos[k]
  BY <1>2, <1>3, <1>5 DEF Sw
<1>7. \A k, m \in Kids(h, p) :
        pos[k] < pos[m] /\ pos[m] < pos[i] => attr[k].name > attr[m].name
  BY <1>3 DEF SortedBefore
<1> DEFINE n == h.next[j]
<1>8. n \in Kids(h, p) /\ pos[j] < pos[n]
      /\ \A k \in Kids(h, p) : pos[j] < pos[k] => pos[n] <= pos[k]
  <2>1. j \in h.live /\ h.parent[j] = p
    BY <1>2, <1>3
  <2>2. h.next[j] # Null
    BY <1>1, <1>2, <1>3, <1>4, <2>1 DEF InOrder, NextInOrder
  <2> QED
    BY <1>1, <2>1, <2>2 DEF InOrder, NextInOrder, IsAfter
<1>9. g.next[i] = Sw(j, i, n)
  BY <1>2, <1>5 DEF Swapped, Sw
<1>10. g.next[i] \in Kids(h, p) /\ pos2[g.next[i]] = pos[n]
  <2>1. CASE n = i
    BY <1>3, <1>6, <1>9, <2>1 DEF Sw
  <2>2. CASE n # i
    <3>1. n # j
      BY <1>2, <1>3, <1>8
    <3> QED
      BY <1>6, <1>8, <1>9, <2>2, <3>1 DEF Sw
  <2> QED
    BY <2>1, <2>2
<1> HIDE DEF n
<1>11. pos2[g.next[i]] <= pos2[j]
  BY <1>4, <1>6, <1>8, <1>10
<1>12. SortedBefore(g, pos2, p, j)
  <2> SUFFICES ASSUME NEW k \in Kids(h, p), NEW m \in Kids(h, p),
                      pos2[k] < pos2[m], pos2[m] < pos[i]
               PROVE  attr[k].name > attr[m].name
    BY <1>5, <1>6 DEF SortedBefore
  <2>1. pos[i] \in Nat /\ pos[j] \in Nat /\ pos[k] \in Nat /\ pos[m] \in Nat
        /\ attr[i].name \in Nat /\ attr[j].name \in Nat /\ attr[k].name \in Nat
        /\ attr[m].name \in Nat
    BY <1>2, <1>3
  <2>2. m # j
    BY <1>6, <2>1
  <2>3. pos2[m] \in Nat /\ pos2[k] \in Nat
    BY <1>6, <2>1
  <2>4. k # j
    BY <1>6, <2>1, <2>3
  <2>5. CASE m = i
    <3>1. k # i
      BY <1>6, <2>1, <2>5
    <3> QED
      BY <1>3, <1>6, <2>4, <2>5, <3>1
  <2>6. CASE m # i /\ k = i
    <3>1. pos[j] < pos[m] /\ pos[m] < pos[i]
      BY <1>6, <2>2, <2>6
    <3>2. attr[j].name > attr[m].name
      BY <1>3, <1>7, <3>1
    <3> QED
      BY <2>1, <2>6, <3>2
  <2>7. CASE m # i /\ k # i
    BY <1>6, <1>7, <2>2, <2>4, <2>7
  <2> QED
    BY <2>5, <2>6, <2>7
<1>13. ASSUME NEW k \in Kids(h, p), pos2[k] < pos[n]
       PROVE  attr[k].name > attr[j].name
  <2>1. pos[i] \in Nat /\ pos[j] \in Nat /\ pos[k] \in Nat /\ pos[n] \in Nat
        /\ attr[i].name \in Nat /\ attr[j].name \in Nat /\ attr[k].name \in Nat
    BY <1>2, <1>3, <1>8
  <2>2. k # j
    BY <1>4, <1>6, <1>8, <1>13, <2>1
  <2>3. CASE k = i
    BY <2>1, <2>3
  <2>4. CASE k # i
    <3>1. pos[k] < pos[n]
      BY <1>6, <1>13, <2>2, <2>4
    <3>2. ~(pos[j] < pos[k])
      BY <1>8, <2>1, <3>1
    <3>3. pos[k] < pos[j]
      BY <1>2, <1>3, <2>1, <2>2, <3>2
    <3> QED
      BY <1>3, <1>4, <1>7, <3>3
  <2> QED
    BY <2>3, <2>4
<1>14. j # Null
  BY <1>2, <1>3, NullIsNoNode
<1>15. SortingKids(g, pos2, p, j, g.next[i])
  <2>1. j \in Kids(g, p) /\ g.next[i] \in Kids(g, p)
    BY <1>3, <1>5, <1>10
  <2>2. \A k \in Kids(g, p) : pos2[k] < pos2[g.next[i]] => attr[k].name > attr[j].name
    BY <1>5, <1>10, <1>13
  <2> QED
    BY <1>11, <1>12, <1>14, <2>1, <2>2 DEF SortingKids
<1> QED
  BY <1>5, <1>15

\* JChild is above IChild already: on to the child after JChild.
LEMMA KeepSorts ==
  ASSUME attr \in [Node -> Attr],
         NEW h, NEW pos, InOrder(h, pos), NEW p,
         NEW i \in Kids(h, p), NEW j, SortingKids(h, pos, p, i, j), i # Null, j # i,
         attr[j].name > attr[i].name
  PROVE  SortingKids(h, pos, p, i, h.next[j]) /\ h.next[j] \in Kids(h, p)
<1>2. /\ \A k \in Kids(h, p) : k \in h.live /\ k \in Node /\ h.parent[k] = p
                               /\ attr[k].name \in Nat /\ pos[k] \in Nat
      /\ \A k, m \in Kids(h, p) : pos[k] = pos[m] => k = m
  BY KidsAreNumbered
<1>3. /\ j \in Kids(h, p) /\ pos[j] <= pos[i] /\ SortedBefore(h, pos, p, i)
      /\ \A k \in Kids(h, p) : pos[k] < pos[j] => attr[k].name > attr[i].name
  BY DEF SortingKids
<1>4. pos[j] < pos[i]
  BY <1>2, <1>3
<1> DEFINE n == h.next[j]
<1>5. n \in Kids(h, p) /\ pos[j] < pos[n]
      /\ \A k \in Kids(h, p) : pos[j] < pos[k] => pos[n] <= pos[k]
  <2>1. j \in h.live /\ h.parent[j] = p
    BY <1>2, <1>3
  <2>2. h.next[j] # Null
    BY <1>2, <1>3, <1>4, <2>1 DEF InOrder, NextInOrder
  <2> QED
    BY <2>1, <2>2 DEF InOrder, NextInOrder, IsAfter
<1> HIDE DEF n
<1>6. ASSUME NEW k \in Kids(h, p), pos[k] < pos[n]
      PROVE  attr[k].name > attr[i].name
  <2>1. pos[j] \in Nat /\ pos[k] \in Nat /\ pos[n] \in Nat
    BY <1>2, <1>3, <1>5
  <2>2. ~(pos[j] < pos[k])
    BY <1>5, <1>6, <2>1
  <2> QED
    BY <1>2, <1>3, <2>1, <2>2
<1>7. SortingKids(h, pos, p, i, n) /\ n \in Kids(h, p)
  BY <1>3, <1>4, <1>5, <1>6 DEF SortingKids
<1> QED
  BY <1>7 DEF n

\* IChild is in its place: the children up to it are sorted.
LEMMA NextSorts ==
  ASSUME attr \in [Node -> Attr],
         NEW h, NEW pos, InOrder(h, pos), NEW p \in h.live,
         NEW i \in Kids(h, p), SortingKids(h, pos, p, i, i), i # Null
  PROVE  SortingKids(h, pos, p, h.next[i], h.first[p])
<1>2. /\ \A k \in Kids(h, p) : k \in h.live /\ k \in Node /\ h.parent[k] = p
                               /\ attr[k].name \in Nat /\ pos[k] \in Nat
      /\ \A k, m \in Kids(h, p) : pos[k] = pos[m] => k = m
  BY KidsAreNumbered
<1>3. /\ SortedBefore(h, pos, p, i)
      /\ \A k \in Kids(h, p) : pos[k] < pos[i] => attr[k].name > attr[i].name
  BY DEF SortingKids
<1>4. \A k, m \in Kids(h, p) : pos[k] < pos[m] /\ pos[m] <= pos[i] => attr[k].name > attr[m].name
  <2> SUFFICES ASSUME NEW k \in Kids(h, p), NEW m \in Kids(h, p), pos[k] < pos[m], pos[m] <= pos[i]
               PROVE  attr[k].name > attr[m].name
    OBVIOUS
  <2>1. CASE m = i
    BY <1>3, <2>1
  <2>2. CASE m # i
    <3>1. pos[m] < pos[i]
      BY <1>2, <2>2
    <3> QED
      BY <1>3, <3>1 DEF SortedBefore
  <2> QED
    BY <2>1, <2>2
<1> DEFINE n == h.next[i]
           f == h.first[p]
<1>5. IF n = Null THEN \A k \in Kids(h, p) : pos[k] <= pos[i] ELSE IsAfter(h, pos, p, i, n)
  <2>1. i \in h.live /\ h.parent[i] = p
    BY <1>2
  <2> QED
    BY <2>1 DEF InOrder, NextInOrder
<1>6. f \in Kids(h, p) /\ \A k \in Kids(h, p) : pos[f] <= pos[k]
  BY DEF InOrder, FirstInOrder
<1> HIDE DEF n, f
<1>7. CASE n = Null
  <2>1. SortedKids(h, pos, p)
    BY <1>4, <1>5, <1>7 DEF SortedKids
  <2>2. SortingKids(h, pos, p, n, f)
    BY <1>7, <2>1 DEF SortingKids
  <2> QED
    BY <2>2 DEF n, f
<1>8. CASE n # Null
  <2>1. n \in Kids(h, p) /\ pos[i] < pos[n]
        /\ \A k \in Kids(h, p) : pos[i] < pos[k] => pos[n] <= pos[k]
    BY <1>5, <1>8 DEF IsAfter
  <2>2. SortedBefore(h, pos, p, n)
    <3> SUFFICES ASSUME NEW k \in Kids(h, p), NEW m \in Kids(h, p), pos[k] < pos[m], pos[m] < pos[n]
                 PROVE  attr[k].name > attr[m].name
      BY DEF SortedBefore
    <3>1. pos[m] <= pos[i]
      BY <1>2, <2>1
    <3> QED
      BY <1>4, <3>1
  <2>3. \A k \in Kids(h, p) : ~(pos[k] < pos[f])
    BY <1>2, <1>6
  <2>4. SortingKids(h, pos, p, n, f)
    BY <1>6, <1>8, <2>1, <2>2, <2>3 DEF SortingKids
  <2> QED
    BY <2>4 DEF n, f
<1> QED
  BY <1>7, <1>8

\* The tree is not the one the trie described any more, but its sort is under way.
LEMMA SortState ==
  ASSUME IInv, pc = "sort"
  PROVE  /\ TypeOK /\ Rooted /\ RootIsAbove /\ NamesDiffer /\ Kept /\ opts.sort
         /\ root = 1 /\ 1 \in heap.live /\ heap.live \subseteq Made /\ heap.live \subseteq Node
         /\ heap \in Heap /\ attr \in [Node -> Attr]
         /\ count # 0 => count = Cardinality(heap.live)
         /\ \E pos \in Order : IsTree(heap, attr, pos) /\ Sorting(pos)
<1>1. /\ TypeOK /\ Rooted /\ RootIsAbove /\ NamesDiffer /\ Printing
  BY DEF IInv
<1>2. PICK pos \in Order : IsTree(heap, attr, pos) /\ Sorting(pos)
  BY <1>1 DEF Printing
<1>3. Kept /\ opts.sort
  BY <1>2 DEF Sorting
<1>4. root = 1 /\ root # Null /\ heap \in Heap /\ attr \in [Node -> Attr]
  <2>1. root = 1 /\ 1 \in Node
    BY <1>3, MaxNodesAssumption DEF Kept, Node
  <2> QED
    BY <1>1, <2>1, NullIsNoNode DEF TypeOK
<1>5. 1 \in heap.live /\ heap.live \subseteq Made /\ heap.live \subseteq Node
  BY <1>1, <1>4, HeapTypes DEF Rooted
<1>6. count # 0 => count = Cardinality(heap.live)
  BY <1>1 DEF Printing
<1> QED
  BY <1>1, <1>2, <1>3, <1>4, <1>5, <1>6

\* After a comparison IChild is still to be placed among the sorted children.
LEMMA SortCompareKeeps ==
  ASSUME IInv, SortCompare
  PROVE  IInv'
<1> SUFFICES ASSUME NEW l, l = sorting.j, NEW r, r = sorting.i, NEW p, p = sorting.node
             PROVE  IInv'
  OBVIOUS
<1>1. /\ TypeOK /\ Rooted /\ RootIsAbove /\ NamesDiffer /\ Kept /\ opts.sort
      /\ root = 1 /\ 1 \in heap.live /\ heap.live \subseteq Made /\ heap.live \subseteq Node
      /\ heap \in Heap /\ attr \in [Node -> Attr]
      /\ count # 0 => count = Cardinality(heap.live)
  BY SortState DEF SortCompare
<1>2. PICK pos \in Order : IsTree(heap, attr, pos) /\ Sorting(pos)
  BY SortState DEF SortCompare
<1>3. /\ pc = "sort" /\ pc' = "sort" /\ r # Null /\ l # r
      /\ root' = root /\ attr' = attr /\ opts' = opts /\ parse' = parse /\ filter' = filter
      /\ count' = count
  BY DEF SortCompare
<1>4. /\ p \in {1} \cup Kids(heap, 1) /\ sorting.first = heap.first[p]
      /\ SortingKids(heap, pos, p, r, l) /\ SortedTo(heap, pos, p)
  BY <1>2 DEF Sorting
<1>5. InOrder(heap, pos)
  BY <1>2, TreeInOrder
<1>6. p \in heap.live /\ p \in Node /\ p \in Ptr
  BY <1>1, <1>4 DEF Kids, Ptr
<1>7. r \in Kids(heap, p) /\ l \in Kids(heap, p) /\ pos[l] <= pos[r]
  BY <1>3, <1>4 DEF SortingKids
<1>8. /\ \A k \in Kids(heap, p) : k \in heap.live /\ k \in Node /\ heap.parent[k] = p
                                  /\ attr[k].name \in Nat /\ pos[k] \in Nat
      /\ \A k, m \in Kids(heap, p) : pos[k] = pos[m] => k = m
  BY <1>1, <1>5, KidsAreNumbered
<1>9. attr[l].name # attr[r].name
  <2>1. l \in Made /\ r \in Made
    BY <1>1, <1>7, <1>8
  <2> QED
    BY <1>1, <1>3, <2>1 DEF NamesDiffer
<1>10. sorting \in [node : Ptr, first : Ptr, i : Ptr, j : Ptr]
  BY <1>1 DEF TypeOK
<1>11. CASE attr[l].name < attr[r].name
  <2> SUFFICES ASSUME NEW g, g = Swap(heap, l, r) PROVE IInv'
    OBVIOUS
  <2>1. ShouldSwap(l, r)
    BY <1>7, <1>8, <1>11 DEF ShouldSwap
  <2>2. /\ heap' = g
        /\ sorting' = [sorting EXCEPT !.first = IF l = @ THEN g.first[p] ELSE @,
                                      !.i = l, !.j = g.next[r]]
    BY <2>1 DEF SortCompare
  <2>3. PICK pos2 \in Order :
          /\ IsTree(g, attr, pos2) /\ Swapped(heap, l, r, g)
          /\ \A k \in Node : pos2[k] = pos[Sw(l, r, k)]
          /\ \A x : Kids(g, x) = Kids(heap, x)
          /\ SortingKids(g, pos2, p, l, g.next[r])
    <3> DEFINE pos2 == [k \in Node |-> pos[Sw(l, r, k)]]
    <3>1. /\ pos2 \in Order /\ IsTree(g, attr, pos2) /\ Swapped(heap, l, r, g)
          /\ \A k \in Node : pos2[k] = pos[Sw(l, r, k)]
          /\ \A x : Kids(g, x) = Kids(heap, x)
          /\ SortingKids(g, pos2, p, l, g.next[r])
      <4> HIDE DEF pos2
      <4>1. pos2 = [k \in Node |-> pos[Sw(l, r, k)]]
        BY DEF pos2
      <4> QED
        BY <1>1, <1>2, <1>3, <1>4, <1>6, <1>7, <1>11, <4>1, SwapSorts
    <3> HIDE DEF pos2
    <3> QED
      BY <3>1
  <2>4. /\ g \in Heap /\ g.live = heap.live /\ g.parent = heap.parent
        /\ \A k \in Node : g.first[k] = Sw(l, r, heap.first[k])
    BY <2>3 DEF Swapped
  <2>5. l \in heap.live /\ r \in heap.live /\ l \in Node /\ r \in Node
        /\ heap.parent[l] = p /\ heap.parent[r] = p
    BY <1>7, <1>8
  <2>6. l # Null /\ r # Null /\ p # Null
    BY <1>6, <2>5, NullIsNoNode
  <2>7. heap.first[p] # r
    <3>1. heap.first[p] # Null /\ \A k \in Kids(heap, p) : pos[heap.first[p]] <= pos[k]
      BY <1>5, <1>6, <1>7 DEF InOrder, FirstInOrder
    <3>2. ~(pos[r] <= pos[l])
      BY <1>3, <1>7, <1>8
    <3> QED
      BY <1>7, <3>1, <3>2
  <2>8. sorting'.first = g.first[p]
    BY <1>4, <1>6, <1>10, <2>2, <2>4, <2>7 DEF Sw
  <2>9. sorting'.node = p /\ sorting'.i = l /\ sorting'.j = g.next[r]
    BY <1>10, <2>2
  <2>10. g.next[r] \in Ptr /\ g.first[p] \in Ptr /\ l \in Ptr
    BY <1>6, <2>4, <2>5, HeapTypes DEF Ptr
  <2>11. sorting' \in [node : Ptr, first : Ptr, i : Ptr, j : Ptr]
    BY <1>4, <1>10, <2>2, <2>10
  <2>12. TypeOK'
    BY <1>1, <1>3, <2>2, <2>4, <2>11 DEF TypeOK
  <2>13. \A k \in heap.live : g.first[k] = Null <=> heap.first[k] = Null
    BY <1>1, <2>4, <2>6 DEF Sw
  <2>14. Kept'
    <3>1. Leaves(heap.live)'
      BY <1>1, <1>3, <2>2, <2>4, <2>13 DEF Kept, Leaves, IsLeaf
    <3>2. opts.require = "section" => NoneUnmet(heap.live)'
      BY <1>1, <1>3, <2>2, <2>4 DEF Kept, NoneUnmet, Unmet
    <3> QED
      BY <1>1, <1>3, <3>1, <3>2 DEF Kept
  <2>15. SortedTo(g, pos2, p)
    <3> SUFFICES ASSUME p # 1 PROVE SortedTo(g, pos2, p)
      BY DEF SortedTo
    <3>1. SortedKids(heap, pos, 1)
          /\ \A k \in Kids(heap, 1) : pos[k] < pos[p] => SortedKids(heap, pos, k)
      BY <1>4 DEF SortedTo
    <3>2. p \in Kids(heap, 1) /\ heap.parent[p] = 1
      BY <1>4 DEF Kids
    <3>3. ASSUME NEW x, x # p
          PROVE  \A k \in Kids(heap, x) : k \in Node /\ pos2[k] = pos[k]
      <4>1. \A k \in Kids(heap, x) : k \in Node /\ k # l /\ k # r
        BY <1>1, <2>5, <3>3 DEF Kids
      <4> QED
        BY <2>3, <4>1 DEF Sw
    <3>4. ASSUME NEW x, x # p, SortedKids(heap, pos, x)
          PROVE  SortedKids(g, pos2, x)
      BY <2>3, <3>3, <3>4 DEF SortedKids
    <3>5. pos2[p] = pos[p]
      BY <3>2, <3>3
    <3>6. SortedKids(g, pos2, 1)
      BY <3>1, <3>4
    <3>7. ASSUME NEW k \in Kids(g, 1), pos2[k] < pos2[p]
          PROVE  SortedKids(g, pos2, k)
      <4>1. k \in Kids(heap, 1) /\ pos[k] < pos[p]
        BY <2>3, <3>3, <3>5, <3>7
      <4>2. k # p
        BY <1>6, <4>1, PosTypes
      <4> QED
        BY <3>1, <3>4, <4>1, <4>2
    <3> QED
      BY <3>6, <3>7 DEF SortedTo
  <2>16. Sorting(pos2)'
    <3>1. SortingKids(heap, pos2, sorting.node, sorting.i, sorting.j)'
      BY <1>3, <2>2, <2>3, <2>9, ZenonT(60) DEF SortingKids, SortedBefore, SortedKids
    <3>2. SortedTo(heap, pos2, sorting.node)'
      BY <1>3, <2>2, <2>9, <2>15 DEF SortedTo, SortedKids
    <3>3. sorting'.node \in {1} \cup Kids(heap', 1)
      BY <1>4, <2>2, <2>3, <2>9
    <3>4. sorting'.first = heap'.first[sorting'.node]
      BY <2>2, <2>8, <2>9
    <3> QED
      BY <1>1, <1>3, <2>14, <3>1, <3>2, <3>3, <3>4 DEF Sorting, Kids
  <2>17. Printing'
    <3>1. count' # 0 => count' = Cardinality(heap'.live)
      BY <1>1, <1>3, <2>2, <2>4
    <3>2. IsTree(heap', attr', pos2)
      BY <1>3, <2>2, <2>3
    <3> QED
      BY <1>3, <2>16, <3>1, <3>2 DEF Printing
  <2>18. Rooted' /\ RootIsAbove' /\ NamesDiffer'
    BY <1>1, <1>3, <2>2, <2>4 DEF Rooted, RootIsAbove, NamesDiffer, Made
  <2> QED
    BY <1>3, <2>12, <2>17, <2>18 DEF IInv, Building
<1>12. CASE attr[l].name > attr[r].name
  <2>1. ~ShouldSwap(l, r)
    BY <1>7, <1>8, <1>12 DEF ShouldSwap
  <2>2. heap' = heap /\ sorting' = [sorting EXCEPT !.j = heap.next[l]]
    BY <2>1 DEF SortCompare
  <2>3. SortingKids(heap, pos, p, r, heap.next[l]) /\ heap.next[l] \in Kids(heap, p)
    BY <1>1, <1>3, <1>4, <1>5, <1>7, <1>12, KeepSorts
  <2>4. sorting'.node = p /\ sorting'.i = r /\ sorting'.j = heap.next[l]
        /\ sorting'.first = sorting.first
    BY <1>10, <2>2
  <2>5. sorting' \in [node : Ptr, first : Ptr, i : Ptr, j : Ptr]
    BY <1>8, <1>10, <2>2, <2>3 DEF Ptr
  <2>6. TypeOK'
    BY <1>1, <1>3, <2>2, <2>5 DEF TypeOK
  <2>7. Kept'
    BY <1>1, <1>3, <2>2 DEF Kept, Leaves, IsLeaf, NoneUnmet, Unmet
  <2>8. Sorting(pos)'
    <3>1. SortingKids(heap, pos, sorting.node, sorting.i, sorting.j)'
      BY <1>3, <2>2, <2>3, <2>4 DEF SortingKids, SortedBefore, SortedKids
    <3>2. SortedTo(heap, pos, sorting.node)'
      BY <1>3, <1>4, <2>2, <2>4 DEF SortedTo, SortedKids
    <3> QED
      BY <1>1, <1>3, <1>4, <2>2, <2>4, <2>7, <3>1, <3>2 DEF Sorting
  <2>9. Printing'
    BY <1>1, <1>2, <1>3, <2>2, <2>8 DEF Printing
  <2>10. Rooted' /\ RootIsAbove' /\ NamesDiffer'
    BY <1>1, <1>3, <2>2 DEF Rooted, RootIsAbove, NamesDiffer, Made
  <2> QED
    BY <1>3, <2>6, <2>9, <2>10 DEF IInv, Building
<1> QED
  BY <1>7, <1>8, <1>9, <1>11, <1>12

\* The child in its place joins those that are sorted.
LEMMA SortNextChildKeeps ==
  ASSUME IInv, SortNextChild
  PROVE  IInv'
<1> SUFFICES ASSUME NEW i, i = sorting.i, NEW p, p = sorting.node
             PROVE  IInv'
  OBVIOUS
<1>1. /\ TypeOK /\ Rooted /\ RootIsAbove /\ NamesDiffer /\ Kept /\ opts.sort
      /\ root = 1 /\ 1 \in heap.live /\ heap.live \subseteq Made /\ heap.live \subseteq Node
      /\ heap \in Heap /\ attr \in [Node -> Attr]
      /\ count # 0 => count = Cardinality(heap.live)
  BY SortState DEF SortNextChild
<1>2. PICK pos \in Order : IsTree(heap, attr, pos) /\ Sorting(pos)
  BY SortState DEF SortNextChild
<1>3. /\ pc = "sort" /\ pc' = "sort" /\ i # Null /\ sorting.j = i
      /\ sorting' = [sorting EXCEPT !.i = heap.next[i], !.j = sorting.first]
      /\ heap' = heap /\ root' = root /\ attr' = attr /\ opts' = opts /\ parse' = parse
      /\ filter' = filter /\ count' = count
  BY DEF SortNextChild
<1>4. /\ p \in {1} \cup Kids(heap, 1) /\ sorting.first = heap.first[p]
      /\ SortingKids(heap, pos, p, i, i) /\ SortedTo(heap, pos, p)
  BY <1>2, <1>3 DEF Sorting
<1>5. InOrder(heap, pos)
  BY <1>2, TreeInOrder
<1>6. p \in heap.live /\ p \in Node /\ i \in Kids(heap, p) /\ i \in Node
  BY <1>1, <1>3, <1>4 DEF Kids, SortingKids
<1>7. SortingKids(heap, pos, p, heap.next[i], heap.first[p])
  BY <1>1, <1>3, <1>4, <1>5, <1>6, NextSorts
<1>8. sorting \in [node : Ptr, first : Ptr, i : Ptr, j : Ptr] /\ heap.next[i] \in Ptr
  BY <1>1, <1>6, HeapTypes DEF TypeOK
<1>9. sorting'.node = p /\ sorting'.i = heap.next[i] /\ sorting'.j = heap.first[p]
      /\ sorting'.first = sorting.first
      /\ sorting' \in [node : Ptr, first : Ptr, i : Ptr, j : Ptr]
  BY <1>3, <1>4, <1>8
<1>10. TypeOK'
  BY <1>1, <1>3, <1>9 DEF TypeOK
<1>11. Kept'
  BY <1>1, <1>3 DEF Kept, Leaves, IsLeaf, NoneUnmet, Unmet
<1>12. Sorting(pos)'
  <2>1. SortingKids(heap, pos, sorting.node, sorting.i, sorting.j)'
    BY <1>3, <1>7, <1>9 DEF SortingKids, SortedBefore, SortedKids
  <2>2. SortedTo(heap, pos, sorting.node)'
    BY <1>3, <1>4, <1>9 DEF SortedTo, SortedKids
  <2> QED
    BY <1>1, <1>3, <1>4, <1>9, <1>11, <2>1, <2>2 DEF Sorting
<1>13. Printing'
  BY <1>1, <1>2, <1>3, <1>12 DEF Printing
<1>14. Rooted' /\ RootIsAbove' /\ NamesDiffer'
  BY <1>1, <1>3 DEF Rooted, RootIsAbove, NamesDiffer, Made
<1> QED
  BY <1>3, <1>10, <1>13, <1>14 DEF IInv, Building

\* The node forEachNode sorts after p, and what is sorted by then.
LEMMA NextIsSorted ==
  ASSUME NEW pos \in Order, IsTree(heap, attr, pos), Sorting(pos), sorting.i = Null,
         root = 1, 1 \in heap.live, heap.live \subseteq Node, heap \in Heap,
         NEW n, n = IF sorting.node = root THEN heap.first[root] ELSE heap.next[sorting.node]
  PROVE  IF n = Null THEN \A p \in {1} \cup Kids(heap, 1) : SortedKids(heap, pos, p)
         ELSE n \in Kids(heap, 1) /\ SortedTo(heap, pos, n)
<1> SUFFICES ASSUME NEW p, p = sorting.node
             PROVE  IF n = Null THEN \A k \in {1} \cup Kids(heap, 1) : SortedKids(heap, pos, k)
                    ELSE n \in Kids(heap, 1) /\ SortedTo(heap, pos, n)
  OBVIOUS
<1>1. /\ p \in {1} \cup Kids(heap, 1) /\ SortedKids(heap, pos, p) /\ SortedTo(heap, pos, p)
  BY DEF Sorting, SortingKids
<1>2. InOrder(heap, pos)
  BY TreeInOrder
<1>3. /\ \A k \in Kids(heap, 1) : k \in heap.live /\ heap.parent[k] = 1 /\ pos[k] \in Nat
      /\ \A k, m \in Kids(heap, 1) : pos[k] = pos[m] => k = m
  BY PosTypes DEF Kids
<1>4. CASE p = 1
  <2>1. n = heap.first[1]
    BY <1>4
  <2>2. IF n = Null THEN Kids(heap, 1) = {}
        ELSE n \in Kids(heap, 1) /\ \A k \in Kids(heap, 1) : pos[n] <= pos[k]
    BY <1>2, <2>1 DEF InOrder, FirstInOrder
  <2>3. CASE n = Null
    BY <1>1, <1>4, <2>2, <2>3
  <2>4. CASE n # Null
    <3>1. \A k \in Kids(heap, 1) : ~(pos[k] < pos[n])
      BY <1>3, <2>2, <2>4
    <3> QED
      BY <1>1, <1>4, <2>2, <2>4, <3>1 DEF SortedTo
  <2> QED
    BY <2>3, <2>4
<1>5. CASE p # 1
  <2>1. n = heap.next[p] /\ p \in Kids(heap, 1)
    BY <1>1, <1>5
  <2>2. IF n = Null THEN \A k \in Kids(heap, 1) : pos[k] <= pos[p]
        ELSE IsAfter(heap, pos, 1, p, n)
    BY <1>2, <1>3, <2>1 DEF InOrder, NextInOrder
  <2>3. SortedKids(heap, pos, 1)
        /\ \A k \in Kids(heap, 1) : pos[k] < pos[p] => SortedKids(heap, pos, k)
    BY <1>1, <1>5 DEF SortedTo
  <2>4. \A k \in Kids(heap, 1) : pos[k] <= pos[p] => SortedKids(heap, pos, k)
    <3> SUFFICES ASSUME NEW k \in Kids(heap, 1), pos[k] <= pos[p]
                 PROVE  SortedKids(heap, pos, k)
      OBVIOUS
    <3>1. k = p \/ pos[k] < pos[p]
      BY <1>3, <2>1
    <3> QED
      BY <1>1, <2>3, <3>1
  <2>5. CASE n = Null
    BY <2>2, <2>3, <2>4, <2>5
  <2>6. CASE n # Null
    <3>1. n \in Kids(heap, 1) /\ pos[p] < pos[n]
          /\ \A k \in Kids(heap, 1) : pos[p] < pos[k] => pos[n] <= pos[k]
      BY <2>2, <2>6 DEF IsAfter
    <3>2. \A k \in Kids(heap, 1) : pos[k] < pos[n] => pos[k] <= pos[p]
      BY <1>3, <2>1, <3>1
    <3> QED
      BY <2>3, <2>4, <2>6, <3>1, <3>2 DEF SortedTo
  <2> QED
    BY <2>5, <2>6
<1> QED
  BY <1>4, <1>5

\* The node whose children are sorted joins those before it.
LEMMA SortNextNodeKeeps ==
  ASSUME IInv, SortNextNode
  PROVE  IInv'
<1> SUFFICES ASSUME NEW n,
                    n = IF sorting.node = root THEN heap.first[root] ELSE heap.next[sorting.node]
             PROVE  IInv'
  OBVIOUS
<1>1. /\ TypeOK /\ Rooted /\ RootIsAbove /\ NamesDiffer /\ Kept /\ opts.sort
      /\ root = 1 /\ 1 \in heap.live /\ heap.live \subseteq Made /\ heap.live \subseteq Node
      /\ heap \in Heap /\ attr \in [Node -> Attr]
      /\ count # 0 => count = Cardinality(heap.live)
  BY SortState DEF SortNextNode
<1>2. PICK pos \in Order : IsTree(heap, attr, pos) /\ Sorting(pos)
  BY SortState DEF SortNextNode
<1>3. /\ pc = "sort" /\ sorting.i = Null
      /\ CASE n = Null -> pc' = "done" /\ sorting' = sorting
           [] n # Null /\ IsLeaf(heap, n) ->
                sorting' = [node |-> n, first |-> Null, i |-> Null, j |-> Null] /\ pc' = pc
           [] OTHER -> sorting' = SortNode(n) /\ pc' = pc
      /\ heap' = heap /\ root' = root /\ attr' = attr /\ opts' = opts /\ parse' = parse
      /\ filter' = filter /\ count' = count
  BY DEF SortNextNode
<1>4. IF n = Null THEN \A p \in {1} \cup Kids(heap, 1) : SortedKids(heap, pos, p)
      ELSE n \in Kids(heap, 1) /\ SortedTo(heap, pos, n)
  BY <1>1, <1>2, <1>3, NextIsSorted
<1>5. InOrder(heap, pos)
  BY <1>2, TreeInOrder
<1>6. Rooted' /\ RootIsAbove' /\ NamesDiffer' /\ Kept'
  BY <1>1, <1>3 DEF Rooted, RootIsAbove, NamesDiffer, Made, Kept, Leaves, IsLeaf, NoneUnmet, Unmet
<1>7. CASE n = Null
  <2>1. pc' = "done" /\ sorting' = sorting
    BY <1>3, <1>7
  <2>2. TypeOK'
    BY <1>1, <1>3, <2>1 DEF TypeOK
  <2>3. Sorted(pos)'
    BY <1>1, <1>3, <1>4, <1>7 DEF Sorted, SortedKids, Kids
  <2>4. Printing'
    BY <1>1, <1>2, <1>3, <2>1, <2>3 DEF Printing
  <2> QED
    BY <1>3, <1>6, <2>1, <2>2, <2>4 DEF IInv, Building
<1>8. ASSUME n # Null, pc' = "sort", sorting' \in [node : Ptr, first : Ptr, i : Ptr, j : Ptr],
             sorting'.node = n, sorting'.first = heap.first[n],
             SortingKids(heap, pos, n, sorting'.i, sorting'.j)
      PROVE  IInv'
  <2>1. TypeOK'
    BY <1>1, <1>3, <1>8 DEF TypeOK
  <2>2. Sorting(pos)'
    <3>1. SortingKids(heap, pos, sorting.node, sorting.i, sorting.j)'
      BY <1>3, <1>8 DEF SortingKids, SortedBefore, SortedKids
    <3>2. SortedTo(heap, pos, sorting.node)'
      BY <1>3, <1>4, <1>8 DEF SortedTo, SortedKids
    <3>3. sorting'.node \in {1} \cup Kids(heap', 1)
      BY <1>3, <1>4, <1>8
    <3> QED
      BY <1>1, <1>3, <1>6, <1>8, <3>1, <3>2, <3>3 DEF Sorting, Kids
  <2>3. Printing'
    BY <1>1, <1>2, <1>3, <1>8, <2>2 DEF Printing
  <2> QED
    BY <1>3, <1>6, <1>8, <2>1, <2>3 DEF IInv, Building
<1>9. ASSUME n # Null PROVE n \in heap.live /\ n \in Node /\ n \in Ptr
  BY <1>1, <1>4, <1>9 DEF Kids, Ptr
<1>10. CASE n # Null /\ IsLeaf(heap, n)
  <2>1. pc' = "sort" /\ sorting' = [node |-> n, first |-> Null, i |-> Null, j |-> Null]
    BY <1>3, <1>10
  <2>2. heap.first[n] = Null /\ Kids(heap, n) = {}
    BY <1>5, <1>9, <1>10 DEF IsLeaf, InOrder, FirstInOrder
  <2>3. SortingKids(heap, pos, n, Null, Null)
    BY <2>2 DEF SortingKids, SortedKids
  <2>4. sorting' \in [node : Ptr, first : Ptr, i : Ptr, j : Ptr]
    BY <1>9, <1>10, <2>1 DEF Ptr
  <2> QED
    BY <1>8, <1>10, <2>1, <2>2, <2>3, <2>4
<1>11. CASE n # Null /\ ~IsLeaf(heap, n)
  <2>1. pc' = "sort" /\ sorting' = SortNode(n)
    BY <1>3, <1>11
  <2>2. heap.first[n] # Null
    BY <1>11 DEF IsLeaf
  <2>3. SortingKids(heap, pos, n, heap.next[heap.first[n]], heap.first[n])
        /\ heap.first[n] \in Ptr /\ heap.next[heap.first[n]] \in Ptr
    BY <1>5, <1>9, <1>11, <2>2, SortStarts
  <2>4. sorting' = [node |-> n, first |-> heap.first[n], i |-> heap.next[heap.first[n]],
                    j |-> heap.first[n]]
    BY <2>1 DEF SortNode
  <2>5. sorting' \in [node : Ptr, first : Ptr, i : Ptr, j : Ptr]
    BY ZenonT(60), <1>9, <1>11, <2>3, <2>4
  <2>6. sorting'.node = n /\ sorting'.first = heap.first[n]
        /\ sorting'.i = heap.next[heap.first[n]] /\ sorting'.j = heap.first[n]
    BY <2>4
  <2>7. SortingKids(heap, pos, n, sorting'.i, sorting'.j)
    BY ZenonT(60), <2>3, <2>6
  <2> QED
    BY <1>8, <1>11, <2>1, <2>5, <2>6, <2>7
<1> QED
  BY <1>7, <1>10, <1>11

-----------------------------------------------------------------------------
(***************************************************************************)
(* The invariants                                                          *)
(***************************************************************************)

\* Every step keeps the invariant.
LEMMA IInvStep == IInv /\ BuildInv /\ BuildInv' /\ [Next]_vars => IInv'
<1> SUFFICES ASSUME IInv, BuildInv, BuildInv', [Next]_vars PROVE IInv'
  OBVIOUS
<1>1. CASE ParseRoot
  BY <1>1, ParseRootKeeps
<1>2. CASE \E d \in 2..MaxNodes, open \in BOOLEAN : ReadEntry(d, open)
  BY <1>2, ReadEntryKeeps
<1>3. CASE MoveUp
  BY <1>3, MoveUpKeeps
<1>4. CASE Attach
  BY <1>4, AttachKeeps
<1>5. CASE ParseError
  BY <1>5, ParseErrorKeeps
<1>6. CASE ParseEnd
  BY <1>6, ParseEndKeeps
<1>7. CASE FilterKeep
  BY <1>7, FilterKeepKeeps
<1>8. CASE FilterRemove
  BY <1>8, FilterRemoveKeeps
<1>9. CASE RemoveLeafParent
  BY <1>9, RemoveLeafParentKeeps
<1>10. CASE FilterEnd
  BY <1>10, FilterEndKeeps
<1>11. CASE CountNodes
  BY <1>11, CountNodesKeeps
<1>12. CASE SortCompare
  BY <1>12, SortCompareKeeps
<1>13. CASE SortNextChild
  BY <1>13, SortNextChildKeeps
<1>14. CASE SortNextNode
  BY <1>14, SortNextNodeKeeps
<1>15. CASE Done \/ UNCHANGED vars
  <2>1. /\ heap' = heap /\ root' = root /\ attr' = attr /\ opts' = opts /\ pc' = pc
        /\ parse' = parse /\ filter' = filter /\ sorting' = sorting /\ count' = count
    BY <1>15 DEF Done, vars
  <2>2. TypeOK' /\ Rooted' /\ RootIsAbove' /\ NamesDiffer'
    BY <2>1 DEF IInv, TypeOK, Rooted, RootIsAbove, NamesDiffer, Made
  <2>3. (Building => Parsing)'
    BY <2>1 DEF IInv, Building, Parsing, Made, IsLeaf
  <2>4. (pc = "filter" => Filtering)'
    BY <2>1 DEF IInv, Filtering, Leaves, IsLeaf, Passed, NoneUnmet, Unmet
  <2>5. (pc = "removeParents" => RemovingParents)'
    BY <2>1 DEF IInv, RemovingParents, Branch, Leaves, IsLeaf, Passed, NoneUnmet, Unmet
  <2>6. Kept' = Kept
    BY <2>1 DEF Kept, Leaves, IsLeaf, NoneUnmet, Unmet
  <2>7. (pc = "count" => Counting)'
    BY <2>1, <2>6 DEF IInv, Counting
  <2>8. (pc \in {"sort", "done"} => Printing)'
    <3>1. \A pos : Sorting(pos)' = Sorting(pos) /\ Sorted(pos)' = Sorted(pos)
      BY <2>1, <2>6 DEF Sorting, Sorted, SortingKids, SortedBefore, SortedKids, SortedTo, Kids
    <3> QED
      BY <2>1, <3>1 DEF IInv, Printing
  <2> QED
    BY <2>1, <2>2, <2>3, <2>4, <2>5, <2>7, <2>8 DEF IInv
<1> QED
  BY <1>1, <1>2, <1>3, <1>4, <1>5, <1>6, <1>7, <1>8, <1>9, <1>10, <1>11, <1>12, <1>13, <1>14,
     <1>15 DEF Next

\* Both invariants hold in every state.
LEMMA IInvAlways == Spec => [](IInv /\ BuildInv)
<1>1. Init => IInv /\ BuildInv
  BY IInvInit, BuildInvInit
<1>2. (IInv /\ BuildInv) /\ [Next]_vars => (IInv /\ BuildInv)'
  BY IInvStep, BuildInvStep
<1> QED
  BY <1>1, <1>2, PTL DEF Spec

-----------------------------------------------------------------------------
(***************************************************************************)
(* What the filter loses                                                   *)
(***************************************************************************)

\* The nodes that the tree has: not the one that waits to be deleted.
InTree == IF pc = "removeParents" THEN heap.live \ {filter.victim} ELSE heap.live

\* What the trie has below n is all lost, and there is some.
LostBelow(n) ==
  /\ \E m \in Made : Below(attr, m, n)
  /\ \A m \in InTree : ~Below(attr, m, n)

\* Every export meets the requirements if there are none; an export that is lost
\* though it meets them has lost all below it.
LossInv ==
  /\ opts.require = "none" => \A n \in Made : ~Unmet(n)
  /\ pc = "removeParents" => ~attr[filter.victim].meets
  /\ \A n \in Made \ heap.live : attr[n].meets => LostBelow(n)

\* g has the nodes of h.
SameNodes(h, g) == "live" \in DOMAIN h => "live" \in DOMAIN g /\ g.live = h.live

\* Isolating a node deletes none.
LEMMA IsolateDeletesNone ==
  ASSUME NEW h \in Heap, NEW n
  PROVE  IsolateNode(h, n).live = h.live
<1>1. ASSUME NEW g, NEW p, NEW m PROVE SameNodes(g, SetParentOfSiblings(g, p, m))
  BY DEF SameNodes, SetParentOfSiblings
<1>2. ASSUME NEW g, NEW t, NEW m PROVE SameNodes(g, AddSiblingsRaw(g, t, m))
  <2>1. SameNodes(g, SetParentOfSiblings(g, g.parent[t], m))
    BY <1>1
  <2> DEFINE q == SetParentOfSiblings(g, g.parent[t], m)
  <2>2. \A x, y, z : SameNodes(q, [q EXCEPT !.prev = x, !.next = y, !.last = z])
    BY DEF SameNodes
  <2>3. \E x, y, z : AddSiblingsRaw(g, t, m) = [q EXCEPT !.prev = x, !.next = y, !.last = z]
    BY DEF AddSiblingsRaw
  <2> HIDE DEF q
  <2> QED
    BY <2>1, <2>2, <2>3 DEF SameNodes, q
<1>3. ASSUME NEW g, NEW p, NEW m PROVE SameNodes(g, AddChildrenRaw(g, p, m))
  <2>1. SameNodes(g, SetParentOfSiblings(g, p, m)) /\ SameNodes(g, AddSiblingsRaw(g, g.last[p], m))
    BY <1>1, <1>2
  <2> DEFINE q == SetParentOfSiblings(g, p, m)
  <2>2. \A x, y, z : SameNodes(q, [q EXCEPT !.prev = x, !.first = y, !.last = z])
    BY DEF SameNodes
  <2>3. \/ \E x, y, z : AddChildrenRaw(g, p, m) = [q EXCEPT !.prev = x, !.first = y, !.last = z]
        \/ AddChildrenRaw(g, p, m) = AddSiblingsRaw(g, g.last[p], m)
    BY DEF AddChildrenRaw
  <2> HIDE DEF q
  <2> QED
    BY <2>1, <2>2, <2>3 DEF SameNodes, q
<1>4. ASSUME NEW g, NEW m PROVE SameNodes(g, JoinSiblings(g, m))
  BY DEF SameNodes, JoinSiblings
<1>5. ASSUME NEW g, NEW m PROVE SameNodes(g, MergeChildren(g, m))
  <2>1. \A x, y : SameNodes(g, [g EXCEPT !.first = x, !.last = y]) /\ SameNodes(g, [g EXCEPT !.first = x])
    BY DEF SameNodes
  <2>2. \A x, y : SameNodes(x, [x EXCEPT !.first = y])
    BY DEF SameNodes
  <2>3. \E q, a, b, c :
          /\ SameNodes(g, q)
          /\ MergeChildren(g, m) \in {g, AddSiblingsRaw(q, a, b), AddChildrenRaw(q, a, b)}
    <3> DEFINE c == g.first[m]
               p == g.parent[m]
               f1 == [g.first EXCEPT ![p] = Null]
               l1 == [g.last EXCEPT ![p] = Null]
               s1 == SetParentOfSiblings(g, p, c)
               s2 == [s1 EXCEPT !.first[p] = c]
               s3 == [g EXCEPT !.first[p] = Null, !.last[p] = Null]
    <3>1. SameNodes(g, g) /\ SameNodes(g, s1) /\ SameNodes(g, s2) /\ SameNodes(g, s3)
      <4>1. SameNodes(g, s1)
        BY <1>1
      <4> HIDE DEF s1
      <4>2. SameNodes(s1, s2)
        BY DEF SameNodes
      <4>3. SameNodes(g, g) /\ SameNodes(g, s3)
        BY DEF SameNodes
      <4> QED
        BY <4>1, <4>2, <4>3 DEF SameNodes
    <3>2. MergeChildren(g, m) \in
            {g, AddSiblingsRaw(g, g.prev[m], c), AddSiblingsRaw(s1, g.prev[m], c),
             AddSiblingsRaw(g, g.last[m], g.next[m]), AddSiblingsRaw(s2, g.last[m], g.next[m]),
             AddChildrenRaw(s3, p, c)}
      BY DEF MergeChildren
    <3> HIDE DEF c, p, s1, s2, s3
    <3> QED
      BY <3>1, <3>2
  <2> QED
    BY <1>2, <1>3, <2>3 DEF SameNodes
<1>6. "live" \in DOMAIN h
  BY DEF Heap
<1>7. SameNodes(h, IsolateNode(h, n))
  <2> DEFINE j == JoinSiblings(h, n)
             q == MergeChildren(j, n)
  <2>1. SameNodes(h, j) /\ SameNodes(j, q)
    BY <1>4, <1>5
  <2>2. \A x, y : SameNodes(q, [q EXCEPT !.first = x, !.last = y]) /\ SameNodes(q, [q EXCEPT !.first = x])
    BY DEF SameNodes
  <2>3. \/ IsolateNode(h, n) = q
        \/ \E x : IsolateNode(h, n) = [q EXCEPT !.first = x]
        \/ \E x, y : IsolateNode(h, n) = [q EXCEPT !.first = x, !.last = y]
    BY DEF IsolateNode
  <2> HIDE DEF j, q
  <2> QED
    BY <2>1, <2>2, <2>3 DEF SameNodes
<1> QED
  BY <1>6, <1>7 DEF SameNodes

\* A leaf of the tree has lost all that the trie has below it.
LEMMA LeafHasNoneBelow ==
  ASSUME NEW h, NEW a, NEW pos, IsTree(h, a, pos), NEW c \in h.live, h.first[c] = Null,
         NEW m \in h.live
  PROVE  ~Below(a, m, c)
<1> SUFFICES ASSUME Below(a, m, c) PROVE FALSE
  OBVIOUS
<1>1. h.live \subseteq Node /\ Kids(h, c) = {} /\ Parents(h, a) /\ Node \subseteq Nat \ {0}
  BY HeapTypes DEF IsTree, FirstInOrder, Node
<1> DEFINE S == {k \in h.live : Below(a, k, c)}
<1>2. S \in SUBSET Nat /\ S # {}
  BY <1>1
<1>3. PICK k \in S : \A j \in S : k <= j
  BY <1>2, Ind!LeastExists
<1>4. k \in h.live /\ k \in Nat /\ c \in Nat \ {0} /\ c < k /\ Below(a, k, c)
  BY <1>1, <1>3 DEF Below
<1>5. k # 1
  BY <1>4
<1> DEFINE p == h.parent[k]
<1>6. p \in h.live /\ Below(a, k, p) /\ c <= p
  BY <1>1, <1>4, <1>5 DEF Parents
<1>7. p # c
  BY <1>1, <1>4 DEF Kids
<1> HIDE DEF p
<1>8. p \in Nat /\ p \in Node /\ k \in Node /\ c \in Node
  BY <1>1, <1>4, <1>6
<1>10. p < k /\ c < p
  <2>1. p < k
    BY <1>6 DEF Below
  <2> QED
    BY <1>4, <1>6, <1>7, <1>8, <2>1
<1>9. Below(a, p, c)
  <2>1. \A j \in Node : c < j /\ j <= k => Below(a, j, c)
    BY <1>4, <1>8, BelowInside
  <2> QED
    BY <1>4, <1>8, <1>10, <2>1
<1> QED
  <2>1. p \in S
    BY <1>6, <1>9
  <2>2. k <= p
    BY <1>3, <2>1
  <2> QED
    BY <1>4, <1>8, <1>10, <2>2

\* MakeNode for an export that has nothing required of it meets that.
LEMMA MakeNodeMeets ==
  ASSUME TypeOK, NEW n \in Node, NEW d, NEW e \in BOOLEAN, MakeNode(n, d, e),
         opts.require = "none", \A k \in Node : k < n => ~Unmet(k)
  PROVE  \A k \in Node : k <= n => ~Unmet(k)'
<1>1. PICK meets \in BOOLEAN, name \in FreshNames :
        /\ meets = e
        /\ attr' = [attr EXCEPT ![n] = [export |-> e, meets |-> meets, name |-> name, depth |-> d]]
  BY DEF MakeNode
<1>2. attr \in [Node -> Attr]
  BY DEF TypeOK
<1>3. attr'[n].export = e /\ attr'[n].meets = e /\ \A k \in Node \ {n} : attr'[k] = attr[k]
  BY <1>1, <1>2
<1> SUFFICES ASSUME NEW k \in Node, k <= n PROVE ~(attr'[k].export /\ ~attr'[k].meets)
  BY DEF Unmet
<1>4. CASE k = n
  BY <1>3, <1>4
<1>5. CASE k # n
  <2>1. k < n
    BY <1>5, MaxNodesAssumption DEF Node
  <2> QED
    BY <1>3, <1>5, <2>1 DEF Unmet
<1> QED
  BY <1>4, <1>5

\* Nothing is lost at the start.
LEMMA LossInvInit == Init => LossInv
<1> SUFFICES ASSUME Init PROVE LossInv
  OBVIOUS
<1>1. parse.made = 0 /\ pc = "parse"
  BY DEF Init
<1>2. Made = {}
  BY <1>1 DEF Made
<1> QED
  BY <1>1, <1>2 DEF LossInv

\* While the tree is built nothing is lost.
LEMMA BuildingLosesNone ==
  ASSUME LossInv, IInv, IInv', pc \in {"parse", "attach"}, [Next]_vars, Building'
  PROVE  LossInv'
<1>1. Made' \ heap'.live = {} /\ pc' # "removeParents"
  BY DEF IInv, Building, Parsing
<1>2. ASSUME opts'.require = "none" PROVE \A n \in Made' : ~Unmet(n)'
  <2>1. TypeOK /\ parse.made \in Nat /\ parse.made <= MaxNodes /\ MaxNodes \in Nat
        /\ Made \subseteq Node
    BY MaxNodesAssumption DEF IInv, TypeOK, Made, Node
  <2>2. opts' = opts
    BY Zenon DEF Next, ParseRoot, ReadEntry, MoveUp, Attach, ParseError, ParseEnd, FilterKeep,
       FilterRemove, RemoveLeafParent, FilterEnd, CountNodes, SortCompare, SortNextChild,
       SortNextNode, Done, vars
  <2>3. \A n \in Made : ~Unmet(n)
    BY <1>2, <2>2 DEF LossInv
  <2>4. CASE ParseRoot
    <3>1. MakeNode(1, 1, FALSE) /\ parse' = [parent |-> 1, depth |-> 1, up |-> 0, made |-> 1, open |-> TRUE]
          /\ 1 \in Node
      <4>1. MaxNodes > 1
        BY <2>4 DEF ParseRoot
      <4>2. 1 \in Node
        BY <2>1, <4>1 DEF Node
      <4> QED
        BY Zenon, <2>4, <4>2 DEF ParseRoot
    <3>2. \A k \in Node : k <= 1 => ~Unmet(k)'
      <4>1. \A k \in Node : ~(k < 1)
        BY DEF Node
      <4> QED
        BY <1>2, <2>1, <2>2, <3>1, <4>1, MakeNodeMeets
    <3> QED
      BY <3>1, <3>2 DEF Made, Node
  <2>5. CASE Attach
    <3> DEFINE n == parse.made + 1
    <3>1. PICK e \in BOOLEAN : MakeNode(n, parse.depth, e)
      BY <2>5 DEF Attach
    <3>2. parse' = [parse EXCEPT !.made = n, !.parent = IF parse.open THEN n ELSE parse.parent]
      BY <2>5, Zenon DEF Attach
    <3>3. parse'.made = n
      BY <2>1, <3>2 DEF TypeOK
    <3>4. n \in Node
      <4>1. TypeOK'
        BY DEF IInv
      <4> QED
        BY <2>1, <3>3, <4>1 DEF TypeOK, Node
    <3>5. \A k \in Node : k < n => ~Unmet(k)
      BY <2>1, <2>3 DEF Made, Node
    <3> HIDE DEF n
    <3>6. \A k \in Node : k <= n => ~Unmet(k)'
      BY <1>2, <2>1, <2>2, <3>1, <3>4, <3>5, MakeNodeMeets
    <3>7. \A k \in Made' : k \in Node /\ k <= n
      BY <2>1, <3>3, <3>4 DEF Made, Node
    <3> QED
      BY <3>6, <3>7
  <2>6. CASE ~ParseRoot /\ ~Attach
    <3>1. attr' = attr /\ parse'.made = parse.made
      <4>1. CASE (\E d \in 2..MaxNodes, open \in BOOLEAN : ReadEntry(d, open)) \/ MoveUp
        <5>1. attr' = attr /\ parse \in [parent : Ptr, depth : Nat, up : Nat, made : 0..MaxNodes, open : BOOLEAN]
          BY <2>1, <4>1 DEF ReadEntry, MoveUp, TypeOK
        <5>2. \/ \E d, o, u : parse' = [parse EXCEPT !.depth = d, !.open = o, !.up = u]
              \/ \E q, u : parse' = [parse EXCEPT !.parent = q, !.up = u]
          BY <4>1, Zenon DEF ReadEntry, MoveUp
        <5> QED
          BY <5>1, <5>2
      <4>2. CASE ParseError \/ ParseEnd \/ Done \/ UNCHANGED vars
        BY <4>2 DEF ParseError, ParseEnd, Done, vars
      <4>3. ~(FilterKeep \/ FilterRemove \/ RemoveLeafParent \/ FilterEnd \/ CountNodes
              \/ SortCompare \/ SortNextChild \/ SortNextNode)
        BY DEF FilterKeep, FilterRemove, RemoveLeafParent, FilterEnd, CountNodes,
           SortCompare, SortNextChild, SortNextNode
      <4> QED
        BY <2>6, <4>1, <4>2, <4>3 DEF Next
    <3> QED
      BY <2>3, <3>1 DEF Made, Unmet
  <2> QED
    BY <2>4, <2>5, <2>6
<1> QED
  BY <1>1, <1>2 DEF LossInv

\* Where the nodes stay, what was lost stays lost.
LEMMA SameNodesLoseNone ==
  ASSUME LossInv, heap'.live = heap.live, attr' = attr, opts' = opts, parse' = parse,
         pc # "removeParents", pc' # "removeParents"
  PROVE  LossInv'
  BY DEF LossInv, LostBelow, InTree, Made, Unmet, Below

\* RemoveNode deletes a node that does not meet the requirements.
LEMMA FilterRemoveLoses ==
  ASSUME LossInv, IInv, FilterRemove
  PROVE  LossInv'
<1> DEFINE n == filter.iter
           i == IsolateNode(heap, n)
<1>1. TypeOK /\ heap \in Heap /\ pc = "filter"
  BY DEF IInv, TypeOK, FilterRemove
<1>2. n # Null /\ n \in heap.live /\ n \in Node /\ heap.live \subseteq Node
  BY <1>1, HeapTypes DEF IInv, Filtering, FilterRemove
<1>3. i.live = heap.live
  BY <1>1, IsolateDeletesNone
<1>4. /\ Unmet(n) /\ attr' = attr /\ opts' = opts /\ parse' = parse
      /\ \/ heap' = i /\ pc' = "removeParents" /\ filter'.victim = n
         \/ heap' = ClearNode(i, n) /\ pc' = "filter"
  <2>1. /\ Unmet(n) /\ attr' = attr /\ opts' = opts /\ parse' = parse
        /\ \/ /\ heap' = i /\ pc' = "removeParents"
              /\ \E x, y : filter' = [iter |-> n, victim |-> n, next |-> x, child |-> y]
           \/ heap' = ClearNode(i, n) /\ pc' = "filter"
    BY Zenon DEF FilterRemove
  <2> QED
    BY <2>1
<1> HIDE DEF i, n
<1>5. ClearNode(i, n).live = heap.live \ {n}
  BY <1>3 DEF ClearNode
<1>6. InTree' = heap.live \ {n} /\ heap.live \ {n} \subseteq heap'.live /\ InTree = heap.live
  BY <1>1, <1>3, <1>4, <1>5 DEF InTree
<1>7. ~attr[n].meets
  BY <1>4 DEF Unmet
<1>8. \A k \in Made' \ heap'.live : attr'[k].meets => LostBelow(k)'
  BY <1>4, <1>6, <1>7 DEF LossInv, LostBelow, Made, Below
<1> QED
  BY <1>4, <1>7, <1>8 DEF LossInv, Made, Unmet

\* DoRemoveLeafParents deletes a node that has lost all below it.
LEMMA RemoveLeafParentLoses ==
  ASSUME LossInv, IInv, RemoveLeafParent
  PROVE  LossInv'
<1> SUFFICES ASSUME NEW v, v = filter.victim, NEW c, c = filter.child, NEW p, p = heap.parent[c],
                    NEW w, w = ClearNode(IsolateNode(heap, c), c)
             PROVE  LossInv'
  OBVIOUS
<1>1. /\ pc = "removeParents" /\ attr' = attr /\ opts' = opts /\ parse' = parse
      /\ \/ heap' = ClearNode(w, v) /\ pc' = "filter"
         \/ heap' = w /\ pc' = pc /\ \E x : filter' = [filter EXCEPT !.child = x]
  BY RemoveLeafParentEffect, Zenon
<1>2. /\ TypeOK /\ RemovingParents /\ heap \in Heap /\ Rooted
      /\ filter \in [iter : Ptr, victim : Ptr, next : Ptr, child : Ptr]
  BY <1>1 DEF IInv, TypeOK
<1>3. w.live = heap.live \ {c} /\ ClearNode(w, v).live = heap.live \ {c, v}
  BY <1>2, IsolateDeletesNone DEF ClearNode
<1>4. pc' = pc => filter'.victim = v
  BY <1>1, <1>2
<1>5. /\ InTree = heap.live \ {v} /\ InTree' = heap.live \ {c, v}
      /\ heap.live \ {c, v} \subseteq heap'.live
  BY <1>1, <1>3, <1>4 DEF InTree
<1>6. v \in heap.live /\ c \in heap.live /\ Below(attr, v, c) /\ heap.first[c] = Null
      /\ heap.live \subseteq Node /\ heap.live \subseteq Made
  BY <1>2, HeapTypes DEF RemovingParents, Branch, IsLeaf, Rooted
<1>7. PICK pos \in Order : IsTree(ClearNode(heap, v), attr, pos)
  BY <1>2 DEF RemovingParents
<1>8. ~attr[v].meets
  BY <1>1 DEF LossInv
<1>9. c # v
  BY <1>6, MaxNodesAssumption DEF Below, Node
<1>10. \A m \in heap.live \ {v} : ~Below(attr, m, c)
  <2> DEFINE t == ClearNode(heap, v)
  <2>1. t.live = heap.live \ {v} /\ t.first[c] = Null
    BY <1>2, <1>6, <1>9, ClearFields
  <2> HIDE DEF t
  <2>2. IsTree(t, attr, pos)
    BY <1>7 DEF t
  <2> QED
    BY <1>6, <1>9, <2>1, <2>2, LeafHasNoneBelow
<1>11. ASSUME NEW k \in Made' \ heap'.live, attr'[k].meets PROVE LostBelow(k)'
  <2>1. k \in Made /\ k # v /\ Made' = Made
    BY <1>1, <1>8, <1>11 DEF Made
  <2>2. CASE k = c
    BY <1>1, <1>5, <1>6, <1>10, <2>1, <2>2 DEF LostBelow, Below
  <2>3. CASE k # c
    <3>1. LostBelow(k)
      BY <1>1, <1>5, <1>11, <2>1, <2>3 DEF LossInv
    <3> QED
      BY <1>1, <1>5, <2>1, <3>1 DEF LostBelow, Below
  <2> QED
    BY <2>2, <2>3
<1> QED
  BY <1>1, <1>4, <1>8, <1>11 DEF LossInv, Made, Unmet

\* No other step deletes a node.
LEMMA LossInvStep == LossInv /\ IInv /\ IInv' /\ [Next]_vars => LossInv'
<1> SUFFICES ASSUME LossInv, IInv, IInv', [Next]_vars PROVE LossInv'
  OBVIOUS
<1>1. CASE pc \in {"parse", "attach"} /\ Building'
  BY <1>1, BuildingLosesNone
<1>2. CASE FilterRemove
  BY <1>2, FilterRemoveLoses
<1>3. CASE RemoveLeafParent
  BY <1>3, RemoveLeafParentLoses
<1>4. CASE ParseError \/ ParseEnd \/ FilterKeep \/ FilterEnd \/ CountNodes \/ SortNextChild
           \/ SortNextNode
  <2>1. /\ heap' = heap /\ attr' = attr /\ opts' = opts /\ parse' = parse
        /\ pc # "removeParents" /\ pc' # "removeParents"
    BY <1>4 DEF ParseError, ParseEnd, FilterKeep, FilterEnd, CountNodes, SortNextChild, SortNextNode
  <2> QED
    BY <2>1, SameNodesLoseNone
<1>5. CASE SortCompare
  <2>1. /\ attr' = attr /\ opts' = opts /\ parse' = parse /\ pc = "sort" /\ pc' = pc
        /\ heap' \in {heap, Swap(heap, sorting.j, sorting.i)} /\ heap \in Heap
    BY <1>5 DEF SortCompare, IInv, TypeOK
  <2>2. Swap(heap, sorting.j, sorting.i).live = heap.live
    BY <2>1 DEF Swap, Heap
  <2> QED
    BY <2>1, <2>2, SameNodesLoseNone
<1>6. CASE Done \/ UNCHANGED vars
  <2>1. heap' = heap /\ attr' = attr /\ opts' = opts /\ parse' = parse /\ pc' = pc /\ filter' = filter
    BY <1>6 DEF Done, vars
  <2> QED
    BY <2>1 DEF LossInv, LostBelow, InTree, Made, Unmet, Below
<1>7. CASE ParseRoot \/ MoveUp \/ Attach \/ \E d \in 2..MaxNodes, open \in BOOLEAN : ReadEntry(d, open)
  <2>1. pc \in {"parse", "attach"} /\ pc' \in {"parse", "attach"}
    BY <1>7, Zenon DEF ParseRoot, MoveUp, Attach, ReadEntry
  <2> QED
    BY <1>1, <2>1 DEF Building
<1> QED
  BY <1>2, <1>3, <1>4, <1>5, <1>6, <1>7 DEF Next

\* So it holds in every state.
LEMMA LossInvAlways == Spec => [](IInv /\ LossInv)
<1>1. LossInv /\ IInv /\ IInv' /\ [Next]_vars => LossInv'
  BY LossInvStep
<1> QED
  BY <1>1, LossInvInit, IInvAlways, PTL DEF Spec


-----------------------------------------------------------------------------
(***************************************************************************)
(* The invariant says what the properties say                              *)
(***************************************************************************)

\* Between the calls that change it, the heap is a tree whose sibling lists are
\* in order.
LEMMA TreeAtRest ==
  ASSUME IInv, AtRest
  PROVE  \E pos \in Order : IsTree(heap, attr, pos)
<1>1. pc \in {"parse", "attach", "filter", "count", "sort", "done"}
  BY DEF IInv, TypeOK, AtRest
<1>2. CASE pc \in {"parse", "attach"}
  BY <1>2 DEF IInv, Building, Parsing
<1>3. CASE pc = "filter"
  BY <1>3 DEF IInv, Filtering
<1>4. CASE pc = "count"
  BY <1>4 DEF IInv, Counting
<1>5. CASE pc \in {"sort", "done"}
  BY <1>5 DEF IInv, Printing
<1> QED
  BY <1>1, <1>2, <1>3, <1>4, <1>5

\* The invariant says that the heap is sound,
LEMMA SoundFromIInv == IInv => HeapIsSound
<1> SUFFICES ASSUME IInv PROVE HeapIsSound
  OBVIOUS
<1>1. TypeOK /\ Rooted
  BY DEF IInv
<1>2. WellLinked
  <2> SUFFICES ASSUME AtRest, NEW n \in heap.live
               PROVE  /\ heap.next[n] # Null =>
                           /\ heap.next[n] \in heap.live
                           /\ heap.prev[heap.next[n]] = n
                           /\ heap.parent[heap.next[n]] = heap.parent[n]
                      /\ heap.prev[n] # Null =>
                           heap.prev[n] \in heap.live /\ heap.next[heap.prev[n]] = n
                      /\ heap.first[n] # Null =>
                           /\ heap.first[n] \in heap.live
                           /\ heap.parent[heap.first[n]] = n
                           /\ heap.prev[heap.first[n]] = Null
                      /\ heap.parent[n] # Null =>
                           /\ heap.parent[n] \in heap.live
                           /\ heap.prev[n] = Null => heap.first[heap.parent[n]] = n
    BY DEF WellLinked
  <2>1. PICK pos \in Order : IsTree(heap, attr, pos)
    BY TreeAtRest
  <2>2. InOrder(heap, pos)
    BY <2>1, TreeInOrder
  <2>3. heap.parent[n] # Null => heap.parent[n] \in heap.live
    BY <2>2 DEF InOrder
  <2>4. heap.next[n] # Null =>
          /\ heap.next[n] \in heap.live
          /\ heap.prev[heap.next[n]] = n
          /\ heap.parent[heap.next[n]] = heap.parent[n]
    BY <2>2, NextIsLinked
  <2>5. heap.prev[n] # Null => heap.prev[n] \in heap.live /\ heap.next[heap.prev[n]] = n
    BY <2>2, PrevIsLinked
  <2>6. /\ heap.first[n] # Null => heap.first[n] \in heap.live /\ heap.parent[heap.first[n]] = n
                                   /\ heap.prev[heap.first[n]] = Null
        /\ heap.parent[n] # Null /\ heap.prev[n] = Null => heap.first[heap.parent[n]] = n
    BY <2>2, FirstIsLinked
  <2> QED
    BY <2>3, <2>4, <2>5, <2>6
<1>3. NothingLost
  <2> SUFFICES ASSUME AtRest
               PROVE  heap.live = IF root = Null THEN {} ELSE Subtree(heap, root)
    BY DEF NothingLost
  <2>1. CASE root = Null
    BY <1>1, <2>1 DEF Rooted
  <2>2. CASE root # Null
    <3>1. root = 1 /\ 1 \in heap.live
      BY <1>1, <2>2 DEF Rooted
    <3>2. PICK pos \in Order : IsTree(heap, attr, pos)
      BY TreeAtRest
    <3>3. InOrder(heap, pos)
      BY <3>2, TreeInOrder
    <3>4. \A n \in heap.live : n # 1 => heap.parent[n] \in heap.live /\ heap.parent[n] < n
      BY <3>2 DEF IsTree, Parents, Below
    <3>5. Subtree(heap, 1) = heap.live
      BY <3>1, <3>3, <3>4, SubtreeIsAll
    <3> QED
      BY <2>2, <3>1, <3>5
  <2> QED
    BY <2>1, <2>2
<1>4. IteratorLive
  BY DEF IInv, Filtering, RemovingParents, IteratorLive
<1> QED
  BY <1>1, <1>2, <1>3, <1>4 DEF HeapIsSound

\* that the result is complete,
LEMMA CompleteFromInv == IInv /\ LossInv => ResultIsComplete
<1> SUFFICES ASSUME IInv, LossInv PROVE ResultIsComplete
  OBVIOUS
<1>1. OnlyAskedFor
  <2> SUFFICES ASSUME pc \in {"count", "sort"}, NEW n \in heap.live
               PROVE  /\ Unmet(n) => opts.require = "kind"
                      /\ IsLeaf(heap, n) => attr[n].export
    BY DEF OnlyAskedFor
  <2>1. Kept
    BY DEF IInv, Counting, Printing, Sorting
  <2>2. opts.require \in {"none", "kind", "section"} /\ n \in Made
    BY OptionsAssumption DEF IInv, TypeOK, AllRequirements, Rooted
  <2> QED
    BY <2>1, <2>2 DEF Kept, Leaves, NoneUnmet, LossInv
<1>2. AllAskedFor
  <2> SUFFICES ASSUME AtRest, NEW n \in 1..parse.made, attr[n].meets, n \notin heap.live
               PROVE  TrieBelow(n) # {} /\ TrieBelow(n) \cap heap.live = {}
    BY DEF AllAskedFor
  <2>1. LostBelow(n) /\ InTree = heap.live
    BY DEF LossInv, Made, AtRest, InTree
  <2>2. \A m \in Made : Below(attr, m, n) <=> m \in TrieBelow(n)
    BY DEF Below, TrieBelow, Made
  <2>3. TrieBelow(n) \subseteq Made
    BY DEF TrieBelow, Made
  <2> QED
    BY <2>1, <2>2, <2>3 DEF LostBelow
<1>3. CountIsExact
  BY DEF IInv, Printing, CountIsExact
<1> QED
  BY <1>1, <1>2, <1>3 DEF ResultIsComplete

\* and that the tree is sorted.
LEMMA SortedFromIInv == IInv => SortedByComparator
<1> SUFFICES ASSUME IInv, pc = "done", opts.sort, count # 0
             PROVE  \A p \in {root} \cup ChildList(heap, root) : \A c \in ChildList(heap, p) :
                      heap.next[c] # Null => ~ShouldSwap(c, heap.next[c])
  BY DEF SortedByComparator
<1>1. PICK pos \in Order : IsTree(heap, attr, pos) /\ Sorted(pos)
  BY DEF IInv, Printing
<1>2. root = 1 /\ \A p \in {1} \cup Kids(heap, 1) : SortedKids(heap, pos, p)
  BY <1>1 DEF Sorted
<1>3. InOrder(heap, pos) /\ heap \in Heap /\ heap.live \subseteq Node
  BY <1>1, TreeInOrder, HeapTypes DEF InOrder
<1>4. 1 \in heap.live
  <2>1. 1 # Null
    BY NullIsNoNode, MaxNodesAssumption DEF Node
  <2> QED
    BY <1>2, <2>1 DEF IInv, Rooted
<1>5. ChildList(heap, 1) = Kids(heap, 1)
  BY <1>3, <1>4, ChildListIsKids
<1>6. attr \in [Node -> Attr]
  BY DEF IInv, TypeOK
<1> SUFFICES ASSUME NEW p \in {1} \cup Kids(heap, 1), NEW c \in ChildList(heap, p),
                    heap.next[c] # Null
             PROVE  ~ShouldSwap(c, heap.next[c])
  BY <1>2, <1>5
<1>7. p \in heap.live
  BY <1>4 DEF Kids
<1>8. c \in Kids(heap, p)
  BY <1>3, <1>7, ChildListIsKids
<1>9. c \in heap.live /\ heap.parent[c] = p
  BY <1>8 DEF Kids
<1>10. heap.next[c] \in Kids(heap, p) /\ pos[c] < pos[heap.next[c]]
  BY <1>3, <1>9, NextIsLinked DEF Kids
<1>11. attr[c].name > attr[heap.next[c]].name
  BY <1>2, <1>8, <1>10 DEF SortedKids
<1>12. attr[c].name \in Nat /\ attr[heap.next[c]].name \in Nat
  BY <1>3, <1>6, <1>8, <1>10, KidsAreNumbered
<1> QED
  BY <1>11, <1>12 DEF ShouldSwap

\* Whatever ParseFromTrie builds, the filter removes and Sort exchanges: the
\* pointers agree with each other, no node is lost, and no loop goes on from a
\* node that was deleted.
THEOREM HeapStaysSound == Spec => []HeapIsSound
  BY IInvAlways, SoundFromIInv, PTL

\* The filter leaves no export that fails the requirements and no branch without
\* an export at its end, it loses an export that meets them only with all that the
\* trie has below it, and the count is the number of nodes left.
THEOREM ResultStaysComplete == Spec => []ResultIsComplete
  BY LossInvAlways, CompleteFromInv, PTL

\* Sort leaves the children of the root and of each of its children in the
\* order its comparator asks for.
THEOREM SortIsByComparator == Spec => []SortedByComparator
  BY IInvAlways, SortedFromIInv, PTL

-----------------------------------------------------------------------------
(***************************************************************************)
(* The tree without its pointers: ImplementsOrderedTree                    *)
(***************************************************************************)

\* The children of each node of h, the pairs of siblings, and those in order.
KidsOf(h) == [p \in Node |-> Kids(h, p)]
PairsOf(h) == {pair \in h.live \X h.live : h.parent[pair[1]] = h.parent[pair[2]] /\ pair[1] # pair[2]}
OrderOf(h, pos) == {pair \in PairsOf(h) : pos[pair[1]] < pos[pair[2]]}

\* Only the root of a tree has no parent, and a parent is allocated.
LEMMA OnlyRoot ==
  ASSUME NEW h, NEW a, NEW pos \in Order, IsTree(h, a, pos)
  PROVE  /\ h.live \subseteq Node /\ h.parent \in [Node -> Ptr]
         /\ \A n \in h.live : h.parent[n] = Null <=> n = 1
         /\ \A n \in h.live : n # 1 => h.parent[n] \in h.live
         /\ \A n \in Node \ h.live : Kids(h, n) = {}
<1>1. h.live \subseteq Node /\ h.parent \in [Node -> Ptr]
  BY HeapTypes DEF IsTree
<1>2. \A n \in h.live : IF n = 1 THEN h.parent[n] = Null ELSE h.parent[n] \in h.live
  BY DEF IsTree, Parents
<1>3. \A n \in h.live : h.parent[n] = Null <=> n = 1
  BY <1>1, <1>2, NullIsNoNode
<1>4. \A n \in Node \ h.live : Kids(h, n) = {}
  BY <1>1, <1>2, NullIsNoNode DEF Kids
<1> QED
  BY <1>1, <1>2, <1>3, <1>4

\* The children a walk finds are the nodes with that parent.
LEMMA ListsAreKids ==
  ASSUME NEW h, NEW a, NEW pos \in Order, IsTree(h, a, pos)
  PROVE  ChildLists(h) = KidsOf(h)
<1>1. ASSUME NEW p \in Node PROVE ChildList(h, p) = Kids(h, p)
  <2>1. CASE p \in h.live
    BY <2>1, TreeInOrder, ChildListIsKids
  <2>2. CASE p \notin h.live
    <3>1. h.first[p] = Null
      BY <2>2 DEF IsTree, DeadAreClear
    <3>2. ChildList(h, p) = {}
      BY <3>1 DEF ChildList, IsLeaf
    <3> QED
      BY <2>2, <3>2, OnlyRoot
  <2> QED
    BY <2>1, <2>2
<1> QED
  BY <1>1 DEF ChildLists, KidsOf

\* The pairs of siblings in the order of a walk are those in the order of places.
LEMMA WalkOrder ==
  ASSUME NEW h, NEW a, NEW pos \in Order, IsTree(h, a, pos)
  PROVE  SiblingOrder(h) = OrderOf(h, pos)
<1>1. ASSUME NEW m \in h.live
      PROVE  \A k : k \in SiblingsFrom(h, m) <=> k \in Kids(h, h.parent[m]) /\ pos[m] <= pos[k]
  <2> DEFINE p == h.parent[m]
             R == {k \in Kids(h, p) : pos[m] <= pos[k]}
  <2>1. m \in Kids(h, p) /\ InOrder(h, pos)
    BY TreeInOrder DEF Kids
  <2>2. SiblingsFrom(h, m) = R
    <3> HIDE DEF p
    <3>1. \A k : k \in R <=> k \in Kids(h, p) /\ pos[m] <= pos[k]
      OBVIOUS
    <3> HIDE DEF R
    <3>2. \A k \in R : h.next[k] = h.next[k]
      OBVIOUS
    <3> QED
      BY <2>1, <3>1, <3>2, RangeOfSiblings
  <2> QED
    BY <2>2
<1>2. /\ h.live \subseteq Node /\ \A k \in Node : pos[k] \in Nat
      /\ \A j, k \in Node : pos[j] = pos[k] => j = k
  BY HeapTypes, PosTypes DEF IsTree
<1>3. ASSUME NEW m \in h.live, NEW k \in SiblingsFrom(h, m) \ {m}
      PROVE  k \in h.live /\ h.parent[m] = h.parent[k] /\ m # k /\ pos[m] < pos[k]
  <2>1. k \in h.live /\ h.parent[m] = h.parent[k] /\ m # k /\ pos[m] <= pos[k]
    BY <1>1, <1>3 DEF Kids
  <2> QED
    BY <1>2, <2>1
<1>4. ASSUME NEW m \in h.live, NEW k \in h.live, h.parent[m] = h.parent[k], m # k, pos[m] < pos[k]
      PROVE  k \in SiblingsFrom(h, m) \ {m}
  <2>1. pos[m] <= pos[k]
    BY <1>2, <1>4
  <2> QED
    BY <1>1, <1>4, <2>1 DEF Kids
<1>5. SiblingOrder(h) \subseteq OrderOf(h, pos)
  <2> SUFFICES ASSUME NEW m \in h.live, NEW pair \in {m} \X (SiblingsFrom(h, m) \ {m})
               PROVE  pair \in OrderOf(h, pos)
    BY DEF SiblingOrder
  <2>1. pair[1] = m /\ pair[2] \in SiblingsFrom(h, m) \ {m} /\ pair = <<pair[1], pair[2]>>
    OBVIOUS
  <2>2. /\ pair[2] \in h.live /\ h.parent[m] = h.parent[pair[2]] /\ m # pair[2]
        /\ pos[m] < pos[pair[2]]
    BY <1>3, <2>1
  <2> QED
    BY <2>1, <2>2 DEF OrderOf, PairsOf
<1>6. OrderOf(h, pos) \subseteq SiblingOrder(h)
  <2> SUFFICES ASSUME NEW pair \in OrderOf(h, pos) PROVE pair \in SiblingOrder(h)
    OBVIOUS
  <2>1. /\ pair = <<pair[1], pair[2]>> /\ pair[1] \in h.live /\ pair[2] \in h.live
        /\ h.parent[pair[1]] = h.parent[pair[2]] /\ pair[1] # pair[2] /\ pos[pair[1]] < pos[pair[2]]
    BY DEF OrderOf, PairsOf
  <2>2. pair[2] \in SiblingsFrom(h, pair[1]) \ {pair[1]}
    BY <1>4, <2>1
  <2>3. pair \in {pair[1]} \X (SiblingsFrom(h, pair[1]) \ {pair[1]})
    BY <2>1, <2>2
  <2> QED
    BY <2>1, <2>3 DEF SiblingOrder
<1> QED
  BY <1>5, <1>6

\* The siblings that OrderedTree sees are the pairs of siblings.
LEMMA SiblingsArePairs ==
  ASSUME NEW h, NEW a, NEW pos \in Order, IsTree(h, a, pos)
  PROVE  Ordered!Siblings(KidsOf(h)) = PairsOf(h)
<1>1. /\ h.live \subseteq Node /\ \A n \in h.live : h.parent[n] = Null <=> n = 1
      /\ h.parent \in [Node -> Ptr]
  BY OnlyRoot
<1>2. ASSUME NEW p \in Node, NEW pair \in Kids(h, p) \X Kids(h, p), pair[1] # pair[2]
      PROVE  pair \in PairsOf(h)
  BY <1>2 DEF Kids, PairsOf
<1>3. ASSUME NEW pair \in PairsOf(h)
      PROVE  \E p \in Node : pair \in Kids(h, p) \X Kids(h, p) /\ pair[1] # pair[2]
  <2>1. /\ pair = <<pair[1], pair[2]>> /\ pair[1] \in h.live /\ pair[2] \in h.live
        /\ h.parent[pair[1]] = h.parent[pair[2]] /\ pair[1] # pair[2]
    BY DEF PairsOf
  <2>2. h.parent[pair[1]] \in Node
    BY <1>1, <2>1 DEF Ptr
  <2>3. pair \in Kids(h, h.parent[pair[1]]) \X Kids(h, h.parent[pair[1]])
    BY <2>1 DEF Kids
  <2> QED
    BY <2>1, <2>2, <2>3
<1>4. \A p \in Node : KidsOf(h)[p] = Kids(h, p)
  BY DEF KidsOf
<1>5. \A pair : pair \in Ordered!Siblings(KidsOf(h)) <=>
                  \E p \in Node : pair \in Kids(h, p) \X Kids(h, p) /\ pair[1] # pair[2]
  <2> HIDE DEF KidsOf
  <2> QED
    BY <1>4 DEF Ordered!Siblings
<1> QED
  BY <1>2, <1>3, <1>5

\* Two that are siblings before and after a step keep their order.
SiblingsKept(h, pos, g, pos2) ==
  \A x, y \in h.live \cap g.live :
    h.parent[x] = h.parent[y] /\ g.parent[x] = g.parent[y] =>
      (pos2[x] < pos2[y] <=> pos[x] < pos[y])

\* The order of places is an order.
LEMMA PlacesAreOrder ==
  ASSUME NEW g, NEW pos \in Order, g.live \subseteq Node
  PROVE  Ordered!IsOrder(OrderOf(g, pos), PairsOf(g))
<1>1. /\ \A k \in Node : pos[k] \in Nat
      /\ \A j, k \in Node : pos[j] = pos[k] => j = k
  BY PosTypes
<1>2. OrderOf(g, pos) \subseteq PairsOf(g)
  BY DEF OrderOf
<1>3. ASSUME NEW pair \in PairsOf(g)
      PROVE  pair \in OrderOf(g, pos) <=> <<pair[2], pair[1]>> \notin OrderOf(g, pos)
  <2>1. /\ pair[1] \in g.live /\ pair[2] \in g.live
        /\ g.parent[pair[1]] = g.parent[pair[2]] /\ pair[1] # pair[2]
    BY DEF PairsOf
  <2>2. <<pair[2], pair[1]>> \in PairsOf(g)
    BY <2>1 DEF PairsOf
  <2>3. pos[pair[1]] < pos[pair[2]] <=> ~(pos[pair[2]] < pos[pair[1]])
    BY <1>1, <2>1
  <2>4. <<pair[2], pair[1]>>[1] = pair[2] /\ <<pair[2], pair[1]>>[2] = pair[1]
    OBVIOUS
  <2> QED
    BY <2>2, <2>3, <2>4 DEF OrderOf
<1>4. ASSUME NEW x \in OrderOf(g, pos), NEW y \in OrderOf(g, pos), x[2] = y[1]
      PROVE  <<x[1], y[2]>> \in OrderOf(g, pos)
  <2>1. /\ x[1] \in g.live /\ y[2] \in g.live /\ x[2] \in g.live
        /\ g.parent[x[1]] = g.parent[y[2]]
        /\ pos[x[1]] < pos[x[2]] /\ pos[x[2]] < pos[y[2]]
    BY <1>4 DEF OrderOf, PairsOf
  <2>2. pos[x[1]] < pos[y[2]] /\ x[1] # y[2]
    BY <1>1, <2>1
  <2> QED
    BY <2>1, <2>2 DEF OrderOf, PairsOf
<1> QED
  BY <1>2, <1>3, <1>4 DEF Ordered!IsOrder

\* And where siblings keep their order, so do the pairs.
LEMMA PairsKept ==
  ASSUME NEW h, NEW g, NEW pos, NEW pos2, SiblingsKept(h, pos, g, pos2)
  PROVE  OrderOf(g, pos2) \cap PairsOf(h) = OrderOf(h, pos) \cap PairsOf(g)
<1>1. ASSUME NEW pair, pair \in PairsOf(h), pair \in PairsOf(g)
      PROVE  pair \in OrderOf(g, pos2) <=> pair \in OrderOf(h, pos)
  BY <1>1 DEF OrderOf, PairsOf, SiblingsKept
<1> QED
  BY <1>1 DEF OrderOf

\* What OrderedTree sees, for a tree in the order of pos.
Emptied == IF pc = "removeParents" THEN filter.child ELSE Null
Unwanted == {n \in Linked.live : Unmet(n)}

\* A step from a tree to a tree that keeps the order of siblings.
LEMMA StepKeepsOrder ==
  ASSUME NEW h, NEW pos \in Order, IsTree(h, attr, pos), Linked = h,
         NEW g, NEW pos2 \in Order, IsTree(g, attr', pos2), Linked' = g
  PROVE  /\ ChildLists(Linked) = KidsOf(h) /\ SiblingOrder(Linked) = OrderOf(h, pos)
         /\ ChildLists(Linked)' = KidsOf(g) /\ SiblingOrder(Linked)' = OrderOf(g, pos2)
         /\ SiblingsKept(h, pos, g, pos2) => Ordered!OrderKept
<1>1. ChildLists(Linked) = KidsOf(h) /\ SiblingOrder(Linked) = OrderOf(h, pos)
  BY ListsAreKids, WalkOrder
<1>2. ChildLists(Linked)' = KidsOf(g) /\ SiblingOrder(Linked)' = OrderOf(g, pos2)
  <2>1. ChildLists(g) = KidsOf(g) /\ SiblingOrder(g) = OrderOf(g, pos2)
    BY ListsAreKids, WalkOrder
  <2> QED
    BY <2>1
<1>3. Ordered!Siblings(KidsOf(h)) = PairsOf(h) /\ Ordered!Siblings(KidsOf(g)) = PairsOf(g)
  BY SiblingsArePairs
<1>4. ASSUME SiblingsKept(h, pos, g, pos2) PROVE Ordered!OrderKept
  <2>1. g.live \subseteq Node
    BY OnlyRoot
  <2>2. Ordered!IsOrder(OrderOf(g, pos2), PairsOf(g))
    BY <2>1, PlacesAreOrder
  <2>3. OrderOf(g, pos2) \cap PairsOf(h) = OrderOf(h, pos) \cap PairsOf(g)
    BY <1>4, PairsKept
  <2> QED
    BY <1>1, <1>2, <1>3, <2>2, <2>3 DEF Ordered!OrderKept
<1> QED
  BY <1>1, <1>2, <1>4

\* n has left the tree to its parent.
Left(h, n, g) ==
  /\ g.live = h.live \ {n}
  /\ \A k \in g.live : g.parent[k] = IF h.parent[k] = n THEN h.parent[n] ELSE h.parent[k]

\* Its children have joined its siblings.
LEMMA LeftKids ==
  ASSUME NEW h, NEW a, NEW pos \in Order, IsTree(h, a, pos), NEW n \in h.live,
         NEW g, NEW b, NEW pos2 \in Order, IsTree(g, b, pos2), Left(h, n, g)
  PROVE  KidsOf(g) = [m \in Node |-> IF m = n THEN {}
                                     ELSE IF n \in KidsOf(h)[m]
                                          THEN (KidsOf(h)[m] \ {n}) \cup KidsOf(h)[n]
                                     ELSE KidsOf(h)[m]]
<1>1. /\ h.live \subseteq Node /\ n \in Node /\ g.live = h.live \ {n}
      /\ \A k \in g.live : k \in h.live /\ k # n
      /\ \A k \in g.live : g.parent[k] = IF h.parent[k] = n THEN h.parent[n] ELSE h.parent[k]
  BY OnlyRoot DEF Left
<1>2. Kids(g, n) = {} /\ n \notin Kids(h, n)
  <2>1. \A k \in g.live : g.parent[k] # n
    <3>1. \A k \in g.live : IF k = 1 THEN g.parent[k] = Null ELSE g.parent[k] \in g.live
      BY DEF IsTree, Parents
    <3> QED
      BY <1>1, <3>1, NullIsNoNode
  <2>2. h.parent[n] # n
    BY <1>1, NullIsNoNode, PosTypes, MaxNodesAssumption DEF IsTree, Parents, Below, Node
  <2> QED
    BY <2>1, <2>2 DEF Kids
<1>3. ASSUME NEW m \in Node, m # n
      PROVE  Kids(g, m) = IF n \in Kids(h, m) THEN (Kids(h, m) \ {n}) \cup Kids(h, n)
                          ELSE Kids(h, m)
  <2>1. CASE n \in Kids(h, m)
    <3>1. h.parent[n] = m
      BY <2>1 DEF Kids
    <3> QED
      BY <1>1, <1>2, <1>3, <2>1, <3>1 DEF Kids
  <2>2. CASE n \notin Kids(h, m)
    <3>1. h.parent[n] # m
      BY <2>2 DEF Kids
    <3> QED
      BY <1>1, <1>3, <2>2, <3>1 DEF Kids
  <2> QED
    BY <2>1, <2>2
<1>4. \A m \in Node : KidsOf(h)[m] = Kids(h, m)
  BY DEF KidsOf
<1> DEFINE K(m) == IF m = n THEN {}
                   ELSE IF n \in KidsOf(h)[m]
                        THEN (KidsOf(h)[m] \ {n}) \cup KidsOf(h)[n]
                   ELSE KidsOf(h)[m]
<1>5. \A m \in Node : Kids(g, m) = K(m)
  BY <1>1, <1>2, <1>3, <1>4
<1> HIDE DEF K
<1>6. KidsOf(g) = [m \in Node |-> K(m)]
  BY <1>5 DEF KidsOf
<1> QED
  BY <1>6 DEF K

\* A step in which n leaves the tree is one in which OrderedTree takes n out.
LEMMA StepTakesOut ==
  ASSUME NEW h, NEW pos \in Order, IsTree(h, attr, pos), Linked = h, NEW n \in h.live,
         NEW g, NEW pos2 \in Order, IsTree(g, attr, pos2), Linked' = g, Left(h, n, g),
         attr' = attr,
         \A x, y \in g.live : h.parent[x] = h.parent[y] =>
           (pos2[x] < pos2[y] <=> pos[x] < pos[y]),
         NEW p, p = h.parent[n], NEW e, Emptied' = e,
         e = IF p # Null /\ Kids(g, p) = {} THEN p ELSE Null
  PROVE  Ordered!TakeOut(n)
<1>1. /\ ChildLists(Linked) = KidsOf(h) /\ ChildLists(Linked)' = KidsOf(g)
      /\ Ordered!OrderKept
  <2>1. g.live = h.live \ {n}
    BY DEF Left
  <2>2. SiblingsKept(h, pos, g, pos2)
    BY <2>1 DEF SiblingsKept
  <2>3. IsTree(g, attr', pos2)
    OBVIOUS
  <2> QED
    BY <2>2, <2>3, StepKeepsOrder
<1>2. KidsOf(g) = [m \in Node |-> IF m = n THEN {}
                                  ELSE IF n \in KidsOf(h)[m]
                                       THEN (KidsOf(h)[m] \ {n}) \cup KidsOf(h)[n]
                                  ELSE KidsOf(h)[m]]
  BY LeftKids
<1>3. Linked'.live = Linked.live \ {n}
  BY DEF Left
<1>4. Unwanted' = Unwanted \ {n}
  <2>1. \A k : Unmet(k)' <=> Unmet(k)
    BY DEF Unmet
  <2> QED
    BY <1>3, <2>1 DEF Unwanted
<1> DEFINE E == {m \in Linked.live : n \in KidsOf(h)[m] /\ KidsOf(g)[m] = {}}
<1>5. Emptied' \in IF E = {} THEN {Null} ELSE E
  <2>1. /\ h.live \subseteq Node /\ Null \notin Node
        /\ p # Null => p \in h.live
    BY OnlyRoot, NullIsNoNode
  <2>2. E = {m \in h.live : m = p /\ Kids(g, m) = {}}
    <3>1. \A m \in h.live : n \in KidsOf(h)[m] <=> m = p
      BY <2>1 DEF KidsOf, Kids
    <3>2. \A m \in h.live : KidsOf(g)[m] = Kids(g, m)
      BY <2>1 DEF KidsOf
    <3> QED
      BY <3>1, <3>2
  <2> HIDE DEF E
  <2>3. CASE p # Null /\ Kids(g, p) = {}
    <3>1. p \in E
      BY <2>1, <2>2, <2>3
    <3>2. Emptied' = p
      BY <2>3
    <3> QED
      BY <3>1, <3>2
  <2>4. CASE ~(p # Null /\ Kids(g, p) = {})
    <3>1. E = {}
      BY <2>1, <2>2, <2>4
    <3>2. Emptied' = Null
      BY <2>4
    <3> QED
      BY <3>1, <3>2
  <2> QED
    BY <2>3, <2>4
<1> QED
  BY <1>1, <1>2, <1>3, <1>4, <1>5, ZenonT(60) DEF Ordered!TakeOut, Emptied, Unwanted

\* A step in which n becomes a leaf of the tree is one in which OrderedTree adds it.
LEMMA StepAdds ==
  ASSUME NEW h, NEW pos \in Order, IsTree(h, attr, pos), Linked = h,
         NEW g, NEW pos2 \in Order, IsTree(g, attr', pos2), Linked' = g,
         SiblingsKept(h, pos, g, pos2),
         NEW n \in Node \ h.live, g.live = h.live \cup {n},
         \A k \in h.live : attr'[k] = attr[k] /\ g.parent[k] = h.parent[k],
         NEW p, p = g.parent[n], p = Null => h.live = {},
         Emptied = Null, Emptied' = Null
  PROVE  Ordered!Add(n)
<1>1. /\ ChildLists(Linked) = KidsOf(h) /\ ChildLists(Linked)' = KidsOf(g)
      /\ Ordered!OrderKept
  BY StepKeepsOrder
<1>2. n \notin Linked.live /\ Linked'.live = Linked.live \cup {n}
  OBVIOUS
<1>3. Unwanted' \in {Unwanted, Unwanted \cup {n}}
  <2>1. \A k \in h.live : Unmet(k)' <=> Unmet(k)
    BY DEF Unmet
  <2>2. CASE Unmet(n)'
    <3>1. Unwanted' = Unwanted \cup {n}
      BY <1>2, <2>1, <2>2 DEF Unwanted
    <3> QED
      BY <3>1
  <2>3. CASE ~Unmet(n)'
    <3>1. Unwanted' = Unwanted
      BY <1>2, <2>1, <2>3 DEF Unwanted
    <3> QED
      BY <3>1
  <2> QED
    BY <2>2, <2>3
<1>4. \/ Linked.live = {} /\ KidsOf(g) = KidsOf(h)
      \/ \E q \in Linked.live : KidsOf(g) = [KidsOf(h) EXCEPT ![q] = @ \cup {n}]
  <2>1. /\ \A k \in h.live : k \in g.live /\ g.parent[k] = h.parent[k] /\ k # n
        /\ n \in g.live /\ Null \notin Node
        /\ p # Null => p \in g.live
        /\ h.live \subseteq Node /\ g.live \subseteq Node
    BY OnlyRoot, NullIsNoNode
  <2>2. CASE p = Null
    <3>1. \A m \in Node : Kids(h, m) = {} /\ Kids(g, m) = {}
      BY <2>1, <2>2 DEF Kids
    <3> QED
      BY <2>2, <3>1 DEF KidsOf
  <2>3. CASE p # Null
    <3>1. p # n
      <4>1. \A k \in g.live : k # 1 => Below(attr', k, g.parent[k])
        BY DEF IsTree, Parents
      <4>2. n # 1
        BY <2>1, <2>3 DEF IsTree, Parents
      <4> QED
        BY <2>1, <4>1, <4>2, MaxNodesAssumption DEF Below, Node
    <3>2. p \in Linked.live /\ p \in Node
      BY <2>1, <2>3, <3>1
    <3>3. \A m \in Node : Kids(g, m) = IF m = p THEN Kids(h, m) \cup {n} ELSE Kids(h, m)
      BY <2>1 DEF Kids
    <3>4. KidsOf(g) = [KidsOf(h) EXCEPT ![p] = @ \cup {n}]
      BY <3>2, <3>3 DEF KidsOf
    <3> QED
      BY <3>2, <3>4
  <2> QED
    BY <2>2, <2>3
<1> QED
  BY <1>1, <1>2, <1>3, <1>4 DEF Ordered!Add, Emptied, Unwanted

\* A step in which two siblings change places is one in OrderedTree too.
LEMMA StepSwaps ==
  ASSUME NEW h, NEW pos \in Order, IsTree(h, attr, pos), Linked = h,
         NEW l \in h.live, NEW r \in h.live, NEW p \in h.live,
         l \in Kids(h, p), r \in Kids(h, p),
         NEW g, NEW pos2 \in Order, IsTree(g, attr', pos2), Linked' = g,
         g.live = h.live, g.parent = h.parent,
         \A k \in Node : pos2[k] = pos[Sw(l, r, k)],
         attr' = attr, Emptied = Null, Emptied' = Null
  PROVE  Ordered!SwapSiblings
<1>1. /\ ChildLists(Linked) = KidsOf(h) /\ ChildLists(Linked)' = KidsOf(g)
      /\ SiblingOrder(Linked) = OrderOf(h, pos) /\ SiblingOrder(Linked)' = OrderOf(g, pos2)
  BY StepKeepsOrder
<1>2. h.live \subseteq Node
  BY OnlyRoot
<1>3. KidsOf(g) = KidsOf(h)
  BY DEF KidsOf, Kids
<1>4. /\ \A k : Sw(l, r, Sw(l, r, k)) = k
      /\ \A k \in h.live : Sw(l, r, k) \in h.live /\ h.parent[Sw(l, r, k)] = h.parent[k]
  BY DEF Sw, Kids
<1> DEFINE In(k) == Sw(l, r, k)
           B == {<<In(pair[1]), In(pair[2])>> : pair \in OrderOf(h, pos)}
<1>5. OrderOf(g, pos2) = B
  <2>1. PairsOf(g) = PairsOf(h)
    BY DEF PairsOf
  <2>2. ASSUME NEW x \in h.live, NEW y \in h.live, <<x, y>> \in PairsOf(h)
        PROVE  <<In(x), In(y)>> \in PairsOf(h)
    <3>1. /\ In(x) \in h.live /\ In(y) \in h.live /\ h.parent[In(x)] = h.parent[In(y)]
          /\ In(x) # In(y)
      BY <1>4, <2>2 DEF PairsOf
    <3> HIDE DEF In
    <3> QED
      BY <3>1 DEF PairsOf
  <2>3. ASSUME NEW x \in h.live, NEW y \in h.live, <<x, y>> \in OrderOf(g, pos2)
        PROVE  <<In(x), In(y)>> \in OrderOf(h, pos)
    <3>1. <<x, y>> \in PairsOf(h) /\ pos2[x] < pos2[y]
      BY <2>1, <2>3 DEF OrderOf
    <3>2. <<In(x), In(y)>> \in PairsOf(h)
      BY <2>2, <3>1
    <3>3. pos[In(x)] < pos[In(y)]
      BY <1>2, <3>1
    <3> HIDE DEF In
    <3> QED
      BY <3>2, <3>3 DEF OrderOf
  <2>4. ASSUME NEW x \in h.live, NEW y \in h.live, <<x, y>> \in OrderOf(h, pos)
        PROVE  <<In(x), In(y)>> \in OrderOf(g, pos2)
    <3>1. <<x, y>> \in PairsOf(h) /\ pos[x] < pos[y]
      BY <2>4 DEF OrderOf
    <3>2. <<In(x), In(y)>> \in PairsOf(g)
      BY <2>1, <2>2, <3>1
    <3>3. In(x) \in Node /\ In(y) \in Node /\ In(In(x)) = x /\ In(In(y)) = y
      BY <1>2, <1>4
    <3>4. pos2[In(x)] < pos2[In(y)]
      BY <3>1, <3>3
    <3> HIDE DEF In
    <3> QED
      BY <3>2, <3>4 DEF OrderOf
  <2>5. ASSUME NEW S, NEW pair \in OrderOf(S, pos) \cup OrderOf(S, pos2), S.live = h.live
        PROVE  pair = <<pair[1], pair[2]>> /\ pair[1] \in h.live /\ pair[2] \in h.live
    BY <2>5 DEF OrderOf, PairsOf
  <2>6. ASSUME NEW pair \in OrderOf(g, pos2) PROVE pair \in B
    <3>1. pair = <<pair[1], pair[2]>> /\ pair[1] \in h.live /\ pair[2] \in h.live
      BY <2>5
    <3>2. <<In(pair[1]), In(pair[2])>> \in OrderOf(h, pos)
      BY <2>3, <3>1
    <3>3. In(In(pair[1])) = pair[1] /\ In(In(pair[2])) = pair[2]
      BY <1>4
    <3> DEFINE q == <<In(pair[1]), In(pair[2])>>
    <3>4. q \in OrderOf(h, pos) /\ pair = <<In(q[1]), In(q[2])>>
      BY <3>1, <3>2, <3>3
    <3> HIDE DEF q, In
    <3> QED
      BY <3>4
  <2>7. ASSUME NEW pair \in OrderOf(h, pos) PROVE <<In(pair[1]), In(pair[2])>> \in OrderOf(g, pos2)
    <3>1. pair = <<pair[1], pair[2]>> /\ pair[1] \in h.live /\ pair[2] \in h.live
      BY <2>5
    <3> QED
      BY <2>4, <3>1
  <2> HIDE DEF In
  <2> QED
    BY <2>6, <2>7
<1>6. Ordered!Exchanged(l, r) = B
  BY <1>1 DEF Ordered!Exchanged, Sw
<1>7. SiblingOrder(Linked)' \in {Ordered!Exchanged(x, y) : x, y \in KidsOf(h)[p]}
  <2>1. l \in KidsOf(h)[p] /\ r \in KidsOf(h)[p]
    BY <1>2 DEF KidsOf
  <2>2. SiblingOrder(Linked)' = Ordered!Exchanged(l, r)
    BY <1>1, <1>5, <1>6
  <2> QED
    BY <2>1, <2>2
<1>8. Linked'.live = Linked.live /\ Unwanted' = Unwanted
  BY DEF Unwanted, Unmet
<1> QED
  BY <1>1, <1>3, <1>7, <1>8 DEF Ordered!SwapSiblings, Emptied, Unwanted

\* Between the calls of RemoveNode no node waits to be deleted.
NoVictim == AtRest => filter.victim = Null

\* There is none at the start,
LEMMA NoVictimInit == Init => NoVictim
  BY DEF Init, NoVictim

\* and RemoveNode forgets the one it had when it returns.
LEMMA NoVictimStep == TypeOK /\ NoVictim /\ [Next]_vars => NoVictim'
<1> SUFFICES ASSUME TypeOK, NoVictim, [Next]_vars PROVE NoVictim'
  OBVIOUS
<1>1. filter \in [iter : Ptr, victim : Ptr, next : Ptr, child : Ptr]
  BY DEF TypeOK
<1>2. CASE ParseRoot \/ MoveUp \/ Attach \/ ParseError \/ FilterEnd \/ CountNodes \/ SortCompare
           \/ SortNextChild \/ SortNextNode
           \/ \E d \in 2..MaxNodes, open \in BOOLEAN : ReadEntry(d, open)
  <2>1. filter' = filter /\ AtRest
    BY <1>2, Zenon DEF ParseRoot, MoveUp, Attach, ParseError, FilterEnd, CountNodes, SortCompare,
         SortNextChild, SortNextNode, ReadEntry, AtRest
  <2> QED
    BY <2>1 DEF NoVictim
<1>3. CASE ParseEnd \/ FilterKeep
  <2>1. AtRest /\ \E x : filter' = [filter EXCEPT !.iter = x]
    BY <1>3 DEF ParseEnd, FilterKeep, AtRest
  <2> QED
    BY <1>1, <2>1 DEF NoVictim
<1>4. CASE FilterRemove
  <2>1. AtRest /\ \/ pc' = "removeParents"
                  \/ \E x : filter' = [filter EXCEPT !.iter = x]
    BY <1>4, Zenon DEF FilterRemove, AtRest
  <2> QED
    BY <1>1, <2>1 DEF NoVictim, AtRest
<1>5. CASE RemoveLeafParent
  <2>1. pc = "removeParents" /\ (pc' = pc \/ filter'.victim = Null)
    BY <1>5, RemoveLeafParentEffect
  <2> QED
    BY <2>1 DEF NoVictim, AtRest
<1>6. CASE Done \/ UNCHANGED vars
  BY <1>6 DEF Done, vars, NoVictim, AtRest
<1> QED
  BY <1>2, <1>3, <1>4, <1>5, <1>6 DEF Next

\* So there is none in any state at rest.
LEMMA NoVictimAlways == Spec => []NoVictim
<1>1. TypeOK /\ NoVictim /\ [Next]_vars => NoVictim'
  BY NoVictimStep
<1>2. IInv => TypeOK
  BY DEF IInv
<1> QED
  BY <1>1, <1>2, NoVictimInit, IInvAlways, PTL DEF Spec

\* Where no node waits to be deleted, the tree is what the pointers are.
LEMMA LinkedAtRest ==
  ASSUME AtRest, NoVictim
  PROVE  Linked = heap /\ Emptied = Null
  BY DEF AtRest, NoVictim, Linked, Emptied

\* A step that leaves the pointers and what is known of the nodes alone is no
\* step of OrderedTree.
LEMMA StepStutters ==
  ASSUME AtRest, NoVictim, AtRest', NoVictim', heap' = heap, attr' = attr
  PROVE  UNCHANGED Ordered!vars
<1>1. Linked = heap /\ Emptied = Null
  BY LinkedAtRest
<1>2. Linked' = heap' /\ Emptied' = Null
  BY DEF AtRest, NoVictim, Linked, Emptied
<1>3. Linked' = Linked /\ Emptied' = Emptied
  BY <1>1, <1>2
<1>4. Unwanted' = Unwanted
  BY <1>3 DEF Unwanted, Unmet
<1> QED
  BY <1>3, <1>4 DEF Ordered!vars, Emptied, Unwanted

\* The cursors of the parse, the filter, the count and the sort are no part of
\* OrderedTree.
LEMMA OtherSteps ==
  ASSUME TypeOK, NoVictim, NoVictim',
         \/ MoveUp \/ ParseError \/ ParseEnd \/ FilterKeep \/ FilterEnd \/ CountNodes
         \/ SortNextChild \/ SortNextNode
         \/ \E d \in 2..MaxNodes, open \in BOOLEAN : ReadEntry(d, open)
  PROVE  UNCHANGED Ordered!vars
<1>1. heap' = heap /\ attr' = attr /\ AtRest
  BY Zenon DEF MoveUp, ParseError, ParseEnd, FilterKeep, FilterEnd, CountNodes, SortNextChild,
     SortNextNode, ReadEntry, AtRest
<1>2. AtRest'
  BY DEF MoveUp, ParseError, ParseEnd, FilterKeep, FilterEnd, CountNodes, SortNextChild,
     SortNextNode, ReadEntry, AtRest
<1> QED
  BY <1>1, <1>2, StepStutters

\* The first entry of the trie is a leaf added to the empty tree,
LEMMA ParseRootAdds ==
  ASSUME IInv, BuildInv, IInv', BuildInv', NoVictim, NoVictim', ParseRoot
  PROVE  Ordered!Add(1)
<1> SUFFICES ASSUME NEW h, h = heap, NEW g, g = heap' PROVE Ordered!Add(1)
  OBVIOUS
<1>1. /\ AtRest /\ AtRest' /\ root = Null /\ heap' = Allocate(heap, 1) /\ pc' = "parse"
      /\ Rooted /\ TypeOK
  BY Zenon DEF ParseRoot, AtRest, IInv
<1>2. Linked = h /\ Emptied = Null
  BY <1>1, LinkedAtRest
<1>3. Linked' = g /\ Emptied' = Null
  BY <1>1 DEF AtRest, NoVictim, Linked, Emptied
<1>4. PICK pos \in Order : IsTree(h, attr, pos)
  BY <1>1, TreeAtRest
<1>5. PICK pos2 \in Order : IsTree(g, attr', pos2)
  BY <1>1 DEF IInv, Building, Parsing
<1>6. h.live = {} /\ g.live = h.live \cup {1} /\ 1 \in Node /\ Null \notin Node
  BY <1>1, MaxNodesAssumption, NullIsNoNode DEF Rooted, Allocate, TypeOK, Heap, Node
<1>7. g.parent[1] = Null
  BY <1>5, <1>6 DEF IsTree, Parents
<1>8. SiblingsKept(h, pos, g, pos2)
  BY <1>6 DEF SiblingsKept
<1> QED
  BY <1>2, <1>3, <1>4, <1>5, <1>6, <1>7, <1>8, StepAdds

\* and each later one a leaf added to the node the parse has as its Parent.
LEMMA AttachAdds ==
  ASSUME IInv, BuildInv, IInv', BuildInv', NoVictim, NoVictim', Attach
  PROVE  \E n \in Node : Ordered!Add(n)
<1> SUFFICES ASSUME NEW h, h = heap, NEW g, g = heap', NEW n, n = parse.made + 1,
                    NEW p, p = parse.parent
             PROVE  \E k \in Node : Ordered!Add(k)
  OBVIOUS
<1>1. n \in Node /\ p \in h.live /\ TypeOK /\ pc' = "parse"
  BY AttachEffect, Zenon
<1>2. AtRest /\ AtRest'
  BY <1>1 DEF Attach, AtRest
<1>3. Linked = h /\ Emptied = Null
  BY <1>2, LinkedAtRest
<1>4. Linked' = g /\ Emptied' = Null
  BY <1>2 DEF AtRest, NoVictim, Linked, Emptied
<1>5. Added(h, p, n, g) /\ \A k \in h.live : attr'[k] = attr[k] /\ k # n
  BY AttachTree
<1>6. PICK pos, pos2 \in Order :
        /\ IsWalk(h, attr, pos) /\ IsAddOrder(h, attr, pos, p, n, pos2)
        /\ IsTree(g, attr', pos2)
  BY AttachTree
<1>7. IsTree(h, attr, pos) /\ h.live \subseteq Node /\ Null \notin Node
  BY <1>1, <1>6, HeapTypes, NullIsNoNode DEF IsWalk, IsTree
<1>8. /\ g.live = h.live \cup {n} /\ g.parent[n] = p
      /\ \A k \in h.live : g.parent[k] = h.parent[k]
  BY <1>1, <1>5, <1>7 DEF Added
<1>9. SiblingsKept(h, pos, g, pos2)
  BY <1>6, <1>8 DEF SiblingsKept, IsAddOrder
<1>10. n \in Node \ h.live /\ p # Null
  BY <1>1, <1>5, <1>7
<1>11. Ordered!Add(n)
  BY <1>3, <1>4, <1>5, <1>6, <1>7, <1>8, <1>9, <1>10, StepAdds
<1> QED
  BY <1>10, <1>11

\* A comparison of the sort exchanges two siblings or nothing.
LEMMA SortCompareSwaps ==
  ASSUME IInv, IInv', NoVictim, NoVictim', SortCompare
  PROVE  Ordered!SwapSiblings \/ UNCHANGED Ordered!vars
<1> SUFFICES ASSUME NEW h, h = heap, NEW g, g = heap', NEW l, l = sorting.j,
                    NEW r, r = sorting.i, NEW p, p = sorting.node
             PROVE  Ordered!SwapSiblings \/ UNCHANGED Ordered!vars
  OBVIOUS
<1>1. AtRest /\ AtRest' /\ attr' = attr /\ r # Null /\ l # r /\ pc = "sort"
  BY DEF SortCompare, AtRest
<1>2. CASE ~ShouldSwap(l, r)
  <2>1. heap' = heap
    BY <1>2 DEF SortCompare
  <2> QED
    BY <1>1, <2>1, StepStutters
<1>3. CASE ShouldSwap(l, r)
  <2>1. g = Swap(h, l, r)
    BY <1>3 DEF SortCompare
  <2>2. PICK pos \in Order : IsTree(h, attr, pos) /\ Sorting(pos)
    BY <1>1, SortState
  <2>3. /\ p \in h.live /\ r \in Kids(h, p) /\ l \in Kids(h, p) /\ pos[l] <= pos[r]
        /\ h.live \subseteq Node
    BY <1>1, <2>2, SortState DEF Sorting, SortingKids, Kids
  <2>4. l \in h.live /\ r \in h.live /\ h.parent[l] = p /\ h.parent[r] = p /\ pos[l] < pos[r]
    BY <1>1, <2>3, PosTypes DEF Kids
  <2> DEFINE pos2 == [k \in Node |-> pos[Sw(l, r, k)]]
  <2>5. /\ pos2 \in Order /\ IsTree(g, attr, pos2) /\ Swapped(h, l, r, g)
        /\ \A k \in Node : pos2[k] = pos[Sw(l, r, k)]
    <3>1. pos2 = [k \in Node |-> pos[Sw(l, r, k)]]
      OBVIOUS
    <3> HIDE DEF pos2
    <3> QED
      BY <2>1, <2>2, <2>3, <2>4, <3>1, SwappedTree
  <2> HIDE DEF pos2
  <2>6. g.live = h.live /\ g.parent = h.parent /\ IsTree(g, attr', pos2)
    BY <1>1, <2>5 DEF Swapped
  <2>7. Linked = h /\ Emptied = Null
    BY <1>1, LinkedAtRest
  <2>8. Linked' = g /\ Emptied' = Null
    BY <1>1 DEF AtRest, NoVictim, Linked, Emptied
  <2> QED
    BY <1>1, <2>2, <2>3, <2>4, <2>5, <2>6, <2>7, <2>8, StepSwaps
<1> QED
  BY <1>2, <1>3

\* RemoveNode, up to its test of the parent, takes out the node the filter is at.
LEMMA FilterRemoveTakesOut ==
  ASSUME IInv, NoVictim, NoVictim', FilterRemove
  PROVE  Ordered!RemoveNode
<1> SUFFICES ASSUME NEW h, h = heap, NEW n, n = filter.iter, NEW i, i = IsolateNode(h, n),
                    NEW g, g = ClearNode(i, n), NEW s, s = NextNode(h, n),
                    NEW p, p = h.parent[n]
             PROVE  Ordered!RemoveNode
  OBVIOUS
<1>1. /\ TypeOK /\ Rooted /\ RootIsAbove /\ Filtering
      /\ pc = "filter" /\ n # Null /\ n # root /\ Unmet(n)
  BY DEF IInv, FilterRemove
<1>2. n \in h.live /\ h.live \subseteq Node /\ Null \notin Node
  BY <1>1, HeapTypes, NullIsNoNode DEF Filtering, TypeOK
<1>3. PICK pos \in Order : /\ IsTree(h, attr, pos) /\ Preorder(h.live, attr, pos)
                           /\ Passed(h.live, pos, n)
  BY <1>1 DEF Filtering
<1>4. root # Null
  BY <1>1, <1>2 DEF Rooted
<1>5. IsWalk(h, attr, pos) /\ n # 1
  BY <1>1, <1>3, <1>4, TreeIsWalk
<1>6. h.first[n] # Null => h.last[n] = h.first[n]
  <2>1. pos[n] <= pos[n]
    BY <1>2, PosTypes
  <2> QED
    BY <1>1, <1>2, <1>3, <2>1 DEF Passed, Lasts
<1>7. /\ i \in Heap /\ i.parent[n] = p /\ Adopted(h, n, g) /\ s \in g.live \cup {Null}
      /\ \E pos2 \in Order :
           /\ IsTree(g, attr, pos2)
           /\ \A x, y \in g.live : h.parent[x] = h.parent[y] =>
                (pos2[x] < pos2[y] <=> pos[x] < pos[y])
  BY <1>2, <1>5, <1>6, RemovedTree
<1>8. PICK pos2 \in Order :
           /\ IsTree(g, attr, pos2)
           /\ \A x, y \in g.live : h.parent[x] = h.parent[y] =>
                (pos2[x] < pos2[y] <=> pos[x] < pos[y])
  BY <1>7
<1>9. Left(h, n, g) /\ s \in Ptr
  <2>1. /\ g.live = h.live \ {n}
        /\ \A k \in Node : g.parent[k] = IF k = n THEN Null
                                         ELSE IF h.parent[k] = n THEN p ELSE h.parent[k]
    BY <1>7 DEF Adopted
  <2> QED
    BY <1>2, <1>7, <2>1 DEF Left, Ptr
<1>10. p \in g.live /\ p \in Node /\ p # Null /\ p # n
  <2>1. p \in h.live /\ Below(attr, n, p)
    BY <1>2, <1>3, <1>5 DEF IsTree, Parents
  <2>2. p # n
    BY <1>2, <2>1, MaxNodesAssumption DEF Below, Node
  <2> QED
    BY <1>2, <1>9, <2>1, <2>2 DEF Left
<1>11. IsLeaf(i, p) <=> Kids(g, p) = {}
  <2>1. g.first[p] = i.first[p]
    BY <1>2, <1>7, <1>10, ClearFields
  <2>2. g.first[p] = Null <=> Kids(g, p) = {}
    BY <1>8, <1>10 DEF IsTree, FirstInOrder
  <2> QED
    BY <2>1, <2>2 DEF IsLeaf
<1>12. /\ attr' = attr
       /\ filter \in [iter : Ptr, victim : Ptr, next : Ptr, child : Ptr]
       /\ IF IsLeaf(i, p)
          THEN /\ heap' = i /\ pc' = "removeParents"
               /\ filter' = [iter |-> n, victim |-> n, next |-> s, child |-> p]
          ELSE /\ heap' = g /\ pc' = "filter" /\ filter' = [filter EXCEPT !.iter = s]
  <2>1. n = filter.iter /\ i = IsolateNode(heap, n) /\ s = NextNode(heap, n)
    OBVIOUS
  <2>2. IF i.parent[n] # Null /\ IsLeaf(i, i.parent[n])
        THEN /\ heap' = i /\ pc' = "removeParents"
             /\ filter' = [iter |-> n, victim |-> n, next |-> s, child |-> i.parent[n]]
        ELSE /\ heap' = ClearNode(i, n) /\ pc' = "filter"
             /\ filter' = [filter EXCEPT !.iter = s]
    BY <1>1, <1>9, <2>1, FilterRemoveEffect, Zenon
  <2>3. attr' = attr /\ filter \in [iter : Ptr, victim : Ptr, next : Ptr, child : Ptr]
    BY <1>1, <1>9, <2>1, FilterRemoveEffect, Zenon
  <2> QED
    BY <1>7, <1>10, <2>2, <2>3
<1>13. AtRest /\ Linked = h /\ Emptied = Null
  <2>1. AtRest
    BY <1>1 DEF AtRest
  <2> QED
    BY <2>1, LinkedAtRest
<1>14. Linked' = g /\ Emptied' = IF Kids(g, p) = {} THEN p ELSE Null
  <2>1. CASE IsLeaf(i, p)
    <3>1. /\ heap' = i /\ pc' = "removeParents" /\ filter'.victim = n /\ filter'.child = p
      BY <1>12, <2>1
    <3> QED
      BY <1>1, <1>11, <2>1, <3>1 DEF Linked, Emptied
  <2>2. CASE ~IsLeaf(i, p)
    <3>1. heap' = g /\ pc' = "filter" /\ AtRest'
      BY <1>12, <2>2 DEF AtRest
    <3>2. filter'.victim = Null
      BY <3>1 DEF NoVictim
    <3> QED
      BY <1>11, <2>2, <3>1, <3>2 DEF Linked, Emptied
  <2> QED
    BY <2>1, <2>2
<1>15. Ordered!TakeOut(n)
  <2> DEFINE e == IF Kids(g, p) = {} THEN p ELSE Null
  <2>1. e = (IF p # Null /\ Kids(g, p) = {} THEN p ELSE Null) /\ Emptied' = e
    BY <1>10, <1>14
  <2> HIDE DEF e
  <2> QED
    BY <1>2, <1>3, <1>8, <1>9, <1>12, <1>13, <1>14, <2>1, StepTakesOut
<1>16. n \in Unwanted
  BY <1>1, <1>2, <1>13 DEF Unwanted
<1> QED
  BY <1>13, <1>15, <1>16 DEF Ordered!RemoveNode, Unwanted, Emptied

\* One turn of DoRemoveLeafParents takes out the parent emptied before.
LEMMA RemoveLeafParentTakesOut ==
  ASSUME IInv, NoVictim, NoVictim', RemoveLeafParent
  PROVE  Ordered!RemoveEmptied
<1> SUFFICES ASSUME NEW v, v = filter.victim, NEW c, c = filter.child, NEW h, h = heap,
                    NEW p, p = h.parent[c], NEW t, t = ClearNode(h, v),
                    NEW w, w = ClearNode(IsolateNode(h, c), c),
                    NEW g, g = ClearNode(w, v)
             PROVE  Ordered!RemoveEmptied
  OBVIOUS
<1>1. /\ pc = "removeParents" /\ attr' = attr
      /\ IF p = Null \/ ~IsLeaf(w, p)
         THEN heap' = g /\ pc' = "filter"
         ELSE heap' = w /\ pc' = pc /\ filter' = [filter EXCEPT !.child = p]
  BY RemoveLeafParentEffect, Zenon
<1>2. /\ TypeOK /\ Rooted /\ RootIsAbove /\ RemovingParents
  BY <1>1 DEF IInv
<1>3. /\ h \in Heap /\ attr \in [Node -> Attr] /\ h.live \subseteq Node /\ Null \notin Node
      /\ filter \in [iter : Ptr, victim : Ptr, next : Ptr, child : Ptr]
      /\ parse.made \in Nat
  BY <1>2, HeapTypes, NullIsNoNode, MaxNodesAssumption DEF TypeOK
<1>4. /\ root = 1 /\ v \in h.live /\ v # 1 /\ c \in h.live /\ Below(attr, v, c)
      /\ h.first[c] = Null
  BY <1>2 DEF RemovingParents, Branch, IsLeaf
<1>5. PICK pos \in Order : IsTree(t, attr, pos) /\ Preorder(h.live, attr, pos)
  BY <1>2 DEF RemovingParents
<1>6. /\ c # v /\ v # Null /\ c # Null /\ 1 \in h.live
      /\ \A k \in h.live : k # 1 => Below(attr, k, 1)
  <2>1. 1 \in h.live /\ h.live \subseteq 1..parse.made
    BY <1>2, <1>3, <1>4 DEF Rooted, Made
  <2>2. \A k \in h.live : k # 1 => k \in 2..parse.made
    BY <1>3, <2>1
  <2>3. root # Null
    BY <1>3, <1>4, <2>1
  <2>4. c # v
    BY <1>3, <1>4, MaxNodesAssumption DEF Below, Node
  <2> QED
    BY <1>2, <1>3, <1>4, <2>1, <2>2, <2>3, <2>4 DEF RootIsAbove
<1>7. /\ t.live = h.live \ {v} /\ t.parent[c] = p /\ c \in t.live
      /\ t \in Heap
  BY <1>3, <1>4, <1>6, ClearFields
<1>8. Linked = t /\ Emptied = c
  BY <1>1, <1>6 DEF Linked, Emptied
<1>9. /\ IsTree(g, attr, pos) /\ Left(t, c, g)
      /\ p = Null \/ (p \in Node /\ p # v /\ w \in Heap /\ (g.first[p] = Null <=> Kids(g, p) = {}))
  <2>1. CASE c = 1
    <3>1. p = Null /\ h.live = {v, 1} /\ g.live = {} /\ IsTree(g, attr, pos)
      BY <1>3, <1>4, <1>5, <1>6, <2>1, RootCleared
    <3>2. t.live \ {c} = {}
      BY <1>7, <2>1, <3>1
    <3> QED
      BY <3>1, <3>2 DEF Left
  <2>2. CASE c # 1
    <3>1. /\ w \in Heap /\ IsTree(g, attr, pos) /\ g.live = h.live \ {v, c} /\ Adopted(t, c, g)
          /\ p \in h.live /\ p # v /\ p # c /\ p # Null
      BY <1>3, <1>4, <1>5, <1>6, <2>2, LeafCleared
    <3>2. /\ g.live = t.live \ {c}
          /\ \A k \in Node : g.parent[k] = IF k = c THEN Null
                                           ELSE IF t.parent[k] = c THEN t.parent[c]
                                           ELSE t.parent[k]
      BY <3>1 DEF Adopted
    <3>3. Left(t, c, g)
      BY <1>3, <1>7, <3>2 DEF Left
    <3>4. p \in g.live /\ p \in Node
      BY <1>3, <3>1
    <3>5. g.first[p] = Null <=> Kids(g, p) = {}
      BY <3>1, <3>4 DEF IsTree, FirstInOrder
    <3> QED
      BY <3>1, <3>3, <3>4, <3>5
  <2> QED
    BY <2>1, <2>2
<1>10. p # Null => (IsLeaf(w, p) <=> Kids(g, p) = {})
  <2>1. p # Null => g.first[p] = w.first[p]
    BY <1>3, <1>4, <1>9, ClearFields
  <2> QED
    BY <1>9, <2>1 DEF IsLeaf
<1> DEFINE e == IF p # Null /\ Kids(g, p) = {} THEN p ELSE Null
<1>11. Linked' = g /\ Emptied' = e
  <2>1. CASE p = Null \/ ~IsLeaf(w, p)
    <3>1. heap' = g /\ pc' = "filter" /\ AtRest'
      BY <1>1, <2>1 DEF AtRest
    <3>2. filter'.victim = Null
      BY <3>1 DEF NoVictim
    <3> QED
      BY <1>10, <2>1, <3>1, <3>2 DEF Linked, Emptied
  <2>2. CASE ~(p = Null \/ ~IsLeaf(w, p))
    <3>1. heap' = w /\ pc' = "removeParents" /\ filter'.victim = v /\ filter'.child = p
      BY <1>1, <1>3, <2>2
    <3> QED
      BY <1>6, <1>10, <2>2, <3>1 DEF Linked, Emptied
  <2> QED
    BY <2>1, <2>2
<1>12. Ordered!TakeOut(c)
  <2>1. \A x, y \in g.live : t.parent[x] = t.parent[y] => (pos[x] < pos[y] <=> pos[x] < pos[y])
    OBVIOUS
  <2>2. e = IF p # Null /\ Kids(g, p) = {} THEN p ELSE Null
    OBVIOUS
  <2>3. p = t.parent[c]
    BY <1>7
  <2> HIDE DEF e
  <2> QED
    BY <1>1, <1>5, <1>7, <1>8, <1>9, <1>11, <2>1, <2>2, <2>3, StepTakesOut
<1> QED
  BY <1>6, <1>8, <1>12 DEF Ordered!RemoveEmptied, Emptied

\* No pointer is set at the start: the tree is empty.
LEMMA OrderedInit == Init => Ordered!Init
<1> SUFFICES ASSUME Init PROVE Ordered!Init
  OBVIOUS
<1>1. Linked = EmptyHeap
  BY DEF Init, Linked
<1>2. /\ EmptyHeap.live = {} /\ \A n \in Node : EmptyHeap.first[n] = Null
  BY DEF EmptyHeap
<1>3. ChildLists(Linked) = [n \in Node |-> {}]
  BY <1>1, <1>2 DEF ChildLists, ChildList, IsLeaf
<1>4. SiblingOrder(Linked) = {}
  BY <1>1, <1>2 DEF SiblingOrder
<1> QED
  BY <1>1, <1>2, <1>3, <1>4 DEF Ordered!Init, Init

\* Every step is one of OrderedTree or changes nothing that it sees.
LEMMA OrderedStep ==
  ASSUME IInv, BuildInv, NoVictim, IInv', BuildInv', NoVictim', [Next]_vars
  PROVE  [Ordered!Next]_Ordered!vars
<1>1. TypeOK
  BY DEF IInv
<1>2. CASE ParseRoot
  <2>1. Ordered!Add(1) /\ 1 \in Node
    BY <1>2, ParseRootAdds, MaxNodesAssumption DEF Node
  <2> QED
    BY <2>1 DEF Ordered!Next
<1>3. CASE Attach
  BY <1>3, AttachAdds DEF Ordered!Next
<1>4. CASE FilterRemove
  BY <1>4, FilterRemoveTakesOut DEF Ordered!Next
<1>5. CASE RemoveLeafParent
  BY <1>5, RemoveLeafParentTakesOut DEF Ordered!Next
<1>6. CASE SortCompare
  BY <1>6, SortCompareSwaps DEF Ordered!Next
<1>7. CASE \/ MoveUp \/ ParseError \/ ParseEnd \/ FilterKeep \/ FilterEnd \/ CountNodes
           \/ SortNextChild \/ SortNextNode
           \/ \E d \in 2..MaxNodes, open \in BOOLEAN : ReadEntry(d, open)
  BY <1>1, <1>7, OtherSteps
<1>8. CASE Done \/ UNCHANGED vars
  <2>1. /\ heap' = heap /\ attr' = attr /\ pc' = pc /\ filter' = filter
    BY <1>8 DEF Done, vars
  <2>2. Linked' = Linked /\ Emptied' = Emptied
    BY <2>1 DEF Linked, Emptied
  <2>3. Unwanted' = Unwanted
    BY <2>1, <2>2 DEF Unwanted, Unmet
  <2> QED
    BY <2>2, <2>3 DEF Ordered!vars, Emptied, Unwanted
<1> QED
  BY <1>2, <1>3, <1>4, <1>5, <1>6, <1>7, <1>8 DEF Next

\* The pointers implement the tree: whatever the trie and the options, building
\* adds leaves, RemoveNode hands the children of the node it deletes to its
\* parent and deletes exactly the parents emptied by that, Swap exchanges two
\* siblings, and in all of it no node is lost and no other siblings change places.
THEOREM PointersImplementTree == Spec => ImplementsOrderedTree
<1>1. IInv /\ BuildInv /\ NoVictim /\ IInv' /\ BuildInv' /\ NoVictim' /\ [Next]_vars
      => [Ordered!Next]_Ordered!vars
  BY OrderedStep
<1> QED
  BY <1>1, OrderedInit, IInvAlways, NoVictimAlways, PTL DEF Spec, Ordered!Spec, ImplementsOrderedTree

=============================================================================

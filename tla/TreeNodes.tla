------------------------------ MODULE TreeNodes ------------------------------
(***************************************************************************)
(* The first-child / next-sibling tree of ADT/Tree.h and ADT/Tree.cpp as   *)
(* operators on a heap.  A heap is a record of one function per pointer    *)
(* field of TreeNode, plus the set of nodes that are allocated.  Every     *)
(* operator takes the heap before a call and returns the heap after it.    *)
(*                                                                         *)
(* Every caller in the program passes End = nullptr to the functions that  *)
(* take the end of a sibling range, so that parameter is left out.         *)
(***************************************************************************)
EXTENDS Naturals, FiniteSets

CONSTANTS
  Node,   \* the nodes a run of the program may allocate
  Null    \* the null pointer, not in Node

Ptr == Node \cup {Null}

Heap == [parent : [Node -> Ptr], first : [Node -> Ptr], last : [Node -> Ptr],
         prev : [Node -> Ptr], next : [Node -> Ptr], live : SUBSET Node]

\* No node allocated.  The fields of TreeNode start as nullptr.
EmptyHeap == [parent |-> [n \in Node |-> Null], first |-> [n \in Node |-> Null],
              last   |-> [n \in Node |-> Null], prev  |-> [n \in Node |-> Null],
              next   |-> [n \in Node |-> Null], live  |-> {}]

Allocate(h, n) == [h EXCEPT !.live = @ \cup {n}]

\* ClearNode: every pointer of n is reset before n is deleted.
ClearNode(h, n) ==
  [parent |-> [h.parent EXCEPT ![n] = Null], first |-> [h.first EXCEPT ![n] = Null],
   last   |-> [h.last EXCEPT ![n] = Null],   prev  |-> [h.prev EXCEPT ![n] = Null],
   next   |-> [h.next EXCEPT ![n] = Null],   live  |-> h.live \ {n}]

\* f with f[k] = v, where a null k stands for a call guarded by k != nullptr.
Put(f, k, v) == IF k = Null THEN f ELSE [f EXCEPT ![k] = v]

IsLeaf(h, n) == h.first[n] = Null

(***************************************************************************)
(* Sibling ranges                                                          *)
(***************************************************************************)

\* The nodes forEachSibling visits from n on, through NextSibling.
SiblingsFrom(h, n) ==
  LET visited[k \in 0..Cardinality(Node)] ==
        IF k = 0 THEN {n}
        ELSE LET seen == visited[k - 1]
             IN  seen \cup ({h.next[m] : m \in seen} \ {Null})
  IN  visited[Cardinality(Node)]

\* The loop over the siblings ends: the list is not circular.
RangeEnds(h, n) == \E m \in SiblingsFrom(h, n) : h.next[m] = Null

\* What SetParentOfSiblings returns: the last sibling it visited.
Back(h, n) == CHOOSE m \in SiblingsFrom(h, n) : h.next[m] = Null

SetParentOfSiblings(h, p, n) ==
  LET range == SiblingsFrom(h, n)
  IN  [h EXCEPT !.parent = [m \in Node |-> IF m \in range THEN p ELSE @[m]]]

AddSiblingsRaw(h, this, n) ==
  LET succ == h.next[this]
      p    == h.parent[this]
      back == Back(h, n)
  IN  [SetParentOfSiblings(h, p, n) EXCEPT
         !.prev = Put([@ EXCEPT ![n] = this], succ, back),
         !.next = [[@ EXCEPT ![back] = succ] EXCEPT ![this] = n],
         !.last = IF p # Null /\ n = h.last[p] THEN [@ EXCEPT ![p] = back] ELSE @]

AddChildrenRaw(h, p, n) ==
  IF IsLeaf(h, p)
  THEN [SetParentOfSiblings(h, p, n) EXCEPT
          !.prev[n] = Null, !.first[p] = n, !.last[p] = n]
  ELSE AddSiblingsRaw(h, h.last[p], n)

(***************************************************************************)
(* Isolating a node: its siblings are joined, its children take its place  *)
(* among its siblings.                                                     *)
(***************************************************************************)

\* A variant of JoinSiblings that joins only the forward links.
JoinSiblings_ForwardOnly(h, n) == [h EXCEPT !.next = Put(@, h.prev[n], h.next[n])]

JoinSiblings(h, n) ==
  [h EXCEPT !.next = Put(@, h.prev[n], h.next[n]),
            !.prev = Put(@, h.next[n], h.prev[n])]

\* A variant of MergeChildren that forgets the children of an only child.
MergeChildren_NotOnlyChild(h, n) ==
  IF h.first[n] # Null /\ h.prev[n] # Null
  THEN AddSiblingsRaw(SetParentOfSiblings(h, h.parent[n], h.first[n]), h.prev[n], h.first[n])
  ELSE h

\* The merge of n's children, in the heap where n's siblings are joined.
MergeChildren(h, n) ==
  LET c == h.first[n]
      p == h.parent[n]
  IN  CASE c = Null -> h
        [] c # Null /\ h.prev[n] # Null ->
             AddSiblingsRaw(IF p = Null THEN h ELSE SetParentOfSiblings(h, p, c),
                            h.prev[n], c)
        [] c # Null /\ h.prev[n] = Null /\ h.next[n] # Null ->
             AddSiblingsRaw(IF p = Null THEN h
                            ELSE [SetParentOfSiblings(h, p, c) EXCEPT !.first[p] = c],
                            h.last[n], h.next[n])
        [] c # Null /\ h.prev[n] = Null /\ h.next[n] = Null /\ p # Null ->
             AddChildrenRaw([h EXCEPT !.first[p] = Null, !.last[p] = Null], p, c)
        [] OTHER -> h

IsolateNode(h, n) ==
  LET only   == h.prev[n] = Null /\ h.next[n] = Null
      p      == h.parent[n]
      merged == MergeChildren(JoinSiblings(h, n), n)
  IN  CASE p = Null -> merged
        [] p # Null /\ ~only ->
             IF merged.first[p] = n
             THEN [merged EXCEPT !.first[p] = merged.next[n]]
             ELSE merged
        [] p # Null /\ only /\ IsLeaf(merged, n) ->
             [merged EXCEPT !.first[p] = Null, !.last[p] = Null]
        [] OTHER -> merged

\* The sibling loops inside IsolateNode(h, n) end.
IsolateEnds(h, n) ==
  /\ h.first[n] # Null => RangeEnds(h, h.first[n])
  /\ h.next[n] # Null => RangeEnds(h, h.next[n])

(***************************************************************************)
(* Walking the tree                                                        *)
(***************************************************************************)

\* A variant of NextNode that climbs to a parent instead of past it.
NextNode_ToParent(h, n) ==
  IF ~IsLeaf(h, n) THEN h.first[n]
  ELSE IF h.next[n] # Null THEN h.next[n] ELSE h.parent[n]

\* A variant of NextNode that does not descend.
NextNode_SkipChildren(h, n) == h.next[n]

\* Up from m to the first node that has a next sibling: that sibling.
ClimbFrom(h, n) ==
  LET climb[m \in Ptr] == IF m = Null THEN Null
                          ELSE IF h.next[m] # Null THEN h.next[m]
                          ELSE climb[h.parent[m]]
  IN  climb[n]

\* FindNextNodeForIterator and TreeIterator's operator++ for End = nullptr.
NextNode(h, n) == IF IsLeaf(h, n) THEN ClimbFrom(h, n) ELSE h.first[n]

\* A variant of Swap without the case of two neighbours.
Swap_NotAdjacent(h, l, r) ==
  [h EXCEPT
     !.prev  = Put(Put([[@ EXCEPT ![l] = h.prev[r]] EXCEPT ![r] = h.prev[l]], h.next[l], r),
                   h.next[r], l),
     !.next  = Put(Put([[@ EXCEPT ![r] = h.next[l]] EXCEPT ![l] = h.next[r]], h.prev[r], l),
                   h.prev[l], r),
     !.first = IF @[h.parent[l]] = l THEN [@ EXCEPT ![h.parent[l]] = r] ELSE @]

\* Tree::Sort's Swap of two children l, r of one parent, l before r.
Swap(h, l, r) ==
  LET lp == h.prev[l]  ln == h.next[l]
      rp == h.prev[r]  rn == h.next[r]
      p  == h.parent[l]
      prev1 == IF ln # r THEN Put([h.prev EXCEPT ![l] = rp], ln, r)
                         ELSE [h.prev EXCEPT ![l] = r]
      next1 == IF ln # r THEN Put([h.next EXCEPT ![r] = ln], rp, l)
                         ELSE [h.next EXCEPT ![r] = l]
  IN  [h EXCEPT
         !.prev  = Put([prev1 EXCEPT ![r] = lp], rn, l),
         !.next  = Put([next1 EXCEPT ![l] = rn], lp, r),
         !.first = IF p # Null /\ @[p] = l THEN [@ EXCEPT ![p] = r] ELSE @]

(***************************************************************************)
(* Observations of a heap, for the properties                              *)
(***************************************************************************)

\* The children of p, as the sibling list that starts at FirstChild.
ChildList(h, p) == IF IsLeaf(h, p) THEN {} ELSE SiblingsFrom(h, h.first[p])

\* The nodes reached from n through FirstChild and NextSibling.
Subtree(h, n) ==
  LET grow[k \in 0..Cardinality(Node)] ==
        IF k = 0 THEN {n}
        ELSE LET seen == grow[k - 1] IN seen \cup UNION {ChildList(h, m) : m \in seen}
  IN  grow[Cardinality(Node)]

=============================================================================

--------------------------- MODULE ExportTrieTree ---------------------------
(***************************************************************************)
(* `ktool --list-export-trie --tree`: the tree of an export trie, from     *)
(* ExportTrieEntryCollection::ParseFromTrie through HandleTreeOption of    *)
(* PrintExportTrie.cpp: build, filter by the requirements, count, sort.    *)
(*                                                                         *)
(* The trie iterator is the environment here: it yields the nodes of a     *)
(* trie in preorder with their depth.  The trie is one a linker writes:    *)
(* the root is no export and every node that is no export has children.    *)
(* Node k is the k-th node allocated.                                      *)
(***************************************************************************)
EXTENDS Naturals, FiniteSets

CONSTANTS
  MaxNodes,       \* bound on the nodes of the trie
  MaxSorted,      \* bound on the nodes of a trie that is sorted
  Requirements,   \* the requirement options explored: subset of AllRequirements
  SortOptions,    \* whether --sort is given: subset of BOOLEAN
  Null

\* What is required: nothing, a kind alone, or a section with or without a kind.
AllRequirements == {"none", "kind", "section"}

ASSUME MaxNodesAssumption == MaxNodes \in Nat \ {0}
ASSUME MaxSortedAssumption == MaxSorted \in 0..MaxNodes
ASSUME OptionsAssumption ==
  /\ Requirements \subseteq AllRequirements
  /\ SortOptions \subseteq BOOLEAN
  /\ Null \notin 1..MaxNodes

Node == 1..MaxNodes

INSTANCE TreeNodes

VARIABLES
  heap,    \* every TreeNode
  root,    \* Tree::Root
  attr,    \* what the program knows of a node: is it an export, does it meet
           \* the requirements, the rank of its string, and its depth in the trie
  opts,    \* the options of the operation
  pc,      \* the part of the operation that runs
  parse,   \* ParseFromTrie's Parent, PrevDepthLevel and what is left of its climb,
           \* the nodes made so far, and whether the entry read last has children
  filter,  \* the filter loop's Iter, the node being removed, RemoveNode's
           \* NextNode and DoRemoveLeafParents' Child
  sorting, \* Sort's Node, FirstChild, IChild and JChild
  count    \* the number of nodes GetSymbolLengthForLongestPrintedLineAndCount saw

vars == <<heap, root, attr, opts, pc, parse, filter, sorting, count>>

Attr == [export : BOOLEAN, meets : BOOLEAN, name : Node, depth : Nat]

TypeOK ==
  /\ heap \in Heap
  /\ root \in Ptr
  /\ attr \in [Node -> Attr]
  /\ opts \in [require : Requirements, sort : SortOptions]
  /\ pc \in {"parse", "attach", "filter", "removeParents", "count", "sort", "done"}
  /\ parse \in [parent : Ptr, depth : Nat, up : Nat, made : 0..MaxNodes, open : BOOLEAN]
  /\ filter \in [iter : Ptr, victim : Ptr, next : Ptr, child : Ptr]
  /\ sorting \in [node : Ptr, first : Ptr, i : Ptr, j : Ptr]
  /\ count \in 0..MaxNodes

Init ==
  /\ heap = EmptyHeap
  /\ root = Null
  /\ attr = [n \in Node |-> [export |-> FALSE, meets |-> FALSE, name |-> n, depth |-> 0]]
  /\ opts \in [require : Requirements, sort : SortOptions]
  /\ pc = "parse"
  /\ parse = [parent |-> Null, depth |-> 1, up |-> 0, made |-> 0, open |-> FALSE]
  /\ filter = [iter |-> Null, victim |-> Null, next |-> Null, child |-> Null]
  /\ sorting = [node |-> Null, first |-> Null, i |-> Null, j |-> Null]
  /\ count = 0

(***************************************************************************)
(* ParseFromTrie                                                           *)
(***************************************************************************)

\* The strings of a trie's nodes differ; they matter only when sorting.
FreshNames ==
  IF opts.sort THEN 1..MaxSorted \ {attr[m].name : m \in 1..parse.made}
               ELSE {parse.made + 1}

\* MakeNodeForEntryInfo for an entry at depth d.  Whether a node meets the
\* requirements is a function of its kind, segment and section, which only an
\* export has: ExportMeetsRequirements, whatever the options are.
MakeNode(n, d, export) ==
  \E meets \in BOOLEAN, name \in FreshNames :
    /\ export \/ ~meets
    /\ opts.require = "none" => meets = export
    /\ attr' = [attr EXCEPT ![n] =
                 [export |-> export, meets |-> meets, name |-> name, depth |-> d]]

\* The first entry becomes the root.
ParseRoot ==
  /\ pc = "parse" /\ root = Null /\ MaxNodes > 1
  /\ MakeNode(1, 1, FALSE)
  /\ heap' = Allocate(heap, 1)
  /\ root' = 1
  /\ parse' = [parent |-> 1, depth |-> 1, up |-> 0, made |-> 1, open |-> TRUE]
  /\ UNCHANGED <<opts, pc, filter, sorting, count>>

\* The iterator yields an entry at depth d: the first child of the entry
\* before it if that one has children, else a sibling of it or of one of its
\* ancestors.
ReadEntry(d, open) ==
  /\ pc = "parse" /\ root # Null /\ parse.made < MaxNodes
  /\ IF parse.open THEN d = parse.depth + 1 ELSE d <= parse.depth
  /\ open => parse.made + 1 < MaxNodes
  /\ opts.sort => parse.made + (IF open THEN 1 ELSE 0) < MaxSorted
  /\ parse' = [parse EXCEPT !.depth = d, !.open = open,
                 !.up = IF parse.depth > d THEN parse.depth - d ELSE 0]
  /\ pc' = "attach"
  /\ UNCHANGED <<heap, root, attr, opts, filter, sorting, count>>

\* One turn of MoveUpParentHierarchy's loop.
MoveUp ==
  /\ pc = "attach" /\ parse.up # 0
  /\ parse' = [parse EXCEPT !.parent = heap.parent[@], !.up = @ - 1]
  /\ UNCHANGED <<heap, root, attr, opts, pc, filter, sorting, count>>

\* A variant of Attach that takes every node as the next Parent.
Attach_AlwaysDescends ==
  LET n == parse.made + 1
  IN  /\ pc = "attach" /\ parse.up = 0
      /\ \E export \in BOOLEAN : (export \/ parse.open) /\ MakeNode(n, parse.depth, export)
      /\ heap' = AddChildrenRaw(Allocate(heap, n), parse.parent, n)
      /\ parse' = [parse EXCEPT !.made = n, !.parent = n]
      /\ pc' = "parse"
      /\ UNCHANGED <<root, opts, filter, sorting, count>>

\* The node is made and added to Parent; it is the next Parent if it has
\* children.
Attach ==
  LET n == parse.made + 1
  IN  /\ pc = "attach" /\ parse.up = 0
      /\ \E export \in BOOLEAN : (export \/ parse.open) /\ MakeNode(n, parse.depth, export)
      /\ heap' = AddChildrenRaw(Allocate(heap, n), parse.parent, n)
      /\ parse' = [parse EXCEPT !.made = n, !.parent = IF parse.open THEN n ELSE @]
      /\ pc' = "parse"
      /\ UNCHANGED <<root, opts, filter, sorting, count>>

\* The iterator reports an error: the operation prints it and returns.
ParseError ==
  /\ pc = "parse" /\ root # Null
  /\ pc' = "done"
  /\ UNCHANGED <<heap, root, attr, opts, parse, filter, sorting, count>>

\* The iterator is at its end.  HandleTreeOption returns at once for an empty
\* tree and filters only if there are section requirements.
ParseEnd ==
  /\ pc = "parse" /\ ~parse.open
  /\ pc' = CASE root = Null -> "done"
             [] root # Null /\ opts.require = "section" -> "filter"
             [] OTHER -> "count"
  /\ filter' = [filter EXCEPT !.iter = root]
  /\ UNCHANGED <<heap, root, attr, opts, parse, sorting, count>>

(***************************************************************************)
(* The filter loop and Tree::RemoveNode(Node, true) for a node that is not *)
(* the root.                                                               *)
(***************************************************************************)

Unmet(n) == attr[n].export /\ ~attr[n].meets

FilterKeep ==
  /\ pc = "filter" /\ filter.iter # Null
  /\ ~Unmet(filter.iter)
  /\ filter' = [filter EXCEPT !.iter = NextNode(heap, filter.iter)]
  /\ UNCHANGED <<heap, root, attr, opts, pc, parse, sorting, count>>

\* IsolateNodeAndRemoveFromParent up to its test of the parent.
FilterRemove ==
  LET n == filter.iter
  IN  /\ pc = "filter" /\ n # Null
      /\ Unmet(n) /\ n # root
      /\ IsolateEnds(heap, n)
      /\ \E isolated \in {IsolateNode(heap, n)} :
           IF isolated.parent[n] # Null /\ IsLeaf(isolated, isolated.parent[n])
           THEN /\ heap' = isolated
                /\ pc' = "removeParents"
                /\ filter' = [iter |-> n, victim |-> n, next |-> NextNode(heap, n),
                               child |-> isolated.parent[n]]
           ELSE /\ heap' = ClearNode(isolated, n)
                /\ pc' = "filter"
                /\ filter' = [filter EXCEPT !.iter = NextNode(heap, n)]
      /\ UNCHANGED <<root, attr, opts, parse, sorting, count>>

\* A variant of ParentStays that looks only for the root.
ParentStays_UnlessRoot(h, p) == p = Null

\* DoRemoveLeafParents stops below parent p.
ParentStays(h, p) == p = Null \/ ~IsLeaf(h, p)

\* One turn of DoRemoveLeafParents' loop; the last one also clears the node
\* RemoveNode was called for, and the root if it was removed.
RemoveLeafParent ==
  LET c == filter.child
      p == heap.parent[c]
  IN  /\ pc = "removeParents"
      /\ IsolateEnds(heap, c)
      /\ \E without \in {ClearNode(IsolateNode(heap, c), c)} :
           IF ParentStays(without, p)
           THEN /\ heap' = ClearNode(without, filter.victim)
                /\ root' = IF c = root THEN Null ELSE root
                /\ filter' = [iter |-> filter.next, victim |-> Null, next |-> Null, child |-> Null]
                /\ pc' = "filter"
           ELSE /\ heap' = without
                /\ filter' = [filter EXCEPT !.child = p]
                /\ UNCHANGED <<root, pc>>
      /\ UNCHANGED <<attr, opts, parse, sorting, count>>

FilterEnd ==
  /\ pc = "filter" /\ filter.iter = Null
  /\ pc' = IF root = Null THEN "done" ELSE "count"
  /\ UNCHANGED <<heap, root, attr, opts, parse, filter, sorting, count>>

(***************************************************************************)
(* Counting with the iterator, then Tree::Sort                             *)
(***************************************************************************)

\* The nodes the iterator passes from n until it reaches its end.
Walk(n) ==
  LET visited[k \in 0..MaxNodes] ==
        IF k = 0 THEN n
        ELSE LET at == visited[k - 1] IN IF at = Null THEN Null ELSE NextNode(heap, at)
  IN  {k \in 0..MaxNodes : visited[k] # Null}

SortNode(n) == [node |-> n, first |-> heap.first[n],
                i |-> heap.next[heap.first[n]], j |-> heap.first[n]]

\* The count is printed, or the tree is sorted before it is printed.
CountNodes ==
  /\ pc = "count"
  /\ count' = Cardinality(Walk(root))
  /\ pc' = IF opts.sort THEN "sort" ELSE "done"
  /\ sorting' = IF opts.sort THEN SortNode(root) ELSE sorting
  /\ UNCHANGED <<heap, root, attr, opts, parse, filter>>

\* HandleTreeOption's comparator.
ShouldSwap(l, r) == attr[l].name <= attr[r].name

\* JChild is before IChild: compare them, and after a swap exchange the two.
SortCompare ==
  LET l == sorting.j
      r == sorting.i
      swapped == Swap(heap, l, r)
  IN  /\ pc = "sort" /\ r # Null /\ l # r
      /\ IF ShouldSwap(l, r)
         THEN /\ heap' = swapped
              /\ sorting' = [sorting EXCEPT
                   !.first = IF l = @ THEN swapped.first[sorting.node] ELSE @,
                   !.i = l, !.j = swapped.next[r]]
         ELSE /\ sorting' = [sorting EXCEPT !.j = heap.next[l]]
              /\ UNCHANGED heap
      /\ UNCHANGED <<root, attr, opts, pc, parse, filter, count>>

\* A variant of SortNextChild that goes on from where JChild stopped.
SortNextChild_NoRestart ==
  /\ pc = "sort" /\ sorting.i # Null /\ sorting.i = sorting.j
  /\ sorting' = [sorting EXCEPT !.i = heap.next[@]]
  /\ UNCHANGED <<heap, root, attr, opts, pc, parse, filter, count>>

\* JChild reached IChild: the outer loop goes on.
SortNextChild ==
  /\ pc = "sort" /\ sorting.i # Null /\ sorting.i = sorting.j
  /\ sorting' = [sorting EXCEPT !.i = heap.next[@], !.j = sorting.first]
  /\ UNCHANGED <<heap, root, attr, opts, pc, parse, filter, count>>

\* The children of one node are sorted.  forEachNode calls the lambda on the
\* root and then on each child of the root; it returns at once for a leaf.
SortNextNode ==
  LET n == IF sorting.node = root THEN heap.first[root] ELSE heap.next[sorting.node]
  IN  /\ pc = "sort" /\ sorting.i = Null
      /\ CASE n = Null -> pc' = "done" /\ UNCHANGED sorting
           [] n # Null /\ IsLeaf(heap, n) ->
                sorting' = [node |-> n, first |-> Null, i |-> Null, j |-> Null] /\ UNCHANGED pc
           [] OTHER -> sorting' = SortNode(n) /\ UNCHANGED pc
      /\ UNCHANGED <<heap, root, attr, opts, parse, filter, count>>

Done == pc = "done" /\ UNCHANGED vars

Next ==
  \/ ParseRoot
  \/ \E d \in 2..MaxNodes, open \in BOOLEAN : ReadEntry(d, open)
  \/ MoveUp
  \/ Attach
  \/ ParseError
  \/ ParseEnd
  \/ FilterKeep
  \/ FilterRemove
  \/ RemoveLeafParent
  \/ FilterEnd
  \/ CountNodes
  \/ SortCompare
  \/ SortNextChild
  \/ SortNextNode
  \/ Done

Spec == Init /\ [][Next]_vars

\* The operation runs on one thread until it returns.
FairSpec == Spec /\ WF_vars(Next)

-----------------------------------------------------------------------------
(***************************************************************************)
(* Properties                                                              *)
(***************************************************************************)

\* While the tree is built, the parent of every node is the node the trie has
\* above it: the last one before it that is one level up.  The trie's shape is
\* rebuilt from the depths alone, though Parent is only ever moved by one node.
TreeMatchesTrie ==
  pc \in {"parse", "attach"} => \A n \in 2..parse.made :
    LET p == heap.parent[n]
    IN  /\ p \in 1..(n - 1)
        /\ attr[p].depth + 1 = attr[n].depth
        /\ \A m \in (p + 1)..(n - 1) : attr[m].depth >= attr[n].depth

\* The tree is at rest: no call that changes it is under way.
AtRest == pc # "removeParents"

\* The sibling lists are doubly linked, the children of a node agree on their
\* parent, a node without a previous sibling is its parent's first child, and
\* no pointer a walk follows leads to a deleted node.
WellLinked ==
  AtRest => \A n \in heap.live :
    /\ heap.next[n] # Null =>
         /\ heap.next[n] \in heap.live
         /\ heap.prev[heap.next[n]] = n
         /\ heap.parent[heap.next[n]] = heap.parent[n]
    /\ heap.prev[n] # Null =>
         heap.prev[n] \in heap.live /\ heap.next[heap.prev[n]] = n
    /\ heap.first[n] # Null =>
         /\ heap.first[n] \in heap.live
         /\ heap.parent[heap.first[n]] = n
         /\ heap.prev[heap.first[n]] = Null
    /\ heap.parent[n] # Null =>
         /\ heap.parent[n] \in heap.live
         /\ heap.prev[n] = Null => heap.first[heap.parent[n]] = n

\* No call loses a node: what is allocated is exactly what the root reaches,
\* so RemoveNode hands the children of the node it deletes to the siblings.
NothingLost ==
  AtRest => heap.live = IF root = Null THEN {} ELSE Subtree(heap, root)

\* The filter loop goes on with a node that RemoveNode did not delete, though
\* RemoveNode computed it before deleting a whole branch of parents.
IteratorLive ==
  /\ pc = "filter" => filter.iter \in heap.live \cup {Null}
  /\ pc = "removeParents" => filter.next \in heap.live \cup {Null}

\* The pointers are sound at rest, and what goes on walking them is alive.
HeapIsSound == TypeOK /\ WellLinked /\ NothingLost /\ IteratorLive

\* When the tree is printed, no export that fails the requirements is left in it,
\* however the nodes moved while the iterator walked over them, and no branch is
\* left without an export at its end.  Only a required kind without a section may
\* filter nothing (PrintExportTrie.cpp:185).
OnlyAskedFor ==
  pc \in {"count", "sort"} => \A n \in heap.live :
    /\ Unmet(n) => opts.require = "kind"
    /\ IsLeaf(heap, n) => attr[n].export

\* The nodes that the trie has below node n, from the depths alone.
TrieBelow(n) == {m \in (n + 1)..parse.made : \A k \in (n + 1)..m : attr[k].depth > attr[n].depth}

\* An export that meets the requirements is never lost, but where all that the trie
\* has below it is lost as well: it is then taken for an empty branch (Tree.cpp:306).
AllAskedFor ==
  AtRest => \A n \in 1..parse.made :
    attr[n].meets /\ n \notin heap.live => TrieBelow(n) # {} /\ TrieBelow(n) \cap heap.live = {}

\* The number printed as the number of nodes is the number of nodes the tree
\* has: the iterator passes every node once and stops.
CountIsExact ==
  (pc \in {"sort", "done"} /\ count # 0) => count = Cardinality(heap.live)

\* What is printed is all that was asked for and nothing else, and the count says
\* how much, with the two exceptions named above.
ResultIsComplete == OnlyAskedFor /\ AllAskedFor /\ CountIsExact

\* Once Sort returns, the children of the root and of each child of the root
\* are in the order its comparator asks for.
SortedByComparator ==
  (pc = "done" /\ opts.sort /\ count # 0) =>
    \A p \in {root} \cup ChildList(heap, root) : \A c \in ChildList(heap, p) :
      heap.next[c] # Null => ~ShouldSwap(c, heap.next[c])

\* The pointers without those of the node that RemoveNode has isolated, which
\* still waits to be deleted.
Linked == IF filter.victim = Null THEN heap ELSE ClearNode(heap, filter.victim)

\* What a walk over the pointers of h finds: the children of each node, and the
\* pairs of siblings of which it comes to the first before the second.
ChildLists(h) == [n \in Node |-> ChildList(h, n)]
SiblingOrder(h) == UNION {{m} \X (SiblingsFrom(h, m) \ {m}) : m \in h.live}

\* The tree without its pointers.
Ordered == INSTANCE OrderedTree WITH
  nodes <- Linked.live,
  kids <- ChildLists(Linked),
  before <- SiblingOrder(Linked),
  unwanted <- {n \in Linked.live : Unmet(n)},
  emptied <- IF pc = "removeParents" THEN filter.child ELSE Null

\* The pointers implement the tree: building adds leaves; the filter removes
\* exports that fail the requirements and the branches left empty by that, up
\* to the first parent that keeps a child; no child is lost or changes the
\* order it has among its own siblings; sorting exchanges siblings.
ImplementsOrderedTree == Ordered!Spec

\* The operation returns: no loop over the tree's pointers runs for ever.
Terminates == <>(pc = "done")

=============================================================================

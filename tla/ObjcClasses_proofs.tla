------------------------- MODULE ObjcClasses_proofs -------------------------
(***************************************************************************)
(* Proofs about Parse() and CollectFrom(), for images of any number of     *)
(* classes, entries and categories.                                        *)
(***************************************************************************)
EXTENDS ObjcClasses, FiniteSetTheorems, TLAPS

Ind == INSTANCE Induction

-----------------------------------------------------------------------------
(***************************************************************************)
(* The types                                                               *)
(***************************************************************************)

Names == {NameOf[c] : c \in Class} \cup {e.name : e \in External} \cup {""}
Ordinals == {e.ordinal : e \in External} \cup {0}
Info == [null : BOOLEAN, external : BOOLEAN, super : Class \cup {Zero, Null}, name : Names,
         ordinal : Ordinals, categories : Seq(Nat)]

\* An address is of a class, of an entry of the section, or 0.
LEMMA Addresses ==
  /\ Class \subseteq Node /\ Zero \in Node \ Class /\ Null \notin Node
  /\ \A i \in 1..Len(Slots) : Slots[i] \in Node \ (Class \cup {Zero})
  /\ \A n \in Node \ (Class \cup {Zero}) : \E i \in 1..Len(Slots) : n = Slots[i]
<1>1. ToSet(Slots) = {Slots[i] : i \in 1..Len(Slots)}
  BY AddressesAssumption DEF ToSet
<1> QED
  BY <1>1, AddressesAssumption

\* What an entry of the section, a bind of a super class or a category holds.
LEMMA EntryKinds ==
  ASSUME NEW x \in Pointers \cup Bounds \cup {Unbound, Unreadable}
  PROVE  /\ x.kind = "pointer" => x.class \in Class \cup {Zero}
         /\ x.kind = "bind" => x.external \in External
         /\ x.kind \in {"pointer", "bind", "nameless", "unbound", "unreadable"}
         /\ x \in Bounds => x.kind \in {"bind", "nameless"}
         /\ x \in Pointers \cup Bounds => x.kind \in {"pointer", "bind", "nameless"}
         /\ x \in Bounds \cup {Unbound} => x.kind \in {"bind", "nameless", "unbound"}
         /\ x \in Pointers \cup Bounds \cup {Unreadable} =>
              x.kind \in {"pointer", "bind", "nameless", "unreadable"}
<1>1. CASE x \in Pointers
  BY <1>1 DEF Pointers, Pointer, Bounds, Bound, Nameless, Unbound, Unreadable
<1>2. CASE x \in Bounds
  BY <1>2 DEF Pointers, Pointer, Bounds, Bound, Nameless, Unbound, Unreadable
<1>3. CASE x \in {Unbound, Unreadable}
  BY <1>3 DEF Pointers, Pointer, Bounds, Bound, Nameless, Unbound, Unreadable
<1> QED
  BY <1>1, <1>2, <1>3

\* The parts of an image.
LEMMA FileTypes ==
  ASSUME NEW f \in Files
  PROVE  /\ f.section \in {"none", "list", "refs"}
         /\ Len(f.entries) \in Nat /\ Len(f.entries) <= Len(Slots) /\ Len(f.categories) \in Nat
         /\ \A i \in 1..Len(f.entries) : f.entries[i] \in Pointers \cup Bounds
         /\ f.super \in [Class -> Class \cup {Zero}] /\ f.readable \subseteq Class
         /\ \A c \in Class : f.superBind[c] \in Bounds \cup {Unbound}
         /\ \A i \in 1..Len(f.categories) :
              f.categories[i] \in Pointers \cup Bounds \cup {Unreadable}
<1>1. /\ f.section \in {"none", "list", "refs"}
      /\ f.entries \in Seq(Pointers \cup Bounds) /\ Len(f.entries) <= Len(Slots)
      /\ f.super \in [Class -> Class \cup {Zero}] /\ f.readable \subseteq Class
      /\ f.superBind \in [Class -> Bounds \cup {Unbound}]
      /\ f.categories \in Seq(Pointers \cup Bounds \cup {Unreadable})
  BY FilesAssumption
<1> HIDE DEF Pointers, Bounds, Unbound, Unreadable
<1> QED
  BY <1>1

LEMMA InfoTypes ==
  /\ NullClass \in Info
  /\ \A e \in External : ExternalClass(e) \in Info
  /\ file \in Files => \A c \in Class : ParseObjcClass(c) \in Info
<1>1. <<>> \in Seq(Nat)
  OBVIOUS
<1>2. NullClass \in Info
  BY <1>1 DEF NullClass, Info, Names, Ordinals
<1>3. ASSUME NEW e \in External PROVE ExternalClass(e) \in Info
  BY <1>1 DEF ExternalClass, Info, Names, Ordinals
<1>4. ASSUME file \in Files, NEW c \in Class PROVE ParseObjcClass(c) \in Info
  <2>1. NameOf[c] \in Names /\ 0 \in Ordinals
    BY DEF Names, Ordinals
  <2>2. file.super[c] \in Class \cup {Zero}
    BY <1>4, FileTypes
  <2>3. CASE c \in file.readable
    BY <1>1, <2>1, <2>2, <2>3 DEF ParseObjcClass, Info
  <2>4. CASE c \notin file.readable
    BY <1>2, <2>4 DEF ParseObjcClass
  <2> QED
    BY <2>3, <2>4
<1> QED
  BY <1>2, <1>3, <1>4

\* Neither the super class nor the categories of a new class say anything yet.
LEMMA NewInfo ==
  /\ NullClass.super = Null /\ NullClass.categories = <<>> /\ NullClass.null = TRUE
  /\ \A e : ExternalClass(e).super = Null /\ ExternalClass(e).categories = <<>>
              /\ ExternalClass(e).external = TRUE
  /\ \A c : /\ ParseObjcClass(c).categories = <<>> /\ ParseObjcClass(c).external = FALSE
            /\ c \in file.readable => ParseObjcClass(c).super = file.super[c] /\ ~ParseObjcClass(c).null
            /\ c \notin file.readable => ParseObjcClass(c).super = Null /\ ParseObjcClass(c).null
  BY DEF NullClass, ExternalClass, ParseObjcClass

Links(h) == h \in Heap /\ \A p \in Node : h.first[p] # Null => h.last[p] \in Node

-----------------------------------------------------------------------------
(***************************************************************************)
(* Sets that grow                                                          *)
(***************************************************************************)

\* What is closed under the growth of sets contains the set that c grew from, and
\* c itself does not grow.
IsClosure(c, N, base, grow) ==
  /\ c \in SUBSET N /\ base \subseteq c /\ grow[c] = c
  /\ \A t \in SUBSET N : base \subseteq t /\ (\A x \in SUBSET t : grow[x] \subseteq t) => c \subseteq t

\* g gives sets that grow from base for n turns, as long as they are sets of N.
AreGrowing(g, N, base, n, grow) ==
  /\ base \in SUBSET N /\ base # {} /\ grow \in [SUBSET N -> SUBSET N]
  /\ \A x \in SUBSET N : x \subseteq grow[x]
  /\ g[0] = base
  /\ \A k \in 1..n : g[k - 1] \in SUBSET N => g[k] = grow[g[k - 1]]

\* Sets of a finite set that grow from one that is not empty, each from the one
\* before, do not grow any more after as many turns as there are elements but one.
LEMMA ClosureReached ==
  ASSUME NEW N, IsFiniteSet(N), NEW base, NEW grow, NEW n \in Nat, Cardinality(N) <= n + 1,
         NEW g, AreGrowing(g, N, base, n, grow)
  PROVE  IsClosure(g[n], N, base, grow)
<1> USE DEF AreGrowing
<1> DEFINE S == {k \in Nat : k <= n =>
                   /\ g[k] \in SUBSET N /\ base \subseteq g[k]
                   /\ grow[g[k]] = g[k] \/ Cardinality(g[k]) >= k + 1}
<1>1. \A x \in SUBSET N : IsFiniteSet(x) /\ Cardinality(x) \in Nat
  BY FS_Subset, FS_CardinalityType
<1>2. 0 \in S
  <2>1. Cardinality(base) # 0
    BY <1>1, FS_EmptySet
  <2>2. Cardinality(base) >= 0 + 1
    BY <1>1, <2>1
  <2> QED
    BY <2>2
<1>3. ASSUME NEW k \in Nat, k \in S PROVE k + 1 \in S
  <2> SUFFICES ASSUME k + 1 <= n
               PROVE  /\ g[k + 1] \in SUBSET N /\ base \subseteq g[k + 1]
                      /\ grow[g[k + 1]] = g[k + 1] \/ Cardinality(g[k + 1]) >= (k + 1) + 1
    OBVIOUS
  <2>1. k + 1 \in 1..n /\ (k + 1) - 1 = k /\ k <= n
    OBVIOUS
  <2>2. g[k] \in SUBSET N /\ base \subseteq g[k] /\ (grow[g[k]] = g[k] \/ Cardinality(g[k]) >= k + 1)
    BY <1>3, <2>1
  <2>3. g[k + 1] = grow[g[k]]
    BY <2>1, <2>2
  <2>4. g[k + 1] \in SUBSET N /\ g[k] \subseteq g[k + 1]
    BY <2>2, <2>3
  <2>5. CASE grow[g[k]] = g[k]
    BY <2>2, <2>3, <2>5
  <2>6. CASE grow[g[k]] # g[k]
    <3>1. Cardinality(g[k]) < Cardinality(g[k + 1])
      <4>1. g[k] # g[k + 1] /\ IsFiniteSet(g[k + 1])
        BY <1>1, <2>3, <2>4, <2>6
      <4>2. Cardinality(g[k]) \in Nat /\ Cardinality(g[k + 1]) \in Nat
        BY <1>1, <2>2, <2>4
      <4>3. g[k] \in SUBSET g[k + 1]
        BY <2>4
      <4>4. Cardinality(g[k]) <= Cardinality(g[k + 1]) /\ Cardinality(g[k]) # Cardinality(g[k + 1])
        BY <4>1, <4>3, FS_Subset
      <4> QED
        BY <4>2, <4>4
    <3>2. Cardinality(g[k]) >= k + 1 /\ Cardinality(g[k]) \in Nat /\ Cardinality(g[k + 1]) \in Nat
      BY <1>1, <2>2, <2>4, <2>6
    <3>3. Cardinality(g[k + 1]) >= (k + 1) + 1
      BY <3>1, <3>2
    <3> QED
      BY <2>2, <2>4, <3>3
  <2> QED
    BY <2>5, <2>6
<1> HIDE DEF S
<1>4. n \in S
  BY <1>2, <1>3, Ind!SetInduction
<1>5. g[n] \in SUBSET N /\ base \subseteq g[n] /\ (grow[g[n]] = g[n] \/ Cardinality(g[n]) >= n + 1)
  BY <1>4 DEF S
<1>6. grow[g[n]] = g[n]
  <2> SUFFICES ASSUME Cardinality(g[n]) >= n + 1 PROVE grow[g[n]] = g[n]
    BY <1>5
  <2>1. Cardinality(g[n]) <= Cardinality(N) /\ (Cardinality(N) = Cardinality(g[n]) => N = g[n])
    BY <1>5, FS_Subset
  <2>2. Cardinality(g[n]) \in Nat /\ Cardinality(N) \in Nat
    BY <1>1, <1>5
  <2>3. g[n] = N
    <3>1. Cardinality(g[n]) = Cardinality(N)
      BY <2>1, <2>2
    <3> QED
      BY <2>1, <3>1
  <2>4. grow[N] \in SUBSET N /\ N \subseteq grow[N]
    OBVIOUS
  <2> QED
    BY <2>3, <2>4
<1>7. ASSUME NEW t \in SUBSET N, base \subseteq t, \A x \in SUBSET t : grow[x] \subseteq t
      PROVE  g[n] \subseteq t
  <2> DEFINE T == {k \in Nat : k <= n => g[k] \subseteq t}
  <2>1. 0 \in T
    BY <1>7
  <2>2. ASSUME NEW k \in Nat, k \in T PROVE k + 1 \in T
    <3> SUFFICES ASSUME k + 1 <= n PROVE g[k + 1] \subseteq t
      OBVIOUS
    <3>1. k + 1 \in 1..n /\ (k + 1) - 1 = k /\ k <= n
      OBVIOUS
    <3>2. g[k] \subseteq t
      BY <2>2, <3>1
    <3>3. g[k + 1] = grow[g[k]]
      BY <3>1, <3>2
    <3> QED
      BY <1>7, <3>2, <3>3
  <2> HIDE DEF T
  <2>3. n \in T
    BY <2>1, <2>2, Ind!SetInduction
  <2> QED
    BY <2>3 DEF T
<1> QED
  BY <1>5, <1>6, <1>7 DEF IsClosure

-----------------------------------------------------------------------------
(***************************************************************************)
(* Sibling ranges                                                          *)
(***************************************************************************)

\* There are finitely many addresses.
LEMMA NodeCount == IsFiniteSet(Node) /\ Cardinality(Node) \in Nat
<1>1. IsFiniteSet(ToSet(Slots))
  <2>1. ToSet(Slots) = {Slots[i] : i \in 1..Len(Slots)} /\ Len(Slots) \in Nat
    BY AddressesAssumption DEF ToSet
  <2>2. IsFiniteSet({Slots[i] : i \in 1..Len(Slots)})
    <3> DEFINE f == [i \in 1..Len(Slots) |-> Slots[i]]
    <3>1. IsFiniteSet(1..Len(Slots))
      BY <2>1, FS_Interval
    <3>2. f \in Surjection(1..Len(Slots), {Slots[i] : i \in 1..Len(Slots)})
      BY DEF Surjection
    <3> HIDE DEF f
    <3> QED
      BY <3>1, <3>2, FS_Surjection
  <2> QED
    BY <2>1, <2>2
<1>2. IsFiniteSet({Zero}) /\ IsFiniteSet(Class)
  BY FS_Singleton, AddressesAssumption
<1>3. IsFiniteSet(Class \cup ToSet(Slots))
  BY <1>1, <1>2, FS_Union
<1>4. IsFiniteSet((Class \cup ToSet(Slots)) \cup {Zero})
  BY <1>2, <1>3, FS_Union
<1>5. IsFiniteSet(Node)
  BY <1>4, AddressesAssumption
<1> QED
  BY <1>5, FS_CardinalityType

\* What one more turn of forEachSibling's loop adds to the nodes it has visited.
Visit(h, s) == s \cup ({h.next[m] : m \in s} \ {Null})

\* The sibling range of n is what its next siblings lead to.
IsRange(h, n, R) ==
  /\ R \in SUBSET Node /\ n \in R
  /\ \A m \in R : h.next[m] \in R \cup {Null}
  /\ \A S \in SUBSET Node : n \in S /\ (\A m \in S : h.next[m] \in S \cup {Null}) => R \subseteq S

LEMMA SiblingsAreRange ==
  ASSUME NEW h \in Heap, NEW n \in Node
  PROVE  IsRange(h, n, SiblingsFrom(h, n))
<1> DEFINE c == Cardinality(Node)
           grow == [s \in SUBSET Node |-> Visit(h, s)]
           Equation(f) == f = [k \in 0..Cardinality(Node) |->
                                 IF k = 0 THEN {n}
                                 ELSE LET seen == f[k - 1]
                                      IN  seen \cup ({h.next[m] : m \in seen} \ {Null})]
<1>1. c \in Nat /\ IsFiniteSet(Node)
  BY NodeCount
<1>2. grow \in [SUBSET Node -> SUBSET Node] /\ \A s \in SUBSET Node : s \subseteq grow[s]
  BY DEF Visit, Heap, Ptr
<1>3. \A s \in SUBSET Node : grow[s] = Visit(h, s)
  OBVIOUS
<1> HIDE DEF grow
<1>4. {n} \in SUBSET Node /\ {n} # {}
  OBVIOUS
<1>5. PICK f : f \in [0..c -> SUBSET Node] /\ f[0] = {n} /\ \A k \in 1..c : f[k] = grow[f[k - 1]]
  <2> DEFINE T == SUBSET Node
             b == {n}
  <2>1. grow \in [T -> T] /\ b \in T /\ c \in Nat
    BY <1>1, <1>2, <1>4
  <2> HIDE DEF c, T, b
  <2>2. \E f : Ind!AreSteps(f, T, b, c, grow)
    BY <2>1, Ind!StepsExist
  <2> QED
    BY <2>2 DEF T, b, Ind!AreSteps
<1>6. Equation(f)
  <2>1. ASSUME NEW k \in 0..c PROVE f[k] = IF k = 0 THEN {n} ELSE Visit(h, f[k - 1])
    <3>1. k = 0 \/ (k # 0 /\ k \in 1..c /\ k - 1 \in 0..c)
      BY <1>1
    <3>2. k # 0 => f[k - 1] \in SUBSET Node
      BY <1>5, <3>1
    <3> QED
      BY <1>3, <1>5, <3>1, <3>2
  <2> QED
    BY <1>5, <2>1 DEF Visit
<1> DEFINE g == CHOOSE f_1 : Equation(f_1)
<1>7. Equation(g)
  BY <1>6
<1>8. SiblingsFrom(h, n) = g[c]
  BY DEF SiblingsFrom
<1>9. \A k \in 0..c : g[k] = IF k = 0 THEN {n} ELSE Visit(h, g[k - 1])
  BY <1>7 DEF Visit
<1> HIDE DEF g, Equation
<1>10. g[0] = {n}
  <2>1. 0 \in 0..c
    BY <1>1
  <2> QED
    BY <1>9, <2>1, Zenon
<1>11. \A k \in 1..c : g[k - 1] \in SUBSET Node => g[k] = grow[g[k - 1]]
  <2> SUFFICES ASSUME NEW k \in 1..c, g[k - 1] \in SUBSET Node PROVE g[k] = grow[g[k - 1]]
    OBVIOUS
  <2>1. k \in 0..c /\ k # 0
    BY <1>1
  <2> QED
    BY <1>3, <1>9, <2>1
<1>12. Cardinality(Node) <= c + 1
  BY <1>1
<1>13. IsClosure(g[c], Node, {n}, grow)
  <2> HIDE DEF c
  <2>1. AreGrowing(g, Node, {n}, c, grow)
    BY <1>2, <1>4, <1>10, <1>11 DEF AreGrowing
  <2> QED
    BY <1>1, <1>12, <2>1, ClosureReached
<1>14. g[c] \in SUBSET Node /\ n \in g[c] /\ Visit(h, g[c]) = g[c]
  BY <1>3, <1>13 DEF IsClosure
<1>15. ASSUME NEW S \in SUBSET Node, n \in S, \A m \in S : h.next[m] \in S \cup {Null}
       PROVE  g[c] \subseteq S
  <2>1. \A x \in SUBSET S : grow[x] \subseteq S
    BY <1>3, <1>15 DEF Visit
  <2> QED
    BY <1>13, <1>15, <2>1 DEF IsClosure
<1>16. \A m \in g[c] : h.next[m] \in g[c] \cup {Null}
  BY <1>14 DEF Visit
<1> QED
  BY <1>8, <1>14, <1>15, <1>16 DEF IsRange

\* The sibling range of a node without a next sibling is the node alone.
LEMMA LoneRange ==
  ASSUME NEW h \in Heap, NEW n \in Node, h.next[n] = Null
  PROVE  SiblingsFrom(h, n) = {n} /\ Back(h, n) = n /\ RangeEnds(h, n)
<1>1. IsRange(h, n, SiblingsFrom(h, n))
  BY SiblingsAreRange
<1>2. SiblingsFrom(h, n) = {n}
  <2> DEFINE T == {n}
  <2>1. T \in SUBSET Node /\ n \in T /\ \A m \in T : h.next[m] \in T \cup {Null}
    OBVIOUS
  <2> HIDE DEF T
  <2>2. SiblingsFrom(h, n) \subseteq T /\ n \in SiblingsFrom(h, n)
    BY <1>1, <2>1 DEF IsRange
  <2> QED
    BY <2>2 DEF T
<1> QED
  BY <1>2 DEF Back, RangeEnds

\* When the loop over its siblings ends, what p->AddChild(n) leads to is a heap of
\* nodes, of whose children there is a last one.
LEMMA AddedLinks ==
  ASSUME NEW h, Links(h), NEW p \in Node, NEW n \in Node, RangeEnds(h, n)
  PROVE  Links(AddChildrenRaw(h, p, n))
<1>1. Back(h, n) \in Node
  BY SiblingsAreRange DEF Back, RangeEnds, IsRange, Links
<1> DEFINE s == SetParentOfSiblings(h, p, n)
           g == AddChildrenRaw(h, p, n)
           par == [m \in Node |-> IF m \in SiblingsFrom(h, n) THEN p ELSE h.parent[m]]
<1>2. CASE IsLeaf(h, p)
  <2> DEFINE prev == [h.prev EXCEPT ![n] = Null]
             fst == [h.first EXCEPT ![p] = n]
             lst == [h.last EXCEPT ![p] = n]
  <2>1. g = [h EXCEPT !.parent = par, !.prev = prev, !.first = fst, !.last = lst]
    BY <1>2 DEF AddChildrenRaw, SetParentOfSiblings, Links, Heap
  <2>2. par \in [Node -> Ptr] /\ prev \in [Node -> Ptr] /\ fst \in [Node -> Ptr] /\ lst \in [Node -> Ptr]
    BY DEF Heap, Ptr, Links
  <2>3. \A q \in Node : fst[q] # Null => lst[q] \in Node
    BY DEF Heap, Ptr, Links
  <2> HIDE DEF par, prev, fst, lst
  <2>4. g \in Heap /\ g.first = fst /\ g.last = lst
    BY <2>1, <2>2 DEF Heap, Links
  <2> QED
    BY <2>3, <2>4 DEF Links
<1>3. CASE ~IsLeaf(h, p)
  <2> DEFINE this == h.last[p]
             q == h.parent[this]
             range == [m \in Node |-> IF m \in SiblingsFrom(h, n) THEN q ELSE h.parent[m]]
             prev == Put([h.prev EXCEPT ![n] = this], h.next[this], Back(h, n))
             next == [[h.next EXCEPT ![Back(h, n)] = h.next[this]] EXCEPT ![this] = n]
             lst == IF q # Null /\ n = h.last[q] THEN [h.last EXCEPT ![q] = Back(h, n)] ELSE h.last
  <2>1. this \in Node /\ q \in Ptr /\ h.next[this] \in Ptr
    BY <1>3 DEF Links, IsLeaf, Heap
  <2>2. g = AddSiblingsRaw(h, this, n)
    BY <1>3 DEF AddChildrenRaw
  <2>3. g = [h EXCEPT !.parent = range, !.prev = prev, !.next = next, !.last = lst]
    <3>1. SetParentOfSiblings(h, q, n) = [h EXCEPT !.parent = range]
      BY DEF SetParentOfSiblings
    <3> HIDE DEF range
    <3>2. [h EXCEPT !.parent = range].prev = h.prev /\ [h EXCEPT !.parent = range].next = h.next
          /\ [h EXCEPT !.parent = range].last = h.last
      BY DEF Links, Heap
    <3> QED
      BY <2>2, <3>1, <3>2 DEF AddSiblingsRaw, Links, Heap
  <2>4. range \in [Node -> Ptr] /\ prev \in [Node -> Ptr] /\ next \in [Node -> Ptr] /\ lst \in [Node -> Ptr]
    BY <1>1, <2>1 DEF Heap, Ptr, Links, Put
  <2>5. \A r \in Node : h.first[r] # Null => lst[r] \in Node
    BY <1>1, <2>1 DEF Heap, Ptr, Links
  <2> HIDE DEF range, prev, next, lst
  <2>6. g \in Heap /\ g.first = h.first /\ g.last = lst
    BY <2>3, <2>4 DEF Heap, Links
  <2> QED
    BY <2>5, <2>6 DEF Links
<1> QED
  BY <1>2, <1>3

-----------------------------------------------------------------------------
(***************************************************************************)
(* TypeInv: what the types of the variables are, and what Known,           *)
(* the links and the counters agree on                                     *)
(***************************************************************************)

Pcs == {"open", "read", "fix", "adjust", "adopt", "categories", "done", "crashed", "aborted", "hung"}

\* A list of classes of which only those of this image wait for their super class.
IsList(list, K) ==
  /\ K \in SUBSET Node /\ list \in [K -> Info]
  /\ \A c \in K : list[c].super # Null => c \in Class /\ ~list[c].external

CountersTyped ==
  /\ at \in Nat
  /\ pc = "read" => at <= Len(file.entries)
  /\ pc \in {"open", "fix", "adjust", "adopt"} => at = 0
  /\ pc \in {"categories", "done"} => at <= Len(file.categories)

NodesTyped ==
  /\ roots \in Seq(Node) /\ \A i \in 1..Len(roots) : roots[i] \in Known
  /\ rest \subseteq Known /\ fixing \in (Known \cap Class) \cup {Null} /\ root \in Known \cup {Null}
  /\ pc = "adopt" => root \in Known

TypeInv ==
  /\ file \in Files /\ pc \in Pcs
  /\ IsList(classes, Known) /\ Links(heap)
  /\ CountersTyped /\ NodesTyped

LEMMA TypeInvInit == Init => TypeInv
<1> SUFFICES ASSUME Init PROVE TypeInv
  OBVIOUS
<1>1. classes = <<>> /\ Known = {} /\ classes \in [{} -> Info]
  BY DEF Init, Known
<1>2. IsList(classes, Known)
  BY <1>1 DEF IsList
<1>3. Links(heap)
  BY DEF Init, EmptyHeap, Links, Heap, Ptr
<1>4. CountersTyped /\ NodesTyped
  BY <1>1 DEF Init, CountersTyped, NodesTyped
<1> QED
  BY <1>2, <1>3, <1>4 DEF Init, TypeInv, Pcs

\* A class is added to a list.
LEMMA AddedToList ==
  ASSUME NEW K, NEW list, IsList(list, K), NEW a \in Node, NEW info \in Info,
         info.super # Null => a \in Class /\ ~info.external
  PROVE  IsList(With(list, a, info), K \cup {a})
<1> HIDE DEF Info
<1>1. K \in SUBSET Node /\ list \in [K -> Info]
  BY DEF IsList
<1>2. /\ With(list, a, info) \in [K \cup {a} -> Info]
      /\ \A c \in K : With(list, a, info)[c] = list[c]
      /\ a \notin K => With(list, a, info)[a] = info
  BY <1>1 DEF With
<1> QED
  BY <1>2 DEF IsList

\* The domain of a list.
LEMMA ListDomain ==
  ASSUME NEW K, NEW list, IsList(list, K)
  PROVE  DOMAIN list = K
  BY DEF IsList

\* The super class of a class is no longer looked for.
Settled(list, n, l) ==
  \A c \in DOMAIN list :
    /\ l[c].super = IF c = n THEN Null ELSE list[c].super
    /\ l[c].null = list[c].null /\ l[c].external = list[c].external
    /\ l[c].name = list[c].name /\ l[c].ordinal = list[c].ordinal
    /\ l[c].categories = list[c].categories

LEMMA SuperCleared ==
  ASSUME NEW K, NEW list, IsList(list, K), NEW n \in K
  PROVE  LET l == [list EXCEPT ![n].super = Null]
         IN  IsList(l, K) /\ Settled(list, n, l)
<1> DEFINE l == [list EXCEPT ![n].super = Null]
           info == [list[n] EXCEPT !.super = Null]
<1>1. list \in [K -> Info] /\ DOMAIN list = K
  BY DEF IsList
<1>2. list[n] \in Info
  BY <1>1
<1>3. /\ info \in Info /\ info.super = Null
      /\ info.null = list[n].null /\ info.external = list[n].external /\ info.name = list[n].name
      /\ info.ordinal = list[n].ordinal /\ info.categories = list[n].categories
  BY <1>2 DEF Info
<1>4. l = [list EXCEPT ![n] = info]
  OBVIOUS
<1> HIDE DEF info, l
<1>5. l \in [K -> Info] /\ l[n] = info /\ \A c \in K : c # n => l[c] = list[c]
  <2> HIDE DEF Info
  <2> QED
    BY <1>1, <1>3, <1>4
<1>6. IsList(l, K)
  BY <1>3, <1>5 DEF IsList
<1>7. Settled(list, n, l)
  BY <1>1, <1>3, <1>5 DEF Settled
<1> QED
  BY <1>6, <1>7 DEF l

\* What SetSuper does to the list and the links.
LEMMA SetSuperTypes ==
  ASSUME Links(heap), NEW K, NEW list, IsList(list, K), NEW p \in Node, NEW n \in K,
         pc = "fix", SetSuper(list, p, n)
  PROVE  /\ IsList(classes', K) /\ Known' = K /\ Settled(list, n, classes')
         /\ Links(heap') /\ pc' \in {"fix", "aborted", "hung"}
<1>1. classes' = [list EXCEPT ![n].super = Null]
  BY DEF SetSuper
<1>2. IsList(classes', K) /\ Settled(list, n, classes')
  BY <1>1, SuperCleared
<1>3. Known' = K
  BY <1>2, ListDomain DEF Known
<1>4. n \in Node
  BY DEF IsList
<1>5. CASE p = n
  <2>1. heap' = [heap EXCEPT !.parent[n] = Null] /\ pc' = pc
    BY <1>5 DEF SetSuper
  <2>2. Links(heap')
    BY <1>4, <2>1 DEF Links, Heap, Ptr
  <2> QED
    BY <1>2, <1>3, <2>1, <2>2
<1>6. CASE p # n
  <2>1. /\ pc' = AddChildOutcome(p, n)
        /\ heap' = IF AddChildOutcome(p, n) = pc THEN AddChildrenRaw(heap, p, n) ELSE heap
    BY <1>6 DEF SetSuper
  <2>2. AddChildOutcome(p, n) \in {pc, "aborted", "hung"} /\ (AddChildOutcome(p, n) = pc => RangeEnds(heap, n))
    BY DEF AddChildOutcome
  <2>3. Links(heap')
    BY <1>4, <2>1, <2>2, AddedLinks
  <2> QED
    BY <1>2, <1>3, <2>1, <2>2, <2>3
<1> QED
  BY <1>5, <1>6

LEMMA OpenSectionTypes == TypeInv /\ OpenSection => TypeInv'
  BY DEF TypeInv, OpenSection, IsList, CountersTyped, NodesTyped, Known, Pcs

LEMMA ReadEntryTypes == TypeInv /\ ReadEntry => TypeInv'
<1> SUFFICES ASSUME TypeInv, ReadEntry PROVE TypeInv'
  OBVIOUS
<1> DEFINE entry == file.entries[at + 1]
<1>1. /\ pc = "read" /\ at < Len(file.entries) /\ at' = at + 1
      /\ UNCHANGED <<file, heap, rest, fixing, rehashed, root, categories>>
      /\ file \in Files /\ IsList(classes, Known)
  BY DEF ReadEntry, TypeInv
<1>2. at + 1 \in 1..Len(file.entries) /\ at + 1 \in 1..Len(Slots) /\ at \in Nat
  BY <1>1, FileTypes, AddressesAssumption DEF TypeInv, CountersTyped
<1>3. entry \in Pointers \cup Bounds
  BY <1>1, <1>2, FileTypes
<1>4. /\ entry.kind = "pointer" => entry.class \in Class \cup {Zero}
      /\ entry.kind = "bind" => entry.external \in External
  BY <1>3, EntryKinds
<1> DEFINE Good == /\ IsList(classes', Known') /\ Known \subseteq Known' /\ pc' \in {"read", "crashed"}
                   /\ roots' \in Seq(Node) /\ \A i \in 1..Len(roots') : roots'[i] \in Known'
<1>5. roots \in Seq(Node) /\ \A i \in 1..Len(roots) : roots[i] \in Known
  BY DEF TypeInv, NodesTyped
<1>6. ASSUME NEW c \in Class \cup {Zero}, ReadPointer(c), pc' = pc PROVE Good
  <2>1. CASE c = Zero
    BY <1>1, <1>5, <1>6, <2>1 DEF ReadPointer, Known
  <2>2. CASE c # Zero
    <3>1. c \in Class /\ c \in Node /\ ParseObjcClass(c) \in Info
      BY <1>1, <2>2, Addresses, InfoTypes
    <3>2. classes' = With(classes, c, ParseObjcClass(c))
      BY <1>6, <2>2 DEF ReadPointer
    <3>3. IsList(classes', Known \cup {c})
      BY <1>1, <3>1, <3>2, AddedToList, NewInfo
    <3>4. Known' = Known \cup {c}
      BY <3>3, ListDomain DEF Known
    <3> QED
      BY <1>1, <1>5, <1>6, <3>3, <3>4 DEF ReadPointer
  <2> QED
    BY <2>1, <2>2
<1>7. Good
  <2>1. CASE entry.kind = "pointer"
    <3>1. ReadPointer(entry.class) /\ pc' = pc
      BY <2>1 DEF ReadEntry
    <3> QED
      BY <1>4, <1>6, <2>1, <3>1
  <2>2. CASE entry.kind = "bind" /\ file.section = "list"
    <3>1. ReadPointer(Zero) /\ pc' = pc
      BY <2>2 DEF ReadEntry
    <3> QED
      BY <1>6, <3>1
  <2>3. CASE entry.kind = "bind" /\ file.section # "list"
    <3>1. /\ classes' = With(classes, Slots[at + 1], ExternalClass(entry.external))
          /\ roots' = Append(roots, Slots[at + 1]) /\ pc' = pc
      BY <2>3 DEF ReadEntry
    <3>2. Slots[at + 1] \in Node /\ ExternalClass(entry.external) \in Info
          /\ ExternalClass(entry.external).super = Null
      BY <1>2, <1>4, <2>3, Addresses, InfoTypes, NewInfo
    <3>3. IsList(classes', Known \cup {Slots[at + 1]})
      BY <1>1, <3>1, <3>2, AddedToList
    <3>4. Known' = Known \cup {Slots[at + 1]}
      BY <3>3, ListDomain DEF Known
    <3>5. roots' \in Seq(Node) /\ \A i \in 1..Len(roots') : roots'[i] \in Known'
      BY <1>5, <3>1, <3>2, <3>4
    <3> QED
      BY <1>1, <3>1, <3>3, <3>4, <3>5
  <2>4. CASE entry.kind = "nameless"
    BY <1>1, <1>5, <2>4 DEF ReadEntry, Known
  <2> QED
    BY <1>3, <2>1, <2>2, <2>3, <2>4, EntryKinds
<1>8. CountersTyped'
  BY <1>1, <1>2, <1>7 DEF CountersTyped
<1>9. NodesTyped'
  BY <1>1, <1>7 DEF TypeInv, NodesTyped
<1> QED
  BY <1>1, <1>7, <1>8, <1>9 DEF TypeInv, Pcs

LEMMA WalkTypes == TypeInv /\ (BeginFix \/ PickClass \/ EndFix) => TypeInv'
<1> SUFFICES ASSUME TypeInv, BeginFix \/ PickClass \/ EndFix PROVE TypeInv'
  OBVIOUS
<1>1. UNCHANGED <<file, classes, heap, roots, root>> /\ Known' = Known /\ pc' \in Pcs
  BY DEF BeginFix, PickClass, EndFix, Known, TypeInv, Pcs
<1>2. IsList(classes', Known') /\ Links(heap')
  BY <1>1 DEF TypeInv
<1>3. CountersTyped'
  BY <1>1 DEF TypeInv, CountersTyped, BeginFix, PickClass, EndFix
<1>4. rest' \subseteq Known /\ fixing' \in (Known \cap Class) \cup {Null} /\ pc' # "adopt"
  BY DEF TypeInv, NodesTyped, BeginFix, PickClass, EndFix, IsList
<1>5. NodesTyped'
  BY <1>1, <1>4 DEF TypeInv, NodesTyped
<1> QED
  BY <1>1, <1>2, <1>3, <1>5 DEF TypeInv

\* The class that is fixed.
LEMMA FixingTypes ==
  ASSUME TypeInv, Fixing
  PROVE  /\ fixing \in Known /\ fixing \in Class /\ fixing \in Node /\ fixing # Null
         /\ file.superBind[fixing].kind \in {"bind", "nameless", "unbound"}
         /\ file.superBind[fixing].kind = "bind" => file.superBind[fixing].external \in External
         /\ SuperAddr(fixing) \in Class \cup {Zero} /\ pc = "fix" /\ at = 0
<1>1. fixing \in Known /\ fixing \in Class /\ fixing \in Node /\ fixing # Null /\ file \in Files /\ pc = "fix" /\ at = 0
  BY Addresses DEF TypeInv, Fixing, NodesTyped, CountersTyped
<1>2. file.superBind[fixing] \in Bounds \cup {Unbound}
  BY <1>1, FileTypes
<1>3. classes[fixing].super \in Class \cup {Zero, Null}
  BY <1>1 DEF TypeInv, IsList, Info
<1> QED
  BY <1>1, <1>2, <1>3, EntryKinds DEF SuperAddr

\* A set in the walk's place after an insertion into List.
LEMMA InsertTypes ==
  ASSUME NEW a, InsertInWalk(a), rest \subseteq Known
  PROVE  rest' \subseteq Known \cup {a}
  BY DEF InsertInWalk

\* What is left to show of a step of the fixing.
LEMMA FixTypes ==
  ASSUME TypeInv, NEW K, Known \subseteq K, Known' = K, IsList(classes', K), Links(heap'),
         pc = "fix", pc' \in {"fix", "aborted", "hung", "crashed"}, UNCHANGED <<file, at, root>>,
         roots' \in Seq(Node), \A i \in 1..Len(roots') : roots'[i] \in K,
         rest' \subseteq K, fixing' \in (K \cap Class) \cup {Null}
  PROVE  TypeInv'
<1>1. CountersTyped'
  BY DEF TypeInv, CountersTyped
<1>2. NodesTyped'
  BY DEF TypeInv, NodesTyped
<1> QED
  BY <1>1, <1>2 DEF TypeInv, Pcs

LEMMA FixBoundSuperTypes == TypeInv /\ FixBoundSuper => TypeInv'
<1> SUFFICES ASSUME TypeInv, FixBoundSuper PROVE TypeInv'
  OBVIOUS
<1> DEFINE e == file.superBind[fixing].external
           found == {i \in DOMAIN roots : SameExternal(roots[i], e)}
           p == IF found # {} THEN roots[Min(found)] ELSE Zero
           list == IF found # {} THEN classes ELSE With(classes, Zero, ExternalClass(e))
           K == IF found # {} THEN Known ELSE Known \cup {Zero}
<1>1. /\ Fixing /\ file.superBind[fixing].kind = "bind"
      /\ SetSuper(list, p, fixing)
      /\ roots' = IF found # {} THEN roots ELSE Append(roots, Zero)
      /\ IF found # {} THEN UNCHANGED <<rest, rehashed>> ELSE InsertInWalk(Zero)
      /\ fixing' = Null /\ UNCHANGED <<file, at, root, categories>>
  BY DEF FixBoundSuper
<1>2. fixing \in Known /\ fixing \in Class /\ e \in External /\ pc = "fix"
  BY <1>1, FixingTypes
<1>3. /\ roots \in Seq(Node) /\ \A i \in 1..Len(roots) : roots[i] \in Known
      /\ rest \subseteq Known /\ IsList(classes, Known) /\ Links(heap) /\ Known \subseteq Node
  BY DEF TypeInv, NodesTyped, IsList
<1>4. found # {} => p \in Known
  <2> SUFFICES ASSUME found # {} PROVE roots[Min(found)] \in Known
    OBVIOUS
  <2>1. found \subseteq 1..Len(roots) /\ found \in SUBSET Nat
    BY <1>3
  <2>2. \E i \in found : \A j \in found : i <= j
    <3> HIDE DEF found
    <3> QED BY <2>1, Ind!LeastExists
  <2>3. Min(found) \in found
    <3> HIDE DEF found
    <3> QED BY <2>2 DEF Min
  <2> HIDE DEF found
  <2> QED
    BY <1>3, <2>1, <2>3
<1> HIDE DEF found
<1>5. p \in Node /\ Zero \in Node /\ Known \subseteq K
  BY <1>3, <1>4, Addresses
<1>6. IsList(list, K)
  <2>1. ExternalClass(e) \in Info /\ ExternalClass(e).super = Null
    BY <1>2, InfoTypes, NewInfo
  <2>2. IsList(With(classes, Zero, ExternalClass(e)), Known \cup {Zero})
    BY <1>3, <1>5, <2>1, AddedToList
  <2> QED
    BY <1>3, <2>2
<1>7. /\ IsList(classes', K) /\ Known' = K /\ Links(heap') /\ pc' \in {"fix", "aborted", "hung"}
  <2> HIDE DEF K, list, p
  <2> QED
    BY <1>1, <1>2, <1>3, <1>5, <1>6, SetSuperTypes
<1>8. roots' \in Seq(Node) /\ \A i \in 1..Len(roots') : roots'[i] \in K
  BY <1>1, <1>3, <1>5
<1>9. rest' \subseteq K
  BY <1>1, <1>3, InsertTypes
<1> HIDE DEF K, list, p
<1> QED
  BY <1>1, <1>2, <1>5, <1>7, <1>8, <1>9, FixTypes

LEMMA FixNamelessSuperTypes == TypeInv /\ FixNamelessSuper => TypeInv'
  BY DEF TypeInv, FixNamelessSuper, IsList, CountersTyped, NodesTyped, Known, Pcs

LEMMA FixRootTypes == TypeInv /\ FixRoot => TypeInv'
<1> SUFFICES ASSUME TypeInv, FixRoot PROVE TypeInv'
  OBVIOUS
<1>1. fixing \in Known /\ fixing \in Node /\ pc = "fix" /\ IsList(classes, Known)
  BY FixingTypes DEF FixRoot, TypeInv
<1>2. IsList(classes', Known)
  BY <1>1, SuperCleared DEF FixRoot
<1>3. Known' = Known
  BY <1>2, ListDomain DEF Known
<1>4. Links(heap')
  BY <1>1 DEF TypeInv, FixRoot, Links, Heap, Ptr
<1>5. roots' \in Seq(Node) /\ (\A i \in 1..Len(roots') : roots'[i] \in Known) /\ rest' \subseteq Known
  BY <1>1 DEF TypeInv, FixRoot, NodesTyped
<1> QED
  BY <1>1, <1>2, <1>3, <1>4, <1>5, FixTypes DEF FixRoot

LEMMA FixKnownSuperTypes == TypeInv /\ FixKnownSuper => TypeInv'
<1> SUFFICES ASSUME TypeInv, FixKnownSuper PROVE TypeInv'
  OBVIOUS
<1>1. fixing \in Known /\ fixing \in Node /\ pc = "fix" /\ IsList(classes, Known) /\ Links(heap)
      /\ SuperAddr(fixing) \in Node
  BY FixingTypes DEF FixKnownSuper, TypeInv, IsList
<1>2. IsList(classes', Known) /\ Known' = Known /\ Links(heap') /\ pc' \in {"fix", "aborted", "hung"}
  BY <1>1, SetSuperTypes DEF FixKnownSuper
<1>3. roots' \in Seq(Node) /\ (\A i \in 1..Len(roots') : roots'[i] \in Known) /\ rest' \subseteq Known
  BY DEF TypeInv, FixKnownSuper, NodesTyped
<1> QED
  BY <1>1, <1>2, <1>3, FixTypes DEF FixKnownSuper

LEMMA FixNewSuperTypes == TypeInv /\ FixNewSuper => TypeInv'
<1> SUFFICES ASSUME TypeInv, FixNewSuper PROVE TypeInv'
  OBVIOUS
<1> DEFINE p == SuperAddr(fixing)
           K == Known \cup {p}
           list == With(classes, p, ParseObjcClass(p))
<1>1. /\ Fixing /\ p \notin Known \cup {Zero} /\ SetSuper(list, p, fixing) /\ InsertInWalk(p)
      /\ fixing' = p /\ UNCHANGED <<file, at, roots, root, categories>>
  BY DEF FixNewSuper
<1>2. fixing \in Known /\ pc = "fix" /\ p \in Class /\ p \in Node
  BY <1>1, FixingTypes, Addresses
<1>3. /\ roots \in Seq(Node) /\ \A i \in 1..Len(roots) : roots[i] \in Known
      /\ rest \subseteq Known /\ IsList(classes, Known) /\ Links(heap) /\ file \in Files
  BY DEF TypeInv, NodesTyped
<1> HIDE DEF p
<1>4. IsList(list, K)
  <2>1. ParseObjcClass(p) \in Info /\ ~ParseObjcClass(p).external
    BY <1>2, <1>3, InfoTypes, NewInfo
  <2> QED
    BY <1>2, <1>3, <2>1, AddedToList
<1>5. IsList(classes', K) /\ Known' = K /\ Links(heap') /\ pc' \in {"fix", "aborted", "hung"}
  <2>1. fixing \in K
    BY <1>2
  <2> HIDE DEF list, K
  <2> QED
    BY <1>1, <1>2, <1>3, <1>4, <2>1, SetSuperTypes
<1>6. rest' \subseteq K /\ fixing' \in (K \cap Class) \cup {Null} /\ roots' = roots /\ Known \subseteq K
  BY <1>1, <1>2, <1>3, InsertTypes
<1>7. \A i \in 1..Len(roots') : roots'[i] \in K
  BY <1>3, <1>6
<1> HIDE DEF K, list
<1> QED
  BY <1>1, <1>2, <1>3, <1>5, <1>6, <1>7, FixTypes

\* A list in which a class is null now.
Nulled(list, n, l) ==
  \A c \in DOMAIN list :
    /\ l[c].super = list[c].super /\ l[c].categories = list[c].categories
    /\ c # n => l[c] = list[c]

LEMMA NullSet ==
  ASSUME NEW K, NEW list, IsList(list, K), NEW n \in K
  PROVE  LET l == [list EXCEPT ![n].null = TRUE]
         IN  IsList(l, K) /\ Nulled(list, n, l)
<1> DEFINE l == [list EXCEPT ![n].null = TRUE]
           info == [list[n] EXCEPT !.null = TRUE]
<1>1. list \in [K -> Info] /\ DOMAIN list = K
  BY DEF IsList
<1>2. list[n] \in Info
  BY <1>1
<1>3. /\ info \in Info /\ info.super = list[n].super /\ info.external = list[n].external
      /\ info.categories = list[n].categories
  BY <1>2 DEF Info
<1>4. l = [list EXCEPT ![n] = info]
  OBVIOUS
<1> HIDE DEF info, l
<1>5. l \in [K -> Info] /\ l[n] = info /\ \A c \in K : c # n => l[c] = list[c]
  <2> HIDE DEF Info
  <2> QED
    BY <1>1, <1>3, <1>4
<1> QED
  BY <1>1, <1>3, <1>5 DEF IsList, Nulled, l

LEMMA AdjustTypes == TypeInv /\ Adjust => TypeInv'
<1> SUFFICES ASSUME TypeInv, Adjust PROVE TypeInv'
  OBVIOUS
<1>1. /\ pc = "adjust" /\ UNCHANGED <<file, at, rest, fixing, rehashed, categories, heap>>
      /\ file \in Files /\ IsList(classes, Known) /\ roots \in Seq(Node)
      /\ (\A i \in 1..Len(roots) : roots[i] \in Known) /\ Len(roots) \in Nat
      /\ rest \subseteq Known /\ fixing \in (Known \cap Class) \cup {Null} /\ root \in Known \cup {Null}
      /\ at = 0 /\ Len(file.categories) \in Nat
  BY FileTypes DEF Adjust, TypeInv, NodesTyped, CountersTyped
<1> DEFINE Good == /\ IsList(classes', Known') /\ Known \subseteq Known' /\ pc' \in {"adopt", "categories"}
                   /\ roots' \in Seq(Node) /\ (\A i \in 1..Len(roots') : roots'[i] \in Known)
                   /\ root' \in Known' \cup {Null} /\ (pc' = "adopt" => root' \in Known')
<1>2. CASE roots = <<>>
  <2>1. pc' = "categories" /\ UNCHANGED <<classes, root, roots>>
    BY <1>2 DEF Adjust
  <2>2. Good
    BY <1>1, <2>1 DEF Known
  <2> QED
    BY <1>1, <2>2 DEF TypeInv, CountersTyped, NodesTyped, Pcs
<1>3. CASE Len(roots) = 1
  <2>1. root' = Head(roots) /\ roots' = <<>> /\ pc' = "categories" /\ UNCHANGED classes
    BY <1>3 DEF Adjust
  <2>2. Head(roots) \in Known
    BY <1>1, <1>3
  <2>3. Good
    BY <1>1, <2>1, <2>2 DEF Known
  <2> QED
    BY <1>1, <2>3 DEF TypeInv, CountersTyped, NodesTyped, Pcs
<1>4. CASE roots # <<>> /\ Len(roots) # 1
  <2> DEFINE list == With(classes, Zero, NullClass)
  <2>1. root' = Zero /\ classes' = [list EXCEPT ![Zero].null = TRUE] /\ pc' = "adopt" /\ UNCHANGED roots
    BY <1>4 DEF Adjust
  <2>2. IsList(list, Known \cup {Zero})
    BY <1>1, Addresses, InfoTypes, NewInfo, AddedToList
  <2>3. IsList(classes', Known \cup {Zero})
    <3> HIDE DEF list
    <3> QED BY <2>1, <2>2, NullSet
  <2>4. Known' = Known \cup {Zero}
    BY <2>3, ListDomain DEF Known
  <2>5. Good
    BY <1>1, <2>1, <2>3, <2>4
  <2> QED
    BY <1>1, <2>1, <2>5 DEF TypeInv, CountersTyped, NodesTyped, Pcs
<1> QED
  BY <1>2, <1>3, <1>4

LEMMA AdoptTypes == TypeInv /\ Adopt => TypeInv'
<1> SUFFICES ASSUME TypeInv, Adopt PROVE TypeInv'
  OBVIOUS
<1>1. /\ pc = "adopt" /\ UNCHANGED <<file, at, classes, rest, fixing, rehashed, root, categories>>
      /\ file \in Files /\ IsList(classes, Known) /\ roots \in Seq(Node) /\ Links(heap)
      /\ (\A i \in 1..Len(roots) : roots[i] \in Known) /\ Len(roots) \in Nat
      /\ root \in Known /\ at = 0 /\ Len(file.categories) \in Nat /\ Known' = Known
  BY FileTypes DEF Adopt, TypeInv, NodesTyped, CountersTyped, Known
<1>2. CASE roots = <<>>
  <2>1. pc' = "categories" /\ UNCHANGED <<heap, roots>>
    BY <1>2 DEF Adopt
  <2> QED
    BY <1>1, <2>1 DEF TypeInv, CountersTyped, NodesTyped, Pcs
<1>3. CASE roots # <<>>
  <2>1. /\ pc' = AddChildOutcome(root, Head(roots))
        /\ heap' = IF pc' = pc THEN AddChildrenRaw(heap, root, Head(roots)) ELSE heap
        /\ roots' = Tail(roots)
    BY <1>3 DEF Adopt
  <2>2. Head(roots) \in Node /\ root \in Node
    BY <1>1, <1>3 DEF IsList
  <2>3. AddChildOutcome(root, Head(roots)) \in {"adopt", "aborted", "hung"}
        /\ (AddChildOutcome(root, Head(roots)) = pc => RangeEnds(heap, Head(roots)))
    BY <1>1 DEF AddChildOutcome
  <2>4. Links(heap')
    BY <1>1, <2>1, <2>2, <2>3, AddedLinks
  <2>5. roots' \in Seq(Node) /\ \A i \in 1..Len(roots') : roots'[i] \in Known
    BY <1>1, <1>3, <2>1
  <2> QED
    BY <1>1, <2>1, <2>3, <2>4, <2>5 DEF TypeInv, CountersTyped, NodesTyped, Pcs
<1> QED
  BY <1>2, <1>3

\* What is left to show of a step that reads a category.
LEMMA CategoryTypes ==
  ASSUME TypeInv, NEW K, Known \subseteq K, Known' = K, IsList(classes', K),
         pc = "categories", at < Len(file.categories), pc' \in {"categories", "crashed"}, at' = at + 1,
         UNCHANGED <<file, heap, roots, rest, fixing, root>>
  PROVE  TypeInv'
<1>1. CountersTyped'
  BY FileTypes DEF TypeInv, CountersTyped
<1>2. NodesTyped'
  BY DEF TypeInv, NodesTyped
<1> QED
  BY <1>1, <1>2 DEF TypeInv, Pcs

LEMMA ReadBareCategoryTypes == TypeInv /\ ReadBareCategory => TypeInv'
<1> SUFFICES ASSUME TypeInv, ReadBareCategory PROVE TypeInv'
  OBVIOUS
<1>1. Known' = Known /\ IsList(classes', Known)
  BY DEF TypeInv, ReadBareCategory, Known
<1> QED
  BY <1>1, CategoryTypes DEF ReadBareCategory

\* What ReadCategory does to the list.
LEMMA ReadCategoryEffect ==
  ASSUME TypeInv, ReadCategory
  PROVE  LET c == file.categories[at + 1].class
             old == IF c \in Known THEN classes[c] ELSE NullClass
         IN  /\ c \in Class /\ IsList(classes', Known \cup {c}) /\ Known' = Known \cup {c}
             /\ \A k \in Known : k # c => classes'[k] = classes[k]
             /\ classes'[c].super = old.super /\ classes'[c].null = old.null
             /\ classes'[c].categories = Append(old.categories, at + 1)
             /\ old.categories \in Seq(Nat)
<1> DEFINE c == file.categories[at + 1].class
           old == IF c \in Known THEN classes[c] ELSE NullClass
           list == With(classes, c, NullClass)
<1>1. /\ pc = "categories" /\ at < Len(file.categories) /\ file.categories[at + 1].kind = "pointer" /\ c # Zero
      /\ classes' = [list EXCEPT ![c].categories = Append(@, at + 1)]
      /\ file \in Files /\ IsList(classes, Known) /\ at \in Nat
  BY DEF ReadCategory, TypeInv, CountersTyped
<1>2. at + 1 \in Nat /\ at + 1 \in 1..Len(file.categories)
  <2>1. at \in Nat /\ Len(file.categories) \in Nat /\ at < Len(file.categories)
    BY <1>1, FileTypes
  <2> QED
    BY <2>1
<1>3. c \in Class
  <2>1. file.categories[at + 1] \in Pointers \cup Bounds \cup {Unreadable}
    BY <1>1, <1>2, FileTypes
  <2>2. c \in Class \cup {Zero}
    BY <1>1, <2>1, EntryKinds
  <2> QED
    BY <1>1, <2>2
<1> HIDE DEF c
<1>4. /\ IsList(list, Known \cup {c}) /\ list[c] = old
      /\ \A k \in Known : list[k] = classes[k]
  <2>1. IsList(list, Known \cup {c})
    BY <1>1, <1>3, Addresses, InfoTypes, NewInfo, AddedToList
  <2>2. list[c] = old /\ \A k \in Known : list[k] = classes[k]
    BY DEF With, Known
  <2> QED
    BY <2>1, <2>2
<1>5. old.categories \in Seq(Nat)
  BY <1>4 DEF IsList, Info
<1> HIDE DEF old, list
<1>6. /\ IsList(classes', Known \cup {c})
      /\ \A k \in Known \cup {c} : k # c => classes'[k] = list[k]
      /\ classes'[c].super = list[c].super /\ classes'[c].null = list[c].null
      /\ classes'[c].categories = Append(list[c].categories, at + 1)
  <2> DEFINE K == Known \cup {c}
             info == [list[c] EXCEPT !.categories = Append(list[c].categories, at + 1)]
  <2>1. list \in [K -> Info] /\ DOMAIN list = K /\ c \in K
    BY <1>4 DEF IsList
  <2>2. list[c] \in Info
    BY <2>1
  <2>3. /\ info \in Info /\ info.super = list[c].super /\ info.external = list[c].external
        /\ info.null = list[c].null /\ info.categories = Append(list[c].categories, at + 1)
    <3>1. list[c].categories \in Seq(Nat)
      BY <2>2 DEF Info
    <3>2. Append(list[c].categories, at + 1) \in Seq(Nat)
      BY <1>2, <3>1
    <3> QED
      BY <2>2, <3>2 DEF Info
  <2>4. classes' = [list EXCEPT ![c] = info]
    BY <1>1
  <2> HIDE DEF info, K
  <2>5. classes' \in [K -> Info] /\ classes'[c] = info /\ \A k \in K : k # c => classes'[k] = list[k]
    <3> HIDE DEF Info
    <3> QED
      BY <2>1, <2>3, <2>4
  <2>6. IsList(classes', K)
    <3>1. IsList(list, K)
      BY <1>4 DEF K
    <3> QED
      BY <2>3, <2>5, <3>1 DEF IsList
  <2> QED
    BY <2>3, <2>5, <2>6 DEF K
<1>7. Known' = Known \cup {c}
  BY <1>6, ListDomain DEF Known
<1> QED
  BY <1>3, <1>4, <1>5, <1>6, <1>7 DEF c, old

LEMMA ReadCategoryTypes == TypeInv /\ ReadCategory => TypeInv'
<1> SUFFICES ASSUME TypeInv, ReadCategory PROVE TypeInv'
  OBVIOUS
<1> DEFINE K == Known \cup {file.categories[at + 1].class}
<1>1. IsList(classes', K) /\ Known' = K
  BY ReadCategoryEffect
<1>2. Known \subseteq K
  OBVIOUS
<1> HIDE DEF K
<1> QED
  BY <1>1, <1>2, CategoryTypes DEF ReadCategory

\* What ReadBoundCategory does to the list: it adds a class at address 0 at most.
LEMMA ReadBoundCategoryEffect ==
  ASSUME TypeInv, ReadBoundCategory
  PROVE  /\ IsList(classes', Known') /\ Known \subseteq Known' /\ Known' \subseteq Known \cup {Zero}
         /\ \A k \in Known : classes'[k] = classes[k]
         /\ \A k \in Known' \ Known : classes'[k].categories = <<>> /\ classes'[k].super = Null
<1> DEFINE entry == file.categories[at + 1]
           e == entry.external
<1>1. /\ pc = "categories" /\ at < Len(file.categories)
      /\ file \in Files /\ IsList(classes, Known) /\ at \in Nat
  BY DEF ReadBoundCategory, TypeInv, CountersTyped
<1>2. at + 1 \in 1..Len(file.categories)
  BY <1>1, FileTypes
<1>3. entry \in Pointers \cup Bounds \cup {Unreadable}
  BY <1>1, <1>2, FileTypes
<1>4. CASE classes' = classes
  BY <1>1, <1>4 DEF Known
<1>5. CASE entry.kind = "bind" /\ classes' = With(classes, Zero, ExternalClass(e))
  <2>1. ExternalClass(e) \in Info /\ ExternalClass(e).super = Null /\ ExternalClass(e).categories = <<>>
    BY <1>3, <1>5, EntryKinds, InfoTypes, NewInfo
  <2>2. IsList(classes', Known \cup {Zero})
    BY <1>1, <1>5, <2>1, Addresses, AddedToList
  <2>3. Known' = Known \cup {Zero}
    BY <2>2, ListDomain DEF Known
  <2>4. /\ \A k \in Known : classes'[k] = classes[k]
        /\ Zero \notin Known => classes'[Zero] = ExternalClass(e)
    BY <1>5 DEF With, Known
  <2> QED
    BY <2>1, <2>2, <2>3, <2>4
<1> QED
  BY <1>4, <1>5 DEF ReadBoundCategory

LEMMA ReadBoundCategoryTypes == TypeInv /\ ReadBoundCategory => TypeInv'
<1> SUFFICES ASSUME TypeInv, ReadBoundCategory PROVE TypeInv'
  OBVIOUS
<1>1. pc' \in {"categories", "crashed"}
  BY DEF ReadBoundCategory
<1> QED
  BY <1>1, ReadBoundCategoryEffect, CategoryTypes DEF ReadBoundCategory

LEMMA EndTypes == TypeInv /\ End => TypeInv'
  BY DEF TypeInv, End, IsList, CountersTyped, NodesTyped, Known, Pcs

LEMMA TypeInvStep == TypeInv /\ [Next]_vars => TypeInv'
<1> SUFFICES ASSUME TypeInv, [Next]_vars PROVE TypeInv'
  OBVIOUS
<1>1. CASE Step
  BY <1>1, OpenSectionTypes, ReadEntryTypes, WalkTypes, FixBoundSuperTypes, FixNamelessSuperTypes,
     FixRootTypes, FixKnownSuperTypes, FixNewSuperTypes, AdjustTypes, AdoptTypes,
     ReadBareCategoryTypes, ReadCategoryTypes, ReadBoundCategoryTypes, EndTypes DEF Step
<1>2. CASE UNCHANGED vars
  BY <1>2 DEF TypeInv, IsList, CountersTyped, NodesTyped, Known, vars
<1> QED
  BY <1>1, <1>2 DEF Next, Finished

-----------------------------------------------------------------------------
(***************************************************************************)
(* The categories                                                          *)
(***************************************************************************)

\* The class a category gives, or the address 0.
Given(i) ==
  LET category == file.categories[i]
  IN  IF category.kind = "pointer" THEN category.class ELSE Zero

Bare(list, K) == \A c \in K : list[c].categories = <<>>
CatInv ==
  /\ pc \notin {"categories", "done", "crashed"} => Bare(classes, Known)
  /\ \A c \in Known : ToSet(classes[c].categories) \subseteq 1..at
  /\ pc \in {"categories", "done"} =>
       \A i \in 1..at : {c \in Known : i \in ToSet(classes[c].categories)} = {Given(i)} \ {Zero}

LEMMA NoCategories == ToSet(<<>>) = {}
  BY DEF ToSet

LEMMA CatInvInit == Init => CatInv
  BY DEF Init, CatInv, Known, Bare

LEMMA AddedBare ==
  ASSUME NEW K, NEW list, IsList(list, K), Bare(list, K), NEW a, NEW info, info.categories = <<>>
  PROVE  Bare(With(list, a, info), K \cup {a})
  BY DEF Bare, With, IsList

LEMMA SetSuperBare ==
  ASSUME NEW K, NEW list, IsList(list, K), Bare(list, K), NEW p, NEW n \in K, SetSuper(list, p, n)
  PROVE  Bare(classes', K)
<1>1. classes' = [list EXCEPT ![n].super = Null]
  BY DEF SetSuper
<1>2. Settled(list, n, classes')
  BY <1>1, SuperCleared
<1> QED
  BY <1>2, ListDomain DEF Settled, Bare

\* Before the categories are read, no step adds one to a class.
LEMMA StaysBare ==
  ASSUME TypeInv, TypeInv', Bare(classes, Known), pc \notin {"categories", "done", "crashed"}, Next
  PROVE  Bare(classes', Known')
<1>1. IsList(classes, Known) /\ IsList(classes', Known')
  BY DEF TypeInv
<1>2. CASE classes' = classes
  BY <1>2 DEF Known
<1>3. CASE ReadEntry
  <2>1. \E a, info : info.categories = <<>> /\ classes' \in {classes, With(classes, a, info)}
    BY <1>3, NewInfo DEF ReadEntry, ReadPointer
  <2>2. PICK a, info : info.categories = <<>> /\ classes' \in {classes, With(classes, a, info)}
    BY <2>1
  <2>3. CASE classes' = With(classes, a, info)
    <3>1. Bare(classes', Known \cup {a})
      BY <1>1, <2>2, <2>3, AddedBare
    <3>2. Known' \subseteq Known \cup {a}
      BY <2>3 DEF Known, With
    <3> QED
      BY <3>1, <3>2 DEF Bare
  <2> QED
    BY <1>2, <2>2, <2>3
<1>4. ASSUME Fixing, NEW a, NEW info, info.categories = <<>>, NEW list,
             \/ list = classes /\ IsList(list, Known)
             \/ list = With(classes, a, info) /\ IsList(list, Known \cup {a}),
             NEW p, SetSuper(list, p, fixing)
      PROVE  Bare(classes', Known')
  <2>1. fixing \in Known
    BY <1>4, FixingTypes
  <2>2. PICK K : IsList(list, K) /\ Bare(list, K) /\ Known \subseteq K
    BY <1>1, <1>4, AddedBare
  <2>3. Bare(classes', K)
    BY <1>4, <2>1, <2>2, SetSuperBare
  <2>4. classes' = [list EXCEPT ![fixing].super = Null]
    BY <1>4 DEF SetSuper
  <2>5. IsList(classes', K)
    BY <2>1, <2>2, <2>4, SuperCleared
  <2>6. Known' = K
    BY <2>5, ListDomain DEF Known
  <2> QED
    BY <2>3, <2>6
<1>5. CASE FixBoundSuper
  <2> DEFINE e == file.superBind[fixing].external
             found == {i \in DOMAIN roots : SameExternal(roots[i], e)}
             q == IF found # {} THEN roots[Min(found)] ELSE Zero
             l == IF found # {} THEN classes ELSE With(classes, Zero, ExternalClass(e))
  <2>1. SetSuper(l, q, fixing) /\ Fixing /\ file.superBind[fixing].kind = "bind"
    BY <1>5 DEF FixBoundSuper
  <2>2. ExternalClass(e) \in Info /\ ExternalClass(e).super = Null /\ ExternalClass(e).categories = <<>>
    BY <2>1, FixingTypes, InfoTypes, NewInfo
  <2>3. IsList(With(classes, Zero, ExternalClass(e)), Known \cup {Zero})
    BY <1>1, <2>2, Addresses, AddedToList
  <2>4. \/ l = classes /\ IsList(l, Known)
        \/ l = With(classes, Zero, ExternalClass(e)) /\ IsList(l, Known \cup {Zero})
    <3> HIDE DEF found, e
    <3>1. CASE found # {}
      <4>1. l = classes
        BY <3>1
      <4> HIDE DEF l
      <4> QED
        BY <1>1, <4>1
    <3>2. CASE found = {}
      <4>1. l = With(classes, Zero, ExternalClass(e))
        BY <3>2
      <4> HIDE DEF l
      <4> QED
        BY <2>3, <4>1
    <3> QED BY <3>1, <3>2
  <2> HIDE DEF l, q, e
  <2> QED
    BY <1>4, <2>1, <2>2, <2>4
<1>6. CASE FixRoot
  <2>1. classes' = [classes EXCEPT ![fixing].super = Null] /\ fixing \in Known
    BY <1>6, FixingTypes DEF FixRoot
  <2>2. Settled(classes, fixing, classes') /\ IsList(classes', Known)
    BY <1>1, <2>1, SuperCleared
  <2>3. Known' = Known
    BY <2>2, ListDomain DEF Known
  <2> QED
    BY <2>2, <2>3 DEF Settled, Bare, Known
<1>7. CASE FixKnownSuper
  <2>1. SetSuper(classes, SuperAddr(fixing), fixing) /\ Fixing
    BY <1>7 DEF FixKnownSuper
  <2>2. fixing \in Known
    BY <2>1, FixingTypes
  <2>3. classes' = [classes EXCEPT ![fixing].super = Null]
    BY <2>1 DEF SetSuper
  <2>4. Settled(classes, fixing, classes') /\ IsList(classes', Known)
    BY <1>1, <2>2, <2>3, SuperCleared
  <2>5. Known' = Known
    BY <2>4, ListDomain DEF Known
  <2> QED
    BY <2>4, <2>5 DEF Settled, Bare, Known
<1>8. CASE FixNewSuper
  <2> DEFINE p == SuperAddr(fixing)
             l == With(classes, p, ParseObjcClass(p))
  <2>1. SetSuper(l, p, fixing) /\ Fixing /\ p # Zero
    BY <1>8 DEF FixNewSuper
  <2>2. p \in Class /\ file \in Files
    BY <2>1, FixingTypes DEF TypeInv
  <2>3. ParseObjcClass(p) \in Info /\ ~ParseObjcClass(p).external /\ ParseObjcClass(p).categories = <<>>
    BY <2>2, InfoTypes, NewInfo
  <2>4. IsList(l, Known \cup {p})
    BY <1>1, <2>2, <2>3, Addresses, AddedToList
  <2> HIDE DEF p
  <2>5. l = With(classes, p, ParseObjcClass(p))
    OBVIOUS
  <2> HIDE DEF l
  <2> QED
    BY <1>4, <2>1, <2>3, <2>4, <2>5
<1>9. CASE Adjust
  <2> DEFINE list == With(classes, Zero, NullClass)
  <2>1. classes' = classes \/ classes' = [list EXCEPT ![Zero].null = TRUE]
    BY <1>9 DEF Adjust
  <2>2. IsList(list, Known \cup {Zero}) /\ Bare(list, Known \cup {Zero})
    BY <1>1, Addresses, InfoTypes, NewInfo, AddedToList, AddedBare
  <2> HIDE DEF list
  <2>3. CASE classes' = [list EXCEPT ![Zero].null = TRUE]
    <3> DEFINE K == Known \cup {Zero}
    <3>1. IsList(list, K) /\ Zero \in K /\ Bare(list, K)
      BY <2>2
    <3> HIDE DEF K
    <3>2. IsList(classes', K) /\ Nulled(list, Zero, classes')
      BY <2>3, <3>1, NullSet
    <3>3. Known' = K
      BY <3>2, ListDomain DEF Known
    <3> QED
      BY <3>1, <3>2, <3>3, ListDomain DEF Bare, Nulled
  <2> QED
    BY <1>2, <2>1, <2>3
<1>10. CASE ReadBareCategory \/ ReadCategory \/ ReadBoundCategory \/ End
  BY <1>10 DEF ReadBareCategory, ReadCategory, ReadBoundCategory, End
<1> QED
  BY <1>2, <1>3, <1>5, <1>6, <1>7, <1>8, <1>9, <1>10
  DEF Next, Step, Finished, vars, OpenSection, BeginFix, PickClass, FixNamelessSuper, EndFix, Adopt

LEMMA AppendedSet ==
  ASSUME NEW s \in Seq(Nat), NEW i \in Nat
  PROVE  ToSet(Append(s, i)) = ToSet(s) \cup {i}
<1> DEFINE t == Append(s, i)
<1>1. Len(s) \in Nat /\ Len(t) = Len(s) + 1 /\ t[Len(s) + 1] = i /\ \A k \in 1..Len(s) : t[k] = s[k]
  OBVIOUS
<1>2. DOMAIN s = 1..Len(s) /\ DOMAIN t = 1..Len(t)
  OBVIOUS
<1> HIDE DEF t
<1>3. \A k \in 1..Len(t) : k \in 1..Len(s) \/ k = Len(s) + 1
  BY <1>1
<1>4. Len(s) + 1 \in 1..Len(t) /\ \A k \in 1..Len(s) : k \in 1..Len(t)
  BY <1>1
<1>5. ToSet(t) = {t[k] : k \in 1..Len(t)} /\ ToSet(s) = {s[k] : k \in 1..Len(s)}
  BY <1>2 DEF ToSet
<1>6. {t[k] : k \in 1..Len(t)} = {s[k] : k \in 1..Len(s)} \cup {i}
  BY <1>1, <1>3, <1>4
<1> QED
  BY <1>5, <1>6 DEF t

LEMMA CatInvStep == TypeInv /\ TypeInv' /\ CatInv /\ [Next]_vars => CatInv'
<1> SUFFICES ASSUME TypeInv, TypeInv', CatInv, [Next]_vars PROVE CatInv'
  OBVIOUS
<1>1. CASE UNCHANGED vars
  BY <1>1 DEF CatInv, vars, Bare, Known, Given
<1>2. at \in Nat /\ at' \in Nat /\ file \in Files
  BY DEF TypeInv, CountersTyped
<1>3. CASE Next /\ pc \notin {"categories", "done", "crashed"}
  <2>1. Bare(classes', Known')
    BY <1>3, StaysBare DEF CatInv
  <2>2. \A c \in Known' : ToSet(classes'[c].categories) = {}
    BY <2>1, NoCategories DEF Bare
  <2>3. pc' \in {"categories", "done"} => at' = 0
    BY <1>3 DEF TypeInv, CountersTyped, Next, Step, Finished, vars, OpenSection, ReadEntry, BeginFix, PickClass,
       FixBoundSuper, FixNamelessSuper, FixRoot, FixKnownSuper, FixNewSuper, EndFix, Adjust, Adopt,
       ReadBareCategory, ReadCategory, ReadBoundCategory, End, Fixing, SetSuper, AddChildOutcome
  <2> QED
    BY <1>2, <2>1, <2>2, <2>3 DEF CatInv
<1>4. ASSUME pc = "categories", file' = file, at' = at + 1, pc' \in {"categories", "crashed"},
             at < Len(file.categories), Known \subseteq Known',
             NEW c \in Node, Given(at + 1) = c, c # Zero => c \in Known',
             \A k \in Known' : ToSet(classes'[k].categories)
                 = (IF k \in Known THEN ToSet(classes[k].categories) ELSE {})
                   \cup (IF k = c /\ c # Zero THEN {at + 1} ELSE {})
      PROVE  CatInv'
  <2>1. \A k \in Known : ToSet(classes[k].categories) \subseteq 1..at
    BY DEF CatInv
  <2>2. \A k \in Known' : ToSet(classes'[k].categories) \subseteq 1..at'
    <3>1. 1..at \subseteq 1..at' /\ at + 1 \in 1..at'
      BY <1>2, <1>4
    <3> QED
      BY <1>4, <2>1, <3>1
  <2>3. ASSUME NEW i \in 1..at
        PROVE  {k \in Known' : i \in ToSet(classes'[k].categories)} = {Given(i)} \ {Zero}
    <3>1. {k \in Known : i \in ToSet(classes[k].categories)} = {Given(i)} \ {Zero}
      BY <1>4 DEF CatInv
    <3>2. i # at + 1
      BY <1>2
    <3>3. \A k \in Known' : i \in ToSet(classes'[k].categories)
                              <=> k \in Known /\ i \in ToSet(classes[k].categories)
      BY <1>4, <3>2
    <3> QED
      BY <1>4, <3>1, <3>3
  <2>4. {k \in Known' : at + 1 \in ToSet(classes'[k].categories)} = {Given(at + 1)} \ {Zero}
    <3>1. at + 1 \notin 1..at
      BY <1>2
    <3>2. \A k \in Known' : at + 1 \in ToSet(classes'[k].categories) <=> k = c /\ c # Zero
      BY <1>4, <2>1, <3>1
    <3> QED
      BY <1>4, <3>2
  <2>5. \A i \in 1..at' : i \in 1..at \/ i = at + 1
    BY <1>2, <1>4
  <2>6. \A i \in 1..at' : {k \in Known' : i \in ToSet(classes'[k].categories)} = {Given(i)} \ {Zero}
    BY <2>3, <2>4, <2>5
  <2>7. \A i \in 1..at' : Given(i)' = Given(i)
    BY <1>4 DEF Given
  <2> QED
    BY <1>4, <2>2, <2>6, <2>7 DEF CatInv
<1>5. ASSUME pc = "categories", at < Len(file.categories)
      PROVE  file.categories[at + 1] \in Pointers \cup Bounds \cup {Unreadable}
  BY <1>2, <1>5, FileTypes
<1>6. Zero \in Node /\ Class \subseteq Node
  BY Addresses
<1>7. CASE ReadBareCategory
  <2>1. /\ pc = "categories" /\ file' = file /\ at' = at + 1 /\ pc' = "categories"
        /\ at < Len(file.categories) /\ Known' = Known /\ classes' = classes
    BY <1>7 DEF ReadBareCategory, Known
  <2>2. Given(at + 1) = Zero
    BY <1>7 DEF ReadBareCategory, Given
  <2> QED
    BY <1>4, <1>6, <2>1, <2>2
<1>8. CASE ReadCategory
  <2> DEFINE c == file.categories[at + 1].class
             old == IF c \in Known THEN classes[c] ELSE NullClass
  <2>1. /\ pc = "categories" /\ file' = file /\ at' = at + 1 /\ pc' = "categories"
        /\ at < Len(file.categories)
    BY <1>8 DEF ReadCategory
  <2>2. Given(at + 1) = c
    BY <1>8 DEF ReadCategory, Given
  <2>3. /\ c \in Class /\ Known' = Known \cup {c}
        /\ \A k \in Known : k # c => classes'[k] = classes[k]
        /\ classes'[c].categories = Append(old.categories, at + 1)
        /\ old.categories \in Seq(Nat)
    BY <1>8, ReadCategoryEffect
  <2>4. ToSet(classes'[c].categories) = ToSet(old.categories) \cup {at + 1}
    <3> HIDE DEF old
    <3>1. at + 1 \in Nat
      BY <1>2
    <3> QED BY <2>3, <3>1, AppendedSet
  <2>5. ToSet(old.categories) = IF c \in Known THEN ToSet(classes[c].categories) ELSE {}
    BY NewInfo, NoCategories
  <2>6. c # Zero /\ c \in Node
    BY <2>3, Addresses
  <2> HIDE DEF old, c
  <2>7. \A k \in Known' : ToSet(classes'[k].categories)
                 = (IF k \in Known THEN ToSet(classes[k].categories) ELSE {})
                   \cup (IF k = c /\ c # Zero THEN {at + 1} ELSE {})
    BY <2>3, <2>4, <2>5, <2>6
  <2> QED
    BY <1>4, <2>1, <2>2, <2>3, <2>6, <2>7
<1>9. CASE ReadBoundCategory
  <2>1. /\ pc = "categories" /\ file' = file /\ at' = at + 1 /\ pc' \in {"categories", "crashed"}
        /\ at < Len(file.categories)
    BY <1>9 DEF ReadBoundCategory
  <2>2. Given(at + 1) = Zero
    BY <1>9 DEF ReadBoundCategory, Given
  <2>3. /\ Known \subseteq Known' /\ \A k \in Known : classes'[k] = classes[k]
        /\ \A k \in Known' \ Known : classes'[k].categories = <<>>
    BY <1>9, ReadBoundCategoryEffect
  <2>4. \A k \in Known' : ToSet(classes'[k].categories)
                 = (IF k \in Known THEN ToSet(classes[k].categories) ELSE {})
                   \cup (IF k = Zero /\ Zero # Zero THEN {at + 1} ELSE {})
    BY <2>3, NoCategories
  <2> QED
    BY <1>4, <1>6, <2>1, <2>2, <2>3, <2>4
<1>10. CASE End
  BY <1>10 DEF End, CatInv, Known, Given
<1>11. CASE Next /\ pc \in {"categories", "done", "crashed"}
  BY <1>1, <1>7, <1>8, <1>9, <1>10, <1>11
  DEF Next, Step, Finished, OpenSection, ReadEntry, BeginFix, PickClass, FixBoundSuper, FixNamelessSuper,
      FixRoot, FixKnownSuper, FixNewSuper, EndFix, Adjust, Adopt, Fixing
<1> QED
  BY <1>1, <1>3, <1>11

LEMMA TypedAlways == Spec => [](TypeInv /\ CatInv)
<1>1. TypeInv /\ CatInv /\ [Next]_vars => (TypeInv /\ CatInv)'
  BY TypeInvStep, CatInvStep
<1> QED
  BY <1>1, TypeInvInit, CatInvInit, PTL DEF Spec

LEMMA CategoriesFromInv == TypeInv /\ CatInv => CategoriesHaveTheirClass
  BY DEF CategoriesHaveTheirClass, CatInv, Given

\* A category is in the list of exactly one class, the one whose address it
\* gives, also when the class was not known before CollectFrom.
THEOREM CategoriesStayWithTheirClass == Spec => []CategoriesHaveTheirClass
  BY TypedAlways, CategoriesFromInv, PTL

-----------------------------------------------------------------------------
(***************************************************************************)
(* The links of the tree, when no super class is bound                     *)
(***************************************************************************)

Kids(h, p) == {c \in Node : h.parent[c] = p}

\* The siblings after a node are children of its parent, FirstChild and LastChild
\* of a node are one child of it, and it has both when it has children.  (AddChild
\* adds a child behind the first, which stays the last of LastChild.)
Siblings(h) ==
  /\ \A n \in Node : h.next[n] # Null => h.parent[n] # Null /\ h.parent[h.next[n]] = h.parent[n]
  /\ \A p \in Node : h.first[p] # Null => h.parent[h.first[p]] = p /\ h.last[p] = h.first[p]
  /\ \A c \in Node : h.parent[c] # Null => h.first[h.parent[c]] # Null

\* No node comes after two, and none before the first.
OneBefore(h) ==
  /\ \A m, n \in Node : h.next[m] = h.next[n] /\ h.next[m] # Null => m = n
  /\ \A p, m \in Node : h.first[p] # Null => h.next[m] # h.first[p]

\* No node comes after itself, in however many steps.
NoCircle(h) == \A S \in SUBSET Node : S # {} => \E m \in S : h.next[m] \notin S

\* All children of a node come after the first, in so many steps.
FirstReachesAll(h) ==
  \A p \in Node, S \in SUBSET Node :
    h.first[p] \in S /\ (\A m \in S : h.next[m] \in S \cup {Null}) => Kids(h, p) \subseteq S

Forest(h) == Links(h) /\ Siblings(h) /\ OneBefore(h) /\ NoCircle(h) /\ FirstReachesAll(h)

LEMMA LinkTypes ==
  ASSUME NEW h, Links(h), NEW n \in Node
  PROVE  /\ h.parent[n] \in Node \cup {Null} /\ h.first[n] \in Node \cup {Null}
         /\ h.next[n] \in Node \cup {Null} /\ h.last[n] \in Node \cup {Null}
  BY DEF Links, Heap, Ptr

LEMMA EmptyForest == Forest(EmptyHeap)
<1> DEFINE h == EmptyHeap
<1>1. /\ h.parent = [n \in Node |-> Null] /\ h.first = [n \in Node |-> Null]
      /\ h.last = [n \in Node |-> Null] /\ h.prev = [n \in Node |-> Null]
      /\ h.next = [n \in Node |-> Null]
  BY DEF EmptyHeap
<1>2. Links(h)
  BY DEF EmptyHeap, Links, Heap, Ptr
<1> HIDE DEF h
<1>3. Siblings(h) /\ OneBefore(h)
  BY <1>1 DEF Siblings, OneBefore
<1>4. NoCircle(h) /\ FirstReachesAll(h)
  BY <1>1, Addresses DEF NoCircle, FirstReachesAll
<1> QED
  BY <1>2, <1>3, <1>4 DEF Forest, h

\* g is h with n, that had no parent, as a child of p behind the first.
Attached(h, p, n, g) ==
  /\ g.parent = [h.parent EXCEPT ![n] = p]
  /\ g.first = IF h.first[p] = Null THEN [h.first EXCEPT ![p] = n] ELSE h.first
  /\ g.last = IF h.first[p] = Null THEN [h.last EXCEPT ![p] = n] ELSE h.last
  /\ g.next = IF h.first[p] = Null THEN h.next
              ELSE [[h.next EXCEPT ![n] = h.next[h.first[p]]] EXCEPT ![h.first[p]] = n]

LEMMA AttachFields ==
  ASSUME NEW h, Forest(h), NEW p \in Node, NEW n \in Node, p # n, h.parent[n] = Null
  PROVE  Attached(h, p, n, AddChildrenRaw(h, p, n)) /\ Links(AddChildrenRaw(h, p, n))
<1> DEFINE s == SetParentOfSiblings(h, p, n)
           g == AddChildrenRaw(h, p, n)
<1>1. Links(h) /\ h \in Heap /\ h.next[n] = Null
  BY DEF Forest, Links, Siblings
<1>2. SiblingsFrom(h, n) = {n} /\ Back(h, n) = n /\ RangeEnds(h, n)
  BY <1>1, LoneRange
<1>3. Links(g)
  BY <1>1, <1>2, AddedLinks
<1>4. /\ s.parent = [h.parent EXCEPT ![n] = p]
      /\ s.first = h.first /\ s.last = h.last /\ s.next = h.next /\ s.prev = h.prev
  <2>1. [m \in Node |-> IF m \in SiblingsFrom(h, n) THEN p ELSE h.parent[m]]
          = [h.parent EXCEPT ![n] = p]
    BY <1>1, <1>2 DEF Heap
  <2>2. s = [h EXCEPT !.parent = [h.parent EXCEPT ![n] = p]]
    BY <2>1 DEF SetParentOfSiblings
  <2> QED
    BY <1>1, <2>2 DEF Heap
<1>5. DOMAIN s = DOMAIN h
  BY <1>1 DEF SetParentOfSiblings, Heap
<1>6. CASE h.first[p] = Null
  <2>1. g = [s EXCEPT !.prev = [s.prev EXCEPT ![n] = Null],
                      !.first = [s.first EXCEPT ![p] = n],
                      !.last = [s.last EXCEPT ![p] = n]]
    BY <1>6 DEF AddChildrenRaw, IsLeaf
  <2>2. g.parent = s.parent /\ g.first = [s.first EXCEPT ![p] = n]
        /\ g.last = [s.last EXCEPT ![p] = n] /\ g.next = s.next
    BY <1>1, <1>5, <2>1 DEF Heap
  <2> QED
    BY <1>3, <1>4, <1>6, <2>2 DEF Attached
<1>7. CASE h.first[p] # Null
  <2> DEFINE this == h.last[p]
             prev == Put([s.prev EXCEPT ![n] = this], h.next[this], n)
             next == [[s.next EXCEPT ![n] = h.next[this]] EXCEPT ![this] = n]
  <2>1. this = h.first[p] /\ this \in Node /\ h.parent[this] = p /\ this # n
    BY <1>1, <1>7, LinkTypes, Addresses DEF Forest, Siblings
  <2>2. g = AddSiblingsRaw(h, this, n)
    BY <1>7 DEF AddChildrenRaw, IsLeaf
  <2>3. g = [s EXCEPT !.prev = prev, !.next = next, !.last = s.last]
    BY <1>2, <2>1, <2>2 DEF AddSiblingsRaw
  <2>4. g.parent = s.parent /\ g.first = s.first /\ g.last = s.last /\ g.next = next
    BY <1>1, <1>5, <2>3 DEF Heap
  <2> QED
    BY <1>3, <1>4, <1>7, <2>1, <2>4 DEF Attached
<1> QED
  BY <1>6, <1>7

\* A node without a parent can become the child of another.
LEMMA AttachEnds ==
  ASSUME NEW p \in Node, NEW n \in Node, Forest(heap), p # n, heap.parent[n] = Null
  PROVE  AddChildOutcome(p, n) = pc
<1>1. Links(heap) /\ heap \in Heap /\ heap.next[n] = Null
  BY DEF Forest, Links, Siblings
<1>2. Back(heap, n) = n /\ RangeEnds(heap, n)
  BY <1>1, LoneRange
<1>3. CASE IsLeaf(heap, p)
  BY <1>2, <1>3 DEF AddChildOutcome
<1>4. CASE ~IsLeaf(heap, p)
  <2>1. heap.last[p] = heap.first[p] /\ heap.last[p] \in Node /\ heap.parent[heap.last[p]] = p
    BY <1>1, <1>4, LinkTypes DEF Forest, Siblings, IsLeaf
  <2>2. heap.last[p] # n /\ p # Null
    BY <2>1, Addresses
  <2>3. heap.next[heap.last[p]] # n
    BY <1>1, <2>1, <2>2, Addresses DEF Forest, Siblings
  <2> QED
    BY <1>2, <2>2, <2>3 DEF AddChildOutcome
<1> QED
  BY <1>3, <1>4

LEMMA AttachedForest ==
  ASSUME NEW h, Forest(h), NEW p \in Node, NEW n \in Node, p # n, h.parent[n] = Null,
         NEW g, Attached(h, p, n, g), Links(g)
  PROVE  Forest(g)
<1> DEFINE f == h.first[p]
<1>1. /\ Links(h) /\ Siblings(h) /\ OneBefore(h) /\ NoCircle(h) /\ FirstReachesAll(h)
      /\ p # Null /\ n # Null /\ Null \notin Node
  BY Addresses DEF Forest
<1>2. /\ h.parent \in [Node -> Node \cup {Null}] /\ h.first \in [Node -> Node \cup {Null}]
      /\ h.last \in [Node -> Node \cup {Null}] /\ h.next \in [Node -> Node \cup {Null}]
  BY <1>1 DEF Links, Heap, Ptr
<1>3. h.next[n] = Null /\ (\A m \in Node : h.next[m] # n) /\ \A q \in Node : h.first[q] # n
  BY <1>1, <1>2 DEF Siblings
<1>4. f # Null => f \in Node /\ h.parent[f] = p /\ f # n /\ h.last[p] = f
  BY <1>1, <1>2 DEF Siblings
<1>5. f = Null => \A c \in Node : h.parent[c] # p
  BY <1>1 DEF Siblings
<1>6. /\ g.parent[n] = p /\ \A m \in Node : m # n => g.parent[m] = h.parent[m]
      /\ \A m \in Node : m # p => g.first[m] = h.first[m] /\ g.last[m] = h.last[m]
      /\ g.first[p] = (IF f = Null THEN n ELSE f) /\ g.last[p] = (IF f = Null THEN n ELSE h.last[p])
      /\ f = Null => \A m \in Node : g.next[m] = h.next[m]
      /\ f # Null => /\ g.next[f] = n /\ g.next[n] = h.next[f]
                     /\ \A m \in Node : m # n /\ m # f => g.next[m] = h.next[m]
  BY <1>2, <1>4 DEF Attached
<1> HIDE DEF f
<1>7. Siblings(g)
  <2>1. ASSUME NEW m \in Node, g.next[m] # Null
        PROVE  g.parent[m] # Null /\ g.parent[g.next[m]] = g.parent[m]
    BY <1>1, <1>2, <1>3, <1>4, <1>6, <2>1 DEF Siblings
  <2>2. ASSUME NEW q \in Node, g.first[q] # Null
        PROVE  g.parent[g.first[q]] = q /\ g.last[q] = g.first[q]
    BY <1>1, <1>2, <1>3, <1>4, <1>6, <2>2 DEF Siblings
  <2>3. ASSUME NEW c \in Node, g.parent[c] # Null PROVE g.first[g.parent[c]] # Null
    BY <1>1, <1>2, <1>3, <1>4, <1>6, <2>3 DEF Siblings
  <2> QED
    BY <2>1, <2>2, <2>3 DEF Siblings
<1>8. OneBefore(g)
  <2>1. ASSUME NEW k \in Node, NEW m \in Node, g.next[k] = g.next[m], g.next[k] # Null PROVE k = m
    BY <1>1, <1>2, <1>3, <1>4, <1>6, <2>1 DEF OneBefore
  <2>2. ASSUME NEW q \in Node, NEW m \in Node, g.first[q] # Null PROVE g.next[m] # g.first[q]
    <3>1. \E k \in Node : g.next[m] = h.next[k] \/ (g.next[m] = n /\ f # Null)
      BY <1>4, <1>6
    <3>2. PICK k \in Node : g.next[m] = h.next[k] \/ (g.next[m] = n /\ f # Null)
      BY <3>1
    <3>3. CASE q = p /\ f = Null
      BY <1>3, <1>6, <3>2, <3>3
    <3>4. CASE ~(q = p /\ f = Null)
      <4>1. g.first[q] = h.first[q] /\ h.first[q] # Null
        BY <1>6, <2>2, <3>4 DEF f
      <4>2. h.next[k] # h.first[q] /\ h.first[q] # n
        BY <1>1, <1>3, <4>1 DEF OneBefore
      <4> QED
        BY <3>2, <4>1, <4>2
    <3> QED
      BY <3>3, <3>4
  <2> QED
    BY <2>1, <2>2 DEF OneBefore
<1>9. NoCircle(g)
  <2> SUFFICES ASSUME NEW S \in SUBSET Node, S # {} PROVE \E m \in S : g.next[m] \notin S
    BY DEF NoCircle
  <2>1. CASE S \subseteq {n}
    <3>1. S = {n}
      BY <2>1
    <3>2. g.next[n] # n
      BY <1>1, <1>3, <1>4, <1>6
    <3> QED
      BY <3>1, <3>2
  <2>2. CASE ~(S \subseteq {n})
    <3> DEFINE T == S \ {n}
    <3>1. T \in SUBSET Node /\ T # {}
      BY <2>2
    <3>2. PICK m \in T : h.next[m] \notin T
      <4> HIDE DEF T
      <4> QED BY <1>1, <3>1 DEF NoCircle
    <3>3. m \in S /\ m # n /\ m \in Node /\ h.next[m] # n /\ h.next[m] \notin S
      BY <1>3, <3>2
    <3>4. CASE f # Null /\ m = f
      BY <1>6, <3>3, <3>4
    <3>5. CASE ~(f # Null /\ m = f)
      BY <1>6, <3>3, <3>5
    <3> QED
      BY <3>4, <3>5
  <2> QED
    BY <2>1, <2>2
<1>10. FirstReachesAll(g)
  <2> SUFFICES ASSUME NEW q \in Node, NEW S \in SUBSET Node, g.first[q] \in S,
                      \A m \in S : g.next[m] \in S \cup {Null}
               PROVE  Kids(g, q) \subseteq S
    BY DEF FirstReachesAll
  <2>1. \A m \in S : h.next[m] \in S \cup {Null}
    <3> SUFFICES ASSUME NEW m \in S PROVE h.next[m] \in S \cup {Null}
      OBVIOUS
    <3>1. CASE f # Null /\ m = f
      <4>1. n \in S
        BY <1>1, <1>6, <3>1
      <4> QED
        BY <1>6, <3>1, <4>1
    <3>2. CASE m = n
      BY <1>3, <3>2
    <3>3. CASE m # n /\ ~(f # Null /\ m = f)
      BY <1>6, <3>3
    <3> QED
      BY <3>1, <3>2, <3>3
  <2>2. CASE q # p
    <3>1. h.first[q] \in S
      BY <1>6, <2>2
    <3>2. Kids(h, q) \subseteq S
      BY <1>1, <2>1, <3>1 DEF FirstReachesAll
    <3> QED
      BY <1>6, <2>2, <3>2 DEF Kids
  <2>3. CASE q = p /\ f # Null
    <3>1. f \in S /\ h.first[p] = f
      BY <1>6, <2>3 DEF f
    <3>2. Kids(h, p) \subseteq S
      BY <1>1, <2>1, <3>1 DEF FirstReachesAll
    <3>3. n \in S
      BY <1>1, <1>6, <2>3, <3>1
    <3> QED
      BY <1>6, <2>3, <3>2, <3>3 DEF Kids
  <2>4. CASE q = p /\ f = Null
    BY <1>5, <1>6, <2>4 DEF Kids
  <2> QED
    BY <2>2, <2>3, <2>4
<1> QED
  BY <1>7, <1>8, <1>9, <1>10 DEF Forest

\* The children of a node are those whose parent it is, and the loop over the
\* siblings of any of them ends.
LEMMA ListIsKids ==
  ASSUME NEW h, Forest(h), NEW p \in Node
  PROVE  ChildList(h, p) = Kids(h, p)
<1>1. Links(h) /\ h \in Heap /\ Siblings(h) /\ FirstReachesAll(h)
  BY DEF Forest, Links
<1>2. CASE h.first[p] = Null
  BY <1>1, <1>2, Addresses DEF ChildList, IsLeaf, Kids, Siblings
<1>3. CASE h.first[p] # Null
  <2> DEFINE n == h.first[p]
             R == SiblingsFrom(h, n)
  <2>1. n \in Node /\ h.parent[n] = p
    BY <1>1, <1>3, LinkTypes DEF Siblings
  <2>2. IsRange(h, n, R)
    BY <1>1, <2>1, SiblingsAreRange
  <2>3. ChildList(h, p) = R
    BY <1>3 DEF ChildList, IsLeaf
  <2> HIDE DEF n, R
  <2>4. Kids(h, p) \subseteq R
    <3>1. R \in SUBSET Node /\ h.first[p] \in R /\ \A m \in R : h.next[m] \in R \cup {Null}
      BY <2>2 DEF IsRange, n
    <3> QED
      BY <1>1, <3>1 DEF FirstReachesAll
  <2>5. R \subseteq Kids(h, p)
    <3> DEFINE S == Kids(h, p)
    <3>1. S \in SUBSET Node /\ n \in S
      BY <2>1 DEF Kids
    <3>2. \A m \in S : h.next[m] \in S \cup {Null}
      BY <1>1, LinkTypes DEF Siblings, Kids
    <3> HIDE DEF S
    <3>3. R \subseteq S
      BY <2>2, <3>1, <3>2 DEF IsRange
    <3> QED
      BY <3>3 DEF S
  <2> QED
    BY <2>3, <2>4, <2>5
<1> QED
  BY <1>2, <1>3

LEMMA RangesEnd ==
  ASSUME NEW h, Forest(h), NEW n \in Node
  PROVE  RangeEnds(h, n)
<1> DEFINE R == SiblingsFrom(h, n)
<1>1. h \in Heap /\ NoCircle(h)
  BY DEF Forest, Links
<1>2. IsRange(h, n, R)
  BY <1>1, SiblingsAreRange
<1> HIDE DEF R
<1>3. PICK m \in R : h.next[m] \notin R
  BY <1>1, <1>2 DEF IsRange, NoCircle
<1>4. h.next[m] = Null
  BY <1>2, <1>3 DEF IsRange
<1> QED
  BY <1>3, <1>4 DEF RangeEnds, R

-----------------------------------------------------------------------------
(***************************************************************************)
(* TreeInv: what the list, the links and the roots agree on, when no super *)
(* class is bound                                                          *)
(***************************************************************************)

\* A class that is put among the roots when its super class is looked for.
RootClass(c) == SuperOf(c) = Zero /\ (Readable(c) \/ c \notin Listed)

\* It is among them, or has been.
IsRoot(c) ==
  c = root \/ heap.parent[c] = Zero \/ \E i \in 1..Len(roots) : roots[i] = c

\* Nothing is found before the section is read, no class is fixed, and no root is
\* left when the tree is made.
StartInv ==
  /\ pc = "open" => Known = {} /\ roots = <<>>
  /\ pc \in {"open", "read"} => heap = EmptyHeap
  /\ pc # "fix" => fixing = Null /\ (pc # "crashed" => rest = {})
  /\ pc \in {"open", "read", "fix", "adjust"} => root = Null /\ Zero \notin Known
  /\ pc = "adopt" => root = Zero
  /\ pc \in {"categories", "done"} => roots = <<>>

\* What has no parent.
LooseInv ==
  /\ \A n \in Node : n \notin Known => heap.parent[n] = Null
  /\ \A n \in Known : classes[n].super # Null => heap.parent[n] = Null
  /\ fixing # Null => heap.parent[fixing] = Null
  /\ root # Null => heap.parent[root] = Null
  /\ \A i \in 1..Len(roots) : heap.parent[roots[i]] = Null

\* No root is there twice, and their super classes are looked for no more.
RootsInv ==
  /\ \A i, j \in 1..Len(roots) : roots[i] = roots[j] => i = j
  /\ \A i \in 1..Len(roots) : /\ roots[i] # Zero /\ roots[i] # fixing /\ classes[roots[i]].super = Null
                              /\ roots[i] \in Class => RootClass(roots[i])
  /\ root \in Class => RootClass(root)
  /\ pc = "read" => \A i \in 1..Len(roots) : \E j \in 1..at : roots[i] = Slots[j]

\* A parent is the super class the image names, or the root over the roots.
ParentsInv ==
  \A k \in Node :
    /\ heap.parent[k] \in Class \cup {Zero, Null}
    /\ heap.parent[k] \in Class => Readable(k) /\ SuperOf(k) = heap.parent[k] /\ SuperOf(k) # k
    /\ heap.parent[k] = Zero => root = Zero /\ (k \in Class => RootClass(k))

\* A class whose super class was looked for is where it belongs.
PlacedInv ==
  \A c \in Known \cap Class : ~classes[c].null =>
    /\ Readable(c) /\ classes[c].super \in {Null, SuperOf(c)}
    /\ classes[c].super = Null =>
         /\ SuperOf(c) = Zero => IsRoot(c)
         /\ SuperOf(c) \notin {Zero, c} => heap.parent[c] = SuperOf(c) /\ SuperOf(c) \in Known

\* A class that cannot be read is an entry, is fixed, or is a root.
NullInv ==
  pc \in {"read", "fix", "adjust", "adopt"} \/ (pc = "categories" /\ at = 0) =>
    \A c \in Known \cap Class : classes[c].null =>
      ~Readable(c) /\ (c \in Listed \/ c = fixing \/ IsRoot(c))

FixingInv ==
  /\ \A c \in Known : classes[c].super # Null => ~classes[c].null
  /\ fixing # Null => IF classes[fixing].null THEN fixing \notin Listed
                      ELSE classes[fixing].super # Null

EntriesInv ==
  /\ pc = "read" => \A j \in 1..at : file.entries[j].kind = "pointer" =>
                      file.entries[j].class \in Known \cup {Zero}
  /\ pc = "fix" => Listed \subseteq Known \cup {Zero}

\* If List was not rehashed, the walk comes to every class that still waits.
WaitingInv ==
  pc \notin {"open", "read", "crashed"} /\ ~rehashed =>
    \A c \in Known : classes[c].super # Null => c \in rest \/ c = fixing

TreeParts ==
  /\ pc \notin {"hung", "aborted"}
  /\ Forest(heap) /\ StartInv /\ LooseInv /\ RootsInv /\ ParentsInv
  /\ PlacedInv /\ NullInv /\ FixingInv /\ EntriesInv /\ WaitingInv
TreeInv == NothingBound => TreeParts

LEMMA TreePartsInit == Init => TreeParts
<1> SUFFICES ASSUME Init PROVE TreeParts
  OBVIOUS
<1>1. Forest(heap)
  BY EmptyForest DEF Init
<1>2. Known = {} /\ roots = <<>> /\ root = Null /\ fixing = Null /\ pc = "open" /\ rest = {}
  BY DEF Init, Known
<1>3. \A n \in Node : heap.parent[n] = Null
  BY DEF Init, EmptyHeap
<1>4. Null \notin Class /\ Null # Zero
  BY Addresses
<1> QED
  BY <1>1, <1>2, <1>3, <1>4 DEF TreeParts, StartInv, LooseInv, RootsInv, ParentsInv, PlacedInv, NullInv,
     FixingInv, EntriesInv, WaitingInv, Init

\* What the image says stays as it is.
LEMMA FileKept ==
  UNCHANGED file =>
    /\ Listed' = Listed /\ (NothingBound' <=> NothingBound)
    /\ \A c : (Readable(c)' <=> Readable(c)) /\ SuperOf(c)' = SuperOf(c)
              /\ (RootClass(c)' <=> RootClass(c))
  BY DEF Listed, NothingBound, Readable, SuperOf, RootClass

LEMMA StepFile == [Next]_vars => UNCHANGED file
  BY DEF Next, Step, Finished, vars, OpenSection, ReadEntry, BeginFix, PickClass, FixBoundSuper,
     FixNamelessSuper, FixRoot, FixKnownSuper, FixNewSuper, EndFix, Adjust, Adopt, ReadBareCategory,
     ReadCategory, ReadBoundCategory, End

LEMMA OpenSectionTree == TypeInv /\ TreeParts /\ OpenSection => TreeParts'
<1> SUFFICES ASSUME TypeInv, TreeParts, OpenSection PROVE TreeParts'
  OBVIOUS
<1>1. /\ pc = "open" /\ pc' \in {"categories", "adjust", "read"}
      /\ UNCHANGED <<file, at, classes, heap, roots, rest, fixing, rehashed, root, categories>>
      /\ Known' = Known
  BY DEF OpenSection, Known
<1>2. Known = {} /\ roots = <<>> /\ at = 0 /\ fixing = Null /\ root = Null
  BY <1>1 DEF TreeParts, StartInv, TypeInv, CountersTyped
<1>3. Forest(heap') /\ pc' \notin {"hung", "aborted"} /\ StartInv' /\ LooseInv' /\ RootsInv'
  BY <1>1, <1>2, Addresses DEF TreeParts, StartInv, LooseInv, RootsInv
<1>4. ParentsInv'
  BY <1>1, FileKept DEF TreeParts, ParentsInv
<1>5. PlacedInv' /\ NullInv' /\ FixingInv' /\ EntriesInv' /\ WaitingInv'
  BY <1>1, <1>2 DEF TreeParts, PlacedInv, NullInv, FixingInv, EntriesInv, WaitingInv
<1> QED
  BY <1>3, <1>4, <1>5 DEF TreeParts

\* What ReadEntry adds to the list and to the roots.
LEMMA ReadEntryEffect ==
  ASSUME TypeInv, ReadEntry
  PROVE  /\ pc = "read" /\ at < Len(file.entries) /\ at' = at + 1 /\ pc' \in {"read", "crashed"}
         /\ UNCHANGED <<file, heap, rest, fixing, rehashed, root, categories>>
         /\ \A c \in Known : c \in Known' /\ classes'[c] = classes[c]
         /\ \A c \in Known' \ Known :
              \/ c \in Class /\ c \in Listed /\ classes'[c] = ParseObjcClass(c)
              \/ c = Slots[at + 1] /\ classes'[c].super = Null
         /\ roots' = roots \/ (roots' = Append(roots, Slots[at + 1]) /\ Slots[at + 1] \in Known'
                               /\ (Slots[at + 1] \notin Known => classes'[Slots[at + 1]].super = Null))
         /\ pc' = "read" /\ file.entries[at + 1].kind = "pointer" =>
              file.entries[at + 1].class \in Known' \cup {Zero}
<1> DEFINE entry == file.entries[at + 1]
<1>1. /\ pc = "read" /\ at < Len(file.entries) /\ at' = at + 1 /\ pc' \in {"read", "crashed"}
      /\ UNCHANGED <<file, heap, rest, fixing, rehashed, root, categories>>
      /\ file \in Files /\ at \in Nat
  BY DEF ReadEntry, TypeInv, CountersTyped
<1>2. at + 1 \in 1..Len(file.entries)
  BY <1>1, FileTypes
<1>3. entry \in Pointers \cup Bounds
  BY <1>1, <1>2, FileTypes
<1>4. entry.kind \in {"pointer", "bind", "nameless"}
      /\ (entry.kind = "pointer" => entry.class \in Class \cup {Zero})
  BY <1>3, EntryKinds
<1>5. CASE entry.kind = "pointer"
  <2>1. classes' = (IF entry.class = Zero THEN classes ELSE With(classes, entry.class, ParseObjcClass(entry.class)))
        /\ roots' = roots
    BY <1>5 DEF ReadEntry, ReadPointer
  <2>2. entry.class \in Listed
    BY <1>2, <1>5 DEF Listed
  <2>3. CASE entry.class = Zero
    BY <1>1, <2>1, <2>3 DEF Known
  <2>4. CASE entry.class # Zero
    <3> DEFINE c == entry.class
    <3>1. c \in Class /\ c \in Listed /\ classes' = With(classes, c, ParseObjcClass(c))
      BY <1>4, <1>5, <2>1, <2>2, <2>4
    <3> HIDE DEF c
    <3>2. /\ Known' = Known \cup {c} /\ \A k \in Known : classes'[k] = classes[k]
          /\ c \notin Known => classes'[c] = ParseObjcClass(c)
      BY <3>1 DEF With, Known
    <3>3. \A k \in Known' \ Known : k \in Class /\ k \in Listed /\ classes'[k] = ParseObjcClass(k)
      BY <3>1, <3>2
    <3>4. file.entries[at + 1].class \in Known'
      BY <3>2 DEF c
    <3> QED
      BY <1>1, <2>1, <3>2, <3>3, <3>4
  <2> QED
    BY <2>3, <2>4
<1>6. CASE entry.kind = "bind" /\ file.section = "list"
  <2>1. classes' = classes /\ roots' = roots
    BY <1>6 DEF ReadEntry, ReadPointer
  <2> QED
    BY <1>1, <1>6, <2>1 DEF Known
<1>7. CASE entry.kind = "bind" /\ file.section # "list"
  <2> DEFINE s == Slots[at + 1]
             info == ExternalClass(entry.external)
  <2>1. classes' = With(classes, s, info) /\ roots' = Append(roots, s)
    BY <1>7 DEF ReadEntry
  <2>2. info.super = Null
    BY NewInfo
  <2> HIDE DEF info, s
  <2>3. /\ Known' = Known \cup {s} /\ \A k \in Known : classes'[k] = classes[k]
        /\ s \notin Known => classes'[s] = info
    BY <2>1 DEF With, Known
  <2> QED
    BY <1>1, <1>7, <2>1, <2>2, <2>3 DEF s
<1>8. CASE entry.kind = "nameless"
  BY <1>1, <1>8 DEF ReadEntry, Known
<1> QED
  BY <1>4, <1>5, <1>6, <1>7, <1>8

LEMMA ReadEntryTree == TypeInv /\ TypeInv' /\ TreeParts /\ ReadEntry => TreeParts'
<1> SUFFICES ASSUME TypeInv, TypeInv', TreeParts, ReadEntry PROVE TreeParts'
  OBVIOUS
<1> DEFINE s == Slots[at + 1]
<1>1. /\ pc = "read" /\ at < Len(file.entries) /\ at' = at + 1 /\ pc' \in {"read", "crashed"}
      /\ UNCHANGED <<file, heap, rest, fixing, rehashed, root, categories>>
      /\ \A c \in Known : c \in Known' /\ classes'[c] = classes[c]
      /\ \A c \in Known' \ Known :
           \/ c \in Class /\ c \in Listed /\ classes'[c] = ParseObjcClass(c)
           \/ c = s /\ classes'[c].super = Null
      /\ roots' = roots \/ (roots' = Append(roots, s) /\ s \in Known'
                            /\ (s \notin Known => classes'[s].super = Null))
      /\ pc' = "read" /\ file.entries[at + 1].kind = "pointer" =>
           file.entries[at + 1].class \in Known' \cup {Zero}
  BY ReadEntryEffect
<1>2. /\ file \in Files /\ at \in Nat /\ heap = EmptyHeap /\ root = Null /\ fixing = Null /\ Zero \notin Known
      /\ rest = {} /\ roots \in Seq(Node)
  BY <1>1 DEF TypeInv, CountersTyped, NodesTyped, TreeParts, StartInv
<1>3. at + 1 \in 1..Len(Slots)
  BY <1>1, <1>2, FileTypes, AddressesAssumption
<1>4. s \in Node /\ s \notin Class /\ s # Zero /\ Null \notin Node /\ Zero \in Node \ Class /\ Class \subseteq Node
      /\ \A j \in 1..at : j \in 1..Len(Slots) /\ s # Slots[j]
  <2>1. \A j \in 1..at : j \in 1..Len(Slots) /\ j # at + 1
    BY <1>2, <1>3, AddressesAssumption
  <2>2. \A j \in 1..Len(Slots) : Slots[j] = s => j = at + 1
    BY <1>3, AddressesAssumption
  <2> QED
    BY <1>3, <2>1, <2>2, Addresses
<1> HIDE DEF s
<1>5. \A n \in Node : heap.parent[n] = Null
  BY <1>2 DEF EmptyHeap
<1>6. /\ Len(roots) \in Nat /\ \A i \in 1..Len(roots) : roots[i] \in Known
      /\ \A i \in 1..Len(roots') : roots'[i] \in Known' /\ roots'[i] \in Node
  BY DEF TypeInv, NodesTyped, IsList
<1>7. \A i \in 1..Len(roots) : i \in 1..Len(roots') /\ roots'[i] = roots[i]
  BY <1>1, <1>2, <1>4
<1>8. \A i \in 1..Len(roots') :
        \/ i \in 1..Len(roots) /\ roots'[i] = roots[i]
        \/ i = Len(roots) + 1 /\ roots'[i] = s /\ s \in Known' /\ (s \notin Known => classes'[s].super = Null)
  BY <1>1, <1>2, <1>4
<1>9. Forest(heap') /\ pc' \notin {"hung", "aborted"}
  BY <1>1 DEF TreeParts
<1>10. StartInv'
  <2>1. Zero \notin Known'
    BY <1>1, <1>2, <1>4
  <2> QED
    BY <1>1, <1>2, <2>1 DEF StartInv
<1>11. LooseInv'
  <2>1. \A n \in Known' : n \in Node
    BY DEF TypeInv, IsList
  <2> QED
    BY <1>1, <1>2, <1>5, <1>6, <2>1 DEF LooseInv
<1>12. RootsInv'
  <2>1. /\ \A i, j \in 1..Len(roots) : roots[i] = roots[j] => i = j
        /\ \A i \in 1..Len(roots) : roots[i] # Zero /\ classes[roots[i]].super = Null
                                    /\ (roots[i] \in Class => RootClass(roots[i]))
        /\ \A i \in 1..Len(roots) : \E j \in 1..at : roots[i] = Slots[j]
    BY <1>1 DEF TreeParts, RootsInv
  <2>2. \A i \in 1..Len(roots) : roots[i] # s
    BY <1>4, <2>1
  <2>3. \A i, j \in 1..Len(roots') : roots'[i] = roots'[j] => i = j
    BY <1>8, <2>1, <2>2
  <2>4. s \in Known' => classes'[s].super = Null
    <3>1. s \in Known => classes[s].super = Null
      BY <1>4 DEF TypeInv, IsList
    <3> QED
      BY <1>1, <1>4, <3>1
  <2>5. ASSUME NEW i \in 1..Len(roots')
        PROVE  /\ roots'[i] # Zero /\ roots'[i] # fixing' /\ classes'[roots'[i]].super = Null
               /\ roots'[i] \in Class => RootClass(roots'[i])
    BY <1>1, <1>2, <1>4, <1>6, <1>8, <2>1, <2>4, SMTT(30)
  <2>6. \A i \in 1..Len(roots') : \E j \in 1..at' : roots'[i] = Slots[j]
    <3>1. \A j \in 1..at : j \in 1..at'
      BY <1>1, <1>2
    <3>2. at + 1 \in 1..at'
      BY <1>1, <1>2
    <3> QED
      BY <1>8, <2>1, <3>1, <3>2 DEF s
  <2>7. \A c : RootClass(c)' <=> RootClass(c)
    BY <1>1, FileKept
  <2>8. root' = Null /\ Null \notin Class
    BY <1>1, <1>2, <1>4
  <2> QED
    BY <2>3, <2>5, <2>6, <2>7, <2>8 DEF RootsInv
<1>13. ParentsInv'
  BY <1>1, <1>4, <1>5 DEF ParentsInv
<1>14. ASSUME NEW c \in Known, IsRoot(c) PROVE IsRoot(c)'
  BY <1>1, <1>7, <1>14 DEF IsRoot
<1>15. PlacedInv'
  <2> SUFFICES ASSUME NEW c \in Known' \cap Class, ~classes'[c].null
               PROVE  /\ Readable(c) /\ classes'[c].super \in {Null, SuperOf(c)}
                      /\ classes'[c].super = Null =>
                           /\ SuperOf(c) = Zero => IsRoot(c)'
                           /\ SuperOf(c) \notin {Zero, c} =>
                                heap'.parent[c] = SuperOf(c) /\ SuperOf(c) \in Known'
    BY <1>1, FileKept DEF PlacedInv
  <2>1. CASE c \in Known
    BY <1>1, <1>14, <2>1 DEF TreeParts, PlacedInv
  <2>2. CASE c \notin Known
    <3>1. classes'[c] = ParseObjcClass(c)
      BY <1>1, <1>4, <2>2
    <3>2. c \in file.readable /\ classes'[c].super = file.super[c]
      BY <3>1, NewInfo
    <3>3. Readable(c) /\ classes'[c].super = SuperOf(c)
      BY <3>2 DEF Readable, SuperOf
    <3>4. file.super[c] # Null
      BY <1>2, <1>4, FileTypes
    <3> QED
      BY <3>2, <3>3, <3>4
  <2> QED
    BY <2>1, <2>2
<1>16. NullInv'
  <2> SUFFICES ASSUME pc' = "read", NEW c \in Known' \cap Class, classes'[c].null
               PROVE  ~Readable(c) /\ (c \in Listed \/ c = fixing' \/ IsRoot(c)')
    BY <1>1, FileKept DEF NullInv
  <2>1. CASE c \in Known
    BY <1>1, <1>14, <2>1 DEF TreeParts, NullInv
  <2>2. CASE c \notin Known
    <3>1. classes'[c] = ParseObjcClass(c) /\ c \in Listed
      BY <1>1, <1>4, <2>2
    <3>2. c \notin file.readable
      BY <3>1, NewInfo
    <3> QED
      BY <3>1, <3>2 DEF Readable
  <2> QED
    BY <2>1, <2>2
<1>17. FixingInv'
  <2>1. ASSUME NEW c \in Known', classes'[c].super # Null PROVE ~classes'[c].null
    <3>1. CASE c \in Known
      BY <1>1, <2>1, <3>1 DEF TreeParts, FixingInv
    <3>2. CASE c \notin Known
      BY <1>1, <2>1, <3>2, NewInfo
    <3> QED
      BY <3>1, <3>2
  <2> QED
    BY <1>1, <1>2, <2>1 DEF FixingInv
<1>18. EntriesInv'
  <2> SUFFICES ASSUME pc' = "read", NEW j \in 1..at', file.entries[j].kind = "pointer"
               PROVE  file.entries[j].class \in Known' \cup {Zero}
    BY <1>1 DEF EntriesInv
  <2>1. j \in 1..at \/ j = at + 1
    BY <1>1, <1>2
  <2> QED
    BY <1>1, <2>1 DEF TreeParts, EntriesInv
<1>19. WaitingInv'
  BY <1>1 DEF WaitingInv
<1> QED
  BY <1>9, <1>10, <1>11, <1>12, <1>13, <1>15, <1>16, <1>17, <1>18, <1>19 DEF TreeParts

LEMMA BeginFixTree == TypeInv /\ TreeParts /\ BeginFix => TreeParts'
<1> SUFFICES ASSUME TypeInv, TreeParts, BeginFix PROVE TreeParts'
  OBVIOUS
<1>1. /\ pc = "read" /\ at = Len(file.entries) /\ pc' = "fix" /\ rest' = Known /\ Known' = Known
      /\ UNCHANGED <<file, classes, heap, roots, fixing, rehashed, root, categories>>
  BY DEF BeginFix, Known
<1>2. fixing = Null /\ root = Null /\ Zero \notin Known
  BY <1>1 DEF TreeParts, StartInv
<1>3. Forest(heap') /\ pc' \notin {"hung", "aborted"} /\ StartInv' /\ LooseInv'
  BY <1>1, <1>2 DEF TreeParts, StartInv, LooseInv
<1>4. RootsInv' /\ ParentsInv'
  BY <1>1, FileKept DEF TreeParts, RootsInv, ParentsInv
<1>5. \A c : IsRoot(c)' <=> IsRoot(c)
  BY <1>1 DEF IsRoot
<1>6. PlacedInv' /\ NullInv' /\ FixingInv'
  BY <1>1, <1>5, FileKept DEF TreeParts, PlacedInv, NullInv, FixingInv
<1>7. EntriesInv'
  <2>1. Listed \subseteq Known \cup {Zero}
    BY <1>1 DEF Listed, TreeParts, EntriesInv
  <2> QED
    BY <1>1, <2>1, FileKept DEF EntriesInv
<1>8. WaitingInv'
  BY <1>1 DEF WaitingInv
<1> QED
  BY <1>3, <1>4, <1>6, <1>7, <1>8 DEF TreeParts

LEMMA PickClassTree == TypeInv /\ TreeParts /\ PickClass => TreeParts'
<1> SUFFICES ASSUME TypeInv, TreeParts, PickClass PROVE TreeParts'
  OBVIOUS
<1>1. PICK c \in rest : /\ pc = "fix" /\ fixing = Null /\ rest' = rest \ {c}
                        /\ fixing' = IF classes[c].super = Null \/ classes[c].external THEN Null ELSE c
                        /\ UNCHANGED <<file, pc, at, classes, heap, roots, rehashed, root, categories>>
                        /\ Known' = Known
  BY DEF PickClass, Known
<1>2. /\ c \in Known /\ IsList(classes, Known) /\ root = Null /\ Zero \notin Known /\ Known \subseteq Node
      /\ \A i \in 1..Len(roots) : roots[i] \in Known /\ roots[i] # Null
  BY <1>1, Addresses DEF TypeInv, NodesTyped, IsList, TreeParts, StartInv
<1>3. fixing' # Null => fixing' = c /\ classes[c].super # Null /\ c \in Class /\ ~classes[c].null
  BY <1>1, <1>2 DEF IsList, TreeParts, FixingInv
<1>4. Forest(heap') /\ pc' \notin {"hung", "aborted"} /\ StartInv' /\ LooseInv'
  BY <1>1, <1>2, <1>3 DEF TreeParts, StartInv, LooseInv
<1>5. RootsInv'
  BY <1>1, <1>2, <1>3, FileKept DEF TreeParts, RootsInv
<1>6. ParentsInv'
  BY <1>1, FileKept DEF TreeParts, ParentsInv
<1>7. \A k : IsRoot(k)' <=> IsRoot(k)
  BY <1>1 DEF IsRoot
<1>8. PlacedInv'
  BY <1>1, <1>7, FileKept DEF TreeParts, PlacedInv
<1>9. NullInv'
  <2>1. \A k \in Known : k # Null
    BY <1>2, Addresses
  <2> QED
    BY <1>1, <1>7, <2>1, FileKept DEF TreeParts, NullInv
<1>10. FixingInv' /\ EntriesInv'
  BY <1>1, <1>3, FileKept DEF TreeParts, FixingInv, EntriesInv
<1>11. WaitingInv'
  <2>1. ASSUME ~rehashed, NEW k \in Known, classes[k].super # Null PROVE k \in rest' \/ k = fixing'
    <3>1. k \in rest
      BY <1>1, <1>2, <2>1, Addresses DEF TreeParts, WaitingInv
    <3> QED
      BY <1>1, <1>2, <2>1, <3>1 DEF IsList
  <2> QED
    BY <1>1, <2>1 DEF WaitingInv
<1> QED
  BY <1>4, <1>5, <1>6, <1>8, <1>9, <1>10, <1>11 DEF TreeParts

\* What is known of the class that is fixed, and of its super class.
LEMMA FixingTree ==
  ASSUME TypeInv, TreeParts, Fixing
  PROVE  /\ pc = "fix" /\ root = Null /\ Zero \notin Known /\ IsList(classes, Known)
         /\ fixing \in Known /\ fixing \in Class /\ fixing # Null
         /\ heap.parent[fixing] = Null /\ SuperAddr(fixing) = SuperOf(fixing)
         /\ (\A i \in 1..Len(roots) : roots[i] # fixing)
         /\ SuperOf(fixing) \in Class \cup {Zero}
         /\ classes[fixing].null => ~Readable(fixing) /\ fixing \notin Listed /\ SuperOf(fixing) = Zero
         /\ ~classes[fixing].null => Readable(fixing) /\ classes[fixing].super = SuperOf(fixing)
<1>1. /\ pc = "fix" /\ fixing \in Known /\ fixing \in Class /\ fixing # Null
      /\ SuperAddr(fixing) \in Class \cup {Zero}
  BY FixingTypes
<1>2. /\ root = Null /\ Zero \notin Known /\ IsList(classes, Known) /\ heap.parent[fixing] = Null
      /\ \A i \in 1..Len(roots) : roots[i] # fixing
  BY <1>1 DEF TypeInv, TreeParts, StartInv, LooseInv, RootsInv
<1>3. CASE classes[fixing].null
  <2>1. ~Readable(fixing) /\ fixing \notin Listed /\ classes[fixing].super = Null
    BY <1>1, <1>3 DEF TreeParts, NullInv, FixingInv
  <2>2. SuperOf(fixing) = Zero /\ SuperAddr(fixing) = Zero
    BY <2>1 DEF SuperOf, SuperAddr
  <2> QED
    BY <1>1, <1>2, <1>3, <2>1, <2>2
<1>4. CASE ~classes[fixing].null
  <2>1. Readable(fixing) /\ classes[fixing].super = SuperOf(fixing) /\ classes[fixing].super # Null
    BY <1>1, <1>4 DEF TreeParts, PlacedInv, FixingInv
  <2>2. SuperAddr(fixing) = SuperOf(fixing)
    BY <2>1 DEF SuperAddr
  <2> QED
    BY <1>1, <1>2, <1>4, <2>1, <2>2
<1> QED
  BY <1>3, <1>4

LEMMA FixRootTree == TypeInv /\ TypeInv' /\ TreeParts /\ FixRoot => TreeParts'
<1> SUFFICES ASSUME TypeInv, TypeInv', TreeParts, FixRoot PROVE TreeParts'
  OBVIOUS
<1>0. PICK n : n = fixing
  OBVIOUS
<1>1. /\ Fixing /\ SuperAddr(n) = Zero
      /\ classes' = [classes EXCEPT ![n].super = Null]
      /\ heap' = [heap EXCEPT !.parent[n] = Null]
      /\ roots' = Append(roots, n) /\ fixing' = Null
      /\ UNCHANGED <<file, pc, at, rest, rehashed, root, categories>>
  BY <1>0 DEF FixRoot
<1>2. /\ pc = "fix" /\ root = Null /\ Zero \notin Known /\ IsList(classes, Known)
      /\ n \in Known /\ n \in Class /\ n # Null /\ heap.parent[n] = Null
      /\ (\A i \in 1..Len(roots) : roots[i] # n) /\ SuperOf(n) = Zero
      /\ classes[n].null => ~Readable(n) /\ n \notin Listed
      /\ ~classes[n].null => Readable(n)
  BY <1>0, <1>1, FixingTree
<1>3. n \in Node /\ n # Zero /\ Null \notin Class
  BY <1>2, Addresses
<1>4. heap' = heap
  <2>1. [heap.parent EXCEPT ![n] = Null] = heap.parent
    BY <1>2, <1>3 DEF TypeInv, Links, Heap
  <2>2. heap' = [heap EXCEPT !.parent = heap.parent]
    BY <1>1, <2>1
  <2> QED
    BY <2>2 DEF TypeInv, Links, Heap
<1>5. /\ IsList(classes', Known) /\ Settled(classes, n, classes')
  BY <1>1, <1>2, SuperCleared
<1>6. Known' = Known
  BY <1>5, ListDomain DEF Known
<1>7. \A c \in Known : /\ classes'[c].super = IF c = n THEN Null ELSE classes[c].super
                       /\ classes'[c].null = classes[c].null
  BY <1>5 DEF Settled, Known
<1>8. /\ Len(roots) \in Nat /\ \A i \in 1..Len(roots) : roots[i] \in Known /\ roots[i] # Null
      /\ Len(roots') = Len(roots) + 1 /\ roots'[Len(roots) + 1] = n /\ Len(roots) + 1 \in 1..Len(roots')
      /\ \A i \in 1..Len(roots) : i \in 1..Len(roots') /\ roots'[i] = roots[i]
  BY <1>1, <1>3, Addresses DEF TypeInv, NodesTyped, IsList
<1>9. \A i \in 1..Len(roots') : (i \in 1..Len(roots) /\ roots'[i] = roots[i]) \/ (i = Len(roots) + 1 /\ roots'[i] = n)
  BY <1>8
<1>10. RootClass(n)
  BY <1>2 DEF RootClass
<1>11. Forest(heap') /\ pc' \notin {"hung", "aborted"} /\ StartInv'
  BY <1>1, <1>2, <1>4, <1>6 DEF TreeParts, StartInv
<1>12. LooseInv'
  BY <1>1, <1>2, <1>4, <1>6, <1>7, <1>9 DEF TreeParts, LooseInv
<1>13. RootsInv'
  <2>1. \A i, j \in 1..Len(roots') : roots'[i] = roots'[j] => i = j
    BY <1>2, <1>9 DEF TreeParts, RootsInv
  <2>2. ASSUME NEW i \in 1..Len(roots')
        PROVE  /\ roots'[i] # Zero /\ roots'[i] # fixing' /\ classes'[roots'[i]].super = Null
               /\ roots'[i] \in Class => RootClass(roots'[i])
    BY <1>1, <1>2, <1>3, <1>7, <1>8, <1>9, <1>10 DEF TreeParts, RootsInv
  <2> QED
    BY <1>1, <1>2, <1>3, <2>1, <2>2, FileKept DEF RootsInv
<1>14. ParentsInv'
  BY <1>1, <1>4, FileKept DEF TreeParts, ParentsInv
<1>15. IsRoot(n)' /\ \A c : IsRoot(c) => IsRoot(c)'
  BY <1>1, <1>4, <1>8 DEF IsRoot
<1>16. PlacedInv'
  <2> SUFFICES ASSUME NEW c \in Known \cap Class, ~classes'[c].null
               PROVE  /\ Readable(c) /\ classes'[c].super \in {Null, SuperOf(c)}
                      /\ classes'[c].super = Null =>
                           /\ SuperOf(c) = Zero => IsRoot(c)'
                           /\ SuperOf(c) \notin {Zero, c} =>
                                heap.parent[c] = SuperOf(c) /\ SuperOf(c) \in Known
    BY <1>1, <1>4, <1>6, FileKept DEF PlacedInv
  <2>1. CASE c = n
    BY <1>2, <1>7, <1>15, <2>1
  <2>2. CASE c # n
    BY <1>7, <1>15, <2>2 DEF TreeParts, PlacedInv
  <2> QED
    BY <2>1, <2>2
<1>17. NullInv'
  <2> SUFFICES ASSUME NEW c \in Known \cap Class, classes'[c].null
               PROVE  ~Readable(c) /\ (c \in Listed \/ IsRoot(c)')
    BY <1>1, <1>6, FileKept DEF NullInv
  <2> QED
    BY <1>0, <1>2, <1>7, <1>15 DEF TreeParts, NullInv
<1>18. FixingInv'
  BY <1>1, <1>6, <1>7 DEF TreeParts, FixingInv
<1>19. EntriesInv'
  BY <1>1, <1>2, <1>6, FileKept DEF TreeParts, EntriesInv
<1>20. WaitingInv'
  BY <1>0, <1>1, <1>2, <1>6, <1>7 DEF TreeParts, WaitingInv
<1> QED
  BY <1>11, <1>12, <1>13, <1>14, <1>16, <1>17, <1>18, <1>19, <1>20 DEF TreeParts

\* The links after a class is put under its super class; one that is its own
\* super class stays where it is.
LEMMA SuperLinks ==
  ASSUME TypeInv, TreeParts, NEW n \in Class, n = fixing, Fixing,
         NEW p \in Class, NEW K, NEW list, IsList(list, K), n \in K, SetSuper(list, p, n)
  PROVE  /\ pc' = pc /\ Forest(heap') /\ IsList(classes', K) /\ Known' = K /\ Settled(list, n, classes')
         /\ \A m \in Node : heap'.parent[m] = IF m = n /\ p # n THEN p ELSE heap.parent[m]
<1>1. n \in Node /\ p \in Node /\ heap.parent[n] = Null /\ pc = "fix" /\ Forest(heap) /\ Links(heap)
  BY FixingTree, Addresses DEF TreeParts, Forest
<1>2. IsList(classes', K) /\ Known' = K /\ Settled(list, n, classes')
  BY <1>1, SetSuperTypes
<1>3. CASE p = n
  <2>1. heap' = [heap EXCEPT !.parent[n] = Null] /\ pc' = pc
    BY <1>3 DEF SetSuper
  <2>2. [heap.parent EXCEPT ![n] = Null] = heap.parent
    BY <1>1 DEF Links, Heap
  <2>3. heap' = [heap EXCEPT !.parent = heap.parent]
    BY <2>1, <2>2
  <2>4. heap' = heap
    BY <1>1, <2>3 DEF Links, Heap
  <2> QED
    BY <1>1, <1>2, <1>3, <2>1, <2>4
<1>4. CASE p # n
  <2>1. AddChildOutcome(p, n) = pc
    BY <1>1, <1>4, AttachEnds
  <2>2. pc' = pc /\ heap' = AddChildrenRaw(heap, p, n)
    BY <1>4, <2>1 DEF SetSuper
  <2>3. Attached(heap, p, n, heap') /\ Links(heap')
    BY <1>1, <1>4, <2>2, AttachFields
  <2>4. Forest(heap')
    BY <1>1, <1>4, <2>3, AttachedForest
  <2>5. heap'.parent = [heap.parent EXCEPT ![n] = p]
    BY <2>3 DEF Attached
  <2> QED
    BY <1>1, <1>2, <1>4, <2>2, <2>4, <2>5 DEF Links, Heap
<1> QED
  BY <1>3, <1>4

\* A class that can be read is put under its super class, which is fixed next if
\* it is new.
LEMMA SuperTree ==
  ASSUME TypeInv, TypeInv', TreeParts, Fixing, NEW n, n = fixing, NEW p \in Class, p = SuperOf(n), Readable(n),
         Known' = Known \cup {p}, Forest(heap'),
         \A m \in Node : heap'.parent[m] = IF m = n /\ p # n THEN p ELSE heap.parent[m],
         \A c \in Known : /\ classes'[c].super = IF c = n THEN Null ELSE classes[c].super
                          /\ classes'[c].null = classes[c].null,
         IF p \in Known THEN fixing' = Null
         ELSE /\ fixing' = p /\ classes'[p].super = ParseObjcClass(p).super
              /\ classes'[p].null = ParseObjcClass(p).null,
         ~rehashed' => ~rehashed /\ rest \subseteq rest',
         UNCHANGED <<file, pc, at, roots, root>>
  PROVE  TreeParts'
<1>1. /\ pc = "fix" /\ root = Null /\ Zero \notin Known
      /\ n \in Known /\ n \in Class /\ n # Null /\ heap.parent[n] = Null
      /\ (\A i \in 1..Len(roots) : roots[i] # n)
      /\ ~classes[n].null
  <2>1. classes[n].null => ~Readable(n)
    BY FixingTree
  <2> QED
    BY <2>1, FixingTree
<1>2. Null \notin Node /\ Zero \in Node \ Class /\ Class \subseteq Node
  BY Addresses
<1>3. \A c \in Known : c \in Node
  BY DEF TypeInv, IsList
<1>4. \A i \in 1..Len(roots) : roots[i] \in Known /\ roots[i] # fixing'
  BY <1>1, <1>2, <1>3 DEF TypeInv, NodesTyped
<1>5. p \notin Known => p # n /\ heap.parent[p] = Null /\ p \notin Listed
  BY <1>1, <1>2 DEF TreeParts, LooseInv, EntriesInv
<1>6. p \notin Known => /\ Readable(p) <=> ~classes'[p].null
                        /\ Readable(p) => classes'[p].super = SuperOf(p) /\ SuperOf(p) # Null
                        /\ ~Readable(p) => classes'[p].super = Null
  <2> SUFFICES ASSUME p \notin Known
               PROVE  /\ Readable(p) <=> ~classes'[p].null
                      /\ Readable(p) => classes'[p].super = SuperOf(p) /\ SuperOf(p) # Null
                      /\ ~Readable(p) => classes'[p].super = Null
    OBVIOUS
  <2>1. Readable(p) <=> p \in file.readable
    BY DEF Readable
  <2>2. /\ p \in file.readable => ParseObjcClass(p).super = file.super[p] /\ ~ParseObjcClass(p).null
        /\ p \notin file.readable => ParseObjcClass(p).super = Null /\ ParseObjcClass(p).null
    BY NewInfo
  <2>3. file.super[p] # Null
    BY <1>2, FileTypes DEF TypeInv
  <2> QED
    BY <2>1, <2>2, <2>3 DEF SuperOf
<1>7. pc' \notin {"hung", "aborted"} /\ StartInv'
  BY <1>1, <1>2 DEF StartInv
<1>8. LooseInv'
  <2>1. \A c \in Node : c \notin Known' => heap'.parent[c] = Null
    BY <1>1 DEF TreeParts, LooseInv
  <2>2. \A c \in Known' : classes'[c].super # Null => heap'.parent[c] = Null
    BY <1>1, <1>2, <1>3, <1>5 DEF TreeParts, LooseInv
  <2>3. fixing' # Null => heap'.parent[fixing'] = Null
    BY <1>2, <1>5
  <2>4. \A i \in 1..Len(roots) : heap'.parent[roots[i]] = Null
    BY <1>1, <1>3, <1>4 DEF TreeParts, LooseInv
  <2> QED
    BY <1>1, <2>1, <2>2, <2>3, <2>4 DEF LooseInv
<1>9. RootsInv'
  BY <1>1, <1>4, FileKept DEF TreeParts, RootsInv
<1>10. ParentsInv'
  <2> SUFFICES ASSUME NEW k \in Node
               PROVE  /\ heap'.parent[k] \in Class \cup {Zero, Null}
                      /\ heap'.parent[k] \in Class => Readable(k) /\ SuperOf(k) = heap'.parent[k] /\ SuperOf(k) # k
                      /\ heap'.parent[k] = Zero => root' = Zero /\ (k \in Class => RootClass(k))
    BY FileKept DEF ParentsInv
  <2> QED
    BY <1>2 DEF TreeParts, ParentsInv
<1>11. \A c \in Known : c # n /\ IsRoot(c) => IsRoot(c)'
  BY <1>3 DEF IsRoot
<1>12. PlacedInv'
  <2> SUFFICES ASSUME NEW c \in Known' \cap Class, ~classes'[c].null
               PROVE  /\ Readable(c) /\ classes'[c].super \in {Null, SuperOf(c)}
                      /\ classes'[c].super = Null =>
                           /\ SuperOf(c) = Zero => IsRoot(c)'
                           /\ SuperOf(c) \notin {Zero, c} =>
                                heap'.parent[c] = SuperOf(c) /\ SuperOf(c) \in Known'
    BY FileKept DEF PlacedInv
  <2>1. CASE c = n
    BY <1>1, <1>2, <2>1
  <2>2. CASE c # n /\ c \in Known
    BY <1>2, <1>11, <2>2 DEF TreeParts, PlacedInv
  <2>3. CASE c \notin Known
    <3>1. c = p /\ Readable(c) /\ classes'[c].super = SuperOf(c) /\ SuperOf(c) # Null
      BY <1>6, <2>3
    <3> QED
      BY <3>1
  <2> QED
    BY <2>1, <2>2, <2>3
<1>13. NullInv'
  <2> SUFFICES ASSUME NEW c \in Known' \cap Class, classes'[c].null
               PROVE  ~Readable(c) /\ (c \in Listed \/ c = fixing' \/ IsRoot(c)')
    BY FileKept DEF NullInv
  <2>1. CASE c \in Known
    <3>1. c # n
      BY <1>1, <2>1
    <3> QED
      BY <1>1, <1>11, <2>1, <3>1 DEF TreeParts, NullInv
  <2>2. CASE c \notin Known
    BY <1>6, <2>2
  <2> QED
    BY <2>1, <2>2
<1>14. FixingInv'
  <2>1. ASSUME NEW c \in Known', classes'[c].super # Null PROVE ~classes'[c].null
    BY <1>6, <2>1 DEF TreeParts, FixingInv
  <2>2. fixing' # Null => IF classes'[fixing'].null THEN fixing' \notin Listed ELSE classes'[fixing'].super # Null
    BY <1>5, <1>6
  <2> QED
    BY <2>1, <2>2, FileKept DEF FixingInv
<1>15. EntriesInv'
  BY <1>1, FileKept DEF TreeParts, EntriesInv
<1>16. WaitingInv'
  <2> SUFFICES ASSUME ~rehashed', NEW c \in Known', classes'[c].super # Null PROVE c \in rest' \/ c = fixing'
    BY DEF WaitingInv
  <2>1. CASE c \in Known
    <3>1. c # n /\ classes[c].super # Null
      BY <2>1
    <3> QED
      BY <1>1, <2>1, <3>1 DEF TreeParts, WaitingInv
  <2>2. CASE c \notin Known
    BY <2>2
  <2> QED
    BY <2>1, <2>2
<1> QED
  BY <1>7, <1>8, <1>9, <1>10, <1>12, <1>13, <1>14, <1>15, <1>16 DEF TreeParts

LEMMA FixKnownSuperTree == TypeInv /\ TypeInv' /\ TreeParts /\ FixKnownSuper => TreeParts'
<1> SUFFICES ASSUME TypeInv, TypeInv', TreeParts, FixKnownSuper PROVE TreeParts'
  OBVIOUS
<1>1. PICK n : n = fixing
  OBVIOUS
<1>2. PICK p : p = SuperOf(n)
  OBVIOUS
<1>3. /\ Fixing /\ SuperAddr(n) \in Known \ {Zero} /\ SetSuper(classes, SuperAddr(n), n)
      /\ fixing' = Null /\ UNCHANGED <<file, at, roots, rest, rehashed, root>>
  BY <1>1 DEF FixKnownSuper
<1>4. /\ SuperAddr(n) = p /\ p \in Class \cup {Zero} /\ n \in Class /\ n \in Known /\ IsList(classes, Known)
      /\ (classes[n].null => p = Zero) /\ (~classes[n].null => Readable(n))
  BY <1>1, <1>2, <1>3, FixingTree
<1>5. p \in Class /\ p \in Known /\ Readable(n)
  BY <1>3, <1>4
<1>6. /\ pc' = pc /\ Forest(heap') /\ Known' = Known /\ Settled(classes, n, classes')
      /\ \A m \in Node : heap'.parent[m] = IF m = n /\ p # n THEN p ELSE heap.parent[m]
  BY <1>1, <1>3, <1>4, <1>5, SuperLinks
<1>7. \A c \in Known : /\ classes'[c].super = IF c = n THEN Null ELSE classes[c].super
                       /\ classes'[c].null = classes[c].null
  BY <1>6 DEF Settled, Known
<1>8. Known' = Known \cup {p}
  BY <1>5, <1>6
<1>9. ~rehashed' => ~rehashed /\ rest \subseteq rest'
  BY <1>3
<1> QED
  BY <1>1, <1>2, <1>3, <1>5, <1>6, <1>7, <1>8, <1>9, SuperTree

LEMMA FixNewSuperTree == TypeInv /\ TypeInv' /\ TreeParts /\ FixNewSuper => TreeParts'
<1> SUFFICES ASSUME TypeInv, TypeInv', TreeParts, FixNewSuper PROVE TreeParts'
  OBVIOUS
<1>1. PICK n : n = fixing
  OBVIOUS
<1>2. PICK p : p = SuperOf(n)
  OBVIOUS
<1>3. /\ Fixing /\ SuperAddr(n) \notin Known \cup {Zero}
      /\ SetSuper(With(classes, SuperAddr(n), ParseObjcClass(SuperAddr(n))), SuperAddr(n), n)
      /\ InsertInWalk(SuperAddr(n)) /\ fixing' = SuperAddr(n) /\ UNCHANGED <<file, at, roots, root>>
  BY <1>1 DEF FixNewSuper
<1>4. /\ SuperAddr(n) = p /\ p \in Class \cup {Zero} /\ n \in Class /\ n \in Known /\ IsList(classes, Known)
      /\ (classes[n].null => p = Zero) /\ (~classes[n].null => Readable(n))
  BY <1>1, <1>2, <1>3, FixingTree
<1>5. p \in Class /\ p \notin Known /\ Readable(n) /\ p \in Node
  BY <1>3, <1>4, Addresses
<1>6. PICK list : list = With(classes, p, ParseObjcClass(p))
  OBVIOUS
<1>7. PICK K : K = Known \cup {p}
  OBVIOUS
<1>8. IsList(list, K)
  <2>1. ParseObjcClass(p) \in Info /\ ~ParseObjcClass(p).external
    BY <1>5, InfoTypes, NewInfo DEF TypeInv
  <2> QED
    BY <1>4, <1>5, <1>6, <1>7, <2>1, AddedToList
<1>9. SetSuper(list, p, n) /\ n \in K
  BY <1>3, <1>4, <1>6, <1>7
<1>10. /\ pc' = pc /\ Forest(heap') /\ Known' = K /\ Settled(list, n, classes')
       /\ \A m \in Node : heap'.parent[m] = IF m = n /\ p # n THEN p ELSE heap.parent[m]
  BY <1>1, <1>3, <1>4, <1>5, <1>8, <1>9, SuperLinks
<1>11. \A c \in K : /\ classes'[c].super = IF c = n THEN Null ELSE list[c].super
                    /\ classes'[c].null = list[c].null
  BY <1>8, <1>10, ListDomain DEF Settled
<1>12. (\A c \in Known : list[c] = classes[c]) /\ list[p] = ParseObjcClass(p)
  BY <1>5, <1>6 DEF With, Known
<1>13. /\ fixing' = p /\ classes'[p].super = ParseObjcClass(p).super
       /\ classes'[p].null = ParseObjcClass(p).null
  BY <1>3, <1>4, <1>5, <1>7, <1>11, <1>12
<1>14. \A c \in Known : /\ classes'[c].super = IF c = n THEN Null ELSE classes[c].super
                        /\ classes'[c].null = classes[c].null
  BY <1>7, <1>11, <1>12
<1>15. ~rehashed' => ~rehashed /\ rest \subseteq rest'
  BY <1>3, <1>4, <1>5 DEF InsertInWalk
<1> QED
  BY <1>1, <1>2, <1>3, <1>5, <1>7, <1>10, <1>13, <1>14, <1>15, SuperTree

LEMMA EndFixTree == TypeInv /\ TreeParts /\ EndFix => TreeParts'
<1> SUFFICES ASSUME TypeInv, TreeParts, EndFix PROVE TreeParts'
  OBVIOUS
<1>1. /\ pc = "fix" /\ fixing = Null /\ rest = {} /\ pc' = "adjust" /\ Known' = Known
      /\ UNCHANGED <<file, at, classes, heap, roots, rest, fixing, rehashed, root, categories>>
  BY DEF EndFix, Known
<1>2. Forest(heap') /\ pc' \notin {"hung", "aborted"} /\ StartInv' /\ LooseInv'
  BY <1>1 DEF TreeParts, StartInv, LooseInv
<1>3. RootsInv' /\ ParentsInv'
  BY <1>1, FileKept DEF TreeParts, RootsInv, ParentsInv
<1>4. \A c : IsRoot(c)' <=> IsRoot(c)
  BY <1>1 DEF IsRoot
<1>5. PlacedInv' /\ NullInv' /\ FixingInv' /\ EntriesInv' /\ WaitingInv'
  BY <1>1, <1>4, FileKept DEF TreeParts, PlacedInv, NullInv, FixingInv, EntriesInv, WaitingInv
<1> QED
  BY <1>2, <1>3, <1>5 DEF TreeParts

LEMMA AdjustTree == TypeInv /\ TypeInv' /\ TreeParts /\ Adjust => TreeParts'
<1> SUFFICES ASSUME TypeInv, TypeInv', TreeParts, Adjust PROVE TreeParts'
  OBVIOUS
<1>1. /\ pc = "adjust" /\ UNCHANGED <<file, at, rest, fixing, rehashed, categories, heap>>
      /\ fixing = Null /\ rest = {} /\ root = Null /\ Zero \notin Known /\ IsList(classes, Known)
      /\ Null \notin Node /\ Zero \in Node \ Class /\ Class \subseteq Node /\ Known \subseteq Node
  BY Addresses DEF Adjust, TreeParts, StartInv, TypeInv, IsList
<1>2. /\ roots \in Seq(Node) /\ \A i \in 1..Len(roots) : roots[i] \in Known
      /\ Len(roots) \in Nat
  BY DEF TypeInv, NodesTyped
<1>3. ParentsInv'
  BY <1>1, FileKept DEF TreeParts, ParentsInv
<1>4. CASE roots = <<>>
  <2>1. pc' = "categories" /\ UNCHANGED <<classes, root, roots>> /\ Known' = Known
    BY <1>4 DEF Adjust, Known
  <2>2. Forest(heap') /\ pc' \notin {"hung", "aborted"} /\ StartInv' /\ LooseInv'
    BY <1>1, <1>4, <2>1 DEF TreeParts, StartInv, LooseInv
  <2>3. \A c : IsRoot(c)' <=> IsRoot(c)
    BY <1>1, <2>1 DEF IsRoot
  <2>4. RootsInv' /\ PlacedInv' /\ NullInv' /\ FixingInv' /\ EntriesInv' /\ WaitingInv'
    BY <1>1, <2>1, <2>3, FileKept DEF TreeParts, RootsInv, PlacedInv, NullInv, FixingInv, EntriesInv, WaitingInv
  <2> QED
    BY <1>3, <2>2, <2>4 DEF TreeParts
<1>5. CASE Len(roots) = 1
  <2>1. /\ root' = Head(roots) /\ roots' = <<>> /\ pc' = "categories" /\ UNCHANGED classes /\ Known' = Known
    BY <1>5 DEF Adjust, Known
  <2>2. Head(roots) = roots[1] /\ 1 \in 1..Len(roots) /\ Len(roots') = 0 /\ \A i \in 1..Len(roots) : i = 1
    BY <1>2, <1>5, <2>1
  <2>3. Forest(heap') /\ pc' \notin {"hung", "aborted"} /\ StartInv'
    BY <1>1, <2>1 DEF TreeParts, StartInv
  <2>4. LooseInv'
    BY <1>1, <2>1, <2>2 DEF TreeParts, LooseInv
  <2>5. RootsInv'
    BY <1>1, <2>1, <2>2, FileKept DEF TreeParts, RootsInv
  <2>6. \A c \in Class : IsRoot(c) => IsRoot(c)'
    BY <1>1, <2>1, <2>2 DEF IsRoot
  <2>7. PlacedInv' /\ NullInv'
    BY <1>1, <2>1, <2>6, FileKept DEF TreeParts, PlacedInv, NullInv
  <2>8. FixingInv' /\ EntriesInv' /\ WaitingInv'
    BY <1>1, <2>1, FileKept DEF TreeParts, FixingInv, EntriesInv, WaitingInv
  <2> QED
    BY <1>3, <2>3, <2>4, <2>5, <2>7, <2>8 DEF TreeParts
<1>6. CASE roots # <<>> /\ Len(roots) # 1
  <2> DEFINE list == With(classes, Zero, NullClass)
  <2>1. root' = Zero /\ classes' = [list EXCEPT ![Zero].null = TRUE] /\ pc' = "adopt" /\ UNCHANGED roots
    BY <1>6 DEF Adjust
  <2>2. IsList(list, Known \cup {Zero})
    BY <1>1, InfoTypes, NewInfo, AddedToList
  <2>3. (\A c \in Known : list[c] = classes[c]) /\ list[Zero] = NullClass
    BY <1>1 DEF With, Known
  <2> HIDE DEF list
  <2>4. IsList(classes', Known \cup {Zero}) /\ Nulled(list, Zero, classes')
    <3>1. PICK K : K = Known \cup {Zero}
      OBVIOUS
    <3>2. IsList(list, K) /\ Zero \in K
      BY <2>2, <3>1
    <3>3. IsList([list EXCEPT ![Zero].null = TRUE], K) /\ Nulled(list, Zero, [list EXCEPT ![Zero].null = TRUE])
      BY <3>2, NullSet
    <3> QED
      BY <2>1, <3>1, <3>3
  <2>5. Known' = Known \cup {Zero} /\ DOMAIN list = Known \cup {Zero}
    BY <2>2, <2>4, ListDomain DEF Known
  <2>6. (\A c \in Known : classes'[c] = classes[c]) /\ classes'[Zero].super = Null
    BY <1>1, <2>3, <2>4, <2>5, NewInfo DEF Nulled
  <2>7. Forest(heap') /\ pc' \notin {"hung", "aborted"} /\ StartInv'
    BY <1>1, <2>1 DEF TreeParts, StartInv
  <2>8. LooseInv'
    BY <1>1, <2>1, <2>5, <2>6 DEF TreeParts, LooseInv
  <2>9. RootsInv'
    BY <1>1, <1>2, <2>1, <2>6, FileKept DEF TreeParts, RootsInv
  <2>10. \A c \in Class : IsRoot(c) => IsRoot(c)'
    BY <1>1, <2>1 DEF IsRoot
  <2>11. PlacedInv' /\ NullInv'
    BY <1>1, <2>1, <2>5, <2>6, <2>10, FileKept DEF TreeParts, PlacedInv, NullInv
  <2>12. FixingInv' /\ EntriesInv' /\ WaitingInv'
    BY <1>1, <2>1, <2>5, <2>6, FileKept DEF TreeParts, FixingInv, EntriesInv, WaitingInv
  <2> QED
    BY <1>3, <2>7, <2>8, <2>9, <2>11, <2>12 DEF TreeParts
<1> QED
  BY <1>4, <1>5, <1>6

LEMMA AdoptTree == TypeInv /\ TypeInv' /\ TreeParts /\ Adopt => TreeParts'
<1> SUFFICES ASSUME TypeInv, TypeInv', TreeParts, Adopt PROVE TreeParts'
  OBVIOUS
<1>1. /\ pc = "adopt" /\ UNCHANGED <<file, at, classes, rest, fixing, rehashed, root, categories>>
      /\ fixing = Null /\ rest = {} /\ root = Zero /\ Known' = Known
      /\ Null \notin Node /\ Zero \in Node \ Class /\ Class \subseteq Node /\ Known \subseteq Node
  BY Addresses DEF Adopt, TreeParts, StartInv, TypeInv, IsList, Known
<1>2. /\ roots \in Seq(Node) /\ \A i \in 1..Len(roots) : roots[i] \in Known
      /\ Len(roots) \in Nat
  BY DEF TypeInv, NodesTyped
<1>3. CASE roots = <<>>
  <2>1. pc' = "categories" /\ UNCHANGED <<heap, roots>>
    BY <1>3 DEF Adopt
  <2>2. Forest(heap') /\ pc' \notin {"hung", "aborted"} /\ StartInv' /\ LooseInv'
    BY <1>1, <1>3, <2>1 DEF TreeParts, StartInv, LooseInv
  <2>3. \A c : IsRoot(c)' <=> IsRoot(c)
    BY <1>1, <2>1 DEF IsRoot
  <2>4. RootsInv' /\ ParentsInv'
    BY <1>1, <2>1, FileKept DEF TreeParts, RootsInv, ParentsInv
  <2>5. PlacedInv' /\ NullInv' /\ FixingInv' /\ EntriesInv' /\ WaitingInv'
    BY <1>1, <2>1, <2>3, FileKept DEF TreeParts, PlacedInv, NullInv, FixingInv, EntriesInv, WaitingInv
  <2> QED
    BY <2>2, <2>4, <2>5 DEF TreeParts
<1>4. CASE roots # <<>>
  <2>1. PICK n : n = Head(roots)
    OBVIOUS
  <2>2. n = roots[1] /\ 1 \in 1..Len(roots) /\ n \in Known /\ n \in Node
    BY <1>1, <1>2, <1>4, <2>1
  <2>3. n # Zero /\ heap.parent[n] = Null /\ classes[n].super = Null /\ (n \in Class => RootClass(n))
    BY <2>2 DEF TreeParts, LooseInv, RootsInv
  <2>4. AddChildOutcome(Zero, n) = pc
    BY <1>1, <2>2, <2>3, AttachEnds DEF TreeParts
  <2>5. pc' = pc /\ heap' = AddChildrenRaw(heap, Zero, n) /\ roots' = Tail(roots)
    BY <1>1, <1>4, <2>1, <2>4 DEF Adopt
  <2>6. Attached(heap, Zero, n, heap') /\ Links(heap')
    BY <1>1, <2>2, <2>3, <2>5, AttachFields DEF TreeParts
  <2>7. Forest(heap')
    BY <1>1, <2>2, <2>3, <2>6, AttachedForest DEF TreeParts
  <2>8. \A m \in Node : heap'.parent[m] = IF m = n THEN Zero ELSE heap.parent[m]
    BY <2>6 DEF Attached, TypeInv, Links, Heap
  <2>9. /\ Len(roots') = Len(roots) - 1
        /\ \A i \in 1..Len(roots') : i + 1 \in 1..Len(roots) /\ roots'[i] = roots[i + 1] /\ i + 1 # 1
        /\ \A i \in 1..Len(roots) : i # 1 => i - 1 \in 1..Len(roots') /\ roots'[i - 1] = roots[i]
    BY <1>2, <1>4, <2>5
  <2>10. \A i \in 1..Len(roots') : roots'[i] # n /\ roots'[i] \in Known
    BY <1>2, <2>2, <2>9 DEF TreeParts, RootsInv
  <2>11. StartInv' /\ pc' \notin {"hung", "aborted"}
    BY <1>1, <2>5 DEF TreeParts, StartInv
  <2>12. LooseInv'
    BY <1>1, <2>2, <2>3, <2>8, <2>9, <2>10, SMTT(30) DEF TreeParts, LooseInv
  <2>13. RootsInv'
    <3>1. \A i, j \in 1..Len(roots') : roots'[i] = roots'[j] => i = j
      BY <2>9 DEF TreeParts, RootsInv
    <3>2. ASSUME NEW i \in 1..Len(roots')
          PROVE  /\ roots'[i] # Zero /\ roots'[i] # fixing /\ classes[roots'[i]].super = Null
                 /\ roots'[i] \in Class => RootClass(roots'[i])
      BY <2>9 DEF TreeParts, RootsInv
    <3> QED
      BY <1>1, <2>5, <3>1, <3>2, FileKept DEF RootsInv
  <2>14. ParentsInv'
    <3> SUFFICES ASSUME NEW k \in Node
                 PROVE  /\ heap'.parent[k] \in Class \cup {Zero, Null}
                        /\ heap'.parent[k] \in Class => Readable(k) /\ SuperOf(k) = heap'.parent[k] /\ SuperOf(k) # k
                        /\ heap'.parent[k] = Zero => root' = Zero /\ (k \in Class => RootClass(k))
      BY <1>1, FileKept DEF ParentsInv
    <3> QED
      BY <1>1, <2>3, <2>8 DEF TreeParts, ParentsInv
  <2>15. \A c \in Class : IsRoot(c) => IsRoot(c)'
    <3> SUFFICES ASSUME NEW c \in Class, IsRoot(c), c # root, heap.parent[c] # Zero
                 PROVE  heap'.parent[c] = Zero \/ \E i \in 1..Len(roots') : roots'[i] = c
      BY <1>1, <2>8, <2>3 DEF IsRoot
    <3>1. PICK i \in 1..Len(roots) : roots[i] = c
      BY DEF IsRoot
    <3> QED
      BY <2>2, <2>8, <2>9, <3>1
  <2>16. PlacedInv'
    <3> SUFFICES ASSUME NEW c \in Known \cap Class, ~classes[c].null
                 PROVE  /\ Readable(c) /\ classes[c].super \in {Null, SuperOf(c)}
                        /\ classes[c].super = Null =>
                           /\ SuperOf(c) = Zero => IsRoot(c)'
                           /\ SuperOf(c) \notin {Zero, c} =>
                                heap'.parent[c] = SuperOf(c) /\ SuperOf(c) \in Known
      BY <1>1, FileKept DEF PlacedInv
    <3> QED
      BY <1>1, <2>3, <2>8, <2>15 DEF TreeParts, PlacedInv, RootClass
  <2>17. NullInv'
    BY <1>1, <2>5, <2>15, FileKept DEF TreeParts, NullInv
  <2>18. FixingInv' /\ EntriesInv' /\ WaitingInv'
    BY <1>1, <2>5, FileKept DEF TreeParts, FixingInv, EntriesInv, WaitingInv
  <2> QED
    BY <2>7, <2>11, <2>12, <2>13, <2>14, <2>16, <2>17, <2>18 DEF TreeParts
<1> QED
  BY <1>3, <1>4

\* Reading a category leaves the tree and the roots alone; a class it adds is null
\* or at address 0.
LEMMA CategoryTree ==
  ASSUME TypeInv, TypeInv', TreeParts, pc = "categories", pc' \in {"categories", "crashed"}, at' = at + 1,
         UNCHANGED <<file, heap, roots, rest, fixing, rehashed, root>>, Known \subseteq Known',
         \A c \in Known : classes'[c].super = classes[c].super /\ classes'[c].null = classes[c].null,
         \A c \in Known' \ Known : classes'[c].super = Null /\ (c \in Class => classes'[c].null)
  PROVE  TreeParts'
<1>1. Forest(heap') /\ pc' \notin {"hung", "aborted"} /\ StartInv' /\ ParentsInv'
  BY FileKept DEF TreeParts, StartInv, ParentsInv
<1>2. LooseInv'
  BY DEF TreeParts, LooseInv
<1>3. RootsInv'
  <2>1. \A i \in 1..Len(roots) : roots[i] \in Known
    BY DEF TypeInv, NodesTyped
  <2> QED
    BY <2>1, FileKept DEF TreeParts, RootsInv
<1>4. \A c : IsRoot(c)' <=> IsRoot(c)
  BY DEF IsRoot
<1>5. PlacedInv'
  BY <1>4, FileKept DEF TreeParts, PlacedInv
<1>6. NullInv'
  BY DEF NullInv, TypeInv, CountersTyped
<1>7. FixingInv'
  BY FileKept DEF TreeParts, FixingInv, StartInv
<1>8. EntriesInv' /\ WaitingInv'
  BY FileKept DEF TreeParts, EntriesInv, WaitingInv
<1> QED
  BY <1>1, <1>2, <1>3, <1>5, <1>6, <1>7, <1>8 DEF TreeParts

LEMMA CategoriesTree ==
  TypeInv /\ TypeInv' /\ TreeParts /\ (ReadBareCategory \/ ReadCategory \/ ReadBoundCategory) => TreeParts'
<1> SUFFICES ASSUME TypeInv, TypeInv', TreeParts, ReadBareCategory \/ ReadCategory \/ ReadBoundCategory
             PROVE  TreeParts'
  OBVIOUS
<1>1. CASE ReadBareCategory
  <2>1. Known' = Known
    BY <1>1 DEF ReadBareCategory, Known
  <2> QED
    BY <1>1, <2>1, CategoryTree DEF ReadBareCategory
<1>2. CASE ReadCategory
  <2>1. PICK c : c = file.categories[at + 1].class
    OBVIOUS
  <2>2. PICK old : old = IF c \in Known THEN classes[c] ELSE NullClass
    OBVIOUS
  <2>3. /\ Known' = Known \cup {c}
        /\ \A k \in Known : k # c => classes'[k] = classes[k]
        /\ classes'[c].super = old.super /\ classes'[c].null = old.null
    BY <1>2, <2>1, <2>2, ReadCategoryEffect
  <2>4. /\ \A k \in Known : classes'[k].super = classes[k].super /\ classes'[k].null = classes[k].null
        /\ \A k \in Known' \ Known : classes'[k].super = Null /\ classes'[k].null
    BY <2>2, <2>3, NewInfo
  <2> QED
    BY <1>2, <2>3, <2>4, CategoryTree DEF ReadCategory
<1>3. CASE ReadBoundCategory
  <2>1. /\ Known \subseteq Known' /\ \A k \in Known : classes'[k] = classes[k]
        /\ \A k \in Known' \ Known : classes'[k].super = Null /\ k \notin Class
    BY <1>3, ReadBoundCategoryEffect, Addresses
  <2> QED
    BY <1>3, <2>1, CategoryTree DEF ReadBoundCategory
<1> QED
  BY <1>1, <1>2, <1>3

LEMMA EndTree == TypeInv /\ TreeParts /\ End => TreeParts'
<1> SUFFICES ASSUME TypeInv, TreeParts, End PROVE TreeParts'
  OBVIOUS
<1>1. /\ pc = "categories" /\ pc' = "done" /\ Known' = Known
      /\ UNCHANGED <<file, at, classes, heap, roots, rest, fixing, rehashed, root, categories>>
  BY DEF End, Known
<1>2. Forest(heap') /\ pc' \notin {"hung", "aborted"} /\ StartInv' /\ LooseInv'
  BY <1>1 DEF TreeParts, StartInv, LooseInv
<1>3. RootsInv' /\ ParentsInv'
  BY <1>1, FileKept DEF TreeParts, RootsInv, ParentsInv
<1>4. \A c : IsRoot(c)' <=> IsRoot(c)
  BY <1>1 DEF IsRoot
<1>5. PlacedInv' /\ NullInv' /\ FixingInv' /\ EntriesInv' /\ WaitingInv'
  BY <1>1, <1>4, FileKept DEF TreeParts, PlacedInv, NullInv, FixingInv, EntriesInv, WaitingInv
<1> QED
  BY <1>2, <1>3, <1>5 DEF TreeParts

LEMMA TreeInvStep == TypeInv /\ TypeInv' /\ TreeInv /\ [Next]_vars => TreeInv'
<1> SUFFICES ASSUME TypeInv, TypeInv', TreeInv, [Next]_vars, NothingBound' PROVE TreeParts'
  BY DEF TreeInv
<1>1. NothingBound /\ TreeParts
  BY StepFile, FileKept DEF TreeInv
<1>2. ~FixBoundSuper /\ ~FixNamelessSuper
  <2>1. Fixing => fixing \in Class
    BY FixingTypes
  <2>2. Fixing => file.superBind[fixing].kind = "unbound"
    BY <1>1, <2>1 DEF NothingBound, Unbound
  <2> QED
    BY <2>2 DEF FixBoundSuper, FixNamelessSuper
<1>3. CASE Step
  BY <1>1, <1>2, <1>3, OpenSectionTree, ReadEntryTree, BeginFixTree, PickClassTree, FixRootTree,
     FixKnownSuperTree, FixNewSuperTree, EndFixTree, AdjustTree, AdoptTree, CategoriesTree, EndTree DEF Step
<1>4. CASE UNCHANGED vars
  <2>1. /\ UNCHANGED <<file, pc, at, classes, heap, roots, rest, fixing, rehashed, root>> /\ Known' = Known
    BY <1>4 DEF vars, Known
  <2>2. \A c : IsRoot(c)' <=> IsRoot(c)
    BY <2>1 DEF IsRoot
  <2>3. Forest(heap') /\ StartInv' /\ LooseInv' /\ RootsInv' /\ ParentsInv'
    BY <1>1, <2>1, FileKept DEF TreeParts, StartInv, LooseInv, RootsInv, ParentsInv
  <2>4. PlacedInv' /\ NullInv' /\ FixingInv' /\ EntriesInv' /\ WaitingInv'
    BY <1>1, <2>1, <2>2, FileKept DEF TreeParts, PlacedInv, NullInv, FixingInv, EntriesInv, WaitingInv
  <2> QED
    BY <1>1, <2>1, <2>3, <2>4 DEF TreeParts
<1> QED
  BY <1>3, <1>4 DEF Next, Finished

LEMMA TreeAlways == Spec => [](TypeInv /\ CatInv /\ TreeInv)
<1>1. Init => TreeInv
  BY TreePartsInit DEF TreeInv
<1>2. TypeInv /\ CatInv /\ TreeInv /\ [Next]_vars => (TypeInv /\ CatInv /\ TreeInv)'
  BY TypeInvStep, CatInvStep, TreeInvStep
<1> QED
  BY <1>1, <1>2, TypeInvInit, CatInvInit, PTL DEF Spec

\* The types TLC checks are among those that are proved.
LEMMA TypesFromInv == TypeInv /\ CatInv => TypeOK
<1> SUFFICES ASSUME TypeInv, CatInv PROVE TypeOK
  OBVIOUS
<1>1. /\ heap \in Heap /\ rest \subseteq Known /\ root \in Known \cup {Null} /\ fixing \in Known \cup {Null}
      /\ roots \in Seq(Node) /\ \A i \in 1..Len(roots) : roots[i] \in Known
  BY DEF TypeInv, NodesTyped, Links
<1>2. ToSet(roots) \subseteq Known
  BY <1>1 DEF ToSet
<1>3. \A c \in Known : classes[c].super \in Class \cup {Zero, Null}
  BY DEF TypeInv, IsList, Info
<1>4. \A c \in Known : \A i \in ToSet(classes[c].categories) : i \in 1..at
  BY DEF CatInv
<1> QED
  BY <1>1, <1>2, <1>3, <1>4 DEF TypeOK

LEMMA OnePlaceFromInv == TypeInv /\ TreeInv => OnePlace
<1> SUFFICES ASSUME TypeInv, TreeParts, NEW p \in Known, NEW c \in ChildList(heap, p)
             PROVE  heap.parent[c] = p /\ RangeEnds(heap, c)
  BY DEF OnePlace, TreeInv
<1>1. p \in Node /\ Forest(heap)
  BY DEF TypeInv, IsList, TreeParts
<1>2. c \in Node /\ heap.parent[c] = p
  BY <1>1, ListIsKids DEF Kids
<1> QED
  BY <1>1, <1>2, RangesEnd

-----------------------------------------------------------------------------
(***************************************************************************)
(* The walk of the printer                                                 *)
(***************************************************************************)

\* What ClimbFrom is the value of.
Climbs(h, f) ==
  f = [m \in Ptr |-> IF m = Null THEN Null
                     ELSE IF h.next[m] # Null THEN h.next[m]
                     ELSE f[h.parent[m]]]

\* R relates the nodes to what a climb from them comes to.
ClimbRule(h, R, x) ==
  IF x[1] = Null THEN x[2] = Null
  ELSE IF h.next[x[1]] # Null THEN x[2] = h.next[x[1]]
  ELSE <<h.parent[x[1]], x[2]>> \in R
ClimbClosed(h, R) == \A x \in Ptr \X Ptr : ClimbRule(h, R, x) => x \in R

\* There is such a function, also if parents go round in a circle.
LEMMA ClimbExists ==
  ASSUME NEW h \in Heap
  PROVE  \E f : Climbs(h, f)
<1>1. h.parent \in [Node -> Ptr] /\ h.next \in [Node -> Ptr] /\ Ptr = Node \cup {Null} /\ Null \notin Node
  BY Addresses DEF Heap, Ptr
<1> DEFINE L == {x \in Ptr \X Ptr : \A R \in SUBSET (Ptr \X Ptr) : ClimbClosed(h, R) => x \in R}
<1>2. L \in SUBSET (Ptr \X Ptr)
  OBVIOUS
<1>3. ASSUME NEW R \in SUBSET (Ptr \X Ptr), ClimbClosed(h, R) PROVE L \subseteq R
  BY <1>3
<1>4. ClimbClosed(h, L)
  <2> SUFFICES ASSUME NEW x \in Ptr \X Ptr, ClimbRule(h, L, x),
                      NEW R \in SUBSET (Ptr \X Ptr), ClimbClosed(h, R)
               PROVE  x \in R
    BY DEF ClimbClosed
  <2>1. L \subseteq R
    BY <1>3
  <2> HIDE DEF L
  <2>2. ClimbRule(h, R, x)
    BY <2>1 DEF ClimbRule
  <2> QED
    BY <2>2 DEF ClimbClosed
<1> HIDE DEF L
<1>5. \A x \in L : ClimbRule(h, L, x)
  <2> DEFINE M == {x \in L : ClimbRule(h, L, x)}
  <2>1. M \in SUBSET (Ptr \X Ptr) /\ M \subseteq L
    BY <1>2
  <2>2. ClimbClosed(h, M)
    <3> SUFFICES ASSUME NEW x \in Ptr \X Ptr, ClimbRule(h, M, x) PROVE x \in M
      BY DEF ClimbClosed
    <3> HIDE DEF M
    <3>1. ClimbRule(h, L, x)
      BY <2>1 DEF ClimbRule
    <3>2. x \in L
      BY <1>4, <3>1 DEF ClimbClosed
    <3> QED
      BY <3>1, <3>2 DEF M
  <2> HIDE DEF M
  <2>3. L \subseteq M
    BY <1>3, <2>1, <2>2
  <2> QED
    BY <2>3 DEF M
<1>6. \A m, v, w \in Ptr : <<m, v>> \in L /\ <<m, w>> \in L => v = w
  <2> DEFINE M == {x \in L : \A w \in Ptr : <<x[1], w>> \in L => w = x[2]}
  <2>1. M \in SUBSET (Ptr \X Ptr) /\ M \subseteq L
    BY <1>2
  <2>2. ClimbClosed(h, M)
    <3> SUFFICES ASSUME NEW m \in Ptr, NEW v \in Ptr, ClimbRule(h, M, <<m, v>>) PROVE <<m, v>> \in M
      BY DEF ClimbClosed
    <3>0. M \subseteq L /\ \A a, b, w \in Ptr : <<a, b>> \in M /\ <<a, w>> \in L => w = b
      OBVIOUS
    <3> HIDE DEF M
    <3>1. ClimbRule(h, L, <<m, v>>)
      BY <3>0 DEF ClimbRule
    <3>2. <<m, v>> \in L
      BY <1>4, <3>1 DEF ClimbClosed
    <3>3. ASSUME NEW w \in Ptr, <<m, w>> \in L PROVE w = v
      <4>1. ClimbRule(h, L, <<m, w>>)
        BY <1>5, <3>3
      <4>2. m # Null => m \in Node /\ h.parent[m] \in Ptr
        BY <1>1
      <4> QED
        BY <3>0, <4>1, <4>2 DEF ClimbRule
    <3> QED
      BY <3>2, <3>3 DEF M
  <2>3. L \subseteq M
    BY <1>3, <2>1, <2>2
  <2> QED
    BY <2>3
<1> DEFINE f == [m \in Ptr |-> IF \E v \in Ptr : <<m, v>> \in L
                               THEN CHOOSE v \in Ptr : <<m, v>> \in L ELSE Null]
<1>7. \A m, v \in Ptr : <<m, v>> \in L => f[m] = v
  <2> SUFFICES ASSUME NEW m \in Ptr, NEW v \in Ptr, <<m, v>> \in L PROVE f[m] = v
    OBVIOUS
  <2> DEFINE w == CHOOSE u \in Ptr : <<m, u>> \in L
  <2>1. f[m] = w
    OBVIOUS
  <2>2. w \in Ptr /\ <<m, w>> \in L
    OBVIOUS
  <2> QED
    BY <1>6, <2>1, <2>2
<1>8. \A m \in Ptr : (\A v \in Ptr : <<m, v>> \notin L) => f[m] = Null
  OBVIOUS
<1>9. f = [m \in Ptr |-> f[m]]
  OBVIOUS
<1> HIDE DEF f
<1>10. ASSUME NEW m \in Ptr
       PROVE  f[m] = IF m = Null THEN Null ELSE IF h.next[m] # Null THEN h.next[m] ELSE f[h.parent[m]]
  <2>1. Null \in Ptr
    BY <1>1
  <2>2. CASE m = Null
    <3>1. ClimbRule(h, L, <<m, Null>>)
      BY <2>2 DEF ClimbRule
    <3>2. <<m, Null>> \in L
      BY <1>4, <2>1, <3>1 DEF ClimbClosed
    <3> QED
      BY <1>7, <2>1, <2>2, <3>2
  <2>3. CASE m # Null /\ h.next[m] # Null
    <3>0. h.next[m] \in Ptr
      BY <1>1, <2>3
    <3>1. ClimbRule(h, L, <<m, h.next[m]>>)
      BY <2>3 DEF ClimbRule
    <3>2. <<m, h.next[m]>> \in L
      BY <1>4, <3>0, <3>1 DEF ClimbClosed
    <3> QED
      BY <1>7, <2>3, <3>0, <3>2
  <2>4. CASE m # Null /\ h.next[m] = Null
    <3>0. h.parent[m] \in Ptr
      BY <1>1, <2>4
    <3>1. \A v \in Ptr : <<m, v>> \in L <=> <<h.parent[m], v>> \in L
      <4>1. \A v \in Ptr : ClimbRule(h, L, <<m, v>>) <=> <<h.parent[m], v>> \in L
        BY <2>4 DEF ClimbRule
      <4>2. \A v \in Ptr : ClimbRule(h, L, <<m, v>>) <=> <<m, v>> \in L
        BY <1>4, <1>5 DEF ClimbClosed
      <4> QED
        BY <4>1, <4>2
    <3>2. CASE \E v \in Ptr : <<m, v>> \in L
      BY <1>7, <2>4, <3>0, <3>1, <3>2
    <3>3. CASE \A v \in Ptr : <<m, v>> \notin L
      BY <1>8, <2>4, <3>0, <3>1, <3>3
    <3> QED
      BY <3>2, <3>3
  <2> QED
    BY <2>2, <2>3, <2>4
<1>11. Climbs(h, f)
  BY <1>9, <1>10, Zenon DEF Climbs
<1> QED
  BY <1>11

\* What a climb comes to, one step at a time.
LEMMA ClimbSteps ==
  ASSUME NEW h \in Heap, NEW n \in Ptr
  PROVE  ClimbFrom(h, n) = IF n = Null THEN Null
                           ELSE IF h.next[n] # Null THEN h.next[n]
                           ELSE ClimbFrom(h, h.parent[n])
<1> DEFINE g == CHOOSE f : Climbs(h, f)
<1>1. Climbs(h, g)
  BY ClimbExists
<1>2. \A m : ClimbFrom(h, m) = g[m]
  BY DEF ClimbFrom, Climbs
<1> HIDE DEF g
<1> QED
  BY <1>1, <1>2 DEF Climbs

\* The nodes from the root down to n, k of them, of which the last is n.
IsPath(h, s, k, r, n) ==
  /\ k \in Nat \ {0} /\ s \in [1..k -> Node] /\ s[1] = r /\ s[k] = n
  /\ \A i \in 2..k : h.parent[s[i]] = s[i - 1]
  /\ \A i, j \in 1..k : s[i] = s[j] => i = j

\* Where a walk from r is, when it has been at the nodes of V and is at n.  The
\* nodes of the path have next siblings it has not been at.
IsAt(h, r, V, n) ==
  /\ n \in Node /\ V \in SUBSET Node /\ n \notin V /\ r \in V \cup {n}
  /\ \A v \in V \cup {n} : v # r => h.parent[v] \in V
  /\ \A u \in Node : h.next[u] \in V \cup {n} => u \in V
  /\ \E k \in Nat : \E s : /\ IsPath(h, s, k, r, n)
                           /\ \A i \in 1..k : s[i] \in V \cup {n} /\ h.next[s[i]] \notin V \cup {n}

\* A climb from the end of a path to the root comes to the next sibling of one of
\* its nodes, if it comes to any.
LEMMA ClimbsToPath ==
  ASSUME NEW h, Forest(h), NEW r \in Node, h.parent[r] = Null,
         NEW k \in Nat, NEW s, NEW n, IsPath(h, s, k, r, n)
  PROVE  \/ ClimbFrom(h, n) = Null
         \/ \E j \in 2..k : h.next[s[j]] = ClimbFrom(h, n) /\ ClimbFrom(h, n) # Null
<1>1. /\ h \in Heap /\ s \in [1..k -> Node] /\ s[1] = r /\ s[k] = n /\ k >= 1
      /\ \A i \in 2..k : h.parent[s[i]] = s[i - 1]
  BY DEF Forest, Links, IsPath
<1>2. h.next[r] = Null /\ Null \in Ptr /\ Node \subseteq Ptr /\ Null \notin Node
  BY Addresses DEF Forest, Siblings, Ptr
<1> DEFINE P(i) == \/ ClimbFrom(h, s[i]) = Null
                   \/ \E j \in 2..i : h.next[s[j]] = ClimbFrom(h, s[i]) /\ ClimbFrom(h, s[i]) # Null
           S == {i \in Nat : i + 1 <= k => P(i + 1)}
<1>3. 0 \in S
  <2>1. ClimbFrom(h, Null) = Null
    BY <1>1, <1>2, ClimbSteps
  <2>2. ClimbFrom(h, r) = ClimbFrom(h, h.parent[r])
    BY <1>1, <1>2, ClimbSteps
  <2>3. P(1)
    BY <1>1, <2>1, <2>2
  <2> QED
    BY <2>3
<1>4. ASSUME NEW i \in Nat, i \in S PROVE i + 1 \in S
  <2> SUFFICES ASSUME (i + 1) + 1 <= k PROVE P((i + 1) + 1)
    OBVIOUS
  <2>1. PICK m : m = (i + 1) + 1
    OBVIOUS
  <2>2. m \in 2..k /\ m \in 1..k /\ m - 1 \in 1..k /\ i + 1 = m - 1
    BY <2>1
  <2>3. P(m - 1)
    BY <1>4, <2>2
  <2>4. s[m] \in Node /\ s[m - 1] \in Node /\ h.parent[s[m]] = s[m - 1]
    BY <1>1, <2>2
  <2>5. CASE h.next[s[m]] # Null
    <3>1. ClimbFrom(h, s[m]) = h.next[s[m]]
      BY <1>1, <1>2, <2>4, <2>5, ClimbSteps
    <3>2. m \in 2..m
      BY <2>2
    <3>3. P(m)
      BY <2>5, <3>1, <3>2
    <3> QED
      BY <2>1, <3>3
  <2>6. CASE h.next[s[m]] = Null
    <3>1. ClimbFrom(h, s[m]) = ClimbFrom(h, s[m - 1])
      BY <1>1, <1>2, <2>4, <2>6, ClimbSteps
    <3>2. \A j \in 2..(m - 1) : j \in 2..m
      BY <2>2
    <3>3. P(m)
      BY <2>3, <3>1, <3>2
    <3> QED
      BY <2>1, <3>3
  <2> QED
    BY <2>5, <2>6
<1>5. k - 1 \in Nat /\ (k - 1) + 1 = k
  BY <1>1
<1> HIDE DEF S, P
<1>6. k - 1 \in S
  BY <1>3, <1>4, <1>5, Ind!SetInduction
<1>7. P(k)
  BY <1>5, <1>6 DEF S
<1> QED
  BY <1>1, <1>7 DEF P

\* A walk that is at the root is where walks may be.
LEMMA WalkBegins ==
  ASSUME NEW h, Forest(h), NEW r \in Node, h.parent[r] = Null
  PROVE  IsAt(h, r, {}, r)
<1>1. h.next[r] = Null /\ Null \notin Node
  BY Addresses DEF Forest, Siblings
<1>2. \A u \in Node : h.next[u] # r
  BY Addresses DEF Forest, Siblings
<1> DEFINE s == [i \in 1..1 |-> r]
<1>3. IsPath(h, s, 1, r, r) /\ \A i \in 1..1 : s[i] = r
  BY DEF IsPath
<1> HIDE DEF s
<1>4. \E k \in Nat : \E t : /\ IsPath(h, t, k, r, r)
                            /\ \A i \in 1..k : t[i] \in {} \cup {r} /\ h.next[t[i]] \notin {} \cup {r}
  <2>1. /\ IsPath(h, s, 1, r, r)
        /\ \A i \in 1..1 : s[i] \in {} \cup {r} /\ h.next[s[i]] \notin {} \cup {r}
    BY <1>1, <1>3
  <2> QED
    BY <2>1
<1> QED
  BY <1>2, <1>4 DEF IsAt

\* A walk comes to nodes it has not been at, or to its end.
LEMMA WalkGoesOn ==
  ASSUME NEW h, Forest(h), NEW r \in Node, h.parent[r] = Null, NEW V, NEW n, IsAt(h, r, V, n),
         NextNode(h, n) # Null
  PROVE  IsAt(h, r, V \cup {n}, NextNode(h, n))
<1>1. PICK m : m = NextNode(h, n)
  OBVIOUS
<1>2. PICK W : W = V \cup {n}
  OBVIOUS
<1>3. /\ n \in Node /\ V \in SUBSET Node /\ n \notin V /\ r \in W /\ W \in SUBSET Node
      /\ \A v \in W : v # r => h.parent[v] \in V
      /\ \A u \in Node : h.next[u] \in W => u \in V
  BY <1>2 DEF IsAt
<1>path. PICK k \in Nat : \E s : /\ IsPath(h, s, k, r, n)
                                 /\ \A i \in 1..k : s[i] \in W /\ h.next[s[i]] \notin W
  BY <1>2 DEF IsAt
<1>4. PICK s : /\ IsPath(h, s, k, r, n)
               /\ \A i \in 1..k : s[i] \in W /\ h.next[s[i]] \notin W
  BY <1>path
<1>5. /\ s \in [1..k -> Node] /\ s[1] = r /\ s[k] = n /\ k >= 1
      /\ \A i \in 2..k : h.parent[s[i]] = s[i - 1]
      /\ \A i, j \in 1..k : s[i] = s[j] => i = j
  BY <1>4 DEF IsPath
<1>6. /\ h \in Heap /\ Links(h) /\ Siblings(h) /\ OneBefore(h) /\ NoCircle(h) /\ Null \notin Node /\ m # Null
  BY <1>1, Addresses DEF Forest, Links
<1>7. \A u \in Node : h.next[u] # u
  <2> SUFFICES ASSUME NEW u \in Node, h.next[u] = u PROVE FALSE
    OBVIOUS
  <2>1. {u} \in SUBSET Node /\ {u} # {}
    OBVIOUS
  <2>2. PICK x \in {u} : h.next[x] \notin {u}
    BY <1>6, <2>1 DEF NoCircle
  <2> QED
    BY <2>2
<1>8. CASE h.first[n] # Null
  <2>1. m = h.first[n] /\ m \in Node
    BY <1>1, <1>3, <1>6, <1>8, LinkTypes DEF NextNode, IsLeaf
  <2>2. h.parent[m] = n /\ m # r /\ \A u \in Node : h.next[u] # m
    BY <1>3, <1>6, <1>8, <2>1 DEF Siblings, OneBefore
  <2>3. m \notin W
    BY <1>3, <2>2
  <2>4. \A v \in W \cup {m} : v # r => h.parent[v] \in W
    BY <1>2, <1>3, <2>2
  <2>5. \A u \in Node : h.next[u] \in W \cup {m} => u \in W
    BY <1>2, <1>3, <2>2
  <2>6. h.next[m] \notin W \cup {m}
    BY <1>2, <1>3, <1>7, <2>1, <2>3
  <2> DEFINE t == [i \in 1..(k + 1) |-> IF i = k + 1 THEN m ELSE s[i]]
  <2>7. /\ t \in [1..(k + 1) -> Node] /\ t[k + 1] = m /\ \A i \in 1..k : t[i] = s[i]
    BY <1>5, <2>1
  <2> HIDE DEF t
  <2>8. \A i \in 1..(k + 1) : i \in 1..k \/ i = k + 1
    OBVIOUS
  <2>9. IsPath(h, t, k + 1, r, m)
    <3>1. k + 1 \in Nat \ {0} /\ t[1] = r
      BY <1>5, <2>7
    <3>2. \A i \in 2..(k + 1) : h.parent[t[i]] = t[i - 1]
      <4> SUFFICES ASSUME NEW i \in 2..(k + 1) PROVE h.parent[t[i]] = t[i - 1]
        OBVIOUS
      <4>1. CASE i = k + 1
        <5>1. i - 1 = k /\ k \in 1..k
          BY <1>5, <4>1
        <5> QED
          BY <1>5, <2>2, <2>7, <4>1, <5>1
      <4>2. CASE i # k + 1
        <5>1. i \in 2..k /\ i \in 1..k /\ i - 1 \in 1..k
          BY <4>2
        <5> QED
          BY <1>5, <2>7, <5>1
      <4> QED
        BY <4>1, <4>2
    <3>3. \A i, j \in 1..(k + 1) : t[i] = t[j] => i = j
      BY <1>4, <1>5, <2>3, <2>7, <2>8
    <3> QED
      BY <2>7, <3>1, <3>2, <3>3 DEF IsPath
  <2>10. \A i \in 1..(k + 1) : t[i] \in W \cup {m} /\ h.next[t[i]] \notin W \cup {m}
    BY <1>4, <1>5, <2>2, <2>6, <2>7, <2>8
  <2>11. IsAt(h, r, W, m)
    <3>1. k + 1 \in Nat
      OBVIOUS
    <3> QED
      BY <1>3, <2>1, <2>3, <2>4, <2>5, <2>9, <2>10, <3>1 DEF IsAt
  <2> QED
    BY <1>1, <1>2, <2>11
<1>9. CASE h.first[n] = Null
  <2>1. m = ClimbFrom(h, n)
    BY <1>1, <1>9 DEF NextNode, IsLeaf
  <2>2. PICK j \in 2..k : h.next[s[j]] = m
    BY <1>4, <1>6, <2>1, ClimbsToPath
  <2>3. j \in 1..k /\ j - 1 \in 1..k /\ s[j] \in Node /\ s[j] \in W /\ m \in Node /\ m \notin W
    <3>1. j \in 1..k /\ j - 1 \in 1..k
      OBVIOUS
    <3>2. s[j] \in Node /\ s[j] \in W /\ m \notin W
      BY <1>4, <1>5, <2>2, <3>1
    <3> QED
      BY <1>6, <2>2, <3>1, <3>2, LinkTypes
  <2>4. h.parent[m] = s[j - 1] /\ m # r
    BY <1>3, <1>5, <1>6, <2>2, <2>3 DEF Siblings
  <2>5. s[j - 1] \in W
    BY <1>4, <2>3
  <2>6. \A u \in Node : h.next[u] = m => u = s[j]
    BY <1>6, <2>2, <2>3 DEF OneBefore
  <2>7. \A v \in W \cup {m} : v # r => h.parent[v] \in W
    BY <1>2, <1>3, <2>4, <2>5
  <2>8. \A u \in Node : h.next[u] \in W \cup {m} => u \in W
    BY <1>2, <1>3, <2>3, <2>6
  <2>9. h.next[m] \notin W \cup {m}
    BY <1>2, <1>3, <1>7, <2>3
  <2> DEFINE t == [i \in 1..j |-> IF i = j THEN m ELSE s[i]]
  <2>10. t \in [1..j -> Node] /\ t[j] = m /\ \A i \in 1..j : i # j => t[i] = s[i] /\ i \in 1..k
    BY <1>5, <2>3
  <2> HIDE DEF t
  <2>11. IsPath(h, t, j, r, m)
    <3>1. j \in Nat \ {0} /\ t[1] = r
      BY <1>5, <2>10
    <3>2. \A i \in 2..j : h.parent[t[i]] = t[i - 1]
      <4> SUFFICES ASSUME NEW i \in 2..j PROVE h.parent[t[i]] = t[i - 1]
        OBVIOUS
      <4>1. i \in 1..j /\ i - 1 \in 1..j /\ i - 1 # j /\ i \in 2..k
        OBVIOUS
      <4>2. t[i - 1] = s[i - 1]
        BY <2>10, <4>1
      <4>3. CASE i = j
        BY <2>4, <2>10, <4>2, <4>3
      <4>4. CASE i # j
        BY <1>5, <2>10, <4>1, <4>2, <4>4
      <4> QED
        BY <4>3, <4>4
    <3>3. \A a, b \in 1..j : t[a] = t[b] => a = b
      BY <1>4, <1>5, <2>3, <2>10
    <3> QED
      BY <2>10, <3>1, <3>2, <3>3 DEF IsPath
  <2>12. \A i \in 1..j : t[i] \in W \cup {m} /\ h.next[t[i]] \notin W \cup {m}
    <3> SUFFICES ASSUME NEW i \in 1..j PROVE t[i] \in W \cup {m} /\ h.next[t[i]] \notin W \cup {m}
      OBVIOUS
    <3>1. CASE i = j
      BY <2>9, <2>10, <3>1
    <3>2. CASE i # j
      <4>1. t[i] = s[i] /\ i \in 1..k
        BY <2>10, <3>2
      <4>2. s[i] \in Node /\ s[i] # s[j]
        BY <1>5, <2>3, <3>2, <4>1
      <4> QED
        BY <1>4, <2>6, <4>1, <4>2
    <3> QED
      BY <3>1, <3>2
  <2>13. IsAt(h, r, W, m)
    BY <1>3, <2>3, <2>7, <2>8, <2>11, <2>12 DEF IsAt
  <2> QED
    BY <1>1, <1>2, <2>13
<1> QED
  BY <1>8, <1>9

\* f is where a walk from r is, one step after another, and stays at its end.
Walks(h, f, r, n) ==
  /\ f[0] = r
  /\ \A k \in 1..n : /\ f[k - 1] = Null => f[k] = Null
                     /\ f[k - 1] \in Node => f[k] = NextNode(h, f[k - 1])

\* As long as it has not come to its end, a walk has been at as many nodes as it
\* has taken steps.
LEMMA WalkVisits ==
  ASSUME NEW h, Forest(h), NEW r \in Ptr, r # Null => h.parent[r] = Null,
         NEW n \in Nat, NEW f, Walks(h, f, r, n), NEW k \in 0..n
  PROVE  \/ f[k] = Null
         \/ \E V \in SUBSET Node : /\ IsAt(h, r, V, f[k]) /\ IsFiniteSet(V) /\ Cardinality(V) = k
<1> DEFINE P(i) == \/ f[i] = Null
                   \/ \E V \in SUBSET Node : IsAt(h, r, V, f[i]) /\ IsFiniteSet(V) /\ Cardinality(V) = i
           S == {i \in Nat : i <= n => P(i)}
<1>1. 0 \in S
  <2>1. f[0] = r
    BY DEF Walks
  <2>2. CASE r = Null
    BY <2>1, <2>2
  <2>3. CASE r # Null
    <3>1. r \in Node
      BY <2>3 DEF Ptr
    <3>2. IsAt(h, r, {}, r)
      BY <2>3, <3>1, WalkBegins
    <3>3. IsFiniteSet({}) /\ Cardinality({}) = 0 /\ {} \in SUBSET Node
      BY FS_EmptySet
    <3> QED
      BY <2>1, <3>2, <3>3
  <2> QED
    BY <2>2, <2>3
<1>2. ASSUME NEW i \in Nat, i \in S PROVE i + 1 \in S
  <2> SUFFICES ASSUME i + 1 <= n PROVE P(i + 1)
    OBVIOUS
  <2>1. i + 1 \in 1..n /\ (i + 1) - 1 = i /\ i <= n
    OBVIOUS
  <2>2. P(i)
    BY <1>2, <2>1
  <2>3. CASE f[i] = Null
    BY <2>1, <2>3 DEF Walks
  <2>4. CASE f[i] # Null
    <3>1. PICK V \in SUBSET Node : IsAt(h, r, V, f[i]) /\ IsFiniteSet(V) /\ Cardinality(V) = i
      BY <2>2, <2>4
    <3>2. f[i] \in Node /\ f[i] \notin V /\ r \in V \cup {f[i]} /\ r \in Node
      BY <3>1 DEF IsAt
    <3>3. f[i + 1] = NextNode(h, f[i])
      BY <2>1, <3>2 DEF Walks
    <3>4. IsFiniteSet(V \cup {f[i]}) /\ Cardinality(V \cup {f[i]}) = i + 1
      BY <3>1, <3>2, FS_AddElement
    <3>5. h.parent[r] = Null
      BY <3>2, Addresses
    <3>6. f[i + 1] # Null => IsAt(h, r, V \cup {f[i]}, f[i + 1])
      BY <3>1, <3>2, <3>3, <3>5, WalkGoesOn
    <3>7. V \cup {f[i]} \in SUBSET Node
      BY <3>1, <3>2
    <3> QED
      BY <3>4, <3>6, <3>7
  <2> QED
    BY <2>3, <2>4
<1>3. k \in Nat /\ k <= n
  OBVIOUS
<1> HIDE DEF S, P
<1>4. k \in S
  BY <1>1, <1>2, <1>3, Ind!SetInduction
<1>5. P(k)
  BY <1>3, <1>4 DEF S
<1> QED
  BY <1>5 DEF P

\* So it comes to its end after as many steps as there are nodes.
LEMMA WalkEnds ==
  ASSUME NEW h, Forest(h), NEW r \in Ptr, r # Null => h.parent[r] = Null,
         NEW f, Walks(h, f, r, Cardinality(Node))
  PROVE  f[Cardinality(Node)] = Null
<1>1. IsFiniteSet(Node) /\ Cardinality(Node) \in Nat
  BY NodeCount
<1>2. PICK n : n = Cardinality(Node)
  OBVIOUS
<1>3. n \in Nat /\ n \in 0..n
  BY <1>1, <1>2
<1> SUFFICES ASSUME f[n] # Null PROVE FALSE
  BY <1>2
<1>4. PICK V \in SUBSET Node : IsAt(h, r, V, f[n]) /\ IsFiniteSet(V) /\ Cardinality(V) = n
  BY <1>2, <1>3, WalkVisits
<1>5. f[n] \in Node /\ f[n] \notin V
  BY <1>4 DEF IsAt
<1>6. V = Node
  BY <1>1, <1>2, <1>4, FS_Subset
<1> QED
  BY <1>5, <1>6

LEMMA PrintingFromInv == TypeInv /\ TreeInv => PrintingEnds
<1> SUFFICES ASSUME TypeInv, TreeParts PROVE Walk(Cardinality(Node)) = Null
  BY DEF PrintingEnds, TreeInv
<1>1. PICK n : n = Cardinality(Node)
  OBVIOUS
<1>2. n \in Nat
  BY <1>1, NodeCount
<1>3. PICK h : h = heap
  OBVIOUS
<1>4. PICK r : r = root
  OBVIOUS
<1>5. Forest(h) /\ (r # Null => h.parent[r] = Null)
  BY <1>3, <1>4 DEF TreeParts, LooseInv
<1>6. r \in Ptr /\ Null \in Ptr /\ Null \notin Node /\ Node \subseteq Ptr
  BY <1>4, Addresses DEF TypeInv, NodesTyped, IsList, Ptr
<1> DEFINE T == Ptr \cup {NextNode(h, m) : m \in Node}
           grow == [x \in T |-> IF x \in Node THEN NextNode(h, x) ELSE Null]
           Equation(f) == f = [i \in 0..n |-> IF i = 0 THEN r
                                             ELSE IF f[i - 1] = Null THEN Null ELSE NextNode(h, f[i - 1])]
<1>7. grow \in [T -> T] /\ r \in T /\ Node \subseteq T
  BY <1>6
<1>8. \A x \in T : (x \in Node => grow[x] = NextNode(h, x)) /\ (x \notin Node => grow[x] = Null)
  OBVIOUS
<1> HIDE DEF T, grow
<1>9. PICK g : Ind!AreSteps(g, T, r, n, grow)
  BY <1>2, <1>7, Ind!StepsExist
<1>10. /\ g \in [0..n -> T] /\ g[0] = r
       /\ \A k \in 1..n : g[k] = grow[g[k - 1]] /\ g[k - 1] \in T
  <2>1. /\ g \in [0..n -> T] /\ g[0] = r /\ \A k \in 1..n : g[k] = grow[g[k - 1]]
    BY <1>9 DEF Ind!AreSteps
  <2>2. \A k \in 1..n : k - 1 \in 0..n
    BY <1>2
  <2> QED
    BY <2>1, <2>2
<1>11. Walks(h, g, r, n)
  BY <1>6, <1>8, <1>10 DEF Walks
<1>12. \A k \in 0..n : g[k] \in Ptr
  <2> SUFFICES ASSUME NEW k \in 0..n PROVE g[k] \in Ptr
    OBVIOUS
  <2>1. \/ g[k] = Null
        \/ \E V \in SUBSET Node : IsAt(h, r, V, g[k]) /\ IsFiniteSet(V) /\ Cardinality(V) = k
    BY <1>2, <1>5, <1>6, <1>11, WalkVisits
  <2> QED
    BY <1>6, <2>1 DEF IsAt
<1>13. Equation(g)
  <2>1. ASSUME NEW i \in 0..n
        PROVE  g[i] = IF i = 0 THEN r ELSE IF g[i - 1] = Null THEN Null ELSE NextNode(h, g[i - 1])
    <3>1. i = 0 \/ (i # 0 /\ i \in 1..n /\ i - 1 \in 0..n)
      BY <1>2
    <3>2. CASE i = 0
      BY <1>10, <3>2
    <3>3. CASE i # 0
      <4>1. g[i - 1] \in Ptr /\ g[i - 1] \in T /\ g[i] = grow[g[i - 1]]
        BY <1>10, <1>12, <3>1, <3>3
      <4> QED
        BY <1>6, <1>8, <3>3, <4>1 DEF Ptr
    <3> QED
      BY <3>2, <3>3
  <2> QED
    BY <1>10, <2>1
<1> DEFINE c == CHOOSE f : Equation(f)
<1>14. Equation(c)
  BY <1>13
<1>15. Walk(Cardinality(Node)) = c[n]
  BY <1>1, <1>3, <1>4 DEF Walk
<1>16. \A i \in 0..n : c[i] = IF i = 0 THEN r ELSE IF c[i - 1] = Null THEN Null ELSE NextNode(h, c[i - 1])
  BY <1>14
<1> HIDE DEF c, Equation
<1>17. Walks(h, c, r, n)
  <2>1. 0 \in 0..n /\ \A k \in 1..n : k \in 0..n /\ k # 0
    BY <1>2
  <2>2. c[0] = r
    BY <1>16, <2>1, Zenon
  <2>3. \A k \in 1..n : c[k] = IF c[k - 1] = Null THEN Null ELSE NextNode(h, c[k - 1])
    BY <1>16, <2>1
  <2> QED
    BY <1>6, <2>2, <2>3 DEF Walks
<1>18. c[n] = Null
  BY <1>1, <1>5, <1>6, <1>17, WalkEnds
<1> QED
  BY <1>15, <1>18

\* The tree can be walked when no super class is bound: a class is in it once, the
\* loop over the siblings of any ends, and so does the walk of the printer.
THEOREM TreeStaysSound == Spec => []TreeIsSound
<1>1. TypeInv /\ CatInv /\ TreeInv => TreeIsSound
  BY TypesFromInv, OnePlaceFromInv, PrintingFromInv DEF TreeIsSound
<1> QED
  BY <1>1, TreeAlways, PTL

-----------------------------------------------------------------------------
(***************************************************************************)
(* The tree and the super classes                                          *)
(***************************************************************************)

\* What is under a node is what its children, and theirs, lead to.
IsTreeOf(h, n, T) ==
  /\ T \in SUBSET Node /\ n \in T
  /\ \A m \in T : Kids(h, m) \subseteq T
  /\ \A S \in SUBSET Node : n \in S /\ (\A m \in S : Kids(h, m) \subseteq S) => T \subseteq S

LEMMA SubtreeIsTree ==
  ASSUME NEW h, Forest(h), NEW n \in Node
  PROVE  IsTreeOf(h, n, Subtree(h, n))
<1> DEFINE Under(s) == s \cup UNION {ChildList(h, m) : m \in s}
           grow == [s \in SUBSET Node |-> Under(s)]
           Equation(f) == f = [k \in 0..Cardinality(Node) |->
                                 IF k = 0 THEN {n}
                                 ELSE LET seen == f[k - 1]
                                      IN  seen \cup UNION {ChildList(h, m) : m \in seen}]
<1>1. PICK c : c = Cardinality(Node)
  OBVIOUS
<1>2. c \in Nat /\ IsFiniteSet(Node)
  BY <1>1, NodeCount
<1>3. \A m \in Node : ChildList(h, m) = Kids(h, m) /\ Kids(h, m) \in SUBSET Node
  BY ListIsKids DEF Kids
<1>4. \A s \in SUBSET Node : /\ Under(s) \in SUBSET Node /\ s \subseteq Under(s)
                             /\ \A m \in s : Kids(h, m) \subseteq Under(s)
                             /\ \A x : x \in Under(s) => x \in s \/ \E m \in s : x \in Kids(h, m)
  BY <1>3
<1> HIDE DEF Under
<1>5. grow \in [SUBSET Node -> SUBSET Node] /\ \A s \in SUBSET Node : s \subseteq grow[s] /\ grow[s] = Under(s)
  BY <1>4
<1> HIDE DEF grow
<1>6. {n} \in SUBSET Node /\ {n} # {}
  OBVIOUS
<1>7. PICK f : f \in [0..c -> SUBSET Node] /\ f[0] = {n} /\ \A k \in 1..c : f[k] = grow[f[k - 1]]
  <2> DEFINE T == SUBSET Node
             b == {n}
  <2>1. grow \in [T -> T] /\ b \in T /\ c \in Nat
    BY <1>2, <1>5, <1>6
  <2> HIDE DEF T, b
  <2>2. \E f : Ind!AreSteps(f, T, b, c, grow)
    BY <2>1, Ind!StepsExist
  <2> QED
    BY <2>2 DEF T, b, Ind!AreSteps
<1>8. Equation(f)
  <2>1. ASSUME NEW k \in 0..c PROVE f[k] = IF k = 0 THEN {n} ELSE Under(f[k - 1])
    <3>1. k = 0 \/ (k # 0 /\ k \in 1..c /\ k - 1 \in 0..c)
      BY <1>2
    <3>2. k # 0 => f[k - 1] \in SUBSET Node
      BY <1>7, <3>1
    <3> QED
      BY <1>5, <1>7, <3>1, <3>2
  <2> QED
    BY <1>1, <1>7, <2>1 DEF Under
<1> DEFINE g == CHOOSE f_1 : Equation(f_1)
<1>9. Equation(g)
  BY <1>8
<1>10. Subtree(h, n) = g[c]
  BY <1>1 DEF Subtree
<1>11. \A k \in 0..c : g[k] = IF k = 0 THEN {n} ELSE Under(g[k - 1])
  BY <1>1, <1>9 DEF Under
<1> HIDE DEF g, Equation
<1>12. g[0] = {n}
  <2>1. 0 \in 0..c
    BY <1>2
  <2> QED
    BY <1>11, <2>1, Zenon
<1>13. \A k \in 1..c : g[k - 1] \in SUBSET Node => g[k] = grow[g[k - 1]]
  <2> SUFFICES ASSUME NEW k \in 1..c, g[k - 1] \in SUBSET Node PROVE g[k] = grow[g[k - 1]]
    OBVIOUS
  <2>1. k \in 0..c /\ k # 0
    BY <1>2
  <2> QED
    BY <1>5, <1>11, <2>1
<1>14. IsClosure(g[c], Node, {n}, grow)
  <2>1. AreGrowing(g, Node, {n}, c, grow)
    BY <1>5, <1>6, <1>12, <1>13 DEF AreGrowing
  <2>2. Cardinality(Node) <= c + 1
    BY <1>1, <1>2
  <2> QED
    BY <1>2, <2>1, <2>2, ClosureReached
<1>15. g[c] \in SUBSET Node /\ n \in g[c] /\ Under(g[c]) = g[c]
  BY <1>5, <1>14 DEF IsClosure
<1>16. ASSUME NEW S \in SUBSET Node, n \in S, \A m \in S : Kids(h, m) \subseteq S PROVE g[c] \subseteq S
  <2>1. \A x \in SUBSET S : grow[x] \subseteq S
    <3> SUFFICES ASSUME NEW x \in SUBSET S, NEW y \in grow[x] PROVE y \in S
      OBVIOUS
    <3>1. x \in SUBSET Node /\ y \in Under(x)
      BY <1>5
    <3>2. y \in x \/ \E m \in x : y \in Kids(h, m)
      BY <1>4, <3>1
    <3> QED
      BY <1>16, <3>2
  <2> QED
    BY <1>14, <1>16, <2>1 DEF IsClosure
<1>17. \A m \in g[c] : Kids(h, m) \subseteq g[c]
  BY <1>4, <1>15
<1> QED
  BY <1>10, <1>15, <1>16, <1>17 DEF IsTreeOf

\* The ancestors of a class are what its super class, and theirs, lead to.
IsAncestry(c, A) ==
  /\ A \in SUBSET (Class \cup {Zero}) /\ c \in A
  /\ \A d \in A : d # Zero => SuperOf(d) \in A
  /\ \A S \in SUBSET (Class \cup {Zero}) : c \in S /\ (\A d \in S : d # Zero => SuperOf(d) \in S) => A \subseteq S

LEMMA AncestorsAre ==
  ASSUME file \in Files, NEW n \in Class \cup {Zero}
  PROVE  IsAncestry(n, Ancestors(n))
<1> DEFINE Above(s) == s \cup {SuperOf(d) : d \in s \ {Zero}}
           Equation(f) == f = [k \in 0..Cardinality(Class) |->
                                 IF k = 0 THEN {n}
                                 ELSE f[k - 1] \cup {SuperOf(d) : d \in f[k - 1] \ {Zero}}]
<1>1. PICK c : c = Cardinality(Class)
  OBVIOUS
<1>2. PICK N : N = Class \cup {Zero}
  OBVIOUS
<1>3. c \in Nat /\ IsFiniteSet(N) /\ Cardinality(N) <= c + 1
  <2>1. IsFiniteSet(Class) /\ Zero \notin Class
    BY AddressesAssumption
  <2>2. c \in Nat /\ IsFiniteSet(Class \cup {Zero}) /\ Cardinality(Class \cup {Zero}) = c + 1
    BY <1>1, <2>1, FS_CardinalityType, FS_AddElement
  <2> QED
    BY <1>2, <2>2
<1>4. \A d : SuperOf(d) \in N
  BY <1>2, FileTypes DEF SuperOf, Readable
<1>5. \A s \in SUBSET N : /\ Above(s) \in SUBSET N /\ s \subseteq Above(s)
                          /\ \A d \in s : d # Zero => SuperOf(d) \in Above(s)
                          /\ \A x : x \in Above(s) => x \in s \/ \E d \in s : d # Zero /\ x = SuperOf(d)
  BY <1>4
<1> HIDE DEF Above
<1> DEFINE grow == [s \in SUBSET N |-> Above(s)]
<1>6. grow \in [SUBSET N -> SUBSET N] /\ \A s \in SUBSET N : s \subseteq grow[s] /\ grow[s] = Above(s)
  BY <1>5
<1> HIDE DEF grow
<1>7. {n} \in SUBSET N /\ {n} # {}
  BY <1>2
<1>8. PICK f : f \in [0..c -> SUBSET N] /\ f[0] = {n} /\ \A k \in 1..c : f[k] = grow[f[k - 1]]
  <2> DEFINE T == SUBSET N
             b == {n}
  <2>1. grow \in [T -> T] /\ b \in T /\ c \in Nat
    BY <1>3, <1>6, <1>7
  <2> HIDE DEF T, b
  <2>2. \E f : Ind!AreSteps(f, T, b, c, grow)
    BY <2>1, Ind!StepsExist
  <2> QED
    BY <2>2 DEF T, b, Ind!AreSteps
<1>9. Equation(f)
  <2>1. ASSUME NEW k \in 0..c PROVE f[k] = IF k = 0 THEN {n} ELSE Above(f[k - 1])
    <3>1. k = 0 \/ (k # 0 /\ k \in 1..c /\ k - 1 \in 0..c)
      BY <1>3
    <3>2. k # 0 => f[k - 1] \in SUBSET N
      BY <1>8, <3>1
    <3> QED
      BY <1>6, <1>8, <3>1, <3>2
  <2> QED
    BY <1>1, <1>8, <2>1 DEF Above
<1> DEFINE g == CHOOSE f_1 : Equation(f_1)
<1>10. Equation(g)
  BY <1>9
<1>11. Ancestors(n) = g[c]
  BY <1>1 DEF Ancestors
<1>12. \A k \in 0..c : g[k] = IF k = 0 THEN {n} ELSE Above(g[k - 1])
  BY <1>1, <1>10 DEF Above
<1> HIDE DEF g, Equation
<1>13. g[0] = {n}
  <2>1. 0 \in 0..c
    BY <1>3
  <2> QED
    BY <1>12, <2>1, Zenon
<1>14. \A k \in 1..c : g[k - 1] \in SUBSET N => g[k] = grow[g[k - 1]]
  <2> SUFFICES ASSUME NEW k \in 1..c, g[k - 1] \in SUBSET N PROVE g[k] = grow[g[k - 1]]
    OBVIOUS
  <2>1. k \in 0..c /\ k # 0
    BY <1>3
  <2> QED
    BY <1>6, <1>12, <2>1
<1>15. IsClosure(g[c], N, {n}, grow)
  <2>1. AreGrowing(g, N, {n}, c, grow)
    BY <1>6, <1>7, <1>13, <1>14 DEF AreGrowing
  <2> QED
    BY <1>3, <2>1, ClosureReached
<1>16. g[c] \in SUBSET N /\ n \in g[c] /\ Above(g[c]) = g[c]
  BY <1>6, <1>15 DEF IsClosure
<1>17. ASSUME NEW S \in SUBSET N, n \in S, \A d \in S : d # Zero => SuperOf(d) \in S PROVE g[c] \subseteq S
  <2>1. \A x \in SUBSET S : grow[x] \subseteq S
    <3> SUFFICES ASSUME NEW x \in SUBSET S, NEW y \in grow[x] PROVE y \in S
      OBVIOUS
    <3>1. x \in SUBSET N /\ y \in Above(x)
      BY <1>6
    <3>2. y \in x \/ \E d \in x : d # Zero /\ y = SuperOf(d)
      BY <1>5, <3>1
    <3> QED
      BY <1>17, <3>2
  <2> QED
    BY <1>15, <1>17, <2>1 DEF IsClosure
<1>18. \A d \in g[c] : d # Zero => SuperOf(d) \in g[c]
  BY <1>5, <1>16
<1> QED
  BY <1>2, <1>11, <1>16, <1>17, <1>18 DEF IsAncestry

\* A class and the ancestors of its super class.
LEMMA AncestorsOfSuper ==
  ASSUME file \in Files, NEW c \in Class
  PROVE  /\ SuperOf(c) \in Class \cup {Zero}
         /\ Ancestors(c) = {c} \cup Ancestors(SuperOf(c))
         /\ Ancestors(Zero) = {Zero}
<1>1. SuperOf(c) \in Class \cup {Zero} /\ c # Zero
  BY FileTypes, Addresses DEF SuperOf, Readable
<1>2. IsAncestry(c, Ancestors(c)) /\ IsAncestry(SuperOf(c), Ancestors(SuperOf(c))) /\ IsAncestry(Zero, Ancestors(Zero))
  BY <1>1, AncestorsAre
<1>3. Ancestors(Zero) \subseteq {Zero} /\ Zero \in Ancestors(Zero)
  <2>1. {Zero} \in SUBSET (Class \cup {Zero})
    OBVIOUS
  <2> QED
    BY <1>2, <2>1 DEF IsAncestry
<1>4. Ancestors(c) \subseteq {c} \cup Ancestors(SuperOf(c))
  <2> DEFINE S == {c} \cup Ancestors(SuperOf(c))
  <2>1. S \in SUBSET (Class \cup {Zero}) /\ c \in S /\ \A d \in S : d # Zero => SuperOf(d) \in S
    BY <1>2 DEF IsAncestry
  <2> HIDE DEF S
  <2>2. Ancestors(c) \subseteq S
    BY <1>2, <2>1 DEF IsAncestry
  <2> QED
    BY <2>2 DEF S
<1>5. c \in Ancestors(c) /\ Ancestors(SuperOf(c)) \subseteq Ancestors(c)
  <2>1. /\ Ancestors(c) \in SUBSET (Class \cup {Zero}) /\ c \in Ancestors(c) /\ SuperOf(c) \in Ancestors(c)
        /\ \A d \in Ancestors(c) : d # Zero => SuperOf(d) \in Ancestors(c)
    BY <1>1, <1>2 DEF IsAncestry
  <2> QED
    BY <1>2, <2>1 DEF IsAncestry
<1> QED
  BY <1>1, <1>3, <1>4, <1>5

\* A class with a root above it is not rootless, and is not its own ancestor.
LEMMA RootIsNotRootless ==
  ASSUME file \in Files, NEW c \in Class, RootClass(c)
  PROVE  ~Rootless(c)
<1>1. c # Zero /\ SuperOf(c) = Zero /\ Ancestors(Zero) = {Zero} /\ Ancestors(c) = {c} \cup {Zero}
  BY AncestorsOfSuper, Addresses DEF RootClass
<1>2. ~OnCycle(c)
  BY <1>1 DEF OnCycle
<1> QED
  BY <1>1, <1>2 DEF Rootless, RootClass

\* A class that can be read is no more rootless than its super class.
LEMMA ChildIsNotRootless ==
  ASSUME file \in Files, NEW c \in Class, Readable(c), SuperOf(c) \in Class, SuperOf(c) # c, ~Rootless(SuperOf(c))
  PROVE  ~Rootless(c)
<1>1. PICK p : p = SuperOf(c)
  OBVIOUS
<1>2. /\ p \in Class /\ p # c /\ p # Zero /\ c # Zero /\ Ancestors(c) = {c} \cup Ancestors(p)
      /\ Ancestors(p) = {p} \cup Ancestors(SuperOf(p)) /\ SuperOf(p) \in Class \cup {Zero}
  BY <1>1, AncestorsOfSuper, Addresses
<1>3. IsAncestry(SuperOf(p), Ancestors(SuperOf(p)))
  BY <1>2, AncestorsAre
<1>4. ~OnCycle(c)
  <2> SUFFICES ASSUME OnCycle(c) PROVE FALSE
    OBVIOUS
  <2>1. c \in Ancestors(SuperOf(p))
    BY <1>1, <1>2 DEF OnCycle
  <2>2. p \in Ancestors(SuperOf(p))
    BY <1>1, <1>2, <1>3, <2>1 DEF IsAncestry
  <2>3. OnCycle(p) /\ p \in Ancestors(p) \ {Zero}
    BY <1>2, <2>2 DEF OnCycle
  <2> QED
    BY <1>1, <2>3 DEF Rootless
<1> QED
  BY <1>1, <1>2, <1>4 DEF Rootless

\* Nor is its super class, then.
LEMMA SuperIsNotRootless ==
  ASSUME file \in Files, NEW c \in Class, ~Rootless(c)
  PROVE  /\ ~OnCycle(c) /\ (~Readable(c) => c \notin Listed)
         /\ SuperOf(c) \in Class => ~Rootless(SuperOf(c))
<1>1. c # Zero /\ Ancestors(c) = {c} \cup Ancestors(SuperOf(c))
  BY AncestorsOfSuper, Addresses
<1>2. c \in Ancestors(c) \ {Zero}
  BY <1>1
<1> QED
  BY <1>1, <1>2 DEF Rootless

LEMMA SuperFromInv == TypeInv /\ TreeInv => SuperIsTheImages
<1> SUFFICES ASSUME TypeInv, TreeParts, pc \in {"categories", "done"},
                    NEW c \in Known \cap Class, ~classes[c].null
             PROVE  \/ classes[c].super # Null /\ rehashed
                    \/ SuperOf(c) \in {Zero, c}
                    \/ c \in ChildList(heap, SuperOf(c)) /\ heap.parent[c] = SuperOf(c)
  BY DEF SuperIsTheImages, TreeInv
<1>1. rest = {} /\ fixing = Null /\ c # Null /\ c \in Node /\ Known \subseteq Node /\ Forest(heap)
  BY Addresses DEF TreeParts, StartInv, TypeInv, IsList
<1>2. CASE classes[c].super # Null
  BY <1>1, <1>2 DEF TreeParts, WaitingInv
<1>3. CASE classes[c].super = Null
  <2> SUFFICES ASSUME SuperOf(c) \notin {Zero, c}
               PROVE  c \in ChildList(heap, SuperOf(c)) /\ heap.parent[c] = SuperOf(c)
    OBVIOUS
  <2>1. heap.parent[c] = SuperOf(c) /\ SuperOf(c) \in Known
    BY <1>3 DEF TreeParts, PlacedInv
  <2> QED
    BY <1>1, <2>1, ListIsKids DEF Kids
<1> QED
  BY <1>2, <1>3

\* The classes of the tree, when nothing was inserted behind the walk.
TreeMade == pc = "categories" /\ at = 0 /\ ~rehashed

\* A class under the root is known, and a root is made above it.
LEMMA InTreeIsKnown ==
  ASSUME TypeInv, TreeParts, TreeMade, root # Null, NEW c \in Subtree(heap, root), c \in Class
  PROVE  c \in Known /\ ~Rootless(c)
<1>1. /\ file \in Files /\ root \in Known /\ root \in Node /\ Forest(heap) /\ Known \subseteq Node
      /\ Null \notin Node /\ Zero \notin Class /\ Class \subseteq Node /\ heap \in Heap
  BY Addresses DEF TypeInv, NodesTyped, IsList, TreeParts, Links
<1>2. IsTreeOf(heap, root, Subtree(heap, root))
  BY <1>1, SubtreeIsTree
<1> DEFINE S == {n \in Node : n \in Class => n \in Known /\ ~Rootless(n)}
<1>3. root \in S
  <2>1. root \in Class => RootClass(root)
    BY DEF TreeParts, RootsInv
  <2> QED
    BY <1>1, <2>1, RootIsNotRootless
<1>4. ASSUME NEW m \in S, NEW k \in Kids(heap, m) PROVE k \in S
  <2> SUFFICES ASSUME k \in Class PROVE k \in Known /\ ~Rootless(k)
    BY DEF Kids
  <2>1. m \in Node /\ k \in Node /\ heap.parent[k] = m /\ m # Null
    BY <1>1 DEF Kids
  <2>2. k \in Known
    BY <2>1 DEF TreeParts, LooseInv
  <2>3. CASE m \in Class
    <3>1. Readable(k) /\ SuperOf(k) = m /\ m # k
      BY <2>1, <2>3 DEF TreeParts, ParentsInv
    <3>2. ~Rootless(m)
      BY <2>3
    <3> QED
      BY <1>1, <2>2, <2>3, <3>1, <3>2, ChildIsNotRootless
  <2>4. CASE m \notin Class
    <3>1. m = Zero /\ RootClass(k)
      BY <2>1, <2>4 DEF TreeParts, ParentsInv
    <3> QED
      BY <1>1, <2>2, <3>1, RootIsNotRootless
  <2> QED
    BY <2>3, <2>4
<1>5. Subtree(heap, root) \subseteq S
  <2>1. S \in SUBSET Node /\ root \in S /\ \A m \in S : Kids(heap, m) \subseteq S
    BY <1>3, <1>4
  <2> HIDE DEF S
  <2> QED
    BY <1>2, <2>1 DEF IsTreeOf
<1> QED
  BY <1>5

\* A class that is known and not in the tree has a super class that is not either,
\* unless there is no root above it.
LEMMA SuperNotInTree ==
  ASSUME TypeInv, TreeParts, TreeMade, NEW inTree, inTree = IF root = Null THEN {} ELSE Subtree(heap, root),
         NEW c \in Known \cap Class, ~Rootless(c), c \notin inTree
  PROVE  SuperOf(c) \in Known \cap Class /\ ~Rootless(SuperOf(c)) /\ SuperOf(c) \notin inTree
<1>1. /\ file \in Files /\ Forest(heap) /\ Known \subseteq Node /\ rest = {} /\ fixing = Null
      /\ roots = <<>> /\ Len(roots) = 0
      /\ Null \notin Node /\ Zero \in Node /\ Zero \notin Class /\ Class \subseteq Node /\ heap \in Heap
  BY Addresses DEF TypeInv, IsList, TreeParts, Links, StartInv, TreeMade
<1>2. root # Null => /\ root \in Node /\ root \in inTree
                     /\ \A m \in inTree : m \in Node /\ Kids(heap, m) \subseteq inTree
  <2> SUFFICES ASSUME root # Null
               PROVE  root \in Node /\ root \in inTree /\ \A m \in inTree : m \in Node /\ Kids(heap, m) \subseteq inTree
    OBVIOUS
  <2>1. root \in Node
    BY <1>1 DEF TypeInv, NodesTyped
  <2> QED
    BY <1>1, <2>1, SubtreeIsTree DEF IsTreeOf
<1>3. ~IsRoot(c)
  <2> SUFFICES ASSUME IsRoot(c) PROVE FALSE
    OBVIOUS
  <2>1. c = root \/ heap.parent[c] = Zero
    BY <1>1 DEF IsRoot
  <2>2. CASE c = root
    BY <1>1, <1>2, <2>2
  <2>3. CASE heap.parent[c] = Zero
    <3>1. root = Zero /\ root # Null /\ c \in Kids(heap, root)
      BY <1>1, <2>3 DEF TreeParts, ParentsInv, Kids
    <3> QED
      BY <1>2, <3>1
  <2> QED
    BY <2>1, <2>2, <2>3
<1>4. ~OnCycle(c) /\ (~Readable(c) => c \notin Listed) /\ (SuperOf(c) \in Class => ~Rootless(SuperOf(c)))
  BY <1>1, SuperIsNotRootless
<1>5. ~classes[c].null
  BY <1>1, <1>3, <1>4 DEF TreeParts, NullInv, TreeMade
<1>6. classes[c].super = Null
  BY <1>1 DEF TreeParts, WaitingInv, TreeMade
<1>7. SuperOf(c) # Zero
  BY <1>3, <1>5, <1>6 DEF TreeParts, PlacedInv
<1>8. SuperOf(c) # c
  <2>1. c \in Ancestors(c)
    BY <1>1, AncestorsOfSuper
  <2> QED
    BY <1>4, <2>1 DEF OnCycle
<1>9. heap.parent[c] = SuperOf(c) /\ SuperOf(c) \in Known
  BY <1>5, <1>6, <1>7, <1>8 DEF TreeParts, PlacedInv
<1>10. SuperOf(c) \in Class
  BY <1>1, <1>7, AncestorsOfSuper
<1>11. SuperOf(c) \notin inTree
  <2> SUFFICES ASSUME SuperOf(c) \in inTree PROVE FALSE
    OBVIOUS
  <2>1. root # Null
    OBVIOUS
  <2>2. c \in Kids(heap, SuperOf(c))
    BY <1>1, <1>9 DEF Kids
  <2> QED
    BY <1>2, <2>1, <2>2
<1> QED
  BY <1>4, <1>9, <1>10, <1>11

LEMMA TreeFromInv == TypeInv /\ TreeInv => TreeHoldsEveryClass
<1> SUFFICES ASSUME TypeInv, TreeParts, TreeMade
             PROVE  LET inTree == IF root = Null THEN {} ELSE Subtree(heap, root)
                    IN  inTree \cap Class = {c \in Known \cap Class : ~Rootless(c)}
  BY DEF TreeHoldsEveryClass, TreeInv, TreeMade
<1>1. PICK inTree : inTree = IF root = Null THEN {} ELSE Subtree(heap, root)
  OBVIOUS
<1>2. \A c \in inTree : c \in Class => c \in Known /\ ~Rootless(c)
  BY <1>1, InTreeIsKnown
<1> DEFINE Bad == {c \in Known \cap Class : ~Rootless(c) /\ c \notin inTree}
<1>3. Bad = {}
  <2> SUFFICES ASSUME Bad # {} PROVE FALSE
    OBVIOUS
  <2>1. file \in Files
    BY DEF TypeInv
  <2>2. ASSUME NEW c \in Bad PROVE SuperOf(c) \in Bad /\ c \in Class /\ ~Rootless(c)
    BY <1>1, SuperNotInTree
  <2> HIDE DEF Bad
  <2>3. \A c \in Class : IsFiniteSet(Ancestors(c)) /\ Cardinality(Ancestors(c)) \in Nat
    <3> SUFFICES ASSUME NEW c \in Class PROVE IsFiniteSet(Ancestors(c))
      BY FS_CardinalityType
    <3>1. Ancestors(c) \in SUBSET (Class \cup {Zero})
      BY <2>1, AncestorsAre DEF IsAncestry
    <3>2. IsFiniteSet(Class \cup {Zero})
      BY AddressesAssumption, FS_AddElement
    <3> QED
      BY <3>1, <3>2, FS_Subset
  <2> DEFINE Sizes == {Cardinality(Ancestors(c)) : c \in Bad}
  <2>4. Sizes \in SUBSET Nat /\ Sizes # {}
    BY <2>2, <2>3
  <2> HIDE DEF Sizes
  <2>5. PICK i \in Sizes : \A j \in Sizes : i <= j
    BY <2>4, Ind!LeastExists
  <2>6. PICK c \in Bad : i = Cardinality(Ancestors(c))
    BY <2>5 DEF Sizes
  <2>7. PICK p : p = SuperOf(c)
    OBVIOUS
  <2>8. p \in Bad /\ c \in Class /\ p \in Class /\ ~Rootless(c)
    BY <2>2, <2>7
  <2>9. i <= Cardinality(Ancestors(p))
    BY <2>5, <2>8 DEF Sizes
  <2>10. Ancestors(p) \in SUBSET Ancestors(c) /\ c \in Ancestors(c)
    BY <2>1, <2>7, <2>8, AncestorsOfSuper
  <2>11. Cardinality(Ancestors(p)) <= Cardinality(Ancestors(c))
         /\ (Cardinality(Ancestors(p)) = Cardinality(Ancestors(c)) => Ancestors(p) = Ancestors(c))
    BY <2>3, <2>8, <2>10, FS_Subset
  <2>12. Cardinality(Ancestors(p)) = Cardinality(Ancestors(c))
    <3>1. Cardinality(Ancestors(p)) \in Nat /\ Cardinality(Ancestors(c)) \in Nat
      BY <2>3, <2>8
    <3> QED
      BY <2>6, <2>9, <2>11, <3>1
  <2>13. OnCycle(c)
    BY <2>7, <2>10, <2>11, <2>12 DEF OnCycle
  <2> QED
    BY <2>1, <2>8, <2>13, SuperIsNotRootless
<1>4. \A c \in Known \cap Class : ~Rootless(c) => c \in inTree
  BY <1>3
<1> QED
  BY <1>1, <1>2, <1>4

\* The tree is the one the image describes, when no super class is bound, though
\* List grows while it is walked.
THEOREM TreeStaysTheImages == Spec => []TreeIsTheImages
<1>1. TypeInv /\ CatInv /\ TreeInv => TreeIsTheImages
  BY SuperFromInv, TreeFromInv DEF TreeIsTheImages
<1> QED
  BY <1>1, TreeAlways, PTL

=============================================================================

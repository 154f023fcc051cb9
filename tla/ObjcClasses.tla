---------------------------- MODULE ObjcClasses ----------------------------
(***************************************************************************)
(* The Objective-C classes of an image and their categories, behind        *)
(* --list-objc-classes: ObjcClassInfoCollection::Parse and                 *)
(* ObjcClassCategoryCollection::CollectFrom (ADT/Mach-O/ObjcUtil.cpp,      *)
(* ObjcParse.h).  Classes are read into a map by their address, then each  *)
(* is made a child of its super class, in the order a walk over that map   *)
(* finds them, and what is left without one is put under a root.           *)
(*                                                                         *)
(* An image gives, for every address of a class, whether it can be read    *)
(* and the address of its super class.  What the binds say is in the file  *)
(* too: the entries of the section, and the super classes, that are bound  *)
(* in the collection the parser was given.                                 *)
(***************************************************************************)
EXTENDS TreeNodes, Sequences, SequencesExt

CONSTANTS
    Class,          \* the addresses of classes
    Slots,          \* the addresses of a section of references, one per entry
    Zero,           \* the address 0
    NameOf,         \* for each class, its name
    External,       \* the classes of other images, each a name and an ordinal
    Files           \* the images considered

\* No class is at the address 0 or in the section of references.
ASSUME AddressesAssumption ==
    /\ Node = Class \cup ToSet(Slots) \cup {Zero} /\ Null \notin Node
    /\ IsFiniteSet(Class) /\ Slots \in Seq(Node)
    /\ \A i, j \in DOMAIN Slots : Slots[i] = Slots[j] => i = j
    /\ Zero \notin Class \cup ToSet(Slots) /\ Class \cap ToSet(Slots) = {}

VARIABLES
    file,           \* the image
    pc,             \* what Parse() is at
    at,             \* the entries of the section, or categories, read so far
    classes,        \* List: the classes by their address
    heap,           \* their links as nodes of the tree
    roots,          \* ExternalAndRootClassList
    rest,           \* the classes the walk over List has still to come to
    fixing,         \* the class FixSuperForClassInfo is called for, or Null
    rehashed,       \* ghost: an insertion rehashed List under the walk
    root,           \* Root
    categories      \* what CollectFrom has collected

vars == <<file, pc, at, classes, heap, roots, rest, fixing, rehashed, root, categories>>

(***************************************************************************)
(* What an entry of the section holds: a pointer, or a bind.  A bind may   *)
(* have no symbol: only the first of a name has one (BindUtil.cpp:131).    *)
(***************************************************************************)
Pointer(c) == [kind |-> "pointer", class |-> c]
Bound(e) == [kind |-> "bind", external |-> e]
Nameless == [kind |-> "nameless"]
Unbound == [kind |-> "unbound"]

Bounds == {Bound(e) : e \in External} \cup {Nameless}
Pointers == {Pointer(c) : c \in Class \cup {Zero}}
Unreadable == [kind |-> "unreadable"]    \* of a category

ASSUME FilesAssumption ==
    \A f \in Files :
        /\ f.section \in {"none", "list", "refs"}
        /\ f.bindsParsed \in BOOLEAN /\ f.aligned \in BOOLEAN
        /\ f.entries \in Seq(Pointers \cup Bounds) /\ Len(f.entries) <= Len(Slots)
        /\ f.super \in [Class -> Class \cup {Zero}] /\ f.readable \subseteq Class
        /\ f.superBind \in [Class -> Bounds \cup {Unbound}]
        /\ f.categories \in Seq(Pointers \cup Bounds \cup {Unreadable})

Init ==
    /\ file \in Files
    /\ pc = "open" /\ at = 0
    /\ classes = <<>> /\ heap = EmptyHeap
    /\ roots = <<>> /\ rest = {} /\ fixing = Null /\ rehashed = FALSE
    /\ root = Null /\ categories = <<>>

Known == DOMAIN classes

\* AddClassToList: a class that is there already stays.
With(list, addr, info) ==
    IF addr \in DOMAIN list THEN list
    ELSE [c \in DOMAIN list \cup {addr} |-> IF c = addr THEN info ELSE list[c]]

ExternalClass(e) ==
    [null |-> FALSE, external |-> TRUE, super |-> Null, name |-> e.name,
     ordinal |-> e.ordinal, categories |-> <<>>]
NullClass ==
    [null |-> TRUE, external |-> FALSE, super |-> Null, name |-> "",
     ordinal |-> 0, categories |-> <<>>]

\* ParseObjcClass: super stands for the address with its lowest bit set that
\* the parent of a class holds until its super class is looked for.
ParseObjcClass(c) ==
    IF c \notin file.readable THEN NullClass
    ELSE [null |-> FALSE, external |-> FALSE, super |-> file.super[c],
          name |-> NameOf[c], ordinal |-> 0, categories |-> <<>>]

\* Parse(): without a section, or when the binds of its range cannot be
\* collected or its size is no multiple of a pointer, nothing is read.
OpenSection ==
    /\ pc = "open"
    /\ pc' = CASE file.section = "none" \/ ~file.bindsParsed -> "categories"
               [] file.section # "none" /\ file.bindsParsed /\ ~file.aligned -> "adjust"
               [] OTHER -> "read"
    /\ UNCHANGED <<file, at, classes, heap, roots, rest, fixing, rehashed, root, categories>>

ReadPointer(c) ==
    /\ classes' = IF c = Zero THEN classes ELSE With(classes, c, ParseObjcClass(c))
    /\ UNCHANGED roots

\* An entry of __objc_classlist, or of __objc_classrefs.
ReadEntry ==
    /\ pc = "read" /\ at < Len(file.entries)
    /\ at' = at + 1
    /\ LET entry == file.entries[at + 1]
       IN \/ /\ entry.kind = "pointer"
             /\ ReadPointer(entry.class)
             /\ UNCHANGED pc
          \/ /\ entry.kind = "bind"
             /\ IF file.section = "list"
                THEN ReadPointer(Zero)
                ELSE /\ classes' = With(classes, Slots[at + 1], ExternalClass(entry.external))
                     /\ roots' = Append(roots, Slots[at + 1])
             /\ UNCHANGED pc
          \/ /\ entry.kind = "nameless"
             /\ pc' = IF file.section = "list" THEN pc ELSE "crashed"
             /\ UNCHANGED <<classes, roots>>
    /\ UNCHANGED <<file, heap, rest, fixing, rehashed, root, categories>>

BeginFix ==
    /\ pc = "read" /\ at = Len(file.entries)
    /\ pc' = "fix"
    /\ at' = 0
    /\ rest' = Known
    /\ UNCHANGED <<file, classes, heap, roots, fixing, rehashed, root, categories>>

-----------------------------------------------------------------------------
(* FixSuperClassForClassList *)

\* How p->AddChild(n) ends: the loop over n's siblings may not, and the setters
\* assert that no node becomes its own neighbour or child.
AddChildOutcome(p, n) ==
    LET this == heap.last[p]
    IN CASE ~RangeEnds(heap, n) -> "hung"
         [] RangeEnds(heap, n) /\ IsLeaf(heap, p) /\ p = n -> "aborted"
         [] RangeEnds(heap, n) /\ ~IsLeaf(heap, p)
               /\ (this = n \/ heap.next[this] = Back(heap, n)) -> "aborted"
         [] OTHER -> pc

\* SetSuperClassForClassInfo(p, n), with List as it is before: a class that is
\* its own super class gets none, and becomes no root either.
SetSuper(list, p, n) ==
    /\ classes' = [list EXCEPT ![n].super = Null]
    /\ IF p = n
       THEN heap' = [heap EXCEPT !.parent[n] = Null] /\ UNCHANGED pc
       ELSE /\ pc' = AddChildOutcome(p, n)
            /\ heap' = IF AddChildOutcome(p, n) = pc THEN AddChildrenRaw(heap, p, n) ELSE heap

\* Insertion of addr into List while it is walked: it may come before or after
\* the place the walk is at, and if List is rehashed the rest of the walk may
\* be any of it.
InsertInWalk(addr) ==
    IF addr \in Known THEN UNCHANGED <<rest, rehashed>>
    ELSE \/ rest' \in {rest, rest \cup {addr}} /\ UNCHANGED rehashed
         \/ rest' \in SUBSET (Known \cup {addr}) /\ rehashed' = TRUE

\* Mutant: the walk does not go on after a class it leaves alone.
PickClass_Stays ==
    /\ pc = "fix" /\ fixing = Null
    /\ \E c \in rest :
            /\ rest' = IF classes[c].external THEN rest ELSE rest \ {c}
            /\ fixing' = IF classes[c].super = Null \/ classes[c].external THEN Null ELSE c
    /\ UNCHANGED <<file, pc, at, classes, heap, roots, rehashed, root, categories>>

\* The next class of the walk; only one with an untreated super class is fixed.
PickClass ==
    /\ pc = "fix" /\ fixing = Null
    /\ \E c \in rest :
            /\ rest' = rest \ {c}
            /\ fixing' = IF classes[c].super = Null \/ classes[c].external THEN Null ELSE c
    /\ UNCHANGED <<file, pc, at, classes, heap, roots, rehashed, root, categories>>

Fixing == pc = "fix" /\ fixing # Null

SameExternal(c, e) == classes[c].ordinal = e.ordinal /\ classes[c].name = e.name

(***************************************************************************)
(* SetSuperWithBindAction: the super class is bound.  A class of that name *)
(* is looked for among the roots; if there is none, a new one is put at    *)
(* the address of the action, which is always 0 (BindUtil.h:139 writes     *)
(* another field), where there may be one already.                         *)
(***************************************************************************)
FixBoundSuper ==
    /\ Fixing /\ file.superBind[fixing].kind = "bind"
    /\ LET e == file.superBind[fixing].external
           found == {i \in DOMAIN roots : SameExternal(roots[i], e)}
           p == IF found # {} THEN roots[Min(found)] ELSE Zero
           list == IF found # {} THEN classes ELSE With(classes, Zero, ExternalClass(e))
       IN /\ SetSuper(list, p, fixing)
          /\ roots' = IF found # {} THEN roots ELSE Append(roots, Zero)
          /\ IF found # {} THEN UNCHANGED <<rest, rehashed>> ELSE InsertInWalk(Zero)
    /\ fixing' = Null
    /\ UNCHANGED <<file, at, root, categories>>

FixNamelessSuper ==
    /\ Fixing /\ file.superBind[fixing].kind = "nameless"
    /\ pc' = "crashed"
    /\ UNCHANGED <<file, at, classes, heap, roots, rest, fixing, rehashed, root, categories>>

\* The super class of c, where a class that could not be read has none.
SuperAddr(c) == IF classes[c].super = Null THEN Zero ELSE classes[c].super

\* setSuper(nullptr) and into the roots, also of one that was just given a
\* child.
FixRoot ==
    /\ Fixing /\ file.superBind[fixing].kind = "unbound" /\ SuperAddr(fixing) = Zero
    /\ classes' = [classes EXCEPT ![fixing].super = Null]
    /\ heap' = [heap EXCEPT !.parent[fixing] = Null]
    /\ roots' = Append(roots, fixing)
    /\ fixing' = Null
    /\ UNCHANGED <<file, pc, at, rest, rehashed, root, categories>>

\* SetSuperIfExists
FixKnownSuper ==
    /\ Fixing /\ file.superBind[fixing].kind = "unbound"
    /\ SuperAddr(fixing) \in Known \ {Zero}
    /\ SetSuper(classes, SuperAddr(fixing), fixing)
    /\ fixing' = Null
    /\ UNCHANGED <<file, at, roots, rest, rehashed, root, categories>>

\* Mutant: the super class that is found is not fixed in its turn.
FixNewSuper_NotRecursive ==
    LET p == SuperAddr(fixing)
    IN /\ Fixing /\ file.superBind[fixing].kind = "unbound" /\ p \notin Known \cup {Zero}
       /\ SetSuper(With(classes, p, ParseObjcClass(p)), p, fixing)
       /\ InsertInWalk(p)
       /\ fixing' = Null
       /\ UNCHANGED <<file, at, roots, root, categories>>

\* A super class that no entry named is read, and fixed in its turn.
FixNewSuper ==
    LET p == SuperAddr(fixing)
    IN /\ Fixing /\ file.superBind[fixing].kind = "unbound" /\ p \notin Known \cup {Zero}
       /\ SetSuper(With(classes, p, ParseObjcClass(p)), p, fixing)
       /\ InsertInWalk(p)
       /\ fixing' = p
       /\ UNCHANGED <<file, at, roots, root, categories>>

EndFix ==
    /\ pc = "fix" /\ fixing = Null /\ rest = {}
    /\ pc' = "adjust"
    /\ UNCHANGED <<file, at, classes, heap, roots, rest, fixing, rehashed, root, categories>>

-----------------------------------------------------------------------------
(* AdjustExternalAndRootClassList, and the categories *)

\* Mutant: the first of several roots is made the root of the others.
Adjust_FirstIsRoot ==
    /\ pc = "adjust"
    /\ IF roots = <<>>
       THEN pc' = "categories" /\ UNCHANGED root
       ELSE root' = Head(roots) /\ pc' = "adopt"
    /\ UNCHANGED <<file, at, classes, heap, roots, rest, fixing, rehashed, categories>>

\* Several roots are put under one more, at address 0, which is null.
Adjust ==
    /\ pc = "adjust"
    /\ CASE roots = <<>> -> pc' = "categories" /\ UNCHANGED <<classes, heap, root, roots>>
         [] Len(roots) = 1 ->
                /\ root' = Head(roots) /\ roots' = <<>>
                /\ pc' = "categories"
                /\ UNCHANGED <<classes, heap>>
         [] OTHER ->
                /\ root' = Zero
                /\ classes' = [With(classes, Zero, NullClass) EXCEPT ![Zero].null = TRUE]
                /\ pc' = "adopt"
                /\ UNCHANGED <<heap, roots>>
    /\ UNCHANGED <<file, at, rest, fixing, rehashed, categories>>

\* The root adopts one of the roots.
Adopt ==
    /\ pc = "adopt"
    /\ IF roots = <<>>
       THEN pc' = "categories" /\ UNCHANGED <<heap, roots>>
       ELSE /\ pc' = AddChildOutcome(root, Head(roots))
            /\ heap' = IF pc' = pc THEN AddChildrenRaw(heap, root, Head(roots)) ELSE heap
            /\ roots' = Tail(roots)
    /\ UNCHANGED <<file, at, classes, rest, fixing, rehashed, root, categories>>

Collected(class, null) == Append(categories, [class |-> class, null |-> null])

\* A category that cannot be read, and one of no class.
ReadBareCategory ==
    /\ pc = "categories" /\ at < Len(file.categories)
    /\ LET category == file.categories[at + 1]
       IN \/ category.kind = "unreadable" /\ categories' = Collected(Null, TRUE)
          \/ category.kind = "pointer" /\ category.class = Zero
                /\ categories' = Collected(Null, FALSE)
    /\ at' = at + 1
    /\ UNCHANGED <<file, pc, classes, heap, roots, rest, fixing, rehashed, root>>

\* Mutant: the category of a class that is not known yet is not added to it.
ReadCategory_KnownOnly ==
    /\ pc = "categories" /\ at < Len(file.categories)
    /\ LET category == file.categories[at + 1]
           c == category.class
           list == With(classes, c, NullClass)
       IN /\ category.kind = "pointer" /\ c # Zero
          /\ classes' = IF c \in Known
                        THEN [list EXCEPT ![c].categories = Append(@, at + 1)] ELSE list
          /\ categories' = Collected(c, FALSE)
    /\ at' = at + 1
    /\ UNCHANGED <<file, pc, heap, roots, rest, fixing, rehashed, root>>

\* The category of a class of the image, which is known or added as null.
ReadCategory ==
    /\ pc = "categories" /\ at < Len(file.categories)
    /\ LET category == file.categories[at + 1]
           c == category.class
           list == With(classes, c, NullClass)
       IN /\ category.kind = "pointer" /\ c # Zero
          /\ classes' = [list EXCEPT ![c].categories = Append(@, at + 1)]
          /\ categories' = Collected(c, FALSE)
    /\ at' = at + 1
    /\ UNCHANGED <<file, pc, heap, roots, rest, fixing, rehashed, root>>

\* The category of a bound class: any class of its name; if there is none, one
\* is added at address 0, unless something is there.  The category itself is
\* given no class, and the class no category.
ReadBoundCategory ==
    /\ pc = "categories" /\ at < Len(file.categories)
    /\ LET category == file.categories[at + 1]
       IN \/ /\ category.kind = "bind"
             /\ LET e == category.external
                IN classes' = IF \E c \in Known : classes[c].name = e.name THEN classes
                              ELSE With(classes, Zero, ExternalClass(e))
             /\ categories' = Collected(Null, FALSE)
             /\ UNCHANGED pc
          \/ /\ category.kind = "nameless"
             /\ pc' = "crashed"
             /\ UNCHANGED <<classes, categories>>
    /\ at' = at + 1
    /\ UNCHANGED <<file, heap, roots, rest, fixing, rehashed, root>>

End ==
    /\ pc = "categories" /\ at = Len(file.categories)
    /\ pc' = "done"
    /\ UNCHANGED <<file, at, classes, heap, roots, rest, fixing, rehashed, root, categories>>

Stopped == pc \in {"done", "crashed", "aborted", "hung"}
Finished == Stopped /\ UNCHANGED vars

Step == \/ OpenSection \/ ReadEntry \/ BeginFix \/ PickClass \/ FixBoundSuper
        \/ FixNamelessSuper \/ FixRoot \/ FixKnownSuper \/ FixNewSuper \/ EndFix
        \/ Adjust \/ Adopt \/ ReadBareCategory \/ ReadCategory \/ ReadBoundCategory
        \/ End
Next == Step \/ Finished
Spec == Init /\ [][Next]_vars
FairSpec == Spec /\ WF_vars(Step)

-----------------------------------------------------------------------------
(* Properties *)

TypeOK ==
    /\ heap \in Heap /\ rest \subseteq Known
    /\ root \in Known \cup {Null} /\ fixing \in Known \cup {Null}
    /\ ToSet(roots) \subseteq Known
    /\ \A c \in Known : classes[c].super \in Class \cup {Zero, Null}
    /\ \A c \in Known : \A i \in ToSet(classes[c].categories) : i \in 1..at

(***************************************************************************)
(* The super classes the image gives, without those that are bound.        *)
(***************************************************************************)
NothingBound == \A c \in Class : file.superBind[c] = Unbound
Readable(c) == c \in Class \cap file.readable
SuperOf(c) == IF Readable(c) THEN file.super[c] ELSE Zero

\* The ancestors of a class, itself included.
Ancestors(c) ==
    LET up[k \in 0..Cardinality(Class)] ==
            IF k = 0 THEN {c} ELSE up[k - 1] \cup {SuperOf(d) : d \in up[k - 1] \ {Zero}}
    IN up[Cardinality(Class)]
OnCycle(c) == c \in Ancestors(SuperOf(c))

\* The classes whose walk up ends where no root was made: on a cycle, or at a
\* class that is an entry of the section and cannot be read.
Listed == {file.entries[i].class : i \in {j \in 1..Len(file.entries) :
                                            file.entries[j].kind = "pointer"}}
Rootless(c) == \E d \in Ancestors(c) \ {Zero} :
                    OnCycle(d) \/ (~Readable(d) /\ d \in Listed)

\* When List was not rehashed under the walk, every class is in the tree, but
\* for the rootless ones, and nothing else is.
TreeHoldsEveryClass ==
    pc = "categories" /\ at = 0 /\ ~rehashed /\ NothingBound =>
        LET inTree == IF root = Null THEN {} ELSE Subtree(heap, root)
        IN inTree \cap Class = {c \in Known \cap Class : ~Rootless(c)}

\* Whatever the order of the walk, and rehashed or not, a class is a child of
\* the class the image names as its super class, or has not been treated.
SuperIsTheImages ==
    pc \in {"categories", "done"} /\ NothingBound =>
        \A c \in {k \in Known \cap Class : ~classes[k].null} :
            \/ classes[c].super # Null /\ rehashed
            \/ SuperOf(c) \in {Zero, c}
            \/ c \in ChildList(heap, SuperOf(c)) /\ heap.parent[c] = SuperOf(c)

\* The tree is the one the image describes, though super classes are fixed while
\* the map that is walked grows.
TreeIsTheImages == TreeHoldsEveryClass /\ SuperIsTheImages

\* No class has two places in the tree, and a walk over siblings ends.
OnePlace ==
    NothingBound /\ pc # "hung" =>
        \A p \in Known : \A c \in ChildList(heap, p) :
            heap.parent[c] = p /\ RangeEnds(heap, c)

\* The walk over the tree the printer makes comes to its end.
Walk(k) ==
    LET walk[i \in 0..k] ==
            IF i = 0 THEN root
            ELSE IF walk[i - 1] = Null THEN Null ELSE NextNode(heap, walk[i - 1])
    IN walk[k]
PrintingEnds == pc = "done" /\ NothingBound => Walk(Cardinality(Node)) = Null

\* The tree can be walked: a class is in it once, and no walk goes on for ever.
TreeIsSound == TypeOK /\ OnePlace /\ PrintingEnds

\* A category is in the list of exactly one class, the one whose address it
\* gives, also when that class was not known before.
CategoriesHaveTheirClass ==
    pc = "done" => \A i \in 1..at :
        LET category == file.categories[i]
            given == IF category.kind = "pointer" THEN category.class ELSE Zero
        IN {c \in Known : i \in ToSet(classes[c].categories)} = {given} \ {Zero}

\* Two super classes are bound to different classes, which share the address 0.
ShareAnAddress ==
    \E c, d \in Class : /\ file.superBind[c].kind = "bind" /\ file.superBind[d].kind = "bind"
                        /\ file.superBind[c] # file.superBind[d]

\* Parsing ends: no super class is fixed for ever, and no loop over siblings goes
\* in a circle, unless different classes are put at one address.
Terminates == <>(Stopped /\ (pc = "hung" => ShareAnAddress))

=============================================================================

--------------------------- MODULE MCObjcClasses ---------------------------
(* ObjcClasses on images with three classes, which may be one another's super
   classes in any way, and sections of at most three entries; and one image of
   four classes, where a loop over siblings goes in a circle. *)
EXTENDS ObjcClasses

CONSTANTS c1, c2, c3, c4, s1, s2, s3, s4, zero

MCClass == {c1, c2, c3, c4}
MCSlots == <<s1, s2, s3, s4>>
MCNode == MCClass \cup {s1, s2, s3, s4, zero}
MCNameOf == c1 :> "A" @@ c2 :> "B" @@ c3 :> "C" @@ c4 :> "D"
E1 == [name |-> "A", ordinal |-> 1]
E2 == [name |-> "X", ordinal |-> 1]
MCExternal == {E1, E2}

NoBinds == [c \in MCClass |-> Unbound]
File(section, entries, super, readable, superBind, cats) ==
    [section |-> section, bindsParsed |-> TRUE, aligned |-> TRUE, entries |-> entries,
     super |-> super, readable |-> readable, superBind |-> superBind, categories |-> cats]
Three == {c1, c2, c3}
Supers == {super @@ (c4 :> zero) : super \in [Three -> Three \cup {zero}]}

Plain ==
    {File("list", es, super, readable, NoBinds, <<>>) :
        es \in {<<Pointer(c1), Pointer(c2), Pointer(c3)>>, <<Pointer(c1), Pointer(c2)>>,
               <<Pointer(c1), Pointer(zero), Pointer(c1)>>},
        super \in Supers, readable \in SUBSET Three}
Chain == c1 :> c2 @@ c2 :> c3 @@ c3 :> zero @@ c4 :> zero
References ==
    {File("refs", es, Chain, MCClass, NoBinds, cats) :
        es \in {<<Pointer(c1), Bound(E1)>>, <<Bound(E2), Nameless>>, <<Bound(E1), Bound(E2), Pointer(c1)>>},
        cats \in {<<Pointer(c3), Pointer(c1)>>, <<Bound(E2), Pointer(zero)>>,
                  <<Bound(E1), Unreadable>>, <<Nameless>>}}
BoundSupers ==
    {File(section, <<Pointer(c1), Pointer(c2)>>, super, MCClass, superBind, <<>>) :
        section \in {"list", "refs"},
        super \in {[c \in MCClass |-> zero], Chain},
        superBind \in {[NoBinds EXCEPT ![c1] = Bound(E2)],
                       [NoBinds EXCEPT ![c1] = Bound(E2), ![c2] = Bound(E1)],
                       [NoBinds EXCEPT ![c1] = Bound(E2), ![c2] = Bound(E2)],
                       [NoBinds EXCEPT ![c2] = Nameless]}}
Circle ==
    {File("list", <<Pointer(c1), Pointer(c4), Pointer(c2), Pointer(c3)>>,
          [c \in MCClass |-> zero], MCClass,
          [NoBinds EXCEPT ![c1] = Bound(E2), ![c2] = Bound(E1), ![c3] = Bound(E1)], <<>>)}
Broken ==
    {[File("list", <<Pointer(c1)>>, Chain, MCClass, NoBinds, <<Pointer(c2)>>)
        EXCEPT !.section = s, !.bindsParsed = b, !.aligned = a] :
        s \in {"none", "list"}, b \in BOOLEAN, a \in BOOLEAN}
MCFiles == Plain \cup References \cup BoundSupers \cup Circle \cup Broken
=============================================================================

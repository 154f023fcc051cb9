------------------------------ MODULE SortKinds ------------------------------
(***************************************************************************)
(* The sort options of the lists.  What is listed has a key for each kind; *)
(* the operations give std::sort one comparator, by the kinds in turn.     *)
(***************************************************************************)
EXTENDS Sequences, FiniteSets, Naturals

LOCAL Seqs == INSTANCE SequencesExt

\* AddSortKind of a list: an option given twice counts once, where it was first.
SortKindList(options) ==
    LET new(k) == \A j \in 1..(k - 1) : options[j] # options[k]
        kept == Seqs!SetToSortSeq({k \in DOMAIN options : new(k)}, <)
    IN [k \in DOMAIN kept |-> options[kept[k]]]

\* Mutant: the last kind in which two differ decides.
Before_LastKind(kinds, a, b) ==
    \E j \in DOMAIN kinds :
        /\ \A k \in (j + 1)..Len(kinds) : a[kinds[k]] = b[kinds[k]]
        /\ a[kinds[j]] < b[kinds[j]]

\* The comparators: the first kind in which two differ decides.
Before(kinds, a, b) ==
    \E j \in DOMAIN kinds :
        /\ \A k \in 1..(j - 1) : a[kinds[k]] = b[kinds[k]]
        /\ a[kinds[j]] < b[kinds[j]]

\* What std::sort may make of S, with the keys of its elements.
Sorted(S, kinds, keys) ==
    {order \in [1..Cardinality(S) -> S] :
        /\ Cardinality({order[k] : k \in DOMAIN order}) = Cardinality(S)
        /\ \A j \in DOMAIN order, k \in DOMAIN order :
                j < k => ~Before(kinds, keys[order[k]], keys[order[j]])}

=============================================================================

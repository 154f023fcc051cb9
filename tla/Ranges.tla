------------------------------- MODULE Ranges -------------------------------
(***************************************************************************)
(* ADT/Range.h: a range of the file or of memory by its begin and size.    *)
(* An empty range has no location, yet overlaps every range its begin is   *)
(* in: Overlaps asks where the ranges begin, not what they hold.           *)
(***************************************************************************)
EXTENDS Naturals

Range(begin, size) == [begin |-> begin, size |-> size]

HasLocation(r, l) == l >= r.begin /\ l - r.begin < r.size

\* An end is one past a location, so no range at 0 ends at 0.
HasEndLocation(r, e) == e > r.begin /\ e - r.begin <= r.size

ContainsRange(r, q) == HasLocation(r, q.begin) /\ r.size - (q.begin - r.begin) >= q.size

\* A variant of Overlaps in which ranges that touch overlap.
Overlaps_Touching(r, q) ==
  \/ q.begin >= r.begin /\ q.begin - r.begin <= r.size
  \/ r.begin >= q.begin /\ r.begin - q.begin <= q.size

Overlaps(r, q) == HasLocation(r, q.begin) \/ HasLocation(q, r.begin)

\* What a range stands for, for the properties.
Locations(r) == r.begin..(r.begin + r.size - 1)

Meet(r, q) == Locations(r) \cap Locations(q) # {}

=============================================================================

----------------------------- MODULE MCSegments -----------------------------
(* Segments like __PAGEZERO, __TEXT and __DATA with bytes that are not in   *)
(* the file, and others that meet them in the file or in memory; sections   *)
(* of each, one at offset 0, one empty, and others out of place.            *)
EXTENDS Segments

Place(file, filesize, mem, memsize) ==
  [file |-> Range(file, filesize), mem |-> Range(mem, memsize)]

MCSegmentRanges ==
  {Place(0, 0, 0, 4), Place(0, 4, 4, 4), Place(4, 4, 8, 6), Place(2, 4, 14, 4), Place(8, 4, 6, 4)}

MCSectionRanges ==
  {Place(1, 2, 5, 2), Place(3, 1, 7, 1), Place(4, 2, 8, 2), Place(6, 2, 10, 2),
   Place(0, 2, 12, 2), Place(5, 2, 4, 2), Place(5, 0, 8, 0)}

MCAsked == (1..20) \X (1..2)

=============================================================================

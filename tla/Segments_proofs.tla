-------------------------- MODULE Segments_proofs --------------------------
(***************************************************************************)
(* Proofs about the checks of SegmentInfoCollection, for load commands of  *)
(* any number and size, and segments and sections at any places.           *)
(***************************************************************************)
EXTENDS Segments, TLAPS

Ind == INSTANCE Induction

(***************************************************************************)
(* Ranges                                                                  *)
(***************************************************************************)

\* What overlaps() finds is what Clash says: something in common, or an empty
\* range that begins inside the other.
LEMMA OverlapsIsClash ==
  ASSUME NEW r \in Extents, NEW q \in Extents
  PROVE  Overlaps(r, q) <=> Clash(r, q)
<1>1. r.begin \in Nat /\ r.size \in Nat /\ q.begin \in Nat /\ q.size \in Nat
  BY DEF Extents
<1>2. ASSUME Meet(r, q) PROVE Overlaps(r, q)
  BY <1>1, <1>2 DEF Meet, Locations, Overlaps, HasLocation
<1>3. ASSUME Overlaps(r, q), r.size # 0, q.size # 0 PROVE Meet(r, q)
  <2>1. CASE HasLocation(r, q.begin)
    <3>1. q.begin \in Locations(r) /\ q.begin \in Locations(q)
      BY <1>1, <1>3, <2>1 DEF Locations, HasLocation
    <3> QED
      BY <3>1 DEF Meet
  <2>2. CASE HasLocation(q, r.begin)
    <3>1. r.begin \in Locations(r) /\ r.begin \in Locations(q)
      BY <1>1, <1>3, <2>2 DEF Locations, HasLocation
    <3> QED
      BY <3>1 DEF Meet
  <2> QED
    BY <1>3, <2>1, <2>2 DEF Overlaps
<1>4. (q.begin \in Locations(r) <=> HasLocation(r, q.begin))
      /\ (r.begin \in Locations(q) <=> HasLocation(q, r.begin))
  BY <1>1 DEF Locations, HasLocation
<1>5. (r.size = 0 => ~HasLocation(r, q.begin)) /\ (q.size = 0 => ~HasLocation(q, r.begin))
  BY <1>1 DEF HasLocation
<1> QED
  BY <1>2, <1>3, <1>4, <1>5 DEF Clash, Overlaps

\* A range that another does not contain leaves it, or begins outside of it.
LEMMA NotContainedLeaves ==
  ASSUME NEW r \in Extents, NEW q \in Extents, ~ContainsRange(r, q)
  PROVE  ~(Locations(q) \subseteq Locations(r)) \/ q.begin \notin Locations(r)
<1>1. r.begin \in Nat /\ r.size \in Nat /\ q.begin \in Nat /\ q.size \in Nat
  BY DEF Extents
<1>2. SUFFICES ASSUME q.begin \in Locations(r) PROVE ~(Locations(q) \subseteq Locations(r))
  OBVIOUS
<1>3. r.begin + r.size < q.begin + q.size /\ r.begin <= q.begin /\ q.begin < r.begin + r.size
  BY <1>1, <1>2 DEF Locations, ContainsRange, HasLocation
<1>4. r.begin + r.size \in Locations(q) /\ r.begin + r.size \notin Locations(r)
  BY <1>1, <1>3 DEF Locations
<1> QED
  BY <1>4

(***************************************************************************)
(* The inductive invariant                                                 *)
(***************************************************************************)

SectionPlaces == {p \in Places : p.file.size = p.mem.size}
Segment == [file : Extents, mem : Extents, sections : Seq(SectionPlaces)]

TypeInv ==
  /\ pc \in {"open", "verify", "parse", "segments", "sections", "done"}
  /\ list \in Seq(Segment)
  /\ at.segment \in Nat \ {0} /\ at.section \in Nat
  /\ at = [segment |-> at.segment, section |-> at.section]

\* Segment i has passed the comparison with those before it, and its sections
\* up to the n-th have passed theirs.
Passed(i, n) == ~OverlapsEarlier(i) /\ \A k \in 1..n : SectionError(i, k) = "None"

\* Everything before the place the loops have reached has passed.
UpToHere ==
  /\ pc \in {"open", "verify", "parse"} => at.segment = 1
  /\ pc \in {"segments", "sections"} =>
       /\ at.segment - 1 <= Len(list)
       /\ \A i \in 1..(at.segment - 1) : Passed(i, Len(list[i].sections))
  /\ pc = "sections" =>
       /\ at.segment \in DOMAIN list
       /\ at.section # 0 /\ at.section - 1 <= Len(list[at.segment].sections)
       /\ Passed(at.segment, at.section - 1)
  /\ pc = "done" /\ error = "None" => \A i \in DOMAIN list : Passed(i, Len(list[i].sections))

\* An error of the checks ends them, and is about what they have reached.
ErrorsInv ==
  /\ pc # "done" => error \in {"None", "InvalidSectionList"}
  /\ error = "OverlappingSegments" => \E i \in DOMAIN list : OverlapsEarlier(i)
  /\ error \in {"InvalidSection", "OverlappingSections"} =>
       \E i \in DOMAIN list : \E k \in DOMAIN list[i].sections : SectionError(i, k) = error

CheckInv == TypeInv /\ UpToHere /\ ErrorsInv

LEMMA SectionsType ==
  ASSUME TypeInv, NEW i \in DOMAIN list
  PROVE  list[i].sections \in Seq(SectionPlaces)
<1>1. list \in Seq(Segment)
  BY DEF TypeInv
<1>2. list[i] \in Segment
  BY <1>1
<1> QED
  BY <1>2 DEF Segment

LEMMA CommandErrors ==
  ASSUME NEW s
  PROVE  CommandError(s) \in StorageErrors \cup {"None"}
BY DEF CommandError, StorageErrors

LEMMA SectionErrors ==
  ASSUME NEW i, NEW k
  PROVE  SectionError(i, k) \in {"None", "InvalidSection", "OverlappingSections"}
BY DEF SectionError

LEMMA InitChecks == Init => CheckInv
BY DEF Init, CheckInv, TypeInv, UpToHere, ErrorsInv

(***************************************************************************)
(* One lemma per action                                                    *)
(***************************************************************************)

LEMMA OpenStorageChecks == CheckInv /\ OpenStorage => CheckInv'
<1> SUFFICES ASSUME CheckInv, OpenStorage PROVE CheckInv'
  OBVIOUS
<1> USE DEF CheckInv, OpenStorage
<1>1. list' = list /\ at' = at /\ pc = "open"
  OBVIOUS
<1>2. \/ pc' = "done" /\ error' \in StorageErrors
      \/ pc' = "verify" /\ error' = error
  BY DEF Fail, StorageErrors
<1>3. TypeInv'
  BY <1>1, <1>2 DEF TypeInv
<1>4. UpToHere'
  BY <1>1, <1>2 DEF UpToHere, StorageErrors
<1>5. ErrorsInv'
  BY <1>1, <1>2 DEF ErrorsInv, StorageErrors
<1> QED
  BY <1>3, <1>4, <1>5

LEMMA VerifyCommandChecks ==
  ASSUME CheckInv, NEW s, VerifyCommand(s) PROVE CheckInv'
<1> USE DEF CheckInv, VerifyCommand
<1>1. list' = list /\ at' = at /\ pc = "verify"
  OBVIOUS
<1>2. \/ pc' = "done" /\ error' \in StorageErrors
      \/ pc' \in {"verify", "parse"} /\ error' = error
  <2>1. CASE CommandError(s) = "None"
    BY <2>1
  <2>2. CASE CommandError(s) # "None"
    BY <2>2, CommandErrors DEF Fail
  <2> QED
    BY <2>1, <2>2
<1>3. TypeInv'
  BY <1>1, <1>2 DEF TypeInv
<1>4. UpToHere'
  BY <1>1, <1>2 DEF UpToHere, StorageErrors
<1>5. ErrorsInv'
  BY <1>1, <1>2 DEF ErrorsInv, StorageErrors
<1> QED
  BY <1>3, <1>4, <1>5

LEMMA ParseCommandChecks == CheckInv /\ ParseCommand => CheckInv'
<1> SUFFICES ASSUME CheckInv, ParseCommand PROVE CheckInv'
  OBVIOUS
<1> USE DEF CheckInv, ParseCommand
<1>1. pc = "parse" /\ pc' = "parse" /\ at' = at
  OBVIOUS
<1>2. list' \in Seq(Segment) /\ error' \in {error, "InvalidSectionList"}
  <2>1. \A r \in SegmentRanges, sections \in Seq(SectionPlaces) :
          [file |-> r.file, mem |-> r.mem, sections |-> sections] \in Segment
    BY PlacesAssumption DEF Places, Segment
  <2>2. \A n \in 0..2 : \A sections \in [1..n -> SectionRanges] : sections \in Seq(SectionPlaces)
    <3> SUFFICES ASSUME NEW n \in 0..2, NEW sections \in [1..n -> SectionRanges]
                 PROVE  sections \in Seq(SectionPlaces)
      OBVIOUS
    <3>1. n \in Nat /\ sections \in [1..n -> SectionPlaces]
      BY PlacesAssumption DEF SectionPlaces
    <3> QED
      BY <3>1
  <2>3. CASE UNCHANGED <<list, error>>
    BY <2>3 DEF TypeInv
  <2>4. CASE ~UNCHANGED <<list, error>>
    <3>1. PICK r \in SegmentRanges, n \in 0..2 :
            IF SectionsFit(commands[walk.passed + 1], n)
            THEN /\ \E sections \in [1..n -> SectionRanges] :
                      list' = Append(list, [file |-> r.file, mem |-> r.mem, sections |-> sections])
                 /\ UNCHANGED error
            ELSE /\ list' = Append(list, [file |-> r.file, mem |-> r.mem, sections |-> <<>>])
                 /\ error' = "InvalidSectionList"
      BY <2>4
    <3>2. \E sections \in Seq(SectionPlaces) :
            list' = Append(list, [file |-> r.file, mem |-> r.mem, sections |-> sections])
      <4>1. CASE SectionsFit(commands[walk.passed + 1], n)
        <5>1. PICK sections \in [1..n -> SectionRanges] :
                list' = Append(list, [file |-> r.file, mem |-> r.mem, sections |-> sections])
          BY <3>1, <4>1
        <5>2. sections \in Seq(SectionPlaces)
          BY <2>2
        <5> QED
          BY <5>1, <5>2
      <4>2. CASE ~SectionsFit(commands[walk.passed + 1], n)
        <5>1. <<>> \in Seq(SectionPlaces)
          OBVIOUS
        <5> QED
          BY <3>1, <4>2, <5>1
      <4> QED
        BY <4>1, <4>2
    <3>3. list' \in Seq(Segment)
      BY <2>1, <3>2 DEF TypeInv
    <3> QED
      BY <3>1, <3>3
  <2> QED
    BY <2>3, <2>4
<1>3. TypeInv'
  BY <1>1, <1>2 DEF TypeInv
<1>4. UpToHere'
  BY <1>1 DEF UpToHere
<1>5. ErrorsInv'
  BY <1>1, <1>2 DEF ErrorsInv
<1> QED
  BY <1>3, <1>4, <1>5

LEMMA ParseEndChecks == CheckInv /\ ParseEnd => CheckInv'
<1> SUFFICES ASSUME CheckInv, ParseEnd PROVE CheckInv'
  OBVIOUS
<1> USE DEF CheckInv, ParseEnd
<1>1. TypeInv'
  BY DEF TypeInv
<1>2. UpToHere'
  BY DEF UpToHere, TypeInv
<1>3. ErrorsInv'
  BY DEF ErrorsInv
<1> QED
  BY <1>1, <1>2, <1>3

\* The checks leave the list as it is, and so what was found of it.
LEMMA SameList ==
  ASSUME list' = list
  PROVE  /\ \A i : OverlapsEarlier(i)' <=> OverlapsEarlier(i)
         /\ \A i, k : SectionError(i, k)' = SectionError(i, k)
         /\ \A i, n : Passed(i, n)' <=> Passed(i, n)
<1>1. \A i : OverlapsEarlier(i)' <=> OverlapsEarlier(i)
  BY DEF OverlapsEarlier
<1>2. \A i, k : SectionError(i, k)' = SectionError(i, k)
  BY ZenonT(60) DEF SectionError, Section
<1> QED
  BY <1>1, <1>2 DEF Passed

LEMMA CheckSegmentChecks == CheckInv /\ CheckSegment => CheckInv'
<1> SUFFICES ASSUME CheckInv, CheckSegment PROVE CheckInv'
  OBVIOUS
<1> USE DEF CheckInv
<1>1. list' = list /\ pc = "segments" /\ at.segment \in DOMAIN list
  BY DEF CheckSegment, TypeInv
<1>2. CASE OverlapsEarlier(at.segment)
  <2>1. pc' = "done" /\ error' = "OverlappingSegments" /\ at' = at
    BY <1>2 DEF CheckSegment, Fail
  <2>2. TypeInv' /\ UpToHere'
    BY <1>1, <2>1 DEF TypeInv, UpToHere
  <2>3. ErrorsInv'
    BY <1>1, <1>2, <2>1, SameList DEF ErrorsInv
  <2> QED
    BY <2>2, <2>3
<1>3. CASE ~OverlapsEarlier(at.segment)
  <2>1. /\ pc' = "sections" /\ error' = error
        /\ at' = [segment |-> at.segment, section |-> 1]
    BY <1>3 DEF CheckSegment, TypeInv
  <2>2. TypeInv'
    BY <1>1, <2>1 DEF TypeInv
  <2>3. Passed(at.segment, 0)
    BY <1>3 DEF Passed
  <2>4. list[at.segment].sections \in Seq(SectionPlaces)
    BY <1>1, SectionsType
  <2>5. UpToHere'
    BY <1>1, <2>1, <2>3, <2>4, SameList DEF UpToHere, TypeInv
  <2>6. ErrorsInv'
    BY <1>1, <2>1 DEF ErrorsInv
  <2> QED
    BY <2>2, <2>5, <2>6
<1> QED
  BY <1>2, <1>3

LEMMA CheckSectionChecks == CheckInv /\ CheckSection => CheckInv'
<1> SUFFICES ASSUME CheckInv, CheckSection PROVE CheckInv'
  OBVIOUS
<1> USE DEF CheckInv
<1>1. /\ list' = list /\ pc = "sections" /\ at.segment \in DOMAIN list
      /\ at.section <= Len(list[at.segment].sections)
  BY DEF CheckSection, UpToHere
<1>2. list[at.segment].sections \in Seq(SectionPlaces)
  BY <1>1, SectionsType
<1>3. at.section \in DOMAIN list[at.segment].sections /\ at.section \in Nat
  BY <1>1, <1>2 DEF UpToHere, TypeInv
<1>4. CASE SectionError(at.segment, at.section) # "None"
  <2>1. pc' = "done" /\ error' = SectionError(at.segment, at.section) /\ at' = at
    BY <1>4 DEF CheckSection, Fail
  <2>2. error' \in {"InvalidSection", "OverlappingSections"}
    BY <1>4, <2>1, SectionErrors
  <2>3. TypeInv' /\ UpToHere'
    BY <1>1, <2>1, <2>2 DEF TypeInv, UpToHere
  <2>4. ErrorsInv'
    BY <1>1, <1>3, <2>1, <2>2, SameList DEF ErrorsInv
  <2> QED
    BY <2>3, <2>4
<1>5. CASE SectionError(at.segment, at.section) = "None"
  <2>1. /\ pc' = "sections" /\ error' = error
        /\ at' = [segment |-> at.segment, section |-> at.section + 1]
    BY <1>1, <1>5 DEF CheckSection, TypeInv
  <2>2. TypeInv'
    BY <1>1, <1>3, <2>1 DEF TypeInv
  <2>3. Passed(at.segment, at.section)
    BY <1>1, <1>3, <1>5 DEF UpToHere, Passed
  <2>4. UpToHere'
    BY <1>1, <1>3, <2>1, <2>3, SameList DEF UpToHere
  <2>5. ErrorsInv'
    BY <1>1, <2>1 DEF ErrorsInv
  <2> QED
    BY <2>2, <2>4, <2>5
<1> QED
  BY <1>4, <1>5

LEMMA NextSegmentChecks == CheckInv /\ NextSegment => CheckInv'
<1> SUFFICES ASSUME CheckInv, NextSegment PROVE CheckInv'
  OBVIOUS
<1> USE DEF CheckInv
<1>1. /\ list' = list /\ error' = error /\ pc = "sections" /\ pc' = "segments"
      /\ at.section > Len(list[at.segment].sections)
      /\ at' = [segment |-> at.segment + 1, section |-> 0]
  BY DEF NextSegment
<1>2. /\ at.segment \in DOMAIN list /\ at.segment \in Nat \ {0} /\ at.section \in Nat
      /\ list \in Seq(Segment)
  BY <1>1 DEF UpToHere, TypeInv
<1>3. list[at.segment].sections \in Seq(SectionPlaces)
  BY <1>2, SectionsType
<1>4. Len(list[at.segment].sections) = at.section - 1
  <2>1. Len(list[at.segment].sections) \in Nat
    BY <1>3
  <2>2. at.section # 0 /\ at.section - 1 <= Len(list[at.segment].sections)
    BY <1>1 DEF UpToHere
  <2> QED
    BY <1>1, <1>2, <2>1, <2>2
<1>5. Passed(at.segment, Len(list[at.segment].sections))
  BY <1>1, <1>4 DEF UpToHere
<1>6. TypeInv'
  BY <1>1, <1>2 DEF TypeInv
<1>7. \A i \in 1..at.segment : Passed(i, Len(list[i].sections))
  BY <1>1, <1>2, <1>5 DEF UpToHere
<1>8. UpToHere'
  BY <1>1, <1>2, <1>7, SameList DEF UpToHere
<1>9. ErrorsInv'
  BY <1>1 DEF ErrorsInv
<1> QED
  BY <1>6, <1>8, <1>9

LEMMA CheckEndChecks == CheckInv /\ CheckEnd => CheckInv'
<1> SUFFICES ASSUME CheckInv, CheckEnd PROVE CheckInv'
  OBVIOUS
<1> USE DEF CheckInv
<1>1. /\ list' = list /\ error' = error /\ at' = at /\ pc = "segments" /\ pc' = "done"
      /\ at.segment > Len(list)
  BY DEF CheckEnd
<1>2. at.segment \in Nat \ {0} /\ list \in Seq(Segment)
  BY DEF TypeInv
<1>3. \A i \in DOMAIN list : Passed(i, Len(list[i].sections))
  BY <1>1, <1>2 DEF UpToHere
<1>4. TypeInv' /\ ErrorsInv'
  BY <1>1, SameList DEF TypeInv, ErrorsInv
<1>5. UpToHere'
  BY <1>1, <1>3, SameList DEF UpToHere
<1> QED
  BY <1>4, <1>5

LEMMA StepChecks == CheckInv /\ [Next]_vars => CheckInv'
<1> SUFFICES ASSUME CheckInv, [Next]_vars PROVE CheckInv'
  OBVIOUS
<1>1. CASE UNCHANGED vars
  <2>1. list' = list /\ at' = at /\ pc' = pc /\ error' = error
    BY <1>1 DEF vars
  <2> QED
    BY <2>1, SameList DEF CheckInv, TypeInv, UpToHere, ErrorsInv
<1>2. CASE \E s \in 0..MaxCommand : VerifyCommand(s)
  BY <1>2, VerifyCommandChecks
<1> QED
  BY <1>1, <1>2, OpenStorageChecks, ParseCommandChecks, ParseEndChecks, CheckSegmentChecks,
     CheckSectionChecks, NextSegmentChecks, CheckEndChecks DEF Next, Done

(***************************************************************************)
(* The verdict                                                             *)
(***************************************************************************)

\* The segments and sections of a list have places.
LEMMA ListTypes ==
  ASSUME TypeInv, NEW i \in DOMAIN list
  PROVE  /\ i \in Nat \ {0}
         /\ list[i].file \in Extents /\ list[i].mem \in Extents
         /\ \A k \in DOMAIN list[i].sections :
              /\ k \in Nat \ {0} /\ k <= Len(list[i].sections)
              /\ Section(i, k).file \in Extents /\ Section(i, k).mem \in Extents
              /\ Section(i, k).file.size = Section(i, k).mem.size
         /\ \A j \in 1..(i - 1) : j \in DOMAIN list /\ j # i
         /\ \A k \in DOMAIN list[i].sections : \A j \in 1..(k - 1) :
              j \in DOMAIN list[i].sections /\ j # k
         /\ DOMAIN list[i].sections = 1..Len(list[i].sections)
<1>1. list \in Seq(Segment) /\ DOMAIN list = 1..Len(list) /\ Len(list) \in Nat
  BY DEF TypeInv
<1>2. list[i] \in Segment
  BY <1>1
<1>3. list[i].sections \in Seq(SectionPlaces)
  BY SectionsType
<1>4. Len(list[i].sections) \in Nat /\ DOMAIN list[i].sections = 1..Len(list[i].sections)
  BY <1>3
<1>5. \A k \in DOMAIN list[i].sections : list[i].sections[k] \in SectionPlaces
  BY <1>3
<1> QED
  BY <1>1, <1>2, <1>4, <1>5 DEF Segment, Places, SectionPlaces, Section

LEMMA CheckedIsDisjoint == CheckInv => AcceptedIsDisjoint
<1> SUFFICES ASSUME CheckInv, Accepted, NEW i \in DOMAIN list
             PROVE  /\ \A j \in 1..(i - 1) :
                         ~Meet(list[i].file, list[j].file) /\ ~Meet(list[i].mem, list[j].mem)
                    /\ \A k \in DOMAIN list[i].sections : Section(i, k).file.begin # 0 =>
                         \A j \in 1..(k - 1) : ~Meet(Section(i, k).file, Section(i, j).file)
  BY DEF AcceptedIsDisjoint
<1>1. TypeInv /\ Passed(i, Len(list[i].sections))
  BY DEF CheckInv, UpToHere, Accepted
<1>2. ASSUME NEW j \in 1..(i - 1)
      PROVE  ~Meet(list[i].file, list[j].file) /\ ~Meet(list[i].mem, list[j].mem)
  <2>1. j \in DOMAIN list
    BY <1>1, ListTypes
  <2>2. ~Overlaps(list[i].file, list[j].file) /\ ~Overlaps(list[i].mem, list[j].mem)
    BY <1>1 DEF Passed, OverlapsEarlier
  <2> QED
    BY <1>1, <2>1, <2>2, ListTypes, OverlapsIsClash DEF Clash
<1>3. ASSUME NEW k \in DOMAIN list[i].sections, Section(i, k).file.begin # 0, NEW j \in 1..(k - 1)
      PROVE  ~Meet(Section(i, k).file, Section(i, j).file)
  <2>1. j \in DOMAIN list[i].sections /\ k \in 1..Len(list[i].sections)
    BY <1>1, ListTypes
  <2>2. SectionError(i, k) = "None"
    BY <1>1, <2>1 DEF Passed
  <2>3. ~Overlaps(Section(i, k).file, Section(i, j).file)
    BY <1>3, <2>2 DEF SectionError
  <2> QED
    BY <1>1, <2>1, <2>3, ListTypes, OverlapsIsClash DEF Clash
<1> QED
  BY <1>2, <1>3

LEMMA CheckedHasReasons == CheckInv => ErrorsHaveAReason
<1> SUFFICES ASSUME CheckInv PROVE ErrorsHaveAReason
  OBVIOUS
<1>1. TypeInv /\ ErrorsInv
  BY DEF CheckInv
<1>2. ASSUME error = "OverlappingSegments"
      PROVE  \E i, j \in DOMAIN list : i # j /\
               (Clash(list[i].file, list[j].file) \/ Clash(list[i].mem, list[j].mem))
  <2>1. PICK i \in DOMAIN list : OverlapsEarlier(i)
    BY <1>1, <1>2 DEF ErrorsInv
  <2>2. PICK j \in 1..(i - 1) :
          Overlaps(list[i].file, list[j].file) \/ Overlaps(list[i].mem, list[j].mem)
    BY <2>1 DEF OverlapsEarlier
  <2>3. j \in DOMAIN list /\ j # i
    BY <1>1, ListTypes
  <2> QED
    BY <1>1, <2>2, <2>3, ListTypes, OverlapsIsClash
<1>3. ASSUME error = "InvalidSection"
      PROVE  \E i \in DOMAIN list : \E k \in DOMAIN list[i].sections :
               \/ ~(Locations(Section(i, k).file) \subseteq Locations(list[i].file))
               \/ Section(i, k).file.begin \notin Locations(list[i].file)
  <2>1. PICK i \in DOMAIN list : \E k \in DOMAIN list[i].sections : SectionError(i, k) = error
    BY <1>1, <1>3 DEF ErrorsInv
  <2>2. PICK k \in DOMAIN list[i].sections : SectionError(i, k) = "InvalidSection"
    BY <1>3, <2>1
  <2>3. ~ContainsRange(list[i].file, Section(i, k).file)
    BY <2>2 DEF SectionError
  <2> QED
    BY <1>1, <2>3, ListTypes, NotContainedLeaves
<1>4. ASSUME error = "OverlappingSections"
      PROVE  \E i \in DOMAIN list : \E k, j \in DOMAIN list[i].sections :
               k # j /\ (Clash(Section(i, k).file, Section(i, j).file)
                         \/ Clash(Section(i, k).file, Section(i, j).mem))
  <2>1. PICK i \in DOMAIN list : \E k \in DOMAIN list[i].sections : SectionError(i, k) = error
    BY <1>1, <1>4 DEF ErrorsInv
  <2>2. PICK k \in DOMAIN list[i].sections : SectionError(i, k) = "OverlappingSections"
    BY <1>4, <2>1
  <2>3. PICK j \in 1..(k - 1) : \/ Overlaps(Section(i, k).file, Section(i, j).file)
                                \/ Overlaps(Section(i, k).file, Section(i, j).mem)
    BY <2>2 DEF SectionError
  <2>4. j \in DOMAIN list[i].sections /\ j # k
    BY <1>1, ListTypes
  <2> QED
    BY <1>1, <2>3, <2>4, ListTypes, OverlapsIsClash
<1> QED
  BY <1>2, <1>3, <1>4 DEF ErrorsHaveAReason

\* ParseFromLoadCommands gives no error only for segments that share no byte of
\* the file and no address, whose sections share no byte; and each error has its
\* reason.  This holds for every number of segments and sections, anywhere.
THEOREM ChecksAreRight == Spec => []VerdictIsRight
<1>1. CheckInv => VerdictIsRight
  BY CheckedIsDisjoint, CheckedHasReasons DEF VerdictIsRight
<1> QED
  BY InitChecks, StepChecks, <1>1, PTL DEF Spec

(***************************************************************************)
(* The lookups                                                             *)
(***************************************************************************)

\* A set of naturals has a first one.
LEMMA FirstIsIn ==
  ASSUME NEW S \in SUBSET Nat, S # {}
  PROVE  First(S) \in S
<1>1. \E i \in S : \A j \in S : i <= j
  BY Ind!LeastExists
<1> QED
  BY <1>1 DEF First

\* What GetDataForVirtualAddr finds: a section that holds the addresses asked
\* for, of a segment that holds them as well.
LEMMA FoundHoldsRange ==
  ASSUME TypeInv, NEW addr \in Nat, NEW size \in Nat, DataAt(addr, size) # Null
  PROVE  LET r == Range(addr, size)
             f == SectionFound(r)
         IN  /\ f[1] \in SegmentsOf(r) /\ f[2] \in SectionsOf(f[1], r)
             /\ DataAt(addr, size)
                  = Section(f[1], f[2]).file.begin + (addr - Section(f[1], f[2]).mem.begin)
             /\ addr # 0
<1> DEFINE r == Range(addr, size)
           i == First(SegmentsWithSection(r))
           k == First(SectionsOf(i, r))
<1>1. addr # 0 /\ SegmentsWithSection(r) # {}
  BY DEF DataAt
<1>2. SegmentsWithSection(r) \in SUBSET Nat
  BY ListTypes DEF SegmentsWithSection, SegmentsOf
<1>3. i \in SegmentsWithSection(r)
  BY <1>1, <1>2, FirstIsIn
<1>4. i \in SegmentsOf(r) /\ i \in DOMAIN list /\ SectionsOf(i, r) # {}
  BY <1>3 DEF SegmentsWithSection, SegmentsOf
<1>5. SectionsOf(i, r) \in SUBSET Nat
  BY <1>4, ListTypes DEF SectionsOf
<1>6. k \in SectionsOf(i, r)
  BY <1>4, <1>5, FirstIsIn
<1>7. SectionFound(r) = <<i, k>>
  BY DEF SectionFound
<1> HIDE DEF i, k
<1> QED
  BY <1>1, <1>4, <1>6, <1>7 DEF DataAt

\* Two of the segments of an accepted collection do not both hold an address.
LEMMA OneSegmentHolds ==
  ASSUME CheckInv, Accepted, NEW r \in Extents,
         NEW i \in SegmentsOf(r), NEW j \in SegmentsOf(r)
  PROVE  i = j
<1>1. TypeInv /\ AcceptedIsDisjoint
  BY CheckedIsDisjoint DEF CheckInv
<1>2. \A n \in SegmentsOf(r) : n \in DOMAIN list /\ n \in Nat /\ r.begin \in Locations(list[n].mem)
  <2> SUFFICES ASSUME NEW n \in SegmentsOf(r)
               PROVE  n \in DOMAIN list /\ n \in Nat /\ r.begin \in Locations(list[n].mem)
    OBVIOUS
  <2>1. n \in DOMAIN list /\ HasLocation(list[n].mem, r.begin)
    BY DEF SegmentsOf, ContainsRange
  <2>2. n \in Nat /\ list[n].mem \in Extents
    BY <1>1, <2>1, ListTypes
  <2> QED
    BY <2>1, <2>2 DEF HasLocation, Locations, Extents
<1>3. \A m, n \in SegmentsOf(r) : m \in 1..(n - 1) => FALSE
  <2> SUFFICES ASSUME NEW m \in SegmentsOf(r), NEW n \in SegmentsOf(r), m \in 1..(n - 1)
               PROVE  FALSE
    OBVIOUS
  <2>1. ~Meet(list[n].mem, list[m].mem)
    BY <1>1, <1>2 DEF AcceptedIsDisjoint
  <2> QED
    BY <1>2, <2>1 DEF Meet
<1>4. i \in Nat \ {0} /\ j \in Nat \ {0}
  BY <1>1, <1>2, ListTypes
<1> QED
  BY <1>3, <1>4

LEMMA CheckedDataIsInTheSegment == CheckInv => DataIsInTheSegment
<1> SUFFICES ASSUME CheckInv, Accepted, NEW q \in Queries
             PROVE  LET f == SectionFound(Range(q[1], q[2]))
                        section == Section(f[1], f[2])
                        data == Range(DataAt(q[1], q[2]), q[2])
                    IN  /\ ContainsRange(section.file, data)
                        /\ section.file.begin # 0 => ContainsRange(list[f[1]].file, data)
  BY DEF DataIsInTheSegment
<1> DEFINE addr == q[1]
           size == q[2]
           r == Range(addr, size)
           i == SectionFound(r)[1]
           k == SectionFound(r)[2]
<1>1. addr \in Nat /\ size \in Nat /\ DataAt(addr, size) # Null
  BY PlacesAssumption DEF Queries
<1>2. TypeInv
  BY DEF CheckInv
<1>3. /\ i \in SegmentsOf(r) /\ k \in SectionsOf(i, r)
      /\ DataAt(addr, size) = Section(i, k).file.begin + (addr - Section(i, k).mem.begin)
  BY <1>1, <1>2, FoundHoldsRange
<1>4. i \in DOMAIN list /\ k \in DOMAIN list[i].sections /\ ContainsRange(Section(i, k).mem, r)
  BY <1>3 DEF SegmentsOf, SectionsOf
<1>5. Section(i, k).file.begin # 0 => ContainsRange(list[i].file, Section(i, k).file)
  <2>1. SectionError(i, k) = "None"
    BY <1>2, <1>4, ListTypes DEF CheckInv, UpToHere, Passed, Accepted
  <2> QED
    BY <2>1 DEF SectionError
<1>6. /\ list[i].file \in Extents /\ Section(i, k).file \in Extents /\ Section(i, k).mem \in Extents
      /\ Section(i, k).file.size = Section(i, k).mem.size
  BY <1>2, <1>4, ListTypes
<1> DEFINE data == Range(DataAt(addr, size), size)
<1> HIDE DEF i, k
<1>7. ContainsRange(Section(i, k).file, data)
  BY <1>1, <1>3, <1>4, <1>6, SMTT(60) DEF ContainsRange, HasLocation, Range, Extents
<1>8. Section(i, k).file.begin # 0 => ContainsRange(list[i].file, data)
  BY <1>1, <1>3, <1>4, <1>5, <1>6, SMTT(60) DEF ContainsRange, HasLocation, Range, Extents
<1> QED
  BY <1>7, <1>8 DEF i, k

LEMMA CheckedLookupsAgree == CheckInv => LookupsAgree
<1> SUFFICES ASSUME CheckInv, Accepted, NEW q \in Queries
             PROVE  LET f == SectionFound(Range(q[1], q[2]))
                        s == Section(f[1], f[2])
                    IN  s.file.begin + list[f[1]].mem.begin
                            = s.mem.begin + list[f[1]].file.begin =>
                          DataAtIgnoringSections(q[1], q[2]) = DataAt(q[1], q[2])
  BY DEF LookupsAgree
<1> DEFINE addr == q[1]
           size == q[2]
           r == Range(addr, size)
           i == SectionFound(r)[1]
           k == SectionFound(r)[2]
<1>1. addr \in Nat /\ size \in Nat /\ DataAt(addr, size) # Null
  BY PlacesAssumption DEF Queries
<1>2. TypeInv
  BY DEF CheckInv
<1>3. /\ i \in SegmentsOf(r) /\ k \in SectionsOf(i, r) /\ addr # 0
      /\ DataAt(addr, size) = Section(i, k).file.begin + (addr - Section(i, k).mem.begin)
  BY <1>1, <1>2, FoundHoldsRange
<1>4. i \in DOMAIN list /\ k \in DOMAIN list[i].sections
  BY <1>3 DEF SegmentsOf, SectionsOf
<1>5. First(SegmentsOf(r)) = i
  <2>1. r \in Extents
    BY <1>1 DEF Range, Extents
  <2>2. SegmentsOf(r) \in SUBSET Nat
    BY <1>2, ListTypes DEF SegmentsOf
  <2>3. First(SegmentsOf(r)) \in SegmentsOf(r)
    BY <1>3, <2>2, FirstIsIn
  <2> QED
    BY <1>3, <2>1, <2>3, OneSegmentHolds
<1>6. DataAtIgnoringSections(addr, size) = list[i].file.begin + (addr - list[i].mem.begin)
  BY <1>3, <1>5 DEF DataAtIgnoringSections
<1>7. /\ list[i].file \in Extents /\ list[i].mem \in Extents
      /\ Section(i, k).file \in Extents /\ Section(i, k).mem \in Extents
  BY <1>2, <1>4, ListTypes
<1> HIDE DEF i, k
<1> QED
  BY <1>1, <1>3, <1>6, <1>7, SMTT(60) DEF Extents, i, k

\* In a collection that is accepted, the data that GetDataForVirtualAddr finds is
\* its section's, all of it, and that of the segment that holds the address, as the
\* comparison of each section with its segment keeps it there; but a section at
\* offset 0 is not compared, and of its data the second part is not said.
THEOREM FoundDataIsInItsSegment == Spec => []DataIsInTheSegment
  BY InitChecks, StepChecks, CheckedDataIsInTheSegment, PTL DEF Spec

\* Both lookups find the same segment, as no address is in two of them, and so
\* the same data if the section is aligned with its segment in file and memory.
THEOREM LookupsFindTheSame == Spec => []LookupsAgree
  BY InitChecks, StepChecks, CheckedLookupsAgree, PTL DEF Spec

(***************************************************************************)
(* The walk over the load commands                                         *)
(***************************************************************************)

\* offset has the offset of each command verified, and of the end of the last.
Offsets(offset) ==
  /\ offset \in [0..Len(commands) -> Nat]
  /\ offset[0] = 0
  /\ \A i \in 1..Len(commands) : offset[i] = offset[i - 1] + commands[i]
  /\ \A i, j \in 0..Len(commands) : i < j => offset[i] < offset[j]

\* What TypeOK needs of the storage, and of the list, to be inductive.
StorageInv ==
  /\ storage \in [end : 0..MaxStorage, count : 0..MaxCount, align : Alignments]
  /\ commands \in Seq(Nat) /\ Len(commands) <= storage.count
  /\ walk \in [offset : Nat, passed : 0..Len(commands)]
  /\ \A i \in DOMAIN commands : commands[i] >= HeaderSize
  /\ pc \in {"open", "verify"} => list = <<>>
  /\ Len(list) <= walk.passed
  /\ \A i \in DOMAIN list :
       /\ list[i].file \in {r.file : r \in SegmentRanges}
       /\ HeaderSize + SectionSize * Len(list[i].sections) <= storage.end
  /\ error \in StorageErrors \cup
       {"None", "InvalidSectionList", "OverlappingSegments", "InvalidSection", "OverlappingSections"}

\* The walk is at the offset of a command, or of the end: until all are verified
\* at the end of those that are; then the storage ends with the last one.
PlaceInv ==
  /\ pc = "open" => commands = <<>>
  /\ pc = "verify" => walk.passed = Len(commands) /\ Len(commands) < storage.count
  /\ pc \in {"parse", "segments", "sections"} => Len(commands) = storage.count
  /\ \E offset : /\ Offsets(offset)
                 /\ walk.offset = offset[walk.passed]
                 /\ offset[Len(commands)] <= storage.end
                 /\ pc \in {"parse", "segments", "sections"} =>
                      offset[Len(commands)] = storage.end

WalkInv == StorageInv /\ PlaceInv

LEMMA InitWalks == Init => WalkInv
<1> SUFFICES ASSUME Init PROVE WalkInv
  OBVIOUS
<1> USE DEF Init
<1>1. /\ commands = <<>> /\ list = <<>> /\ walk = [offset |-> 0, passed |-> 0] /\ error = "None"
      /\ storage.end \in Nat /\ storage.count \in Nat
  BY SizesAssumption
<1>2. StorageInv
  BY <1>1 DEF StorageInv
<1>3. Offsets([i \in 0..0 |-> 0])
  BY <1>1 DEF Offsets
<1>4. PlaceInv
  BY <1>1, <1>3 DEF PlaceInv
<1> QED
  BY <1>2, <1>4 DEF WalkInv

\* Steps that neither read a command nor move the walk.
LEMMA StandsStill ==
  ASSUME WalkInv, UNCHANGED <<storage, commands, walk, list>>,
         \/ UNCHANGED <<pc, error>>
         \/ pc' = "done" /\ error' \in StorageErrors \cup
              {"None", "InvalidSectionList", "OverlappingSegments", "InvalidSection",
               "OverlappingSections"}
         \/ /\ UNCHANGED error
            /\ \/ pc = "open" /\ pc' = "verify" /\ storage.count # 0
               \/ {pc, pc'} \subseteq {"parse", "segments", "sections"}
  PROVE  WalkInv'
<1>1. error' \in StorageErrors \cup
        {"None", "InvalidSectionList", "OverlappingSegments", "InvalidSection",
         "OverlappingSections"}
  BY DEF WalkInv, StorageInv
<1>2. pc' \in {"open", "verify"} => pc \in {"open", "verify"}
  OBVIOUS
<1>3. StorageInv'
  BY <1>1, <1>2 DEF WalkInv, StorageInv
<1>4. \A offset : Offsets(offset)' <=> Offsets(offset)
  BY DEF Offsets
<1>5. pc = "open" /\ pc' = "verify" =>
        walk.passed = Len(commands) /\ Len(commands) < storage.count
  BY SizesAssumption DEF WalkInv, StorageInv, PlaceInv
<1>6. PlaceInv'
  BY <1>4, <1>5 DEF WalkInv, PlaceInv
<1> QED
  BY <1>3, <1>6 DEF WalkInv

\* The offsets grow by those of a command that is verified.
LEMMA OffsetsGrow ==
  ASSUME NEW offset, Offsets(offset), commands \in Seq(Nat), NEW s \in Nat, s > 0,
         commands' = Append(commands, s)
  PROVE  \E next : /\ Offsets(next)' /\ next[0] = 0
                   /\ next[Len(commands) + 1] = offset[Len(commands)] + s
<1> DEFINE n == Len(commands)
<1>0. PICK next : next = [i \in 0..(n + 1) |-> IF i <= n THEN offset[i] ELSE offset[n] + s]
  OBVIOUS
<1>1. /\ n \in Nat /\ Len(commands') = n + 1 /\ commands'[n + 1] = s
      /\ \A i \in 1..n : commands'[i] = commands[i]
  OBVIOUS
<1>2. \A i \in 0..n : offset[i] \in Nat
  BY DEF Offsets
<1>3. next \in [0..(n + 1) -> Nat]
  BY <1>0, <1>1, <1>2, SMTT(30)
<1>4. (\A i \in 0..n : next[i] = offset[i]) /\ next[n + 1] = offset[n] + s
  BY <1>0, <1>1
<1>5. next[0] = 0
  BY <1>1, <1>4 DEF Offsets
<1>6. \A i \in 1..(n + 1) : next[i] = next[i - 1] + commands'[i]
  <2> SUFFICES ASSUME NEW i \in 1..(n + 1) PROVE next[i] = next[i - 1] + commands'[i]
    OBVIOUS
  <2>1. CASE i = n + 1
    BY <1>1, <1>4, <2>1
  <2>2. CASE i # n + 1
    <3>1. i \in 1..n /\ i \in 0..n /\ i - 1 \in 0..n
      BY <1>1, <2>2
    <3> QED
      BY <1>1, <1>4, <3>1 DEF Offsets
  <2> QED
    BY <2>1, <2>2
<1>7. \A i, j \in 0..(n + 1) : i < j => next[i] < next[j]
  <2> SUFFICES ASSUME NEW i \in 0..(n + 1), NEW j \in 0..(n + 1), i < j PROVE next[i] < next[j]
    OBVIOUS
  <2>1. CASE j # n + 1
    <3>1. i \in 0..n /\ j \in 0..n
      BY <1>1, <2>1
    <3> QED
      BY <1>4, <3>1 DEF Offsets
  <2>2. CASE j = n + 1
    <3>1. i \in 0..n /\ n \in 0..n
      BY <1>1, <2>2
    <3>2. i = n \/ offset[i] < offset[n]
      BY <1>1, <3>1 DEF Offsets
    <3> QED
      BY <1>2, <1>4, <2>2, <3>1, <3>2
  <2> QED
    BY <2>1, <2>2
<1>8. Offsets(next)'
  BY <1>1, <1>3, <1>5, <1>6, <1>7 DEF Offsets
<1> QED
  BY <1>4, <1>5, <1>8

LEMMA VerifyCommandWalks ==
  ASSUME WalkInv, NEW s \in 0..MaxCommand, VerifyCommand(s)
  PROVE  WalkInv'
<1> USE DEF VerifyCommand
<1>1. CASE CommandError(s) # "None"
  <2>1. pc' = "done" /\ error' \in StorageErrors /\ UNCHANGED <<storage, commands, walk, list>>
    BY <1>1, CommandErrors DEF Fail
  <2> QED
    BY <2>1, StandsStill
<1>2. CASE CommandError(s) = "None"
  <2>1. /\ pc = "verify" /\ list = <<>> /\ list' = list /\ error' = error
        /\ commands' = Append(commands, s)
        /\ walk.passed = Len(commands) /\ Len(commands) < storage.count
    BY <1>2 DEF WalkInv, StorageInv, PlaceInv
  <2>2. /\ storage \in [end : 0..MaxStorage, count : 0..MaxCount, align : Alignments]
        /\ walk \in [offset : Nat, passed : 0..Len(commands)]
        /\ commands \in Seq(Nat) /\ s \in Nat /\ MaxStorage \in Nat /\ MaxCount \in Nat
    BY SizesAssumption DEF WalkInv, StorageInv
  <2>3. s >= HeaderSize /\ s > 0 /\ walk.offset + s <= storage.end
    <3>1. HeaderSize \in Nat /\ HeaderSize > 0
      BY SizesAssumption
    <3>2. ~(s < HeaderSize)
      BY <1>2 DEF CommandError
    <3>3. ~(s >= HeaderSize /\ s % storage.align # 0)
      BY <1>2 DEF CommandError
    <3>4. ~(s >= HeaderSize /\ s % storage.align = 0 /\ walk.offset + s > storage.end)
      BY <1>2 DEF CommandError
    <3>5. s >= HeaderSize
      BY <2>2, <3>1, <3>2
    <3>6. ~(walk.offset + s > storage.end)
      BY <3>3, <3>4, <3>5
    <3> QED
      BY <2>2, <3>1, <3>5, <3>6
  <2>4. PICK offset : Offsets(offset) /\ walk.offset = offset[walk.passed]
    BY DEF WalkInv, PlaceInv
  <2>5. PICK next : /\ Offsets(next)' /\ next[0] = 0
                    /\ next[Len(commands) + 1] = offset[Len(commands)] + s
    BY <2>1, <2>2, <2>3, <2>4, OffsetsGrow
  <2>6. /\ commands' \in Seq(Nat) /\ Len(commands') = Len(commands) + 1
        /\ next[Len(commands')] = walk.offset + s
    BY <2>1, <2>2, <2>4, <2>5
  <2>7. \A i \in DOMAIN commands' : commands'[i] >= HeaderSize
    BY <2>1, <2>2, <2>3 DEF WalkInv, StorageInv
  <2>8. CASE walk.passed + 1 = storage.count
    <3>1. /\ pc' = "parse" /\ storage' = [storage EXCEPT !.end = walk.offset + s]
          /\ walk' = [offset |-> 0, passed |-> 0]
      BY <1>2, <2>8
    <3>2. /\ storage' \in [end : 0..MaxStorage, count : 0..MaxCount, align : Alignments]
          /\ storage'.end = walk.offset + s /\ storage'.count = storage.count
      <4>1. walk.offset + s \in 0..MaxStorage
        BY <2>2, <2>3
      <4> QED
        BY <2>2, <3>1, <4>1
    <3>3. StorageInv'
      BY <2>1, <2>2, <2>6, <2>7, <3>1, <3>2, SMTT(30) DEF WalkInv, StorageInv
    <3>4. PlaceInv'
      BY <2>1, <2>2, <2>5, <2>6, <2>8, <3>1, <3>2 DEF PlaceInv
    <3> QED
      BY <3>3, <3>4 DEF WalkInv
  <2>9. CASE walk.passed + 1 # storage.count
    <3>1. /\ UNCHANGED <<pc, storage>>
          /\ walk' = [offset |-> walk.offset + s, passed |-> walk.passed + 1]
      BY <1>2, <2>9
    <3>2. Len(commands') < storage.count
      BY <2>1, <2>2, <2>6, <2>9
    <3>3. StorageInv'
      BY <2>1, <2>2, <2>6, <2>7, <3>1, <3>2 DEF WalkInv, StorageInv
    <3>4. PlaceInv'
      BY <2>1, <2>2, <2>3, <2>5, <2>6, <3>1, <3>2 DEF PlaceInv
    <3> QED
      BY <3>3, <3>4 DEF WalkInv
  <2> QED
    BY <2>8, <2>9
<1> QED
  BY <1>1, <1>2

LEMMA ParseCommandWalks ==
  ASSUME WalkInv, TypeInv, ParseCommand
  PROVE  WalkInv'
<1> DEFINE s == commands[walk.passed + 1]
<1>1. /\ pc = "parse" /\ pc' = "parse" /\ UNCHANGED <<storage, commands>>
      /\ walk.offset < storage.end
      /\ walk' = [offset |-> walk.offset + s, passed |-> walk.passed + 1]
  BY DEF ParseCommand
<1>2. /\ storage \in [end : 0..MaxStorage, count : 0..MaxCount, align : Alignments]
      /\ walk \in [offset : Nat, passed : 0..Len(commands)]
      /\ commands \in Seq(Nat) /\ MaxStorage \in Nat /\ MaxCount \in Nat
  BY SizesAssumption DEF WalkInv, StorageInv
<1>3. PICK offset : /\ Offsets(offset) /\ walk.offset = offset[walk.passed]
                    /\ offset[Len(commands)] = storage.end
  BY <1>1 DEF WalkInv, PlaceInv
<1>4. walk.passed < Len(commands) /\ walk.passed + 1 \in 1..Len(commands)
  <2>1. walk.passed # Len(commands)
    BY <1>1, <1>2, <1>3
  <2> QED
    BY <1>2, <2>1
<1>5. /\ s \in Nat /\ s >= HeaderSize
      /\ offset[walk.passed + 1] = walk.offset + s
  <2>1. s \in Nat /\ s >= HeaderSize /\ (walk.passed + 1) - 1 = walk.passed
    <3>1. \A i \in 1..Len(commands) : commands[i] \in Nat /\ commands[i] >= HeaderSize
      BY <1>2, SMTT(30) DEF WalkInv, StorageInv
    <3>2. walk.passed \in Nat
      BY <1>2
    <3> QED
      BY <1>4, <3>1, <3>2
  <2>2. offset[walk.passed + 1] = offset[(walk.passed + 1) - 1] + s
    BY <1>3, <1>4 DEF Offsets
  <2> QED
    BY <1>3, <2>1, <2>2
<1>6. walk.offset + s <= storage.end
  <2>1. \A i \in 0..Len(commands) : offset[i] \in Nat
    BY <1>3 DEF Offsets
  <2>2. walk.passed + 1 = Len(commands) \/ offset[walk.passed + 1] < offset[Len(commands)]
    BY <1>2, <1>3, <1>4, SMTT(30) DEF Offsets
  <2> QED
    BY <1>2, <1>3, <1>4, <1>5, <2>1, <2>2, SMTT(30)
<1>7. /\ Len(list') <= walk.passed + 1
      /\ error' \in {error, "InvalidSectionList"}
      /\ \A i \in DOMAIN list' :
           /\ list'[i].file \in {r.file : r \in SegmentRanges}
           /\ HeaderSize + SectionSize * Len(list'[i].sections) <= storage.end
  <2>1. /\ list \in Seq(Segment) /\ Len(list) \in Nat /\ Len(list) <= walk.passed
        /\ \A i \in DOMAIN list :
             /\ list[i].file \in {r.file : r \in SegmentRanges}
             /\ HeaderSize + SectionSize * Len(list[i].sections) <= storage.end
    BY DEF WalkInv, StorageInv, TypeInv
  <2>2. CASE UNCHANGED <<list, error>>
    BY <1>2, <2>1, <2>2
  <2>3. ASSUME NEW r \in SegmentRanges, NEW sections,
               list' = Append(list, [file |-> r.file, mem |-> r.mem, sections |-> sections]),
               HeaderSize + SectionSize * Len(sections) <= storage.end
        PROVE  /\ Len(list') <= walk.passed + 1
               /\ \A i \in DOMAIN list' :
                    /\ list'[i].file \in {q.file : q \in SegmentRanges}
                    /\ HeaderSize + SectionSize * Len(list'[i].sections) <= storage.end
    <3> DEFINE e == [file |-> r.file, mem |-> r.mem, sections |-> sections]
    <3>1. e.file \in {q.file : q \in SegmentRanges} /\ e.sections = sections
      OBVIOUS
    <3> HIDE DEF e
    <3>2. /\ Len(list') = Len(list) + 1 /\ DOMAIN list' = 1..(Len(list) + 1)
          /\ DOMAIN list = 1..Len(list)
          /\ list'[Len(list) + 1] = e /\ \A i \in 1..Len(list) : list'[i] = list[i]
      BY <2>1, <2>3 DEF e
    <3>3. \A i \in DOMAIN list' : i \in DOMAIN list \/ i = Len(list) + 1
      BY <2>1, <3>2
    <3> QED
      BY <1>2, <2>1, <2>3, <3>1, <3>2, <3>3, SMTT(30)
  <2>4. ASSUME NEW r \in SegmentRanges, NEW n \in 0..2,
               IF SectionsFit(s, n)
               THEN /\ \E sections \in [1..n -> SectionRanges] :
                         list' = Append(list, [file |-> r.file, mem |-> r.mem, sections |-> sections])
                    /\ UNCHANGED error
               ELSE /\ list' = Append(list, [file |-> r.file, mem |-> r.mem, sections |-> <<>>])
                    /\ error' = "InvalidSectionList"
        PROVE  \E sections :
                 /\ list' = Append(list, [file |-> r.file, mem |-> r.mem, sections |-> sections])
                 /\ HeaderSize + SectionSize * Len(sections) <= storage.end
                 /\ error' \in {error, "InvalidSectionList"}
    <3>1. /\ HeaderSize \in Nat /\ SectionSize \in Nat /\ SegmentSize \in Nat
          /\ HeaderSize <= SegmentSize /\ walk.offset \in Nat /\ storage.end \in Nat
      BY <1>2, SizesAssumption
    <3>2. s <= storage.end
      BY <1>5, <1>6, <3>1
    <3>3. CASE SectionsFit(s, n)
      <4>1. PICK sections \in [1..n -> SectionRanges] :
              list' = Append(list, [file |-> r.file, mem |-> r.mem, sections |-> sections])
        BY <2>4, <3>3
      <4>2. Len(sections) = n
        OBVIOUS
      <4>3. s >= SegmentSize + n * SectionSize /\ n * SectionSize = SectionSize * n
            /\ SectionSize * n \in Nat
        BY <3>1, <3>3 DEF SectionsFit
      <4>4. HeaderSize + SectionSize * Len(sections) <= storage.end
        BY <1>5, <3>1, <3>2, <4>2, <4>3
      <4> QED
        BY <2>4, <3>3, <4>1, <4>4
    <3>4. CASE ~SectionsFit(s, n)
      <4>1. HeaderSize + SectionSize * Len(<<>>) <= storage.end
        BY <1>5, <3>1, <3>2
      <4> QED
        BY <2>4, <3>4, <4>1
    <3> QED
      BY <3>3, <3>4
  <2>5. CASE ~UNCHANGED <<list, error>>
    <3>1. PICK r \in SegmentRanges, n \in 0..2 :
            IF SectionsFit(s, n)
            THEN /\ \E sections \in [1..n -> SectionRanges] :
                      list' = Append(list, [file |-> r.file, mem |-> r.mem, sections |-> sections])
                 /\ UNCHANGED error
            ELSE /\ list' = Append(list, [file |-> r.file, mem |-> r.mem, sections |-> <<>>])
                 /\ error' = "InvalidSectionList"
      BY <2>5 DEF ParseCommand
    <3> QED
      BY <2>3, <2>4, <3>1
  <2> QED
    BY <2>2, <2>5
<1> HIDE DEF s
<1>8. StorageInv'
  BY <1>1, <1>2, <1>4, <1>5, <1>7, SMTT(30) DEF WalkInv, StorageInv
<1>9. PlaceInv'
  <2>1. Offsets(offset)'
    BY <1>1, <1>3 DEF Offsets
  <2> QED
    BY <1>1, <1>2, <1>3, <1>5, <2>1 DEF WalkInv, PlaceInv
<1> QED
  BY <1>8, <1>9 DEF WalkInv

LEMMA StepWalks == WalkInv /\ TypeInv /\ [Next]_vars => WalkInv'
<1> SUFFICES ASSUME WalkInv, TypeInv, [Next]_vars PROVE WalkInv'
  OBVIOUS
<1>1. CASE OpenStorage
  <2>1. UNCHANGED <<storage, commands, walk, list>> /\ pc = "open"
    BY <1>1 DEF OpenStorage
  <2>2. \/ pc' = "done" /\ error' \in StorageErrors
        \/ pc' = "verify" /\ UNCHANGED error /\ storage.count # 0
    <3>1. storage.end < HeaderSize \/ storage.end >= HeaderSize
      BY SizesAssumption DEF WalkInv, StorageInv
    <3> QED
      BY <1>1, <3>1 DEF OpenStorage, Fail, StorageErrors
  <2> QED
    BY <2>1, <2>2, StandsStill
<1>2. CASE CheckSegment
  <2>1. UNCHANGED <<storage, commands, walk, list>> /\ pc = "segments"
    BY <1>2 DEF CheckSegment
  <2>2. \/ pc' = "done" /\ error' = "OverlappingSegments"
        \/ pc' = "sections" /\ UNCHANGED error
    BY <1>2 DEF CheckSegment, Fail
  <2> QED
    BY <2>1, <2>2, StandsStill
<1>3. CASE CheckSection
  <2>1. UNCHANGED <<storage, commands, walk, list>>
    BY <1>3 DEF CheckSection
  <2>2. \/ /\ pc' = "done"
           /\ error' \in {"None", "InvalidSection", "OverlappingSections"}
        \/ UNCHANGED <<pc, error>>
    BY <1>3, SectionErrors DEF CheckSection, Fail
  <2> QED
    BY <2>1, <2>2, StandsStill
<1>4. CASE ParseEnd \/ NextSegment
  <2>1. UNCHANGED <<storage, commands, walk, list, error>>
        /\ {pc, pc'} \subseteq {"parse", "segments", "sections"}
    BY <1>4 DEF ParseEnd, NextSegment
  <2> QED
    BY <2>1, StandsStill
<1>5. CASE CheckEnd
  <2>1. UNCHANGED <<storage, commands, walk, list, error>> /\ pc' = "done"
    BY <1>5 DEF CheckEnd
  <2> QED
    BY <2>1, StandsStill DEF WalkInv, StorageInv
<1>6. CASE Done \/ UNCHANGED vars
  BY <1>6, StandsStill DEF Done, vars
<1> QED
  BY <1>1, <1>2, <1>3, <1>4, <1>5, <1>6, VerifyCommandWalks, ParseCommandWalks DEF Next

LEMMA WalkIsVerified == WalkInv /\ TypeInv => WalksWhatWasVerified
<1> SUFFICES ASSUME WalkInv, TypeInv PROVE WalksWhatWasVerified
  OBVIOUS
<1>1. /\ storage \in [end : 0..MaxStorage, count : 0..MaxCount, align : Alignments]
      /\ walk \in [offset : Nat, passed : 0..Len(commands)]
      /\ commands \in Seq(Nat) /\ MaxStorage \in Nat /\ MaxCount \in Nat /\ HeaderSize \in Nat
      /\ Len(commands) <= storage.count /\ Len(list) <= walk.passed
  BY SizesAssumption DEF WalkInv, StorageInv
<1>2. PICK offset : /\ Offsets(offset) /\ walk.offset = offset[walk.passed]
                    /\ offset[Len(commands)] <= storage.end
                    /\ pc \in {"parse", "segments", "sections"} =>
                         offset[Len(commands)] = storage.end
  BY DEF WalkInv, PlaceInv
<1>3. \A i \in 0..Len(commands) : offset[i] \in Nat /\ offset[i] <= offset[Len(commands)]
  <2> SUFFICES ASSUME NEW i \in 0..Len(commands)
               PROVE  offset[i] \in Nat /\ offset[i] <= offset[Len(commands)]
    OBVIOUS
  <2>1. offset[i] \in Nat /\ offset[Len(commands)] \in Nat
    <3>1. offset \in [0..Len(commands) -> Nat] /\ Len(commands) \in 0..Len(commands)
      BY <1>1, <1>2 DEF Offsets
    <3> QED
      BY <3>1
  <2>2. i = Len(commands) \/ offset[i] < offset[Len(commands)]
    BY <1>1, <1>2 DEF Offsets
  <2> QED
    BY <2>1, <2>2
<1>4. \A i \in DOMAIN commands : commands[i] \in HeaderSize..storage.end
  <2> SUFFICES ASSUME NEW i \in DOMAIN commands PROVE commands[i] \in HeaderSize..storage.end
    OBVIOUS
  <2>1. /\ i \in 1..Len(commands) /\ i \in 0..Len(commands) /\ i - 1 \in 0..Len(commands)
        /\ Len(commands) \in 0..Len(commands) /\ commands[i] \in Nat
    BY <1>1
  <2>2. offset[i] = offset[i - 1] + commands[i]
    BY <1>2, <2>1 DEF Offsets
  <2>3. offset[i] \in Nat /\ offset[i - 1] \in Nat /\ offset[i] <= offset[Len(commands)]
        /\ offset[Len(commands)] \in Nat
    BY <1>3, <2>1
  <2>4. commands[i] <= storage.end
    <3>1. storage.end \in Nat /\ offset[Len(commands)] <= storage.end
      BY <1>1, <1>2
    <3> QED
      BY <2>1, <2>2, <2>3, <3>1
  <2> QED
    BY <1>1, <2>1, <2>4 DEF WalkInv, StorageInv
<1>5. walk.offset \in 0..storage.end /\ walk.passed \in 0..storage.count
      /\ Len(list) <= storage.count
  <2>1. Len(list) \in Nat
    BY DEF TypeInv
  <2> QED
    BY <1>1, <1>2, <1>3, <2>1
<1>6. TypeOK
  BY <1>1, <1>4, <1>5 DEF WalkInv, StorageInv, TypeInv, TypeOK
<1>7. ASSUME pc \in {"parse", "segments"}
      PROVE  /\ Len(commands) = storage.count
             /\ walk.offset < storage.end <=> walk.passed < storage.count
  <2>1. Len(commands) = storage.count /\ offset[Len(commands)] = storage.end
    BY <1>2, <1>7 DEF WalkInv, PlaceInv
  <2>2. walk.passed < Len(commands) => walk.offset < storage.end
    BY <1>1, <1>2, <2>1 DEF Offsets
  <2>3. walk.passed = Len(commands) \/ walk.passed < Len(commands)
    BY <1>1
  <2> QED
    BY <1>1, <1>2, <2>1, <2>2, <2>3
<1> QED
  BY <1>6, <1>7 DEF WalksWhatWasVerified

\* The iterator over the load commands goes from one to the next of those that
\* VerifyLoadCommands accepted, and stops after the last, whatever their sizes.
THEOREM WalkFollowsVerification == Spec => []WalksWhatWasVerified
<1>1. CheckInv => TypeInv
  BY DEF CheckInv
<1> QED
  BY InitChecks, StepChecks, InitWalks, StepWalks, WalkIsVerified, <1>1, PTL DEF Spec

=============================================================================

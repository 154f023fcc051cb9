------------------------------ MODULE Segments ------------------------------
(***************************************************************************)
(* From the load commands of an image to the bytes at an address:          *)
(* ConstLoadCommandStorage::Open, its iterator,                            *)
(* SegmentInfoCollection::ParseFromLoadCommands with the checks that       *)
(* follow it, and the lookups by address.                                  *)
(*                                                                         *)
(* The bytes of the file are the environment: the size of a command and    *)
(* the fields of a segment are what the program finds when it reads them.  *)
(* Sizes of commands are in units of four bytes.                           *)
(***************************************************************************)
EXTENDS Ranges, Sequences

CONSTANTS
  HeaderSize,     \* sizeof(LoadCommand)
  SegmentSize,    \* sizeof(SegmentCommand)
  SectionSize,    \* sizeof(SegmentCommand::Section)
  Alignments,     \* of the size of a command: 1 in a 32-bit image, 2 in a 64-bit one
  MaxStorage,     \* bound on the size of the load commands
  MaxCount,       \* bound on the number of load commands
  MaxCommand,     \* bound on the size of one
  SegmentRanges,  \* the file and memory ranges segments are explored with
  SectionRanges,  \* the same for sections
  Asked,          \* the addresses and sizes that data is looked up for
  Null            \* the null pointer

ASSUME SizesAssumption ==
  /\ {HeaderSize, SegmentSize, SectionSize, MaxStorage, MaxCount, MaxCommand} \subseteq Nat
  /\ 0 < HeaderSize /\ HeaderSize <= SegmentSize
  /\ Alignments \subseteq Nat \ {0}

Extents == [begin : Nat, size : Nat]
Places == [file : Extents, mem : Extents]

\* A section has one size, for its file range and its memory range.
ASSUME PlacesAssumption ==
  /\ SegmentRanges \cup SectionRanges \subseteq Places
  /\ \A r \in SectionRanges : r.file.size = r.mem.size
  /\ Asked \subseteq Nat \X Nat

VARIABLES
  pc,        \* "open", "verify", "parse", "segments", "sections" or "done"
  storage,   \* the storage's End, Count and alignment
  commands,  \* the sizes of the commands, as far as they were read
  walk,      \* the loops' Iter as an offset, and the number of commands passed
  list,      \* SegmentInfoCollection::List
  at,        \* the segment and section the checks have reached
  error      \* the error of the storage, or of the collection

vars == <<pc, storage, commands, walk, list, at, error>>

StorageErrors ==
  {"NoLoadCommands", "CmdSizeTooSmall", "CmdSizeNotAligned", "StorageSizeTooSmall"}

TypeOK ==
  /\ pc \in {"open", "verify", "parse", "segments", "sections", "done"}
  /\ storage \in [end : 0..MaxStorage, count : 0..MaxCount, align : Alignments]
  /\ \A i \in DOMAIN commands : commands[i] \in HeaderSize..storage.end
  /\ walk.offset \in 0..storage.end /\ walk.passed \in 0..storage.count
  /\ Len(list) <= storage.count
  /\ \A i \in DOMAIN list :
       /\ list[i].file \in {r.file : r \in SegmentRanges}
       /\ HeaderSize + SectionSize * Len(list[i].sections) <= storage.end
  /\ error \in StorageErrors \cup
       {"None", "InvalidSectionList", "OverlappingSegments", "InvalidSection", "OverlappingSections"}

\* MachOMemoryObject::ValidateMap has accepted the size and count of the header.
Init ==
  /\ pc = "open"
  /\ storage \in [end : 0..MaxStorage, count : 0..MaxCount, align : Alignments]
  /\ HeaderSize * storage.count <= storage.end
  /\ commands = <<>>
  /\ walk = [offset |-> 0, passed |-> 0]
  /\ list = <<>>
  /\ at = [segment |-> 1, section |-> 0]
  /\ error = "None"

Fail(e) == pc' = "done" /\ error' = e

(***************************************************************************)
(* The storage                                                             *)
(***************************************************************************)

OpenStorage ==
  /\ pc = "open"
  /\ CASE storage.end < HeaderSize -> Fail("StorageSizeTooSmall")
       [] storage.end >= HeaderSize /\ storage.count = 0 -> Fail("NoLoadCommands")
       [] OTHER -> pc' = "verify" /\ UNCHANGED error
  /\ UNCHANGED <<storage, commands, walk, list, at>>

\* A variant of CommandError that does not ask whether the command fits.
CommandError_AnySize(s) ==
  CASE s < HeaderSize -> "CmdSizeTooSmall"
    [] s >= HeaderSize /\ s % storage.align # 0 -> "CmdSizeNotAligned"
    [] OTHER -> "None"

\* Why VerifyLoadCommands refuses a command of size s, if it does.
CommandError(s) ==
  CASE s < HeaderSize -> "CmdSizeTooSmall"
    [] s >= HeaderSize /\ s % storage.align # 0 -> "CmdSizeNotAligned"
    [] s >= HeaderSize /\ s % storage.align = 0 /\ walk.offset + s > storage.end ->
         "StorageSizeTooSmall"
    [] s >= HeaderSize /\ s % storage.align = 0 /\ walk.offset + s = storage.end
         /\ walk.passed + 1 < storage.count -> "StorageSizeTooSmall"
    [] OTHER -> "None"

\* A variant of VerifyCommand that keeps the end the header gives.
VerifyCommand_KeepsEnd(s) ==
  /\ pc = "verify"
  /\ IF CommandError(s) # "None"
     THEN Fail(CommandError(s)) /\ UNCHANGED <<storage, commands, walk>>
     ELSE /\ commands' = Append(commands, s)
          /\ IF walk.passed + 1 = storage.count
             THEN /\ pc' = "parse"
                  /\ walk' = [offset |-> 0, passed |-> 0]
             ELSE /\ walk' = [offset |-> walk.offset + s, passed |-> walk.passed + 1]
                  /\ UNCHANGED pc
          /\ UNCHANGED <<storage, error>>
  /\ UNCHANGED <<list, at>>

\* A turn of VerifyLoadCommands' loop.  The storage ends with the last command,
\* and the iterator begins at the first.
VerifyCommand(s) ==
  /\ pc = "verify"
  /\ IF CommandError(s) # "None"
     THEN Fail(CommandError(s)) /\ UNCHANGED <<storage, commands, walk>>
     ELSE /\ commands' = Append(commands, s)
          /\ IF walk.passed + 1 = storage.count
             THEN /\ pc' = "parse"
                  /\ storage' = [storage EXCEPT !.end = walk.offset + s]
                  /\ walk' = [offset |-> 0, passed |-> 0]
             ELSE /\ walk' = [offset |-> walk.offset + s, passed |-> walk.passed + 1]
                  /\ UNCHANGED <<pc, storage>>
          /\ UNCHANGED error
  /\ UNCHANGED <<list, at>>

(***************************************************************************)
(* Collecting the segments                                                 *)
(***************************************************************************)

\* isSectionListValid: the sections a segment command claims fit into it.
SectionsFit(s, n) == s >= SegmentSize + n * SectionSize

\* The iterator yields a command.  A segment command always becomes a segment;
\* without its sections if they do not fit.
ParseCommand ==
  LET s == commands[walk.passed + 1]
      Added(r, sections) == [file |-> r.file, mem |-> r.mem, sections |-> sections]
  IN  /\ pc = "parse" /\ walk.offset < storage.end
      /\ walk' = [offset |-> walk.offset + s, passed |-> walk.passed + 1]
      /\ \/ UNCHANGED <<list, error>>
         \/ \E r \in SegmentRanges, n \in 0..2 :
              IF SectionsFit(s, n)
              THEN /\ \E sections \in [1..n -> SectionRanges] : list' = Append(list, Added(r, sections))
                   /\ UNCHANGED error
              ELSE list' = Append(list, Added(r, <<>>)) /\ error' = "InvalidSectionList"
      /\ UNCHANGED <<pc, storage, commands, at>>

ParseEnd ==
  /\ pc = "parse" /\ walk.offset >= storage.end
  /\ pc' = "segments"
  /\ UNCHANGED <<storage, commands, walk, list, at, error>>

(***************************************************************************)
(* "Check for any overlaps after collecting a list"                        *)
(***************************************************************************)

\* A variant of OverlapsEarlier that compares the file ranges only.
OverlapsEarlier_FileOnly(i) ==
  \E j \in 1..(i - 1) : Overlaps(list[i].file, list[j].file)

\* Segment i overlaps one before it.
OverlapsEarlier(i) ==
  \E j \in 1..(i - 1) :
    Overlaps(list[i].file, list[j].file) \/ Overlaps(list[i].mem, list[j].mem)

CheckSegment ==
  /\ pc = "segments" /\ at.segment <= Len(list)
  /\ IF OverlapsEarlier(at.segment)
     THEN Fail("OverlappingSegments") /\ UNCHANGED at
     ELSE pc' = "sections" /\ at' = [at EXCEPT !.section = 1] /\ UNCHANGED error
  /\ UNCHANGED <<storage, commands, walk, list>>

Section(i, k) == list[i].sections[k]

\* A variant of SectionError that does not compare a section with its segment.
SectionError_AnySegment(i, k) ==
  CASE Section(i, k).file.begin = 0 -> "None"
    [] Section(i, k).file.begin # 0
         /\ \E j \in 1..(k - 1) : \/ Overlaps(Section(i, k).file, Section(i, j).file)
                                  \/ Overlaps(Section(i, k).file, Section(i, j).mem) ->
         "OverlappingSections"
    [] OTHER -> "None"

\* What is wrong with section k of segment i.  A section at offset 0 is not
\* looked at.  What the code calls the section's memory range is its file range.
SectionError(i, k) ==
  LET file == Section(i, k).file
  IN  CASE file.begin = 0 -> "None"
        [] file.begin # 0 /\ ~ContainsRange(list[i].file, file) -> "InvalidSection"
        [] file.begin # 0 /\ ContainsRange(list[i].file, file)
             /\ \E j \in 1..(k - 1) : \/ Overlaps(file, Section(i, j).file)
                                      \/ Overlaps(file, Section(i, j).mem) ->
             "OverlappingSections"
        [] OTHER -> "None"

CheckSection ==
  LET e == SectionError(at.segment, at.section)
  IN  /\ pc = "sections" /\ at.section <= Len(list[at.segment].sections)
      /\ IF e # "None"
         THEN Fail(e) /\ UNCHANGED at
         ELSE at' = [at EXCEPT !.section = @ + 1] /\ UNCHANGED <<pc, error>>
      /\ UNCHANGED <<storage, commands, walk, list>>

NextSegment ==
  /\ pc = "sections" /\ at.section > Len(list[at.segment].sections)
  /\ pc' = "segments"
  /\ at' = [segment |-> at.segment + 1, section |-> 0]
  /\ UNCHANGED <<storage, commands, walk, list, error>>

CheckEnd ==
  /\ pc = "segments" /\ at.segment > Len(list)
  /\ pc' = "done"
  /\ UNCHANGED <<storage, commands, walk, list, at, error>>

Done == pc = "done" /\ UNCHANGED vars

Next ==
  \/ OpenStorage
  \/ \E s \in 0..MaxCommand : VerifyCommand(s)
  \/ ParseCommand
  \/ ParseEnd
  \/ CheckSegment
  \/ CheckSection
  \/ NextSegment
  \/ CheckEnd
  \/ Done

Spec == Init /\ [][Next]_vars

(***************************************************************************)
(* The lookups, by an address and a size: the offset into the file of what *)
(* they find, or Null.                                                     *)
(***************************************************************************)

\* The first of a set of segments, or of sections of a segment.
First(S) == CHOOSE i \in S : \A j \in S : i <= j

SegmentsOf(r) == {i \in DOMAIN list : ContainsRange(list[i].mem, r)}

SectionsOf(i, r) == {k \in DOMAIN list[i].sections : ContainsRange(Section(i, k).mem, r)}

\* The segments in which GetDataForVirtualAddr finds a section: one without such
\* a section is passed over.
SegmentsWithSection(r) == {i \in SegmentsOf(r) : SectionsOf(i, r) # {}}

\* The section found, if there is one.
SectionFound(r) ==
  LET i == First(SegmentsWithSection(r)) IN <<i, First(SectionsOf(i, r))>>

\* GetDataForVirtualAddr.  The section's size is the same in the file.
DataAt(addr, size) ==
  LET r == Range(addr, size)
      f == SectionFound(r)
  IN  IF addr = 0 \/ SegmentsWithSection(r) = {} THEN Null
      ELSE Section(f[1], f[2]).file.begin + (addr - Section(f[1], f[2]).mem.begin)

\* GetDataForVirtualAddrIgnoreSections, which does not ask whether the segment
\* has that much data in the file.
DataAtIgnoringSections(addr, size) ==
  LET i == First(SegmentsOf(Range(addr, size)))
  IN  IF addr = 0 \/ SegmentsOf(Range(addr, size)) = {} THEN Null
      ELSE list[i].file.begin + (addr - list[i].mem.begin)

-----------------------------------------------------------------------------
(***************************************************************************)
(* Properties                                                              *)
(***************************************************************************)

\* The iterator stops after the number of commands the header gives, at the end
\* of the last one: what was verified is what is walked, and no
\* offset leaves it.
WalksWhatWasVerified ==
  TypeOK /\ (pc \in {"parse", "segments"} =>
    /\ Len(commands) = storage.count
    /\ walk.offset < storage.end <=> walk.passed < storage.count)

Accepted == pc = "done" /\ error = "None"

\* Two segments of a collection without an error have no byte of the file and
\* no address in common, and no two sections of a segment have a byte of the
\* file in common, other than those at offset 0.
AcceptedIsDisjoint ==
  Accepted => \A i \in DOMAIN list :
    /\ \A j \in 1..(i - 1) : ~Meet(list[i].file, list[j].file) /\ ~Meet(list[i].mem, list[j].mem)
    /\ \A k \in DOMAIN list[i].sections : Section(i, k).file.begin # 0 =>
         \A j \in 1..(k - 1) : ~Meet(Section(i, k).file, Section(i, j).file)

\* Two ranges have something in common, or one that is empty begins inside the
\* other.
Clash(r, q) ==
  \/ Meet(r, q)
  \/ r.size = 0 /\ r.begin \in Locations(q)
  \/ q.size = 0 /\ q.begin \in Locations(r)

\* An error has a reason: segments clash in the file or in memory; a section
\* leaves its segment, or begins outside of it; sections clash in the file, or
\* the offsets of one with the addresses of the other.
ErrorsHaveAReason ==
  pc = "done" =>
    /\ error = "OverlappingSegments" => \E i, j \in DOMAIN list : i # j /\
         (Clash(list[i].file, list[j].file) \/ Clash(list[i].mem, list[j].mem))
    /\ error = "InvalidSection" => \E i \in DOMAIN list : \E k \in DOMAIN list[i].sections :
         \/ ~(Locations(Section(i, k).file) \subseteq Locations(list[i].file))
         \/ Section(i, k).file.begin \notin Locations(list[i].file)
    /\ error = "OverlappingSections" => \E i \in DOMAIN list : \E k, j \in DOMAIN list[i].sections :
         k # j /\ (Clash(Section(i, k).file, Section(i, j).file)
                   \/ Clash(Section(i, k).file, Section(i, j).mem))

\* A collection is accepted only if it is disjoint, and refused with reason.
VerdictIsRight == AcceptedIsDisjoint /\ ErrorsHaveAReason

\* What is asked of the lookups and found.
Queries == {q \in Asked : DataAt(q[1], q[2]) # Null}

\* Data found for an address is, all of it, in the part of the file that its section
\* has, and in that of the segment the address is in; only a section at offset 0,
\* which is not compared with its segment, may leave the segment's.
DataIsInTheSegment ==
  Accepted => \A q \in Queries :
    LET f == SectionFound(Range(q[1], q[2]))
        section == Section(f[1], f[2])
        data == Range(DataAt(q[1], q[2]), q[2])
    IN  /\ ContainsRange(section.file, data)
        /\ section.file.begin # 0 => ContainsRange(list[f[1]].file, data)

\* The two lookups, one of which the Objective-C parser uses for the classes and
\* the other for their names, agree for sections that are aligned: as far into their
\* segment's part of the file as into its memory.  Of the others nothing is said.
LookupsAgree ==
  Accepted => \A q \in Queries :
    LET f == SectionFound(Range(q[1], q[2]))
        s == Section(f[1], f[2])
    IN  s.file.begin + list[f[1]].mem.begin = s.mem.begin + list[f[1]].file.begin =>
          DataAtIgnoringSections(q[1], q[2]) = DataAt(q[1], q[2])

-----------------------------------------------------------------------------
(***************************************************************************)
(* A statement of the repository that the code does not keep               *)
(***************************************************************************)

\* Common.cpp:105, "Provided File has Overlapping Segments".
OnlyOverlapsAreReported ==
  (pc = "done" /\ error = "OverlappingSegments") =>
    \E i, j \in DOMAIN list : i # j /\
      (Meet(list[i].file, list[j].file) \/ Meet(list[i].mem, list[j].mem))

=============================================================================

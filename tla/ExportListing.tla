---------------------------- MODULE ExportListing ----------------------------
(***************************************************************************)
(* --list-export-trie without --tree: the exports that meet the            *)
(* requirements (PrintExportTrie.cpp).                                     *)
(*                                                                         *)
(* In an image, "trie" is what ExportTrieIterator comes to in the file, in *)
(* its order: "nodes" up to an error or to the end, and what was "broken", *)
(* the root or another node.  A node that is an export has the fields of   *)
(* its flags; a re-export has the ordinal of a library and the name it is  *)
(* imported by, 0 for none.  "base" is the address of an image of a cache, *)
(* and 0 elsewhere.                                                        *)
(***************************************************************************)
EXTENDS ListingState, DyldLists

LOCAL Sets == INSTANCE FiniteSetsExt

Nodes == image.trie.nodes

-----------------------------------------------------------------------------
(* Finding the trie *)

TrieKinds == {"DyldInfo", "DyldExportsTrie"}

PlaceOfTrie(command) ==
    IF command.kind = "DyldInfo" THEN command.places[5] ELSE command.places[1]

\* What PrintExportTrieOperation::Run and FindExportTrieList stop at.  An image
\* without a trie is no error, and the list that was never set is used.
TrieError ==
    LET tries == {k \in DOMAIN image.commands : image.commands[k].kind \in TrieKinds}
        place == PlaceOfTrie(image.commands[CHOOSE k \in tries : TRUE])
    IN IF Assertion(image.commands) THEN "Assertion"
       ELSE IF Cardinality(tries) > 1 THEN "ManyTries"
       ELSE IF tries = {} THEN "NullTrie" ELSE PlaceError(image.size, place)

FindTrie ==
    /\ pc = "exports"
    /\ IF TrieError # "None" THEN End(TrieError)
       ELSE /\ pc' = "trie"
            /\ UNCHANGED <<image, options, at, tables, section, found, end, output>>

-----------------------------------------------------------------------------
(* The exports *)

\* The kind the iterator gives an export: the fourth value of the field is none
\* of the enumerators, and keeps the kind that was cleared.
ExportKind(node) ==
    CASE node.symbol = 0 -> (IF node.stub THEN "StubAndResolver"
                             ELSE IF node.reexport THEN "Reexport" ELSE "Regular")
      [] node.symbol = 1 -> "ThreadLocal"
      [] node.symbol = 2 -> "Absolute"
      [] node.symbol = 3 -> "None"

IsListed(node) == node.isExport /\ ExportKind(node) # "None"

\* FindSegmentAndSectionForAddr: the first segment, and the first section in it.
PlaceOfExport(node) ==
    LET addr == (image.base + node.offset) % Long
        holds(segment) == HasLocation(Range(segment.begin, segment.size), addr)
        holding == SelectSeq(image.segments, holds)
    IN IF holding = <<>> THEN [segment |-> <<>>, section |-> <<>>]
       ELSE [segment |-> Head(holding).name, section |-> SectionNameAt(Head(holding), addr)]

\* Mutant: a re-export that was asked for has to be in a section, too.
MeetsRequirements_NoReexport(kind, place) ==
    /\ options.kinds # {} => kind \in options.kinds
    /\ options.sections # {} =>
         /\ kind # "Reexport"
         /\ \E asked \in options.sections :
              /\ asked.segment = place.segment
              /\ asked.section \in {<<>>, place.section}

\* ExportMeetsRequirements: a section without a name stands for all of its
\* segment, and re-exports are in no section, but pass where they were asked for.
MeetsRequirements(kind, place) ==
    /\ options.kinds # {} => kind \in options.kinds
    /\ \/ options.sections = {} \/ (kind = "Reexport" /\ kind \in options.kinds)
       \/ /\ kind # "Reexport"
          /\ \E asked \in options.sections :
               /\ asked.segment = place.segment
               /\ asked.section \in {<<>>, place.section}

\* Nothing is asked of what is only counted, unless a section is.
CountsAll == options.onlyCount /\ options.sections = {}

\* getImageOffset asserts by the flag that this is no re-export, when the kind
\* has said so: a thread-local, absolute or stub's export with the flag fails.
OffsetAsserts(node) == node.reexport /\ ExportKind(node) # "Reexport"

\* A turn of PrintExportTrie's loop.
ReadExport ==
    /\ pc = "trie" /\ at < Len(Nodes)
    /\ LET node == Nodes[at + 1]
           kind == ExportKind(node)
           place == IF kind = "Reexport" THEN [segment |-> <<>>, section |-> <<>>]
                    ELSE PlaceOfExport(node)
       IN IF IsListed(node) /\ ~CountsAll /\ OffsetAsserts(node) THEN End("Assertion")
          ELSE /\ at' = at + 1
               /\ found' = IF IsListed(node) /\ (CountsAll \/ MeetsRequirements(kind, place))
                           THEN found \cup {at + 1} ELSE found
               /\ UNCHANGED <<image, options, pc, tables, section, end, output>>

-----------------------------------------------------------------------------
(* The list *)

\* The name a re-export is imported by is not cleared with the rest of what an
\* export has, so one that has none is given the last that was read.
ImportName(k) ==
    LET named == {j \in 1..k : Nodes[j].isExport /\ Nodes[j].reexport /\ Nodes[j].import # 0}
    IN IF named = {} THEN 0 ELSE Nodes[Sets!Max(named)].import

ReexportShown(node, k) ==
    [import |-> ImportName(k),
     library |-> IF ~options.verbose /\ node.library \in 1..Len(Libraries(image.commands))
                 THEN "Ordinal" ELSE LibraryShown(Libraries(image.commands), node.library)]

ExportLine(k) ==
    LET node == Nodes[k]
    IN [index |-> k, kind |-> ExportKind(node),
        place |-> IF node.reexport THEN "None" ELSE PlaceOfExport(node),
        offset |-> IF node.reexport THEN 0
                   ELSE IF image.is64 THEN node.offset ELSE node.offset % Word,
        from |-> IF node.reexport THEN ReexportShown(node, k) ELSE "None"]

ExportKeys == [k \in found |-> [ByIndex |-> k, BySymbol |-> Nodes[k].name]]

\* The end of PrintExportTrie.  The message for an error of the iterator is the
\* one for two tries; an error of the root leaves an empty list.
ListExports ==
    /\ pc = "trie" /\ at = Len(Nodes)
    /\ IF image.trie.broken = "Node" THEN End("ManyTries")
       ELSE IF options.onlyCount
       THEN /\ output' = <<[count |-> Cardinality(found)]>> /\ pc' = "end" /\ end' = "Counted"
            /\ UNCHANGED <<image, options, at, tables, section, found>>
       ELSE IF found = {} THEN End("NoExports")
       ELSE \E order \in Sorted(found, IF options.sorts = <<>> THEN <<"ByIndex">>
                                       ELSE options.sorts, ExportKeys) :
              /\ output' = [k \in DOMAIN order |-> ExportLine(order[k])]
              /\ pc' = "end" /\ end' = "Listed"
              /\ UNCHANGED <<image, options, at, tables, section, found>>

-----------------------------------------------------------------------------
(* Properties *)

\* The exports of the trie; those of the fourth value of the field have no kind,
\* and may be left out without a word (PrintExportTrie.cpp:338).  And those that the
\* kinds and sections asked for let pass, by the segment and section their address
\* is in.
Exports == {k \in DOMAIN Nodes : Nodes[k].isExport /\ Nodes[k].symbol # 3}
Kindless == {k \in DOMAIN Nodes : Nodes[k].isExport /\ Nodes[k].symbol = 3}
KindOf(k) ==
    LET node == Nodes[k]
    IN IF node.symbol = 0 /\ node.stub THEN "StubAndResolver"
       ELSE IF node.symbol = 0 /\ node.reexport THEN "Reexport"
       ELSE <<"Regular", "ThreadLocal", "Absolute">>[node.symbol + 1]
Holding(list, first(_), addr) ==
    {n \in DOMAIN list : first(list[n]) <= addr /\ addr < first(list[n]) + list[n].size}
LeastOf(S) == CHOOSE n \in S : \A m \in S : n <= m
SegmentsOf(k) ==
    Holding(image.segments, LAMBDA s : s.begin, (image.base + Nodes[k].offset) % Long)
SegmentOfExport(k) == image.segments[LeastOf(SegmentsOf(k))]
SectionsOf(k) ==
    Holding(SegmentOfExport(k).sections, LAMBDA s : s.addr, (image.base + Nodes[k].offset) % Long)
IsIn(k, asked) ==
    /\ SegmentsOf(k) # {} /\ SegmentOfExport(k).name = asked.segment
    /\ asked.section # <<>> =>
         /\ SectionsOf(k) # {}
         /\ SegmentOfExport(k).sections[LeastOf(SectionsOf(k))].name = asked.section
Passes(k) ==
    /\ options.kinds = {} \/ KindOf(k) \in options.kinds
    /\ CASE options.sections = {} -> TRUE
         [] KindOf(k) = "Reexport" -> options.kinds # {}
         [] OTHER -> \E asked \in options.sections : IsIn(k, asked)
Passing == {k \in Exports : Passes(k)}

\* The list has each export that passes, once, in the order asked for, and the count
\* is that of the list; only where kinds alone were asked for may all exports be
\* counted (PrintExportTrie.cpp:404).
ExportsAreTheTries ==
    options.operation = "exports" =>
        /\ end = "Listed" =>
             /\ {output[k].index : k \in DOMAIN output} \ Kindless = Passing
             /\ Len(output) = Cardinality({output[k].index : k \in DOMAIN output})
             /\ \A j \in DOMAIN output, k \in DOMAIN output : j < k =>
                  IF options.sorts = <<>> THEN output[j].index < output[k].index
                  ELSE Nodes[output[j].index].name <= Nodes[output[k].index].name
        /\ end = "Counted" =>
             \E all \in {{}} \cup (IF options.sections = {} THEN {Exports} ELSE {}),
                more \in 0..Cardinality(Kindless) :
                  output[1].count = Cardinality(Passing \cup all) + more

\* One trie that lies in the file and can be read to its end is listed or counted.
\* The code departs from that as follows, which is allowed and not asked for: an
\* image without a trie, which is no error (PrintExportTrie.cpp:332), ends in the
\* list that was never set; an error of the iterator is reported as that of two
\* tries (396), and one of the root not at all; an empty trie at the end of the
\* file is said to leave it; and an assertion fails for a re-export of another kind
\* than the regular one (ExportTrie.h:318), or a library's command that is too
\* short for one.
ExportsEndRight ==
    pc = "end" /\ options.operation = "exports" =>
    LET tries == {k \in DOMAIN image.commands :
                    image.commands[k].kind \in {"DyldInfo", "DyldExportsTrie"}}
        short == \E k \in DOMAIN image.commands :
                    image.commands[k].kind = "Library" /\ image.commands[k].size < 24
        odd == \E k \in Exports : Nodes[k].reexport /\ KindOf(k) # "Reexport"
        places == image.commands[LeastOf(tries)].places
        place == places[Len(places)]
        inside == place.begin + place.size <= image.size
        answers == IF options.onlyCount THEN {"Counted"}
                   ELSE IF Passing # {} THEN {"Listed"}
                   ELSE {"NoExports"} \cup (IF Kindless # {} THEN {"Listed"} ELSE {})
    IN \/ end = "Assertion" /\ short
       \/ tries = {} /\ end \in {"NoTrie", "NullTrie"}
       \/ Cardinality(tries) > 1 /\ end = "ManyTries"
       \/ /\ Cardinality(tries) = 1
          /\ \/ ~inside /\ end = "PastEnd"
             \/ inside /\ place.size = 0 /\ end = "Empty"
             \/ place.begin = image.size /\ place.size = 0 /\ end = "PastEnd"
             \/ /\ inside /\ place.size > 0
                /\ \/ image.trie.broken = "No" /\ end \in answers
                   \/ image.trie.broken # "No" /\ end = "BrokenTrie"
                   \/ image.trie.broken = "Node" /\ end = "ManyTries"
                   \/ image.trie.broken = "Root" /\ end \in answers
                   \/ odd /\ end = "Assertion"

\* The line of an export has its segment and section, or that of a re-export its
\* library by the ordinal and the name it is imported by; one that has no such
\* name may have that of the last one before it that has (ExportTrie.h:378).
ExportsAreShown ==
    end = "Listed" /\ options.operation = "exports" =>
    LET libraries == {k \in DOMAIN image.commands : image.commands[k].kind = "Library"}
    IN \A n \in DOMAIN output :
         LET line == output[n]
             node == Nodes[line.index]
         IN /\ ~node.reexport =>
                 /\ SegmentsOf(line.index) = {} => line.place.segment = <<>>
                 /\ SegmentsOf(line.index) # {} =>
                      /\ line.place.segment = SegmentOfExport(line.index).name
                      /\ line.place.section =
                           IF SectionsOf(line.index) = {} THEN <<"<invalid>">>
                           ELSE SegmentOfExport(line.index).sections[
                                    LeastOf(SectionsOf(line.index))].name
                 /\ image.is64 \/ node.offset < Word => line.offset = node.offset
            /\ node.reexport =>
                 /\ line.from.import # node.import =>
                      /\ node.import = 0
                      /\ \E j \in 1..(line.index - 1) :
                           /\ Nodes[j].reexport /\ Nodes[j].import = line.from.import
                           /\ \A i \in (j + 1)..(line.index - 1) : Nodes[i].import = 0
                 /\ node.library = 0 => line.from.library = "Self"
                 /\ node.library > Cardinality(libraries) /\ node.library \notin 253..255 =>
                      line.from.library = "OutOfBounds"
                 /\ \A k \in libraries :
                      /\ Cardinality({j \in libraries : j <= k}) = node.library
                      /\ options.verbose /\ line.from.library.error = "None"
                      => line.from.library.text = image.commands[k].text

==============================================================================

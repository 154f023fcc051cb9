--------------------------- MODULE PointerListing ----------------------------
(***************************************************************************)
(* --list-symbol-ptr-section: the symbols whose pointers a section holds,  *)
(* through the table of indirect symbols (PrintSymbolPtrSection.cpp,       *)
(* SymbolTableUtil.cpp).                                                   *)
(*                                                                         *)
(* In an image, "indices" is the table of indirect symbols, "entries" the  *)
(* symbol table, as far as the file goes, and strings[p] the text at       *)
(* position p of the string table, 0 where no zero follows.  A number of the *)
(* file has two digits of base Digit here for its four bytes, a name is a  *)
(* sequence of letters.                                                    *)
(***************************************************************************)
EXTENDS ListingState, SharedLibraries

LOCAL F == INSTANCE Functions
LOCAL Seqs == INSTANCE SequencesExt

CONSTANT Digit

ASSUME DigitAssumption == Digit \in Nat /\ Digit > 2

IndirectSymbolLocal == 2 * Digit
IndirectSymbolAbsolute == Digit
PointerSize == IF image.is64 THEN 8 ELSE 4
TableKinds == {"SymbolTable", "DynamicSymbolTable"}

-----------------------------------------------------------------------------
(* The section and the load commands *)

\* GetInfoForName and FindSectionWithName: the first of the name.
FirstOf(list, name) ==
    LET named == {k \in DOMAIN list : list[k].name = name}
    IN IF named = {} THEN 0 ELSE CHOOSE k \in named : \A j \in named : k <= j

FindSection ==
    /\ pc = "pointers"
    /\ LET s == FirstOf(image.segments, options.segment)
           segment == image.segments[s]
           k == FirstOf(segment.sections, options.section)
       IN IF s = 0 THEN End("NoSegment")
          ELSE IF segment.protected THEN End("Protected")
          ELSE IF k = 0 THEN End("NoSection")
          ELSE IF segment.sections[k].kind # "Pointers" THEN End("NotPointers")
          ELSE /\ section' = segment.sections[k]
               /\ pc' = "commands" /\ at' = 1
               /\ UNCHANGED <<image, options, tables, found, end, output>>

ReadCommand ==
    /\ pc = "commands" /\ at <= Len(image.commands)
    /\ LET kind == image.commands[at].kind
           first == IF kind \in TableKinds /\ tables[kind] # 0 THEN tables[kind] ELSE at
       IN IF image.commands[first] # image.commands[at] THEN End("Differing")
          ELSE /\ tables' = [k \in DOMAIN tables |-> IF k = kind THEN first ELSE tables[k]]
               /\ at' = at + 1
               /\ UNCHANGED <<image, options, pc, section, found, end, output>>

SectionIndexCount == section.size \div PointerSize

\* Mutant: only the begin of the section's part is compared with the table.
SectionIsValid_Begin(indirect) ==
    HasLocation(Range(0, indirect.count), section.reserved1)

\* The first check of ParseIndirectSymbolsPtrSection.
SectionIsValid(indirect) ==
    ContainsRange(Range(0, indirect.count), Range(section.reserved1, SectionIndexCount))

\* What stops the operation after the loop: a missing table, an assertion in
\* SharedLibraryInfoCollection::Open, a section that is no part of the table.
CommandsError ==
    IF tables["SymbolTable"] = 0 THEN "NoSymbolTable"
    ELSE IF tables["DynamicSymbolTable"] = 0 THEN "NoDynamicSymbolTable"
    ELSE IF Assertion(image.commands) THEN "Assertion"
    ELSE IF ~SectionIsValid(image.commands[tables["DynamicSymbolTable"]])
    THEN "InvalidSection" ELSE "None"

CommandsEnd ==
    /\ pc = "commands" /\ at > Len(image.commands)
    /\ IF CommandsError # "None" THEN End(CommandsError)
       ELSE /\ pc' = "indices" /\ at' = 0
            /\ UNCHANGED <<image, options, tables, section, found, end, output>>

-----------------------------------------------------------------------------
(* The symbols *)

\* Mutant: the section's own part of the table is not looked for.
StoredIndex_FromStart(k) == image.indices[k + 1]

\* The k'th index of the section, as the file has it.
StoredIndex(k) == image.indices[section.reserved1 + k + 1]

Switched(number) == Digit * (number % Digit) + number \div Digit

\* The index is compared and used as it is read: the bytes of a big-endian file
\* are not put in order.
ReadIndex(k) == IF image.bigEndian THEN Switched(StoredIndex(k)) ELSE StoredIndex(k)

\* Only the loop over 64-bit symbols knows the indices that are none.
Skipped(index) == image.is64 /\ index \in {IndirectSymbolLocal, IndirectSymbolAbsolute}

\* What ParseSymbol says of an entry; with no options set it ignores none.  A
\* string that was read before is taken from StringMap, where it is the same.
SymbolError(entry) ==
    IF entry.string \notin DOMAIN image.strings THEN "InvalidStringOffset"
    ELSE IF image.strings[entry.string] = 0 THEN "NoNullTerminator" ELSE "None"

\* The tables are used where the load commands put them; that they end before
\* the file does is not asked.
ReadPointer ==
    /\ pc = "indices" /\ at < SectionIndexCount
    /\ IF section.reserved1 + at >= Len(image.indices) THEN End("OutsideTheFile")
       ELSE LET index == ReadIndex(at)
                count == image.commands[tables["SymbolTable"]].count
                error == IF index >= count THEN "OutOfBoundsIndirectIndex"
                         ELSE IF index >= Len(image.entries) THEN "OutsideTheFile"
                         ELSE SymbolError(image.entries[index + 1])
            IN IF ~Skipped(index) /\ error # "None" THEN End(error)
               ELSE /\ at' = at + 1
                    /\ found' = IF Skipped(index) THEN found ELSE found \cup {index}
                    /\ UNCHANGED <<image, options, pc, tables, section, end, output>>

-----------------------------------------------------------------------------
(* The list *)

SectionDefined == 14

Entry(index) == image.entries[index + 1]

\* GetSectionWithIndex, which counts the sections of all segments, finds none.
NoSuchSection(entry) ==
    LET sections(k) == Len(image.segments[k].sections)
        count == F!FoldFunction(+, 0, [k \in DOMAIN image.segments |-> sections(k)])
    IN entry.kind = SectionDefined /\ entry.section \notin 1..count

\* getSectionAtOrdinal, asked of the first segment.  OrdinalToIndex returns a
\* bool: each ordinal but 1 is that of the second section.
SectionShown(entry) ==
    LET sections == image.segments[1].sections
        k == IF entry.section = 1 THEN 1 ELSE 2
    IN IF entry.kind # SectionDefined THEN <<"No-Section">>
       ELSE IF k > Len(sections) THEN <<"<invalid>">> ELSE sections[k].name

ListedSymbol(index) ==
    [index |-> index, name |-> image.strings[Entry(index).string],
     section |-> IF options.verbose THEN SectionShown(Entry(index)) ELSE <<>>,
     library |-> IF options.verbose
                 THEN LibraryShown(Libraries(image.commands), Entry(index).library)
                 ELSE "Self"]

\* CompareEntriesBySortKind
SymbolKeys ==
    [index \in found |->
        [ByDylibOrdinal |-> Entry(index).library, ByKind |-> Entry(index).kind,
         ByIndex |-> index, BySymbol |-> image.strings[Entry(index).string]]]

\* The end of PrintSymbolPtrList, and PrintSymbolList.
ListSymbols ==
    /\ pc = "indices" /\ at = SectionIndexCount
    /\ IF found = {} THEN End("NoSymbols")
       ELSE IF \E index \in found : NoSuchSection(Entry(index)) THEN End("NullSection")
       ELSE \E order \in Sorted(found, IF options.sorts = <<>> THEN <<"ByIndex">>
                                       ELSE SortKindList(options.sorts), SymbolKeys) :
              /\ output' = [k \in DOMAIN order |-> ListedSymbol(order[k])]
              /\ pc' = "end" /\ end' = "Listed"
              /\ UNCHANGED <<image, options, at, tables, section, found>>

-----------------------------------------------------------------------------
(* Properties *)

Tables(kind) == {k \in DOMAIN image.commands : image.commands[k].kind = kind}
OneTable(kind) ==
    \A j \in Tables(kind), k \in Tables(kind) : image.commands[j] = image.commands[k]
Count(kind) == image.commands[CHOOSE k \in Tables(kind) : TRUE].count

\* The part of the table that is the section's: the positions it holds pointers of.
Part == section.reserved1..(section.reserved1 + section.size \div PointerSize - 1)

(***************************************************************************)
(* The table as it is to be read, "Rightly", and as it is read where the   *)
(* code departs from that: the bytes of a big-endian file are in the wrong *)
(* order, and in a file of 32 bits an index that stands for no symbol is   *)
(* taken for one (SymbolTableUtil.cpp:321).                                *)
(***************************************************************************)
Readings == IF image.bigEndian \/ ~image.is64 THEN {"Rightly", "AsItIs"} ELSE {"Rightly"}
IndexAt(reading, p) ==
    LET stored == image.indices[p + 1]
    IN IF reading = "AsItIs" /\ image.bigEndian
       THEN Digit * (stored % Digit) + stored \div Digit ELSE stored
IsNone(reading, p) ==
    /\ IndexAt(reading, p) \in {Digit, 2 * Digit}
    /\ reading = "AsItIs" => image.is64

\* What is wrong with the pointer at p.
Faults(reading, p) ==
    IF p >= Len(image.indices) THEN {"OutsideTheFile"}
    ELSE IF IsNone(reading, p) THEN {}
    ELSE IF IndexAt(reading, p) >= Count("SymbolTable") THEN {"OutOfBoundsIndirectIndex"}
    ELSE IF IndexAt(reading, p) >= Len(image.entries) THEN {"OutsideTheFile"}
    ELSE LET string == image.entries[IndexAt(reading, p) + 1].string
         IN IF string \notin DOMAIN image.strings THEN {"InvalidStringOffset"}
            ELSE IF image.strings[string] = 0 THEN {"NoNullTerminator"} ELSE {}

IndicesNamed(reading) == {IndexAt(reading, p) : p \in {q \in Part : ~IsNone(reading, q)}}

\* The list has every symbol that the section's own part of the indirect table
\* names, once, with the text its entry leads to, in the order asked for, and
\* nothing else (ParseIndirectSymbolsPtrSection, ParseIndirectSymbolIndexTable,
\* ParseSymbol, the sort of PrintSymbolPtrList).
SymbolsAreTheSections ==
    end = "Listed" /\ options.operation = "pointers" =>
        LET listed == {output[k].index : k \in DOMAIN output}
        IN /\ \E reading \in Readings : listed = IndicesNamed(reading)
           /\ Len(output) = Cardinality(listed)
           /\ \A k \in DOMAIN output :
                 output[k].name = image.strings[image.entries[output[k].index + 1].string]
           /\ InOrder(IF options.sorts = <<>> THEN <<"ByIndex">> ELSE options.sorts,
                      [i \in listed |->
                          [ByDylibOrdinal |-> image.entries[i + 1].library,
                           ByKind |-> image.entries[i + 1].kind, ByIndex |-> i,
                           BySymbol |-> image.strings[image.entries[i + 1].string]]])

\* The sections of the whole image, in the order that entries count them in.
AllSections ==
    Seqs!FlattenSeq([k \in DOMAIN image.segments |-> image.segments[k].sections])

\* The end for pointers that are read so: a list where none is at fault, else the
\* error of the first that is.  A table that is longer than the file is not
\* listed; that it is read all the same (OutsideTheFile) is the code's.  A list
\* with a section that is not there may end in a null pointer, and no other does
\* (PrintSymbolPtrSection.cpp:82).
PointersEndAs(reading) ==
    LET lacks(i) == /\ image.entries[i + 1].kind = 14
                    /\ image.entries[i + 1].section \notin 1..Len(AllSections)
        first == {p \in Part : /\ Faults(reading, p) # {}
                               /\ \A q \in Part : q < p => Faults(reading, q) = {}}
    IN IF first = {}
       THEN \/ end = "NoSymbols" /\ IndicesNamed(reading) = {}
            \/ end = "Listed" /\ IndicesNamed(reading) # {}
            \/ end = "NullSection" /\ \E i \in IndicesNamed(reading) : lacks(i)
       ELSE \A p \in first : IF Faults(reading, p) = {"OutsideTheFile"}
                             THEN end \notin {"Listed", "NoSymbols", "NullSection"}
                             ELSE end \in Faults(reading, p)

\* A list only where no pointer of the section is at fault and no table is
\* ambiguous, an error only for the first pointer that has it, whatever follows.
\* An assertion fails only for a library's command that is too short for one
\* (LoadCommands.cpp:775).
SymbolsEndRight ==
    pc = "end" /\ options.operation = "pointers" =>
    LET short == \E k \in DOMAIN image.commands :
                    image.commands[k].kind = "Library" /\ image.commands[k].size < 24
        inside == /\ section.reserved1 < Count("DynamicSymbolTable")
                  /\ \A p \in Part : p < Count("DynamicSymbolTable")
    IN /\ end \in {"NoSegment", "NoSection"} <=>
            ~\E k \in DOMAIN image.segments :
                /\ image.segments[k].name = options.segment
                /\ \A j \in 1..(k - 1) : image.segments[j].name # options.segment
                /\ image.segments[k].protected
                   \/ \E n \in DOMAIN image.segments[k].sections :
                        image.segments[k].sections[n].name = options.section
       /\ end = "Assertion" => short
       /\ section # NoSection /\ end # "Assertion" =>
            /\ end = "Differing" <=> \E kind \in TableKinds : ~OneTable(kind)
            /\ end \in {"NoSymbolTable", "NoDynamicSymbolTable"} <=>
                 /\ \A kind \in TableKinds : OneTable(kind)
                 /\ \E kind \in TableKinds : Tables(kind) = {}
            /\ (\A kind \in TableKinds : Tables(kind) # {} /\ OneTable(kind)) =>
                 /\ end = "InvalidSection" <=> ~inside
                 /\ inside => \E reading \in Readings : PointersEndAs(reading)

\* The library of a symbol is the one its entry counts among the commands that
\* load libraries, by the name its command holds; a name without its zero is no
\* name, or is cut short (LoadCommands.cpp:789).  Its section is the one the entry
\* counts among those of the whole image; only of one that is not the first the
\* second section of the first segment, or none, may be shown (MiscTemplates.h:23,
\* PrintSymbolPtrSection.cpp:156).
SymbolsAreShown ==
    end = "Listed" /\ options.operation = "pointers" /\ options.verbose =>
    LET libraries == {k \in DOMAIN image.commands : image.commands[k].kind = "Library"}
        numbered(n) == CHOOSE k \in libraries : Cardinality({j \in libraries : j <= k}) = n
        there(command) == command.name \in 24..(command.size - 1) /\ command.length > 0
        whole(command) == command.name + command.length < command.size
        first == image.segments[1].sections
    IN \A k \in DOMAIN output :
         LET entry == image.entries[output[k].index + 1]
             command == image.commands[numbered(entry.library)]
             library == output[k].library
         IN /\ entry.library \in 1..Cardinality(libraries) =>
                 /\ there(command) /\ whole(command) =>
                      library = [error |-> "None", text |-> command.text, length |-> command.length]
                 /\ there(command) /\ ~whole(command) =>
                      \/ library.error # "None"
                      \/ library = [error |-> "None", text |-> command.text,
                                    length |-> command.size - 1 - command.name]
                 /\ ~there(command) => library.error # "None"
            /\ entry.kind = 14 /\ entry.section \in DOMAIN AllSections =>
                 \/ output[k].section = AllSections[entry.section].name
                 \/ /\ entry.section # 1 \/ first = <<>>
                    /\ output[k].section = IF Len(first) < 2 THEN <<"<invalid>">> ELSE first[2].name

==============================================================================

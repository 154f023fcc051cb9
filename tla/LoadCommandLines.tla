-------------------------- MODULE LoadCommandLines --------------------------
(***************************************************************************)
(* The lines that --list-load-commands prints of one load command          *)
(* (MachOLoadCommandPrinter.h).                                            *)
(*                                                                         *)
(* A command has by "places" the ranges its fields give, by "name",        *)
(* "text" and "length" the string it holds, by "count" its number of       *)
(* sections, symbols, hints or tools and by "sections" those that are read *)
(* after it.  A line has a "part" for each range it prints: its begin, the *)
(* end that is shown, and whether "(Past EOF!)" follows.                   *)
(*                                                                         *)
(* Kinds with the same printer share a name here.                          *)
(***************************************************************************)
EXTENDS SharedLibraries

LOCAL Sets == INSTANCE FiniteSetsExt

CONSTANTS
    Word, Long,     \* 2^32 and 2^64: the first numbers that a field does not hold
    WidestSize      \* 10^8: the first size with too many digits for its column

ASSUME WidthsAssumption ==
    /\ {Word, Long, WidestSize} \subseteq Nat \ {0}
    /\ 18 * Word <= Long

-----------------------------------------------------------------------------
(* Ranges *)

\* What is shown for an end that does not fit.
Overflows == Long

\* Mutant: the warning for a range that begins past the end of the file.
IsPastEOF_AtLocation(object, end) == end >= object.size

\* __MLCP_WritePastEOFWarning
IsPastEOF(object, end) == ~HasEndLocation(Range(0, object.size), end)

RangePart(place, shown, past) == [begin |-> place.begin, shown |-> shown, past |-> past]

\* __MLCP_WriteOffsetRange and the warning that follows it: the end of a sum
\* that overflows stays 0.
OffsetRange(object, place, limit) ==
    LET sum == place.begin + place.size
    IN IF sum < limit THEN RangePart(place, sum, IsPastEOF(object, sum))
       ELSE RangePart(place, Overflows, IsPastEOF(object, 0))

\* PrintUtilsWriteSizeRange32 and the warning.  DoesAddOverflow does not look at
\* the type it is given but at that of the result: a sum of 32 bits never
\* overflows, and is shown without its top bits.
SizeRange32(object, place) ==
    LET sum == place.begin + place.size
    IN RangePart(place, IF object.is64 THEN sum ELSE sum % Word, IsPastEOF(object, sum))

\* PrintUtilsWriteSizeRange64 and the warning.
SizeRange64(object, place) == OffsetRange(object, place, Long)

\* A range with no warning.
Unmarked(part) == [part EXCEPT !.past = FALSE]
UnmarkedRange32(object, place) == Unmarked(SizeRange32(object, place))

\* __MLCP_WriteLCOffsetSizePair, PrintDyldInfoField: an empty range has no part.
HeldPlaces(command) ==
    LET held(place) == place.size # 0 IN SelectSeq(command.places, held)

-----------------------------------------------------------------------------
(* Segments *)

SizeOfSegment(kind) == IF kind = "Segment64" THEN 72 ELSE 56
SizeOfSection(kind) == IF kind = "Segment64" THEN 80 ELSE 68
LimitOf(kind) == IF kind = "Segment64" THEN Long ELSE Word

\* IsSectionListValidForSegmentCommand, with sums and products of 32 bits.
IsSectionListValid(command) ==
    command.size >= (SizeOfSegment(command.kind)
                       + SizeOfSection(command.kind) * command.count) % Word

\* The sections that are printed, as far as the file goes.
Sections(command) ==
    IF ~IsSectionListValid(command) THEN <<>>
    ELSE SubSeq(command.sections, 1, Sets!Min({command.count, Len(command.sections)}))

\* MachOLoadCommandPrinterWriteFileAndVmRange.  The file range of a section of
\* 64 bits has an offset of 32.
FileAndVmRange(object, kind, at) ==
    <<OffsetRange(object, at.file, LimitOf(kind)),
      Unmarked(OffsetRange(object, at.mem, LimitOf(kind)))>>

\* The padding after a range and before a size is asserted not to be negative.
\* "(Overflows)" is longer than an end of 32 bits; a size has eight digits.
PaddingAsserts(verbose, kind, section) ==
    LET overflows(place) == kind = "Segment" /\ place.begin + place.size >= Word
    IN \/ overflows(section.file)
       \/ verbose /\ (overflows(section.mem) \/ section.file.size >= WidestSize)

\* MachOLoadCommandPrinterWriteSegmentCommand
SegmentParts(object, command) ==
    LET ranges(at) == FileAndVmRange(object, command.kind, at)
        lines == [k \in DOMAIN Sections(command) |-> ranges(command.sections[k])]
    IN <<ranges([file |-> command.places[1], mem |-> command.places[2]])>> \o lines

SegmentNotes(object, command) ==
    {note \in {"WrongKind", "NoSections", "InvalidSections"} :
        CASE note = "WrongKind" -> (command.kind = "Segment64") # object.is64
          [] note = "NoSections" -> command.count = 0
          [] note = "InvalidSections" -> command.count # 0 /\ ~IsSectionListValid(command)}

-----------------------------------------------------------------------------
(* Commands with a string *)

\* The GetName() and its like of each command: the size of its header.
StringHeaders ==
    [FixedVMLibrary |-> 20, FixedVMFile |-> 16, Library |-> 24, IdDylib |-> 24,
     Dylinker |-> 12, SubClient |-> 12, SubUmbrella |-> 12, Rpath |-> 12,
     FileSetEntry |-> 32, PreBoundDylib |-> 20]

HasString(kind) == kind \in DOMAIN StringHeaders

\* PreBoundDylibCommand::GetName gives the offset of a field for the command's
\* size, and that is less than the size of its header.
PreBoundNameEnd == 12
StringCommand(command) ==
    IF command.kind = "PreBoundDylib" THEN [command EXCEPT !.size = PreBoundNameEnd] ELSE command

StringAsserts(command) ==
    HasString(command.kind)
    /\ SizeAsserts(StringCommand(command), StringHeaders[command.kind])

\* MachOLoadCommandPrinterWriteLoadCommandString prints up to the string's zero.
ShownString(command) ==
    LET string == StoredString(StringCommand(command), StringHeaders[command.kind])
    IN IF string.error = "None" THEN [error |-> "None", text |-> command.text] ELSE string

-----------------------------------------------------------------------------
(* The other commands *)

\* MachOLoadCommandPrinter<SymbolTable>: the end of the symbols is counted from
\* the offset of the strings, and the end that the warning looks at stays 0.
SymbolTableParts(object, command) ==
    LET strings == command.places[1]
        symbols == command.places[2]
        end == strings.begin + symbols.size * (IF object.is64 THEN 16 ELSE 12)
    IN <<SizeRange32(object, strings),
         RangePart(symbols, IF object.is64 THEN end ELSE end % Word, IsPastEOF(object, 0))>>

\* MachOLoadCommandPrinter<TwoLevelHints>
SizeOfHint == 4
HintParts(object, command) ==
    LET place == command.places[1]
    IN <<UnmarkedRange32(object, [place EXCEPT !.size = SizeOfHint * place.size])>>

\* MachOLoadCommandPrinter<FunctionStarts>: the size of the encoded numbers is
\* taken for that of pointers; the warning looks at the end of an empty list too.
FunctionStartsParts(object, command) ==
    LET place == command.places[1]
    IN IF place.size # 0 THEN <<SizeRange32(object, place)>>
       ELSE <<RangePart(place, 0, IsPastEOF(object, 0))>>
FunctionStartsNotes(object, command) ==
    IF command.places[1].size % (IF object.is64 THEN 8 ELSE 4) # 0 THEN {"InvalidSize"} ELSE {}

\* MachOLoadCommandPrinter<BuildVersion> and getConstToolList
SizeOfBuildVersion == 24
SizeOfTool == 8
BuildVersionNotes(command) ==
    IF command.count = 0 THEN {"NoTools"}
    ELSE IF SizeOfBuildVersion + SizeOfTool * command.count > command.size THEN {"TooManyTools"}
    ELSE {}

\* MachOLoadCommandPrinter<DynamicSymbolTable>: the symbols of each of three
\* kinds by their index and count.
SymbolRangeParts(command) ==
    LET places == HeldPlaces(command)
    IN [k \in DOMAIN places |-> RangePart(places[k], places[k].size, FALSE)]

\* MachOLoadCommandPrinterWriteLinkeditCmd and two printers that do the same.
LinkeditKinds == {"LinkeditData", "SymbolSegment", "LinkerOption"}
LinkeditParts(object, command) ==
    LET places == HeldPlaces(command)
    IN <<[k \in DOMAIN places |-> SizeRange32(object, places[k])]>>

\* MachOLoadCommandPrinterWriteDyldInfoCmd, with a line for each of five lists.
DyldInfoParts(object, command) == LinkeditParts(object, command)

\* MachOLoadCommandPrinter<LinkerOptimizationHint>
OptimizationHintParts(object, command) ==
    LET places == HeldPlaces(command)
    IN <<[k \in DOMAIN places |-> UnmarkedRange32(object, places[k])]>>

\* MachOLoadCommandPrinterWriteEncryptionInfoCmd: an empty range is printed too.
EncryptionInfoParts(object, command) == <<<<SizeRange32(object, command.places[1])>>>>

\* MachOLoadCommandPrinter<Note>
NoteParts(object, command) == <<<<SizeRange64(object, command.places[1])>>>>

\* The parts of the lines of a command, one sequence for each line.
CommandParts(object, command) ==
    CASE command.kind \in {"Segment", "Segment64"} -> SegmentParts(object, command)
      [] command.kind = "SymbolTable" -> <<SymbolTableParts(object, command)>>
      [] command.kind = "DynamicSymbolTable" -> <<SymbolRangeParts(command)>>
      [] command.kind \in LinkeditKinds -> LinkeditParts(object, command)
      [] command.kind = "DyldInfo" -> DyldInfoParts(object, command)
      [] command.kind = "OptimizationHint" -> OptimizationHintParts(object, command)
      [] command.kind = "FunctionStarts" -> <<FunctionStartsParts(object, command)>>
      [] command.kind = "EncryptionInfo" -> EncryptionInfoParts(object, command)
      [] command.kind = "Note" -> NoteParts(object, command)
      [] command.kind = "TwoLevelHints" -> <<HintParts(object, command)>>
      [] OTHER -> <<>>

CommandNotes(object, command) ==
    CASE command.kind \in {"Segment", "Segment64"} -> SegmentNotes(object, command)
      [] command.kind = "FunctionStarts" -> FunctionStartsNotes(object, command)
      [] command.kind = "BuildVersion" -> BuildVersionNotes(command)
      [] OTHER -> {}

\* Not every printer ends its line, and what is printed next goes on in it.
EndsItsLine(command) ==
    /\ command.kind \notin {"SymbolSegment", "SubUmbrella", "LinkerOption"}
    /\ command.kind = "BuildVersion" => "TooManyTools" \notin BuildVersionNotes(command)

\* What stops the program while it prints a command.
ListingAsserts(verbose, command) ==
    \/ StringAsserts(command)
    \/ /\ command.kind \in {"Segment", "Segment64"}
       /\ \E k \in DOMAIN Sections(command) :
             PaddingAsserts(verbose, command.kind, command.sections[k])

\* Sections that pass the check of their number may not be in the file.
LeavesForSections(command) ==
    /\ command.kind \in {"Segment", "Segment64"} /\ IsSectionListValid(command)
    /\ command.count > Len(command.sections)

CommandLine(object, number, command) ==
    [number |-> number,
     isNamed |-> command.kind # "LinkerOption",
     parts |-> CommandParts(object, command),
     notes |-> CommandNotes(object, command),
     name |-> IF HasString(command.kind) THEN ShownString(command) ELSE [error |-> "NoString"],
     ends |-> EndsItsLine(command)]

\* IterateLoadCommands continues before it counts.
UnrecognizedLine(number) ==
    [number |-> number, isNamed |-> FALSE, parts |-> <<>>, notes |-> {"Unrecognized"},
     name |-> [error |-> "NoString"], ends |-> TRUE]

\* Mutant: what is not recognized is an IDENT, the old kind that has no fields.
IsRecognized_Any(command) == TRUE

\* LoadCommand::KindIsRecognized
IsRecognized(command) == command.kind # "Unrecognized"

=============================================================================

--------------------------- MODULE CommandListing ----------------------------
(***************************************************************************)
(* --list-load-commands: a line for each load command                      *)
(* (PrintLoadCommands.cpp).                                                *)
(***************************************************************************)
EXTENDS ListingState, LoadCommandLines

\* A turn of IterateLoadCommands.  LoadCmdCounter is one more than the commands
\* that were found to be of a known kind.
ListCommand ==
    /\ pc = "loadcommands" /\ at < Len(image.commands)
    /\ LET command == image.commands[at + 1]
           object == [is64 |-> image.is64, size |-> image.size]
           number == Cardinality(found) + 1
       IN IF ~IsRecognized(command)
          THEN /\ output' = Append(output, UnrecognizedLine(number)) /\ at' = at + 1
               /\ UNCHANGED <<image, options, pc, tables, section, found, end>>
          ELSE IF ListingAsserts(options.verbose, command) THEN End("Assertion")
          ELSE IF LeavesForSections(command) THEN End("OutsideTheFile")
          ELSE /\ output' = Append(output, CommandLine(object, number, command))
               /\ found' = found \cup {at} /\ at' = at + 1
               /\ UNCHANGED <<image, options, pc, tables, section, end>>

CommandsListed ==
    /\ pc = "loadcommands" /\ at = Len(image.commands)
    /\ End("Listed")

-----------------------------------------------------------------------------
(* Properties *)

\* There is a line for each command, in their order, with its number; only after
\* one of no known kind those may be left out of the number (IterateLoadCommands,
\* PrintLoadCommands.cpp:46).
CommandsAreTheImages ==
    end = "Listed" /\ options.operation = "loadcommands" =>
        /\ Len(output) = Len(image.commands)
        /\ \A k \in DOMAIN output :
             LET known == {j \in DOMAIN output : image.commands[j].kind # "Unrecognized"}
             IN /\ output[k].notes = {"Unrecognized"} <=> k \notin known
                /\ output[k].number \in {k, Cardinality({j \in known : j < k}) + 1}

\* What an assertion may fail for: a string in a command that is too short for one
\* (LoadCommands.cpp:775, 936), or a section with a number that is too wide for its
\* column (PrintUtils.h:131).
Crashes(command) ==
    LET wide(place) == command.kind = "Segment" /\ place.begin + place.size >= Word
        segment == [Segment |-> 56, Segment64 |-> 72]
        holds(n) == command.size >= IF command.kind = "Segment" THEN 56 + 68 * n ELSE 72 + 80 * n
        reached == {k \in DOMAIN command.sections : k <= command.count /\ holds(command.count)}
    IN \/ command.kind = "PreBoundDylib"
       \/ command.kind \in DOMAIN StringHeaders /\ command.size < StringHeaders[command.kind]
       \/ /\ command.kind \in DOMAIN segment
          /\ \E k \in reached :
               \/ wide(command.sections[k].file)
               \/ options.verbose /\ (wide(command.sections[k].mem)
                                       \/ command.sections[k].file.size >= WidestSize)

\* The number of sections, as mathematics has it, does not fit into the command,
\* but what is left of it in 32 bits does.
CountWraps(command) ==
    LET needed == IF command.kind = "Segment" THEN 56 + 68 * command.count
                  ELSE 72 + 80 * command.count
    IN /\ command.kind \in {"Segment", "Segment64"}
       /\ needed >= Word /\ command.size >= needed % Word

\* The list comes to its end; it may end early only at a command that is too small
\* for its string, has a section too wide for its column or sections that are more
\* than it holds, where their size wraps (LoadCommands.cpp:742).
CommandsEndRight ==
    pc = "end" /\ options.operation = "loadcommands" =>
        \/ end = "Listed"
        \/ end = "OutsideTheFile" /\ \E k \in DOMAIN image.commands : CountWraps(image.commands[k])
        \/ /\ end = "Assertion"
           /\ LET command == image.commands[at + 1] IN Crashes(command) \/ CountWraps(command)

\* The ranges of a command that are compared with the end of the file, and what
\* its line has of them.
Compared(command) ==
    LET held(place) == place.size # 0
        files == [k \in DOMAIN command.sections |-> command.sections[k].file]
    IN CASE command.kind \in {"Segment", "Segment64"} -> <<command.places[1]>> \o files
         [] command.kind \in LinkeditKinds \cup {"DyldInfo"} -> SelectSeq(command.places, held)
         [] command.kind \in {"SymbolTable", "FunctionStarts", "EncryptionInfo", "Note"} ->
              <<command.places[1]>>
         [] OTHER -> <<>>
ComparedParts(command, parts) ==
    CASE command.kind \in {"Segment", "Segment64"} -> [k \in DOMAIN parts |-> parts[k][1]]
      [] command.kind = "SymbolTable" -> <<parts[1][1]>>
      [] Compared(command) # <<>> -> parts[1]
      [] OTHER -> <<>>

\* What may be marked although it ends in the file: an empty range whose end is 0,
\* as no location is the end of a range then (MachOLoadCommandPrinter.h:172), and
\* all the symbols, whose end is never computed (481).
CountedSymbols(command) ==
    LET symbols == command.places[2]
    IN Range(symbols.begin, symbols.size * (IF image.is64 THEN 16 ELSE 12))
MayBeMarked(command, range) ==
    range.size = 0 /\ (range.begin = 0 \/ command.kind = "FunctionStarts")

CommandShown(command, line) ==
    LET ranges == Compared(command)
        parts == ComparedParts(command, line.parts)
        is64 == IF command.kind \in {"Segment", "Segment64"}
                THEN command.kind = "Segment64" ELSE image.is64
        pastEnd(range) == range.begin + range.size > image.size
    IN /\ Len(parts) <= Len(ranges)
       /\ "InvalidSections" \notin line.notes /\ "NoSections" \notin line.notes
            => Len(parts) = Len(ranges) \/ command.count < Len(command.sections)
       /\ \A k \in DOMAIN parts :
            LET sum == ranges[k].begin + ranges[k].size
            IN /\ parts[k].begin = ranges[k].begin
               /\ pastEnd(ranges[k]) => parts[k].past
               /\ parts[k].past => pastEnd(ranges[k]) \/ MayBeMarked(command, ranges[k])
               /\ parts[k].shown # sum =>
                    \/ sum >= Long \/ (~is64 /\ sum >= Word)
                    \/ (command.kind = "FunctionStarts" /\ ranges[k].size = 0)
       /\ command.kind = "SymbolTable" /\ pastEnd(CountedSymbols(command)) =>
            line.parts[1][2].past
       /\ command.kind \in DOMAIN StringHeaders =>
            LET header == StringHeaders[command.kind]
                there == command.name \in header..(command.size - 1) /\ command.length > 0
                named == line.name = [error |-> "None", text |-> command.text]
            IN /\ there /\ command.name + command.length < command.size => named
               /\ named => there

\* A range is marked to be past the end of the file where it is, and the end that
\* is shown is its own unless it does not fit; a name is the command's own, and
\* is shown if it ends in the command.
CommandsAreShown ==
    pc = "end" /\ options.operation = "loadcommands" =>
        \A k \in DOMAIN output :
            image.commands[k].kind # "Unrecognized" => CommandShown(image.commands[k], output[k])

==============================================================================

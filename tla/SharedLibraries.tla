--------------------------- MODULE SharedLibraries ---------------------------
(***************************************************************************)
(* The shared libraries that load commands name: the strings stored in     *)
(* commands (LoadCommands.cpp), SharedLibraryInfoCollection, which numbers *)
(* the libraries, and the list of --list-dylibs.                           *)
(*                                                                         *)
(* A command that is a "Library" or the library's own "IdDylib" has its    *)
(* size and the offset of its name in bytes, the text that is there, the   *)
(* bytes of it before a zero, and by "keys" what a list is sorted by.      *)
(* Texts are numbered in their order; two differ in their first byte.      *)
(***************************************************************************)
EXTENDS SortKinds, Ranges, Integers

LOCAL Sets == INSTANCE FiniteSetsExt
LOCAL INSTANCE TLC

SizeOfDylibCommand == 24

\* Range::CreateWithEnd(MinSize, CmdSize) asserts that the sizes are in order;
\* the commands were verified without a look at their kind.
SizeAsserts(command, header) == command.size < header

\* LoadCmdGetStoredString of a command with so long a header.  The byte before
\* the end of the command is not asked for, so a name without its zero loses
\* its last byte and is no error.
StoredString(command, header) ==
    LET length == Sets!Min({command.length, command.size - 1 - command.name})
    IN CASE ~HasLocation(Range(header, command.size - header), command.name) ->
              [error |-> "OffsetOutOfBounds"]
         [] length = 0 -> [error |-> "EmptyString"]
         [] command.name + length = command.size -> [error |-> "NoNullTerminator"]
         [] OTHER -> [error |-> "None", text |-> command.text, length |-> length]

LibraryName(command) == StoredString(command, SizeOfDylibCommand)

\* Mutant: the command that names the library itself is one of those it uses.
IsLibrary_OrId(command) == command.kind \in {"Library", "IdDylib"}

\* LoadCommand::KindIsSharedLibrary
IsLibrary(command) == command.kind = "Library"

Assertion(commands) ==
    \E k \in DOMAIN commands : IsLibrary(commands[k]) /\ SizeAsserts(commands[k], SizeOfDylibCommand)

\* SharedLibraryInfoCollection::Open: one library for each command, also for one
\* with an error, whose path is empty.
Libraries(commands) ==
    LET uses == SelectSeq(commands, IsLibrary)
    IN [k \in DOMAIN uses |-> [index |-> k - 1, path |-> LibraryName(uses[k])]]

\* The names of no library, by the low byte of the ordinal; another fails an
\* assertion.
SpecialLibraries == (0 :> "Self") @@ (255 :> "MainExecutable") @@ (254 :> "FlatLookup")
                    @@ (253 :> "WeakLookup")
OrdinalAsserts(ordinal) == ordinal <= 0 /\ ordinal % 256 \notin DOMAIN SpecialLibraries

\* OperationCommon::PrintDylibOrdinalInfo
LibraryShown(libraries, ordinal) ==
    CASE ordinal <= 0 -> SpecialLibraries[ordinal % 256]
      [] ordinal > Len(libraries) -> "OutOfBounds"
      [] OTHER -> libraries[ordinal].path

-----------------------------------------------------------------------------
(* --list-dylibs *)

\* AddSortKind of --list-dylibs is into a std::set, which has the order of the
\* enumerators, whatever the order of the options.
LibrarySortKinds ==
    <<"ByCurrentVersion", "ByCompatVersion", "ByIndex", "ByName", "ByTimeStamp">>
SortKindSet(options) ==
    LET given(kind) == \E k \in DOMAIN options : options[k] = kind
    IN SelectSeq(LibrarySortKinds, given)

\* The name of a library as a number, for its order among others; what cannot
\* be read is listed under a name that begins with a bracket, before all others.
NameOrder(string) ==
    IF string.error = "None" THEN 100 * string.text + string.length ELSE 0

\* The text is printed up to its zero, not for the length it was given.
ListedLibrary(commands, k) ==
    LET name == LibraryName(commands[k])
    IN [index |-> k - 1,
        name |-> IF name.error = "None" THEN [error |-> "None", text |-> commands[k].text]
                ELSE [error |-> "Invalid"]]

LibraryKeys(commands) ==
    [k \in {j \in DOMAIN commands : IsLibrary(commands[j])} |->
        [commands[k].keys EXCEPT !.ByIndex = k,
                                 !.ByName = NameOrder(LibraryName(commands[k]))]]

\* The lists that PrintSharedLibrariesOperation::Run may print.
LibraryLists(commands, options) ==
    LET keys == LibraryKeys(commands)
        kinds == IF options = <<>> THEN <<"ByIndex">> ELSE SortKindSet(options)
    IN {[k \in DOMAIN order |-> ListedLibrary(commands, order[k])] :
            order \in Sorted(DOMAIN keys, kinds, keys)}

=============================================================================

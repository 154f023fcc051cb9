----------------------------- MODULE DyldLists -----------------------------
(***************************************************************************)
(* The lists that a DyldInfo command places, as --list-bind-actions,       *)
(* --list-bind-symbols and --list-rebase-actions find and show them        *)
(* (PrintBindActionList.cpp, PrintBindSymbolList.cpp,                      *)
(* PrintRebaseActionList.cpp).                                             *)
(*                                                                         *)
(* An action is what the iterators of BindIterator and RebaseActions give: *)
(* the index of its segment, the address in it, and for a bind the kind,   *)
(* the number of its name, the ordinal of a library and whether the name   *)
(* is new.  The segments are those that were collected, with the addresses *)
(* of their memory and their sections.                                     *)
(***************************************************************************)
EXTENDS LoadCommandLines, Integers

LOCAL Seqs == INSTANCE SequencesExt

-----------------------------------------------------------------------------
(* The command *)

\* In the order in which they are printed.
BindLists == <<"Bind", "LazyBind", "WeakBind">>
AllBinds == {"Bind", "LazyBind", "WeakBind"}

\* The lists whose places an operation looks at.
ListsOf(operation) == IF operation = "rebaseactions" THEN {"Rebase"} ELSE AllBinds

PlaceIndex == [Rebase |-> 1, Bind |-> 2, WeakBind |-> 3, LazyBind |-> 4]
PlaceOf(command, list) == command.places[PlaceIndex[list]]

\* A command is compared with the last one.
Conflict(operation, first, second) ==
    \E list \in ListsOf(operation) : PlaceOf(first, list) # PlaceOf(second, list)

HasNoOpcodes(operation, command) ==
    \A list \in ListsOf(operation) : PlaceOf(command, list).size = 0

\* Mutant: an empty list is no error of its place.
PlaceError_EmptyFirst(size, place) ==
    IF place.size = 0 THEN "Empty"
    ELSE IF ContainsRange(Range(0, size), place) THEN "None" ELSE "PastEnd"

\* CheckSizeRange: an empty list must begin in the file, too.
PlaceError(size, place) ==
    IF ~ContainsRange(Range(0, size), place) THEN "PastEnd"
    ELSE IF place.size = 0 THEN "Empty" ELSE "None"

-----------------------------------------------------------------------------
(* Options *)

(***************************************************************************)
(* The lists asked for by --only options.  For symbols each of them takes  *)
(* back the others; for actions only the first is to take back the         *)
(* default, which it knows by the byte its bits are in to be 7.  The other *)
(* bits of the byte were never written: with "clean" they are 0.           *)
(***************************************************************************)
AskedFor(operation, clean, only) ==
    LET starts(asked) == operation = "bindsymbols" \/ (clean /\ asked = AllBinds)
        read(asked, list) == (IF starts(asked) THEN {} ELSE asked) \cup {list}
    IN Seqs!FoldLeft(read, AllBinds, only)

-----------------------------------------------------------------------------
(* The lines *)

\* Mutant: every bind of a symbol is listed.
IsWanted_All(operation, action) == TRUE

\* GetAsList, or GetListOfSymbols
IsWanted(operation, action) == operation = "bindsymbols" => action.isNew

\* Additions of 64 bits.
FullAddr(segment, action) == (segment.begin + action.addr) % Long

\* FindSectionContainingAddress
SectionNameAt(segment, addr) ==
    LET holds(section) == HasLocation(Range(section.addr, section.size), addr)
        holding == SelectSeq(segment.sections, holds)
    IN IF holding = <<>> THEN <<"<invalid>">> ELSE Head(holding).name

\* The index of a segment that was never set is -1.
PlaceShown(is64, segments, action) ==
    IF action.segment \notin 0..(Len(segments) - 1) THEN [error |-> "OutOfBounds"]
    ELSE LET segment == segments[action.segment + 1]
             addr == FullAddr(segment, action)
         IN [error |-> "None", segment |-> segment.name, section |-> SectionNameAt(segment, addr),
             addr |-> IF is64 THEN addr ELSE addr % Word]

HasLibrary(list) == list \in {"Bind", "LazyBind"}

\* Without --verbose a library is shown by its ordinal alone.
LibraryOf(libraries, list, verbose, action) ==
    CASE ~HasLibrary(list) -> "None"
      [] ~verbose /\ action.ordinal \in 1..Len(libraries) -> "Ordinal"
      [] OTHER -> LibraryShown(libraries, action.ordinal)

\* PrintBindAction
BindLine(image, libraries, list, verbose, k) ==
    [index |-> k, place |-> PlaceShown(image.is64, image.segments, image.actions[list][k]),
     library |-> LibraryOf(libraries, list, verbose, image.actions[list][k])]

\* PrintRebaseAction
RebaseLine(image, k) ==
    [index |-> k, place |-> PlaceShown(image.is64, image.segments, image.actions["Rebase"][k])]

\* The comparator of --sort does not look at the segment.
RebaseKeys(actions) ==
    [k \in DOMAIN actions |-> [ByAddress |-> actions[k].addr, ByIndex |-> k]]

\* CompareActionsBySortKind
BindKeys(actions, wanted) ==
    [k \in wanted |-> [ByName |-> actions[k].name, ByDylibOrdinal |-> actions[k].ordinal,
                       ByKind |-> actions[k].kind, ByIndex |-> k]]

\* The orders in which a list that was read may be shown.
OrdersOf(operation, list, actions, sorts) ==
    LET wanted == {k \in DOMAIN actions : IsWanted(operation, actions[k])}
        kinds == IF sorts = <<>> THEN <<"ByIndex">> ELSE SortKindList(sorts)
    IN IF list = "Rebase" THEN Sorted(DOMAIN actions, kinds, RebaseKeys(actions))
       ELSE Sorted(wanted, kinds, BindKeys(actions, wanted))

=============================================================================

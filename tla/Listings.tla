------------------------------ MODULE Listings ------------------------------
(***************************************************************************)
(* The operations that read something of an image and print it, each in a  *)
(* module of its own, and what is asked of all of them.                    *)
(***************************************************************************)
EXTENDS PointerListing, StringListing, LibraryListing, CommandListing, ActionListing,
        HeaderListing, ExportListing

Next ==
    \/ FindSection \/ ReadCommand \/ CommandsEnd \/ ReadPointer \/ ListSymbols
    \/ OpenSection \/ ReadString \/ ListStrings
    \/ ListLibraries \/ ListImages
    \/ ListCommand \/ CommandsListed
    \/ ReadDyldInfo \/ DyldInfoRead \/ ListActions \/ ActionsListed
    \/ PrintHeaderInfo \/ PrintAccelerator
    \/ FindTrie \/ ReadExport \/ ListExports

Spec == Init /\ [][Next]_vars

-----------------------------------------------------------------------------
(* Properties *)

(***************************************************************************)
(* Each part says what the right answer is, from the image and the options *)
(* alone; where the code is known to depart from it, the part names the    *)
(* case and allows, but never asks for, the other answer.                  *)
(***************************************************************************)

\* What is listed is all that was asked for of the section, the image or the cache,
\* once, in the order of the sort options, and nothing else; no list hides another.
\* Departures: the indices of big-endian and 32-bit files, the text of a string that
\* the section ends, the numbers after an unknown load command, several --only
\* options, and --only-count with kinds.
ListIsTheSection ==
    /\ SymbolsAreTheSections /\ StringsAreTheSections /\ CommandsAreTheImages
    /\ ActionsAreTheLists /\ ListsAreAsked /\ HeaderIsComplete /\ ExportsAreTheTries

\* Each end of an operation is the right one: an error has its cause in the image,
\* and comes before what follows it; an image without one is listed.  Departures: an
\* assertion, a null pointer or a read outside of the file ends it only for the
\* causes that are named.
EndIsRight ==
    /\ SymbolsEndRight /\ StringsEndRight /\ CommandsEndRight /\ ActionsEndRight
    /\ HeaderEndsRight /\ ExportsEndRight

\* What a line shows of a library, a section, a range, a name or an address is
\* that of what it lists.  Departures: the section of a symbol that is not in the
\* first one, names without their zero, special ordinals, the import name of a
\* re-export that has none, marks of empty ranges and symbols, and the overlaps of
\* three kinds of ranges of a cache or with --verbose.
ShownIsItsOwn ==
    /\ SymbolsAreShown /\ LibrariesAreShown /\ ImagesAreShown /\ CommandsAreShown
    /\ ActionsAreShown /\ HeaderIsShown /\ ExportsAreShown

=============================================================================

--------------------------- MODULE LibraryListing ----------------------------
(***************************************************************************)
(* --list-dylibs and --list-dsc-images: the libraries an image uses, and the *)
(* images of a cache (PrintSharedLibraries.cpp, PrintImageList.cpp).       *)
(*                                                                         *)
(* A cache has its "images" with the keys they are sorted by.              *)
(***************************************************************************)
EXTENDS ListingState, SharedLibraries

ListLibraries ==
    /\ pc = "libraries"
    /\ IF Assertion(image.commands) THEN End("Assertion")
       ELSE \E list \in LibraryLists(image.commands, options.sorts) :
              /\ output' = list /\ pc' = "end" /\ end' = "Listed"
              /\ UNCHANGED <<image, options, at, tables, section, found>>

\* PrintImageListOperation::Run
ListImages ==
    /\ pc = "images"
    /\ IF image.images = <<>> THEN End("NoImages")
       ELSE IF options.onlyCount THEN End("Counted")
       ELSE LET kinds == SortKindList(IF options.sorts = <<>> THEN <<"ByIndex">> ELSE options.sorts)
            IN \E order \in Sorted(DOMAIN image.images, kinds, image.images) :
                 /\ output' = [k \in DOMAIN order |-> [index |-> order[k]]]
                 /\ pc' = "end" /\ end' = "Listed"
                 /\ UNCHANGED <<image, options, at, tables, section, found>>

-----------------------------------------------------------------------------
(* Properties *)

\* A list of libraries has each of them once, in the order asked for, under the
\* name its command holds; one without its zero is no name, or is shown all the
\* same (LoadCommands.cpp:789).  The sort options may be taken in the order of the
\* enumerators (PrintSharedLibraries.cpp:302).
LibrariesAreShown ==
    end = "Listed" /\ options.operation = "libraries" =>
    LET libraries == {k \in DOMAIN image.commands : image.commands[k].kind = "Library"}
        there(command) == command.name \in 24..(command.size - 1) /\ command.length > 0
    IN /\ {output[k].index + 1 : k \in DOMAIN output} = libraries
       /\ Len(output) = Cardinality(libraries)
       /\ \A k \in DOMAIN output :
            LET command == image.commands[output[k].index + 1]
                named == output[k].name = [error |-> "None", text |-> command.text]
            IN /\ there(command) /\ command.name + command.length < command.size => named
               /\ named => there(command)
       /\ \E kinds \in {IF options.sorts = <<>> THEN <<"ByIndex">> ELSE options.sorts,
                        SelectSeq(LibrarySortKinds, LAMBDA kind :
                           \E k \in DOMAIN options.sorts : options.sorts[k] = kind)} :
            InOrder(kinds, [i \in {k - 1 : k \in libraries} |->
                               LibraryKeys(image.commands)[i + 1]])

\* A list of images has each of them once, in the order asked for.
ImagesAreShown ==
    end = "Listed" /\ options.operation = "images" =>
        /\ {output[k].index : k \in DOMAIN output} = DOMAIN image.images
        /\ Len(output) = Len(image.images)
        /\ InOrder(IF options.sorts = <<>> THEN <<"ByIndex">> ELSE options.sorts, image.images)

==============================================================================

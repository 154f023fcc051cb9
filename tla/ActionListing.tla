---------------------------- MODULE ActionListing ----------------------------
(***************************************************************************)
(* --list-bind-actions, --list-bind-symbols and --list-rebase-actions: the *)
(* lists of a DyldInfo command.                                            *)
(*                                                                         *)
(* In an image, "actions" is what the lists hold.                          *)
(***************************************************************************)
EXTENDS ListingState, DyldLists

\* The operations that list what a DyldInfo command places.
DyldOperations == {"bindactions", "bindsymbols", "rebaseactions"}

\* A turn of the loop over the load commands, which for actions of binds is that
\* of GetDyldInfoCommand and asks for the sizes when it is done.
ReadDyldInfo ==
    /\ pc \in DyldOperations /\ at < Len(image.commands)
    /\ LET command == image.commands[at + 1]
           last == tables["DyldInfo"]
       IN IF command.kind # "DyldInfo"
          THEN at' = at + 1 /\ UNCHANGED <<image, options, pc, tables, section, found, end, output>>
          ELSE IF last # 0 /\ Conflict(pc, image.commands[last], command) THEN End("Conflict")
          ELSE IF pc # "bindactions" /\ HasNoOpcodes(pc, command) THEN End("NoOpcodes")
          ELSE /\ tables' = [tables EXCEPT !["DyldInfo"] = at + 1] /\ at' = at + 1
               /\ UNCHANGED <<image, options, pc, section, found, end, output>>

\* What is left to be shown is kept in "found".
DyldInfoRead ==
    /\ pc \in DyldOperations /\ at = Len(image.commands)
    /\ LET last == tables["DyldInfo"]
       IN IF last = 0 THEN End("NoDyldInfo")
          ELSE IF HasNoOpcodes(pc, image.commands[last]) THEN End("NoOpcodes")
          ELSE IF Assertion(image.commands) THEN End("Assertion")
          ELSE /\ \E clean \in BOOLEAN :
                    found' = IF pc = "rebaseactions" THEN {"Rebase"}
                             ELSE AskedFor(pc, clean, options.only)
               /\ pc' = "actions"
               /\ UNCHANGED <<image, options, at, tables, section, end, output>>

NextList ==
    IF found = {"Rebase"} THEN "Rebase"
    ELSE BindLists[CHOOSE k \in DOMAIN BindLists :
            BindLists[k] \in found /\ \A j \in 1..(k - 1) : BindLists[j] \notin found]

\* One of the lists, each with its own error.
ListActions ==
    /\ pc = "actions" /\ found # {}
    /\ LET list == NextList
           actions == image.actions[list]
           libraries == Libraries(image.commands)
           place == PlaceOf(image.commands[tables["DyldInfo"]], list)
           line(k) == IF list = "Rebase" THEN RebaseLine(image, k)
                      ELSE BindLine(image, libraries, list, options.verbose, k)
           asserts(k) == HasLibrary(list) /\ OrdinalAsserts(actions[k].ordinal)
           error == PlaceError(image.size, place)
           shown(lines) == output' = Append(output, [list |-> list, error |-> error, lines |-> lines])
       IN /\ found' = found \ {list}
          /\ IF error # "None"
             THEN shown(<<>>) /\ UNCHANGED <<pc, end>>
             ELSE \E order \in OrdersOf(options.operation, list, actions, options.sorts) :
                    IF \E k \in DOMAIN order : asserts(order[k])
                    THEN pc' = "end" /\ end' = "Assertion" /\ UNCHANGED output
                    ELSE shown([k \in DOMAIN order |-> line(order[k])]) /\ UNCHANGED <<pc, end>>
          /\ UNCHANGED <<image, options, at, tables, section>>

ActionsListed ==
    /\ pc = "actions" /\ found = {}
    /\ End("Listed")

-----------------------------------------------------------------------------
(* Properties *)

\* A list of binds, of symbols that are bound or of rebases has each of its
\* actions once, in the order asked for.
\* The places of the lines in what the iterator gave: for symbols the first
\* bind of each, in the order asked for.
ActionsAreTheLists ==
    end = "Listed" /\ options.operation \in DyldOperations =>
        \A n \in DOMAIN output :
            LET actions == image.actions[output[n].list]
                lines == output[n].lines
                wanted == IF options.operation = "bindsymbols"
                          THEN {k \in DOMAIN actions : actions[k].isNew} ELSE DOMAIN actions
                key(k, kind) ==
                    CASE kind = "ByAddress" -> actions[k].addr [] kind = "ByKind" -> actions[k].kind
                      [] kind = "ByName" -> actions[k].name [] OTHER -> actions[k].ordinal
            IN output[n].error = "None" =>
                 /\ {lines[k].index : k \in DOMAIN lines} = wanted
                 /\ Len(lines) = Cardinality(wanted)
                 /\ \A i \in DOMAIN lines, j \in DOMAIN lines : i < j =>
                      LET differ == {m \in DOMAIN options.sorts :
                                       key(lines[i].index, options.sorts[m])
                                         # key(lines[j].index, options.sorts[m])}
                      IN IF options.sorts = <<>> THEN lines[i].index < lines[j].index
                         ELSE \A m \in differ : (\A l \in differ : m <= l) =>
                                key(lines[i].index, options.sorts[m])
                                  < key(lines[j].index, options.sorts[m])

\* The lists that are shown are those asked for, or all if none was, in their order
\* and each for itself.  Several options may count otherwise: for symbols only the
\* last (PrintBindSymbolList.cpp:535); for actions all lists may be shown, as what
\* the other bits of the byte were is not known, and after options for all three
\* the next ones may begin anew (PrintBindActionList.cpp:500).
ListsAreAsked ==
    end = "Listed" /\ options.operation \in {"bindactions", "bindsymbols"} =>
        LET shown == {output[k].list : k \in DOMAIN output}
            only == options.only
            given == {only[k] : k \in DOMAIN only}
            position == [Bind |-> 1, LazyBind |-> 2, WeakBind |-> 3]
        IN /\ \A j \in DOMAIN output, k \in DOMAIN output :
                 j < k => position[output[j].list] < position[output[k].list]
           /\ \/ shown = IF only = <<>> THEN DOMAIN position ELSE given
              \/ only # <<>> /\ options.operation = "bindsymbols" /\ shown = {only[Len(only)]}
              \/ /\ only # <<>> /\ options.operation = "bindactions"
                 /\ shown = DOMAIN position \/ (given = DOMAIN position /\ only[Len(only)] \in shown)

\* Commands may be repeated but not differ in a list the operation has to do
\* with; an empty one ends the lists of symbols and rebases before a later one
\* that differs is seen.  An assertion fails only for a library's command that is
\* too short for one, and for an ordinal that is no library's and not special in
\* the lists that show libraries (Common.cpp:161).
ActionsEndRight ==
    pc = "end" /\ options.operation \in DyldOperations =>
    LET operation == options.operation
        commands == {k \in DOMAIN image.commands : image.commands[k].kind = "DyldInfo"}
        libraries == {k \in DOMAIN image.commands : image.commands[k].kind = "Library"}
        places(k) == IF operation = "rebaseactions" THEN <<image.commands[k].places[1]>>
                     ELSE SubSeq(image.commands[k].places, 2, 4)
        empty == {k \in commands : \A i \in DOMAIN places(k) : places(k)[i].size = 0}
        differing == {k \in commands : \E j \in commands : j < k /\ places(j) # places(k)}
        seen(k) == operation = "bindactions" \/ \A j \in empty : j >= k
        odd(list) == \E k \in DOMAIN image.actions[list] :
                        image.actions[list][k].ordinal \in (-252..-4)
    IN /\ end = "NoDyldInfo" <=> commands = {}
       /\ end = "Conflict" <=> \E k \in differing : seen(k)
       /\ end = "NoOpcodes" <=>
            empty # {} /\ (operation = "bindactions" => differing = {})
                      /\ (operation # "bindactions" => \A k \in differing : ~seen(k))
       /\ end \in {"Assertion", "Listed"} <=>
            commands # {} /\ differing = {} /\ empty = {}
       /\ end = "Assertion" =>
            \/ \E k \in libraries : image.commands[k].size < 24
            \/ operation # "rebaseactions" /\ (odd("Bind") \/ odd("LazyBind"))

\* What the special ordinals name, also as the bytes that the opcode for them gives;
\* these may be taken for ordinals of libraries (Common.cpp:161).  An ordinal below
\* them should be none.
SpecialNumbers == (-3..0) \cup (253..255)
SpecialLibrary(ordinal) ==
    CASE ordinal = 0 -> "Self" [] ordinal \in {-1, 255} -> "MainExecutable"
      [] ordinal \in {-2, 254} -> "FlatLookup" [] ordinal \in {-3, 253} -> "WeakLookup"

\* The line of an action: an address in the segment it was given by its index,
\* wherever the segment ends, with the section that is there.
LineIsItsOwn(list, line) ==
    LET action == image.actions[list][line.index]
        segment == image.segments[action.segment + 1]
        sum == segment.begin + action.addr
        holds(part) == part.addr <= sum /\ sum < part.addr + part.size
        libraries == {k \in DOMAIN image.commands : image.commands[k].kind = "Library"}
    IN /\ line.place.error = "None" <=> action.segment + 1 \in DOMAIN image.segments
       /\ line.place.error = "None" /\ sum < Long =>
            /\ line.place.segment = segment.name
            /\ image.is64 \/ sum < Word => line.place.addr = sum
            /\ image.is64 \/ line.place.addr < Word
            /\ IF \E k \in DOMAIN segment.sections : holds(segment.sections[k])
               THEN \E k \in DOMAIN segment.sections :
                       holds(segment.sections[k]) /\ line.place.section = segment.sections[k].name
               ELSE line.place.section = <<"<invalid>">>
       /\ list = "WeakBind" => line.library = "None"
       /\ list \in {"Bind", "LazyBind"} =>
            /\ action.ordinal \in SpecialNumbers =>
                 \/ line.library = SpecialLibrary(action.ordinal)
                 \/ action.ordinal > 0 /\ line.library = "OutOfBounds"
            /\ action.ordinal > Cardinality(libraries) /\ action.ordinal \notin SpecialNumbers =>
                 line.library = "OutOfBounds"
            /\ \A k \in libraries :
                 /\ Cardinality({j \in libraries : j <= k}) = action.ordinal
                 /\ options.verbose /\ line.library.error = "None"
                 => line.library.text = image.commands[k].text

\* The address of an action is that of its segment and the section the one that
\* holds it, the library is the one with its ordinal, and a list that leaves the
\* file is said to, where its command placed it; an empty one at the end of the file
\* may be said to leave it.
ActionsAreShown ==
    pc = "end" /\ options.operation \in DyldOperations =>
        \A n \in DOMAIN output :
            LET command == image.commands[tables["DyldInfo"]]
                number == [Rebase |-> 1, Bind |-> 2, WeakBind |-> 3, LazyBind |-> 4]
                place == command.places[number[output[n].list]]
                lines == output[n].lines
                inside == place.begin + place.size <= image.size
            IN /\ ~inside => output[n].error = "PastEnd"
               /\ output[n].error = "PastEnd" => ~inside \/ place.begin = image.size
               /\ inside => (output[n].error = "None" <=> place.size > 0)
               /\ \A k \in DOMAIN lines : LineIsItsOwn(output[n].list, lines[k])

==============================================================================

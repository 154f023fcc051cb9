---------------------------- MODULE MCListings ----------------------------
(***************************************************************************)
(* Images for Listings: each set varies one part of an image and keeps the *)
(* rest plain.                                                             *)
(***************************************************************************)
EXTENDS Listings, TLC

MCDigit == 3
MCWord == 256
MCLong == 8192
MCWidestSize == 100
MCFileSize == 200

Pointers(size, reserved1) ==
    [NoSection EXCEPT !.name = <<"p">>, !.kind = "Pointers", !.size = size, !.reserved1 = reserved1]
CStrings(begin, size) ==
    [NoSection EXCEPT !.name = <<"p">>, !.kind = "CStrings", !.size = size,
                      !.begin = begin, !.addr = 10]
Other(name) == [NoSection EXCEPT !.name = name, !.kind = "Other", !.size = 8]
Segment(name, protected, sections) ==
    [name |-> name, protected |-> protected, sections |-> sections]

Library(kind, size, name, text, length, version) ==
    [kind |-> kind, size |-> size, name |-> name, text |-> text, length |-> length,
     keys |-> [ByCurrentVersion |-> version, ByCompatVersion |-> 2 - version,
               ByIndex |-> 0, ByName |-> 0, ByTimeStamp |-> 0]]
Symtab(count) == [kind |-> "SymbolTable", count |-> count]
Dysymtab(count) == [kind |-> "DynamicSymbolTable", count |-> count]

Symbol(string, kind, sect, library) ==
    [string |-> string, kind |-> kind, section |-> sect, library |-> library]
Symbols == <<Symbol(1, 0, 0, 1), Symbol(0, 14, 1, 0), Symbol(1, 2, 0, 2)>>
Texts == 0 :> 9 @@ 1 :> 7 @@ 2 :> 0
Uses == Library("Library", 32, 24, 5, 3, 1)

Plain ==
    [is64 |-> TRUE, bigEndian |-> FALSE,
     segments |-> <<Segment(<<"D">>, FALSE, <<Pointers(24, 0)>>)>>,
     commands |-> <<Symtab(3), Dysymtab(4), Uses>>,
     entries |-> Symbols, strings |-> Texts, indices |-> <<0, 1, 2, 0>>,
     bytes |-> <<1, 0>>, images |-> <<>>, size |-> MCFileSize]

\* Every table of indirect symbols, against sections and tables of many sizes.
Indirect ==
    {[Plain EXCEPT !.is64 = is64, !.bigEndian = bigEndian, !.indices = indices,
                   !.segments = <<Segment(<<"D">>, FALSE, <<Pointers(8 * size + 4, start)>>)>>,
                   !.commands = <<Symtab(count), Dysymtab(listed), Uses>>] :
        is64 \in BOOLEAN, bigEndian \in BOOLEAN,
        indices \in UNION {[1..n -> {0, 1, 3, 4, 6}] : n \in 2..3},
        size \in 0..2, start \in 0..2, count \in {2, 5}, listed \in {2, 4}}

\* Segments and sections of the same names, protected ones, and load commands
\* that are missing, repeated or differ.
Named ==
    {[Plain EXCEPT !.segments = segments, !.commands = commands] :
        segments \in UNION {[1..n -> {Segment(name, protected, sections) :
                        name \in {<<"D">>, <<"D", "T">>}, protected \in BOOLEAN,
                        sections \in {<<>>, <<Other(<<"p">>)>>, <<Other(<<"p", "t">>), Pointers(16, 1)>>,
                                      <<CStrings(0, 1)>>}}] : n \in 0..2},
        commands \in UNION {[1..n -> {Symtab(3), Symtab(4), Dysymtab(4), Dysymtab(1)}] :
                        n \in 0..3}}

\* Symbols of every kind, with strings and sections that are not there.
Listed ==
    {[Plain EXCEPT !.entries = <<first, second>>, !.indices = <<1, 0, 1>>,
                   !.commands = commands, !.segments = segments] :
        first \in {Symbol(string, kind, sect, library) :
                       string \in {0, 2, 3}, kind \in {0, 2, 14}, sect \in {0, 1, 3},
                       library \in 0..3},
        second \in {Symbol(0, 14, 2, 1), Symbol(1, 2, 0, 2), Symbol(0, 12, 0, 1)},
        commands \in {<<Dysymtab(3), Library("IdDylib", 32, 24, 4, 5, 0), Uses,
                        Library("Library", 32, 30, 6, 4, 0), Symtab(2)>>,
                      <<Library("Library", 32, 20, 6, 4, 0), Symtab(2), Dysymtab(3)>>,
                      <<Symtab(2), Dysymtab(3), Library("Library", 16, 24, 6, 4, 0)>>},
        segments \in {<<Segment(<<"D", "T">>, FALSE, <<Other(<<"p", "t">>)>>),
                        Segment(<<"D">>, FALSE, <<Pointers(24, 0), Other(<<"d">>), Other(<<"b">>)>>)>>,
                      <<Segment(<<"D">>, FALSE, <<Other(<<"p", "t">>), Pointers(24, 0), Other(<<"b">>)>>)>>}}

\* Load commands for the list of libraries.
Linked ==
    {[Plain EXCEPT !.commands = commands] :
        commands \in UNION {[1..n -> {Library(kind, size, name, text, 3, version) :
                        kind \in {"Library", "IdDylib"}, size \in {16, 32},
                        name \in {20, 30, 31}, text \in 1..2, version \in 0..1}] :
                        n \in 0..2}
                  \cup [1..3 -> {Library("Library", 32, 24, text, 3, version) :
                                  text \in 1..2, version \in 0..1}]}

\* Every file of up to five bytes, with a section of strings anywhere in it or
\* past it.
Written ==
    {[Plain EXCEPT !.bytes = bytes, !.segments = <<Segment(<<"D">>, FALSE, <<CStrings(begin, size)>>)>>] :
        bytes \in UNION {[1..n -> {0, 1, 2, Unprintable}] : n \in 3..5},
        begin \in 0..1, size \in 0..5}

\* Images of a cache with equal and different keys.
Cached ==
    {[Plain EXCEPT !.images = [k \in DOMAIN keys |->
            [ByAddress |-> keys[k][1], ByInode |-> keys[k][2], ByModTime |-> 0,
             ByName |-> keys[k][3], ByIndex |-> k]]] :
        keys \in UNION {[1..n -> (0..1) \X (0..1) \X (0..1)] : n \in 0..3}}

\* Load commands for the list of them: a command of no known kind is NoCommand.
NoCommand ==
    [kind |-> "Unrecognized", size |-> 16, places |-> <<>>, sections |-> <<>>, count |-> 0,
     name |-> 0, length |-> 0, text |-> 0]

\* At the beginning, up to the end of the file and of what a field holds, and past them.
Extents ==
    {Range(begin, size) : begin \in {0, 1, 150, 200, 255}, size \in {0, 1, 49, 50, 51, 100, 255}}
LongExtents == Extents \cup {Range(begin, size) : begin \in {0, 5, 8191}, size \in {0, 200, 8191}}
FewExtents == {Range(0, 0), Range(0, 200), Range(150, 51), Range(255, 1)}

Placed(kind, places) == [NoCommand EXCEPT !.kind = kind, !.places = places]
PlacedOnce ==
    {Placed(kind, <<place>>) :
        kind \in {"LinkeditData", "SymbolSegment", "LinkerOption", "OptimizationHint",
                  "FunctionStarts", "EncryptionInfo", "TwoLevelHints"},
        place \in Extents}
    \cup {Placed("Note", <<place>>) : place \in LongExtents}
PlacedMore ==
    {Placed("SymbolTable", <<strings, symbols>>) : strings \in Extents, symbols \in Extents}
PlacedFive == {Placed("DyldInfo", places) : places \in [1..5 -> FewExtents]}
PlacedThree == {Placed("DynamicSymbolTable", places) : places \in [1..3 -> FewExtents]}

SegmentOf(kind, size, places, count, sections) ==
    [NoCommand EXCEPT !.kind = kind, !.size = size, !.places = places, !.count = count,
                      !.sections = sections]
SectionAt(file, begin) == [file |-> file, mem |-> Range(begin, file.size)]
WithoutSections ==
    {SegmentOf("Segment", 56, <<file, mem>>, 0, <<>>) : file \in Extents, mem \in FewExtents}
    \cup {SegmentOf("Segment64", 72, <<file, mem>>, 0, <<>>) :
            file \in LongExtents, mem \in FewExtents}
OneSection ==
    {SegmentOf("Segment", 124, <<Range(0, 50), mem>>, 1, <<SectionAt(file, begin)>>) :
            file \in Extents, begin \in {0, 200}, mem \in FewExtents}
    \cup {SegmentOf("Segment64", 152, <<Range(0, 50), mem>>, 1, <<SectionAt(file, begin)>>) :
            file \in LongExtents, begin \in {0, 8191}, mem \in FewExtents}
Sectioned ==
    {SegmentOf(kind, size, <<Range(0, 0), Range(0, 0)>>, count, sections) :
            kind \in {"Segment", "Segment64"}, size \in {56, 72, 124, 152, 192, 232}, count \in 0..4,
            sections \in [1..2 -> {SectionAt(Range(0, 200), 200), SectionAt(Range(150, 51), 0),
                                  SectionAt(Range(255, 1), 0)}]
                        \cup {[k \in 1..3 |-> SectionAt(Range(150 + k, 49), 0)]}}

Naming(kind, size, name, length) ==
    [NoCommand EXCEPT !.kind = kind, !.size = size, !.name = name, !.length = length, !.text = 5]
WithStrings ==
    {Naming(kind, size, name, length) :
        kind \in DOMAIN StringHeaders, size \in {8, 16, 24, 32, 40},
        name \in {8, 12, 20, 24, 31, 32, 38, 39}, length \in {0, 1, 8}}
Built == {[NoCommand EXCEPT !.kind = "BuildVersion", !.size = size, !.count = count] :
            size \in {24, 32, 40}, count \in 0..3}

Commanded ==
    {[Plain EXCEPT !.is64 = is64, !.commands = <<command>>] :
        is64 \in BOOLEAN,
        command \in UNION {PlacedOnce, PlacedMore, PlacedThree, PlacedFive, WithoutSections,
                           OneSection, Sectioned, WithStrings, Built}}
Several ==
    {[Plain EXCEPT !.commands = commands] :
        commands \in UNION {[1..n -> {NoCommand, Placed("Plain", <<>>),
                                      Placed("LinkerOption", <<Range(199, 1)>>),
                                      Placed("SymbolTable", <<Range(0, 200), Range(0, 1)>>),
                                      Naming("SubUmbrella", 24, 16, 4),
                                      Naming("Library", 16, 24, 4)}] : n \in 0..4}}
\* Images for the lists of a DyldInfo command.
ActsOn(is64, commands, segments, actions) ==
    [is64 |-> is64, commands |-> commands, segments |-> segments, size |-> MCFileSize,
     actions |-> actions]
AllHave(actions) ==
    [Rebase |-> actions, Bind |-> actions, LazyBind |-> actions, WeakBind |-> actions]

Act(segment, addr, name, ordinal, isNew) ==
    [segment |-> segment, addr |-> addr, name |-> name, ordinal |-> ordinal, isNew |-> isNew,
     kind |-> 1 + (addr % 2)]
SomeActions == <<Act(0, 3, 2, 1, TRUE), Act(1, 2, 1, 0, FALSE)>>

InMemory(name, addr, size) == [name |-> name, addr |-> addr, size |-> size]
Spread ==
    <<[name |-> <<"D">>, begin |-> 100,
       sections |-> <<InMemory(<<"p">>, 100, 8), InMemory(<<"q">>, 104, 8)>>],
      [name |-> <<"T">>, begin |-> 250, sections |-> <<InMemory(<<"t">>, 253, 9)>>]>>

\* Up to three commands with differing and empty lists, and one with its lists in
\* the file and past its end.
FewPlaces == {Range(0, 0), Range(150, 50)}
Placing(rebase, bind, weak, lazy) ==
    Placed("DyldInfo", <<rebase, bind, weak, lazy, Range(0, 0)>>)
OnePlace == Placing(Range(0, 9), Range(9, 9), Range(18, 9), Range(27, 9))
Repeated ==
    {ActsOn(TRUE, commands, Spread, AllHave(SomeActions)) :
        commands \in UNION {[1..n -> {Symtab(3)}
                          \cup {Placing(rebase, bind, Range(0, 0), lazy) : rebase \in FewPlaces,
                                   bind \in FewPlaces, lazy \in FewPlaces}] : n \in 0..3}}

Edges == {Range(0, 0), Range(0, 200), Range(150, 51), Range(199, 1), Range(200, 0), Range(255, 0)}
Around ==
    {ActsOn(TRUE, <<Uses, Placing(rebase, bind, weak, lazy)>>, Spread, AllHave(SomeActions)) :
        rebase \in {Range(0, 9), Range(200, 1)}, bind \in Edges, weak \in Edges, lazy \in Edges}
AllAround ==
    {ActsOn(TRUE, <<Placing(place, place, place, place)>>, Spread, AllHave(SomeActions)) :
        place \in Edges}
Bound ==
    {ActsOn(is64, commands, Spread, AllHave(<<Act(segment, addr, 2, ordinal, TRUE)>> \o SomeActions)) :
        is64 \in BOOLEAN, segment \in -1..2, addr \in {0, 2, 4, 8, 12, 8100},
        ordinal \in {-256, -5, -3, -1, 0, 1, 2, 3, 253},
        commands \in {<<Uses, OnePlace>>, <<OnePlace, Uses, Uses>>,
                      <<OnePlace, Library("Library", 16, 24, 6, 4, 0)>>}}

\* Lists of up to three actions that are equal in some of their keys.
Kept ==
    {Act(0, 3, 1, 0, TRUE), Act(1, 3, 1, 1, TRUE), Act(1, 4, 1, 0, FALSE), Act(0, 4, 2, 0, TRUE)}
Mixed ==
    {ActsOn(TRUE, <<Uses, OnePlace>>, Spread, AllHave(actions)) :
        actions \in UNION {[1..n -> Kept] : n \in 0..3}}

\* Images that are caches, for their header.
MCHeaderSizes == [n \in 0..8 |-> n + 4]
MCInfoSize == 2
MCSlideInfoSize == 3
MCAcceleratorSize == 4
MCMostMappings == 2

Mapping(address, size, offset) == [address |-> address, size |-> size, offset |-> offset]
Slide(size) ==
    [address |-> 1000, size |-> size, offset |-> 0, slide |-> Range(30, 2)]
Apart ==
    [CodeSignature |-> Range(106, 2), SlideInfo |-> Range(108, 2),
     LocalSymbolInfo |-> Range(110, 2), AcceleratorInfo |-> Range(1064, 4),
     DylibsImageGroup |-> Range(116, 2), OtherImageGroup |-> Range(118, 2),
     ProgClosures |-> Range(120, 2), ProgClosuresTrie |-> Range(122, 2),
     DylibsImageArray |-> Range(124, 2), DylibsTrie |-> Range(126, 2),
     OtherImageArray |-> Range(128, 2), OtherTrie |-> Range(130, 2),
     ProgramsPBLSetPool |-> Range(132, 2), ProgramTrie |-> Range(134, 2),
     SwiftOpts |-> Range(136, 2), RosettaReadOnly |-> Range(138, 2),
     RosettaReadWrite |-> Range(140, 2)]
Cache ==
    [size |-> MCFileSize, mappingOffset |-> 12,
     mappings |-> <<Mapping(1000, 60, 0), Mapping(1060, 100, 60)>>,
     images |-> Range(20, 2), imageTexts |-> Range(24, 2), places |-> Apart,
     branchPools |-> Range(30, 1), region |-> Range(1000, 160), subCaches |-> Range(31, 1),
     slideList |-> Range(32, 1), slides |-> <<Slide(60), Slide(0)>>,
     accelerator |-> [trie |-> Range(1, 5), offsets |-> <<0, 199, 200>>]]

Versions ==
    {[Cache EXCEPT !.mappingOffset = offset, !.mappings = mappings] :
        offset \in 4..13,
        mappings \in UNION {[1..n -> {Mapping(1000, 60, 0), Mapping(1060, 0, 60)}] : n \in 1..3}}
Near == {Range(0, 0), Range(120, 20), Range(130, 0), Range(139, 2), Range(199, 2), Range(8000, 300)}
Two ==
    {[Cache EXCEPT !.places[first] = place, !.places[second] = other] :
        first \in {"CodeSignature", "SlideInfo", "AcceleratorInfo", "DylibsImageGroup",
                   "RosettaReadOnly"},
        second \in DOMAIN Apart, place \in Near, other \in Near}
Texted ==
    {[Cache EXCEPT !.imageTexts = Range(begin, size), !.places["OtherTrie"] = place,
                   !.branchPools = Range(begin, 1)] :
        begin \in {0, 1, 20, 199, 200, 4000}, size \in {0, 2, 3, 5000}, place \in Near}
Slid ==
    {[Cache EXCEPT !.slideList = Range(begin, size), !.subCaches = Range(begin, 1)] :
        begin \in {0, 150, 191, 194, 196, 197, 198, 200}, size \in 0..3}
Accelerated ==
    {[Cache EXCEPT !.mappings = mappings, !.images = Range(22, 2),
                   !.places["AcceleratorInfo"] = Range(address, size)] :
        mappings \in UNION {[1..n -> {Mapping(1000, 8, 0), Mapping(1000, 16, 190), Mapping(1004, 4, 8188),
                                      Mapping(1008, 8, 100), Mapping(8180, 100, 50),
                                      Mapping(0, 16, 100)}] : n \in 0..2},
        address \in {0, 1000, 1004, 1006, 1010, 1012, 8188}, size \in {0, 4}}

\* Images for their exports.
Export(symbol, flags, name, offset, ordinal, import) ==
    [isExport |-> TRUE, symbol |-> symbol, stub |-> "stub" \in flags, reexport |-> "re" \in flags,
     name |-> name, offset |-> offset, library |-> ordinal, import |-> import]
Interior == [Export(0, {}, 0, 0, 0, 0) EXCEPT !.isExport = FALSE]
Exporting(base, commands, nodes, broken) ==
    [is64 |-> FALSE, commands |-> commands, size |-> MCFileSize, base |-> base,
     segments |-> <<[name |-> <<"D">>, begin |-> 100, size |-> 20, sections |->
                        <<InMemory(<<"p">>, 100, 8), InMemory(<<"q">>, 104, 8)>>],
                    [name |-> <<"T">>, begin |-> 300, size |-> 9, sections |->
                        <<InMemory(<<"p">>, 303, 9)>>]>>,
     trie |-> [nodes |-> nodes, broken |-> broken]]
OneTrie == Placed("DyldExportsTrie", <<Range(9, 9)>>)

\* Every export by itself, after one that is plain and one with a name to leave.
SomeExports == <<Export(0, {}, 1, 104, 0, 0), Export(0, {"re"}, 2, 0, 1, 7)>>
Alone ==
    {Exporting(base, commands, SomeExports \o <<Interior, Export(symbol, flags, 1, offset, leads[1], leads[2])>>,
               "No") :
        base \in {0, 8191}, commands \in {<<Uses, OneTrie>>, <<OneTrie>>},
        symbol \in 0..3, flags \in SUBSET {"re", "stub"}, offset \in {0, 103, 110, 119, 120, 301, 304},
        leads \in {<<0, 0>>, <<1, 8>>, <<2, 0>>}}
FewExports ==
    {Interior, Export(0, {}, 1, 100, 0, 0), Export(0, {}, 2, 304, 0, 0), Export(0, {"re"}, 3, 0, 1, 0),
     Export(1, {"re"}, 1, 0, 0, 5), Export(0, {"re"}, 1, 0, 1, 6)}
ManyExports ==
    {Exporting(0, <<OneTrie>>, nodes, broken) :
        nodes \in UNION {[1..n -> FewExports] : n \in 0..3}, broken \in {"No", "Root", "Node"}}
Tries ==
    {Exporting(0, commands, SomeExports, "No") :
        commands \in UNION {[1..n -> {Symtab(3), OnePlace, OneTrie, Placed("DyldExportsTrie", <<Range(199, 2)>>),
                                      Placed("DyldExportsTrie", <<Range(20, 0)>>),
                                      Placed("DyldExportsTrie", <<Range(200, 0)>>),
                                      Placed("DyldInfo", [k \in 1..5 |-> Range(150, 40 + k)]),
                                      Library("Library", 16, 24, 6, 4, 0)}] : n \in 0..2}}

Options(operation, verbose, sorts) ==
    [operation |-> operation, segment |-> <<"D">>, section |-> <<"p">>,
     verbose |-> verbose, onlyCount |-> FALSE, sorts |-> sorts, only |-> <<>>]

AnyOrder(operation, kinds) ==
    {Options(operation, TRUE, sorts) : sorts \in UNION {[1..n -> kinds] : n \in 0..2}}

\* Each family has its options in a definition of its own.
OfExports(verbose, onlyCount, sorts, kinds, sections) ==
    [operation |-> "exports", verbose |-> verbose, onlyCount |-> onlyCount, sorts |-> sorts,
     kinds |-> kinds, sections |-> sections]
Pair(segment, sect) == [segment |-> segment, section |-> sect]
AllExports == {OfExports(verbose, FALSE, <<>>, {}, {}) : verbose \in BOOLEAN}
SomeOfThem ==
    {OfExports(TRUE, onlyCount, <<>>, kinds, sections) :
        onlyCount \in BOOLEAN, kinds \in {{}, {"Regular", "Reexport"}, {"StubAndResolver", "WeakDefinition"}},
        sections \in {{}, {Pair(<<"D">>, <<>>)}, {Pair(<<"D">>, <<"q">>), Pair(<<"T">>, <<"p">>)}}}
SortedExports ==
    {OfExports(TRUE, onlyCount, <<>>, {}, {}) : onlyCount \in BOOLEAN}
    \cup {OfExports(TRUE, FALSE, <<"BySymbol">>, kinds, {}) : kinds \in {{}, {"Reexport"}}}
Plainly == {Options(operation, TRUE, <<>>) : operation \in DyldOperations}
OnlySome ==
    {[Options(operation, verbose, <<>>) EXCEPT !.only = only] :
        operation \in {"bindactions", "bindsymbols"}, verbose \in BOOLEAN,
        only \in UNION {[1..n -> AllBinds] : n \in 0..3} \cup {<<"Bind", "WeakBind", "LazyBind", "Bind">>}}
ActionOrders ==
    {[given EXCEPT !.only = <<"LazyBind">>] :
        given \in AnyOrder("bindactions", {"ByName", "ByDylibOrdinal", "ByKind"})
                  \cup AnyOrder("bindsymbols", {"ByName", "ByDylibOrdinal", "ByKind"})}
    \cup {Options("rebaseactions", TRUE, sorts) : sorts \in {<<>>, <<"ByAddress">>}}
AsIndexed == {Options("pointers", FALSE, <<>>)}
Either == {Options(operation, TRUE, <<>>) : operation \in {"pointers", "cstrings"}}
StringOrders == {Options("cstrings", TRUE, sorts) : sorts \in {<<>>, <<"ByString">>}}
ImageOrders ==
    AnyOrder("images", {"ByAddress", "ByInode", "ByName"})
    \cup {[Options("images", TRUE, <<>>) EXCEPT !.onlyCount = TRUE]}
SymbolOrders == AnyOrder("pointers", {"ByDylibOrdinal", "ByKind", "ByIndex", "BySymbol"})
LibraryOrders == AnyOrder("libraries", {"ByCurrentVersion", "ByIndex", "ByName"})
Headed == {Options("header", verbose, <<>>) : verbose \in BOOLEAN}
Lines == {Options("loadcommands", verbose, <<>>) : verbose \in BOOLEAN}

MCFamilies ==
    <<[images |-> Alone, asked |-> SomeOfThem],
      [images |-> ManyExports, asked |-> SortedExports],
      [images |-> Tries, asked |-> AllExports],
      [images |-> Versions, asked |-> Headed],
      [images |-> Two, asked |-> Headed],
      [images |-> Texted, asked |-> Headed],
      [images |-> Slid, asked |-> Headed],
      [images |-> Accelerated, asked |-> Headed],
      [images |-> Repeated, asked |-> Plainly],
      [images |-> Around, asked |-> Plainly],
      [images |-> AllAround, asked |-> Plainly],
      [images |-> Bound, asked |-> Plainly],
      [images |-> {ActsOn(FALSE, <<OnePlace>>, Spread, AllHave(SomeActions))}, asked |-> OnlySome],
      [images |-> Mixed, asked |-> ActionOrders],
      [images |-> Indirect, asked |-> AsIndexed],
      [images |-> Named, asked |-> Either],
      [images |-> Written, asked |-> StringOrders],
      [images |-> Cached, asked |-> ImageOrders],
      [images |-> Listed, asked |-> SymbolOrders],
      [images |-> Linked, asked |-> LibraryOrders],
      [images |-> Several, asked |-> Lines],
      [images |-> Commanded, asked |-> Lines]>>

=============================================================================

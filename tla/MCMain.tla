------------------------------- MODULE MCMain -------------------------------
(* Command lines: every operation with some options, the path and up to two *)
(* choices; every beginning of up to three arguments; and for the export    *)
(* trie every three options and values.  Files: Mach-O files at the bounds  *)
(* of their sizes, fat files of up to three archs in and out of place, and  *)
(* caches of both versions with images of all kinds.                        *)
EXTENDS Main, TLC

Concat(S, T) == {s \o t : s \in S, t \in T}

UpTo(n, S) == UNION {[1..k -> S] : k \in 0..n}

OneOfEach ==
  {"--header", "--list-archs", "--list-export-trie", "--list-objc-classes",
   "--list-c-string-section", "--list-dsc-images"}

MCBeginnings == UpTo(3, OneOfEach \cup {"--help", "--bad", "-v", "-arch", File, Pair})

MCOptionsOf(op) ==
  CASE op = "--list-c-string-section" -> {<<Pair>>, <<"-v", Pair>>, <<Pair, "--sort">>}
    [] op = "--list-objc-classes" -> {<<>>, <<"--tree">>, <<"--tree", "--include-categories">>}
    [] op = "--list-dsc-images" -> {<<>>, <<"--sort", "--only-count">>}
    [] OTHER -> {<<>>, <<"-v">>}

MCExportOptions ==
  UpTo(4, {"--require-kind", "--require-segment", "--require-section", "--sort", "--only-count", "WORD", Pair})

MCChoices ==
  {<<"-arch", "1">>, <<"-arch", "2">>, <<"-arch", "0">>, <<"-arch", "WORD">>, <<"-image", "1">>,
   <<"-image", "2">>, <<"-image", "/a">>, <<"-image", "/b">>, <<"-image", "WORD">>}

MCPathOptions ==
  {<<>>, <<"WORD">>, <<"--bad">>, <<"-arch">>, <<"-image">>} \cup MCChoices \cup Concat(MCChoices, MCChoices)

MCCommandLines ==
  MCBeginnings
    \cup UNION {Concat(Concat(Concat({<<op>>}, MCOptionsOf(op)), {<<File>>}), MCPathOptions) : op \in OneOfEach}
    \cup Concat(Concat({<<"--list-export-trie">>}, MCExportOptions), {<<>>, <<File>>})

MachO(is64, count, lcSize) ==
  [magic |-> "macho", is64 |-> is64, count |-> count, lcSize |-> lcSize,
   segments |-> <<>>, verifies |-> TRUE, dylib |-> FALSE, inCache |-> FALSE]

Image(dylib, inCache, segments) ==
  [MachO(TRUE, 1, 4) EXCEPT !.dylib = dylib, !.inCache = inCache, !.segments = segments]

MCMachOFiles ==
  {[size |-> size, at |-> 0 :> MachO(is64, count, lcSize)] :
     size \in {7, 8, 12}, is64 \in BOOLEAN, count \in {0, 2, 3, 8, 9}, lcSize \in {0, 4, 6}}

Arch(offset, size) == [offset |-> offset, size |-> size]

MCArchs ==
  UpTo(2, {Arch(17, 12), Arch(29, 11), Arch(20, 16), Arch(38, 12), Arch(32, 0), Arch(29, 41)})
    \cup {<<Arch(17, 12), Arch(29, 11), Arch(a, 8)>> : a \in {18, 30, 40}}

MCFatFiles ==
  {[size |-> 40, at |-> (0 :> [magic |-> "fat", is64 |-> is64, archs |-> archs])
                       @@ (17 :> MachO(TRUE, 1, 4)) @@ (29 :> header)] :
     is64 \in BOOLEAN, archs \in MCArchs, header \in {MachO(TRUE, 2, 2), MachO(FALSE, 1, 4), Data}}
    \cup {[size |-> size, at |-> 0 :> [magic |-> "fat", is64 |-> FALSE, archs |-> <<Arch(2, 1)>>]] :
            size \in {2, 6, 7}}

Mapping(address, size, offset) == [address |-> address, size |-> size, offset |-> offset]

CacheImage(path, address) == [path |-> path, address |-> address]

(* The images are at 5000, 5012 and 5024; a mapping may have them past the  *)
(* end of the file.                                                         *)
MCCacheFile(size, known, mappingOffset, mappings, imagesOffset, images, first) ==
  [size |-> size,
   at |-> (0 :> [magic |-> "cache", cpuKnown |-> known, mappingOffset |-> mappingOffset,
                 mappings |-> mappings, imagesOffset |-> imagesOffset, images |-> images])
          @@ (5000 :> first) @@ (5012 :> Image(TRUE, TRUE, <<12>>))]

MCCacheFiles ==
  {MCCacheFile(5030, known, offset, mappings, offset + distance, images, first) :
     known \in BOOLEAN, offset \in {10, 114},
     mappings \in {<<>>, <<Mapping(100, 12, 5000), Mapping(112, 30, 5012)>>},
     distance \in {0, 16, 40},
     images \in {<<>>, <<CacheImage("/a", 100), CacheImage("/b", 112)>>, <<CacheImage("/b", 140)>>},
     first \in {Image(TRUE, TRUE, <<4, 20>>), Image(TRUE, TRUE, <<31>>), Image(FALSE, TRUE, <<4>>), Data}}
    \cup {MCCacheFile(size, TRUE, 114, <<Mapping(100, 12, 0)>>, offset, <<CacheImage("/a", 100)>>, Data) :
            size \in {9, 10, 11, 113, 115, 130, 5100}, offset \in {0, 122}}
    \cup {MCCacheFile(37, TRUE, 0, <<>>, 1, [i \in 1..5 |-> CacheImage("/a", 100)], Data)}

MCFiles ==
  MCMachOFiles \cup MCFatFiles \cup MCCacheFiles \cup {[size |-> 50, at |-> 0 :> Data]}

MCNumerals == <<"1", "2", "3">>

=============================================================================

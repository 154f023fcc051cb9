---------------------------- MODULE HeaderListing ----------------------------
(***************************************************************************)
(* --header of a dyld_shared_cache: a line for each of its ranges, version by *)
(* version (PrintHeader.cpp), with the fields its header has by version    *)
(* (DyldSharedCache/Headers.h).                                            *)
(*                                                                         *)
(* A cache has by "places" the ranges that its fields give directly, by    *)
(* "mappings" the list at mappingOffset, and by "slides" those at the      *)
(* place of the list with slides, as far as the file goes.  A line has the *)
(* begin of its range, the end that is shown, whether "(Past EOF!)"        *)
(* follows, and the kinds of the ranges that it is said to overlap.        *)
(***************************************************************************)
EXTENDS ListingState, LoadCommandLines

LOCAL Seqs == INSTANCE SequencesExt

CONSTANTS
    HeaderSizes,        \* of the versions 0 to 8
    InfoSize,           \* of MappingInfo, ImageInfo and ImageTextInfo: 32
    SlideInfoSize,      \* of MappingWithSlideInfo: 56
    AcceleratorSize,    \* of AcceleratorInfo: 72
    MostMappings        \* a longer list is not printed: 10

ASSUME CacheSizesAssumption ==
    /\ HeaderSizes \in [0..8 -> Nat] /\ \A n \in 1..8 : HeaderSizes[n - 1] < HeaderSizes[n]
    /\ {InfoSize, SlideInfoSize, AcceleratorSize} \subseteq Nat \ {0} /\ MostMappings \in Nat

\* HeaderV0::getVersion
Version(cache) == Cardinality({n \in 1..8 : cache.mappingOffset >= HeaderSizes[n]})

\* getImagesOffset and getImageCount: DscMemoryObject takes both from the header
\* of version 8, whatever the version is.
ImagesAssert(cache) == Version(cache) < 8

-----------------------------------------------------------------------------
(* The ranges and their overlaps *)

\* The kinds of ranges that the header of each version adds, in their order.
V0Kinds == <<"MappingInfoList", "ImageInfoList">>
V1Kinds == <<"CodeSignature", "SlideInfo">>
V2Kinds == <<"LocalSymbolInfo">>
V4Kinds == <<"AcceleratorInfo", "ImageTextInfoList">>
V5Kinds == <<"DylibsImageGroup", "OtherImageGroup", "ProgClosures", "ProgClosuresTrie">>
V6Kinds == <<"DylibsImageArray", "DylibsTrie", "OtherImageArray", "OtherTrie">>
V8Kinds == <<"ProgramsPBLSetPool", "ProgramTrie", "SwiftOpts", "RosettaReadOnly", "RosettaReadWrite">>

VersionKinds ==
    <<V0Kinds, V1Kinds, V2Kinds, <<>>, V4Kinds, V5Kinds, V6Kinds, <<>>, V8Kinds>>
RangeKinds == Seqs!FlattenSeq(VersionKinds)
KindCounts == [n \in 0..8 |-> Len(Seqs!FlattenSeq(SubSeq(VersionKinds, 1, n + 1)))]

\* The size of an entry is multiplied by the offset, and the count added.
ImageTextEnd(cache) == InfoSize * cache.imageTexts.begin + cache.imageTexts.size

\* CollectDscRangeList: for the read-write part of Rosetta it takes the range of
\* the read-only part.
CollectedRange(cache, kind) ==
    CASE kind = "MappingInfoList" -> Range(cache.mappingOffset, InfoSize * Len(cache.mappings))
      [] kind = "ImageInfoList" -> Range(cache.images.begin, InfoSize * cache.images.size)
      [] kind = "ImageTextInfoList" ->
           Range(cache.imageTexts.begin, ImageTextEnd(cache) - cache.imageTexts.begin)
      [] kind = "RosettaReadWrite" -> cache.places["RosettaReadOnly"]
      [] OTHER -> cache.places[kind]

IsCollected(cache, k) ==
    /\ k <= KindCounts[Version(cache)]
    /\ RangeKinds[k] = "ImageTextInfoList" => ImageTextEnd(cache) < Long

\* Mutant: only the kind before it is compared.
OverlapKinds_Neighbour(cache, k) ==
    {j \in {k - 1} \ {0} : IsCollected(cache, j)
        /\ Overlaps(CollectedRange(cache, RangeKinds[k]), CollectedRange(cache, RangeKinds[j]))}

\* AddRangeToList
OverlapKinds(cache, k) ==
    {j \in 1..(k - 1) : IsCollected(cache, j)
        /\ Overlaps(CollectedRange(cache, RangeKinds[k]), CollectedRange(cache, RangeKinds[j]))}

\* PrintDscRangeOverlapsErrorOrNewline: they are left out if --verbose is given.
OverlapsShown(verbose, cache, kind) ==
    LET k == CHOOSE i \in DOMAIN RangeKinds : RangeKinds[i] = kind
    IN IF verbose \/ ~IsCollected(cache, k) THEN {}
       ELSE {RangeKinds[j] : j \in OverlapKinds(cache, k)}

-----------------------------------------------------------------------------
(* Lines *)

NotShown == Long + 1
EndShown(place, limit) ==
    IF place.begin + place.size < limit THEN place.begin + place.size ELSE Overflows

Line(key, place) ==
    [key |-> key, begin |-> place.begin, shown |-> NotShown, past |-> FALSE, overlaps |-> {}]

\* PrintDscSizeRange
SizeRangeLine(verbose, key, place) ==
    [Line(key, place) EXCEPT !.shown = IF verbose /\ place.size # 0
                                       THEN EndShown(place, Long) ELSE NotShown]

\* Only what is an offset is compared with the file.
OffsetKinds == {"CodeSignature", "SlideInfo", "LocalSymbolInfo", "SwiftOpts"}

\* WarnIfOutOfRange
IsOutOfFile(size, place) == ~ContainsRange(Range(0, size), place)

\* PrintDscSizeRange and PrintDscRangeOverlapsErrorOrNewline.  After the array
\* of images, the overlaps of the group of images are printed.
RangeLine(size, verbose, cache, kind) ==
    LET place == cache.places[kind]
    IN [SizeRangeLine(verbose, kind, place) EXCEPT
           !.past = kind \in OffsetKinds /\ IsOutOfFile(size, place),
           !.overlaps = OverlapsShown(verbose, cache, IF kind = "DylibsImageArray"
                                                      THEN "DylibsImageGroup" ELSE kind)]

RangeLines(size, verbose, cache, kinds) ==
    [k \in DOMAIN kinds |-> RangeLine(size, verbose, cache, kinds[k])]

\* PrintOffsetCountPair and WriteAcceleratorOffsetCountPair look at the first
\* byte of a list only.
PairLine(size, key, place) ==
    [Line(key, place) EXCEPT !.past = IsOutOfFile(size, Range(place.begin, 1))]

\* The lines of a mapping that have its offset and its address.
MappingLines(verbose, mapping) ==
    <<SizeRangeLine(verbose, "MappingOffset", Range(mapping.offset, mapping.size)),
      SizeRangeLine(verbose, "MappingAddress", Range(mapping.address, mapping.size))>>

\* The range of the slide is shown if the mapping is not empty.
SlideLines(verbose, slide) ==
    MappingLines(verbose, slide)
        \o <<[Line("MappingSlide", slide.slide) EXCEPT !.shown =
                 IF verbose /\ slide.size # 0 THEN EndShown(slide.slide, Long) ELSE NotShown]>>

\* PrintMappingInfoList
MappingListLines(verbose, mappings) ==
    IF Len(mappings) > MostMappings THEN <<>>
    ELSE Seqs!FlattenSeq([k \in DOMAIN mappings |-> MappingLines(verbose, mappings[k])])

\* The pair of the image texts, the number of which is compared with that of
\* the images.
ImageTextLine(size, verbose, cache) ==
    [PairLine(size, IF cache.imageTexts.size = cache.images.size
                    THEN "ImageTexts" ELSE "InvalidImageTexts", cache.imageTexts) EXCEPT
        !.overlaps = OverlapsShown(verbose, cache, "ImageTextInfoList")]

\* That dylibs are expected on disk is told by the size of the group of images.
ExpectedOnDiskLine(cache) ==
    Line(IF cache.places["DylibsImageGroup"].size # 0 THEN "OnDisk" ELSE "NotOnDisk", Range(0, 0))

\* PrintMappingWithSlideInfoList reads its list wherever it is.
SlideListIsPrinted(cache) == cache.slideList.size <= MostMappings
SlideListLeaves(size, cache) ==
    /\ SlideListIsPrinted(cache) /\ cache.slideList.size > 0
    /\ cache.slideList.begin + SlideInfoSize * cache.slideList.size > size

SlideListLines(verbose, cache) ==
    IF ~SlideListIsPrinted(cache) THEN <<>>
    ELSE Seqs!FlattenSeq([k \in 1..cache.slideList.size |-> SlideLines(verbose, cache.slides[k])])

\* The functions PrintDscHeaderV0Info to V8Info.
V0Lines(verbose, cache) == MappingListLines(verbose, cache.mappings)

V1Lines(size, verbose, cache) == RangeLines(size, verbose, cache, V1Kinds)

V2Lines(size, verbose, cache) == RangeLines(size, verbose, cache, V2Kinds)

V4Lines(size, verbose, cache) ==
    <<PairLine(size, "BranchPools", cache.branchPools),
      RangeLine(size, verbose, cache, "AcceleratorInfo"), ImageTextLine(size, verbose, cache)>>

V5Lines(size, verbose, cache) ==
    RangeLines(size, verbose, cache, V5Kinds)
        \o <<ExpectedOnDiskLine(cache), SizeRangeLine(verbose, "SharedRegion", cache.region)>>

V6Lines(size, verbose, cache) == RangeLines(size, verbose, cache, V6Kinds)

V7Lines(size, verbose, cache) ==
    <<PairLine(size, "MappingsWithSlide", cache.slideList)>> \o SlideListLines(verbose, cache)

V8Lines(size, verbose, cache) ==
    LET ranges(first, last) == RangeLines(size, verbose, cache, SubSeq(V8Kinds, first, last))
    IN ranges(1, 3) \o <<PairLine(size, "SubCacheArray", cache.subCaches)>> \o ranges(4, 5)

\* PrintHeaderOperation::Run: what a version adds.
VersionLines(size, verbose, cache, version) ==
    CASE version = 0 -> V0Lines(verbose, cache)
      [] version = 1 -> V1Lines(size, verbose, cache)
      [] version = 2 -> V2Lines(size, verbose, cache)
      [] version = 3 -> <<>>
      [] version = 4 -> V4Lines(size, verbose, cache)
      [] version = 5 -> V5Lines(size, verbose, cache)
      [] version = 6 -> V6Lines(size, verbose, cache)
      [] version = 7 -> V7Lines(size, verbose, cache)
      [] version = 8 -> V8Lines(size, verbose, cache)

-----------------------------------------------------------------------------
(* The accelerator info *)

\* MappingInfo::getFileOffsetFromAddr, of a mapping that has the address.
OffsetIn(mapping, address) == (mapping.offset + (address - mapping.address)) % Long

\* GetFileOffsetForAddress: an offset of 0 is no offset.
OffsetOfAddress(cache, address) ==
    LET finds(mapping) ==
            /\ HasLocation(Range(mapping.address, mapping.size), address)
            /\ OffsetIn(mapping, address) # 0
        holding == SelectSeq(cache.mappings, finds)
    IN IF address = 0 \/ holding = <<>> THEN [offset |-> 0, size |-> 0]
       ELSE [offset |-> OffsetIn(Head(holding), address),
             size |-> (Head(holding).address + Head(holding).size - address) % Long]

\* GetAcceleratorInfo and GetPtrForAddress: the place of the info, 0 for none.
AcceleratorOffset(cache) ==
    LET place == cache.places["AcceleratorInfo"]
        there == OffsetOfAddress(cache, place.begin)
    IN IF place.size = 0 \/ there.size < AcceleratorSize THEN 0 ELSE there.offset

AcceleratorLeaves(size, cache) == AcceleratorOffset(cache) + AcceleratorSize > size

\* PrintAcceleratorInfo: the offsets of the info are compared with the file
\* though they count from the info.
AcceleratorLines(size, verbose, cache) ==
    LET info == cache.accelerator
        trie == [Line("AcceleratorTrie", info.trie) EXCEPT !.shown =
                    IF verbose /\ info.trie.size # 0 THEN EndShown(info.trie, Word) ELSE NotShown]
        pair(k) == PairLine(size, "AcceleratorList", Range(info.offsets[k], 0))
    IN <<Line("Accelerator", Range(AcceleratorOffset(cache), 0)), trie>>
         \o [k \in DOMAIN info.offsets |-> pair(k)]

-----------------------------------------------------------------------------
(* The operation *)

\* One of PrintDscHeaderV0Info to V8Info.  The first asks for the images after
\* the mappings.
PrintHeaderInfo ==
    /\ pc = "header" /\ at <= Version(image)
    /\ LET lines == VersionLines(image.size, options.verbose, image, at)
           fails == at = 0 /\ ImagesAssert(image)
       IN IF at = 7 /\ SlideListLeaves(image.size, image) THEN End("OutsideTheFile")
          ELSE /\ output' = output \o lines /\ at' = at + 1
               /\ pc' = IF fails THEN "end" ELSE pc
               /\ end' = IF fails THEN "Assertion" ELSE end
               /\ UNCHANGED <<image, options, tables, section, found>>

\* What follows "done".
PrintAccelerator ==
    /\ pc = "header" /\ at > Version(image)
    /\ IF AcceleratorOffset(image) = 0 THEN End("Listed")
       ELSE IF AcceleratorLeaves(image.size, image) THEN End("OutsideTheFile")
       ELSE /\ output' = output \o AcceleratorLines(image.size, options.verbose, image)
            /\ pc' = "end" /\ end' = "Listed"
            /\ UNCHANGED <<image, options, at, tables, section, found>>

-----------------------------------------------------------------------------
(* Properties *)

\* The first mapping that has the address of the accelerator info, but not at
\* the beginning of the file, has all of the info.
AcceleratorIsHeld ==
    LET place == image.places["AcceleratorInfo"]
        past(mapping) == mapping.address + mapping.size
        has(mapping) == /\ mapping.address <= place.begin /\ place.begin < past(mapping)
                        /\ (mapping.offset + place.begin - mapping.address) % Long # 0
        having == {m \in DOMAIN image.mappings : has(image.mappings[m])}
    IN /\ place.begin # 0 /\ place.size # 0
       /\ \E m \in having :
            /\ \A j \in having : m <= j
            /\ place.begin + AcceleratorSize <= past(image.mappings[m])

\* Each range that the header of this version has has its line, in the order of the
\* fields; mappings have theirs unless they are many, and the accelerator info
\* comes last.
HeaderIsComplete ==
    end = "Listed" /\ options.operation = "header" =>
        LET lines(key) == {k \in DOMAIN output : output[k].key = key}
            has(version) == image.mappingOffset >= HeaderSizes[version]
            one(version) == IF has(version) THEN 1 ELSE 0
            texts == lines("ImageTexts") \cup lines("InvalidImageTexts")
            position(kind) == CHOOSE k \in lines(kind) : TRUE
            listed(count) == IF count <= MostMappings THEN count ELSE 0
            slides == one(7) * listed(image.slideList.size)
        IN /\ \A n \in 1..8 : \A kind \in {VersionKinds[n + 1][k] : k \in DOMAIN VersionKinds[n + 1]} :
                kind \in DOMAIN image.places => Cardinality(lines(kind)) = one(n)
           /\ \A j \in 3..20, k \in 3..20 :
                /\ j < k
                /\ \A n \in {j, k} : RangeKinds[n] \in DOMAIN image.places /\ lines(RangeKinds[n]) # {}
                => position(RangeKinds[j]) < position(RangeKinds[k])
           /\ Cardinality(texts) = one(4)
           /\ has(4) => (lines("ImageTexts") = texts <=> image.imageTexts.size = image.images.size)
           /\ Cardinality(lines("MappingOffset")) = listed(Len(image.mappings)) + slides
           /\ Cardinality(lines("MappingSlide")) = slides
           /\ \A k \in lines("Accelerator") : \A j \in 1..(k - 1) : output[j].key # "AcceleratorList"
           /\ lines("Accelerator") # {} <=> AcceleratorIsHeld

\* The header of a cache is printed to its end.  An assertion may fail for a version
\* before the last (DscMemory.h:259), and what may be read past the file is a list
\* of mappings with slides (Headers.h:739) or the accelerator info (Headers.h:412)
\* that leaves it, where the first mapping with its address that does not lead to
\* the beginning of the file puts it; no list that leaves the file is printed.
HeaderEndsRight ==
    pc = "end" /\ options.operation = "header" =>
    LET slides == image.slideList
        place == image.places["AcceleratorInfo"]
        slidesLeave == slides.size \in 1..MostMappings
                       /\ slides.begin + SlideInfoSize * slides.size > image.size
        holding == {m \in DOMAIN image.mappings :
                      LET mapping == image.mappings[m]
                      IN /\ place.size > 0 /\ place.begin >= mapping.address
                         /\ place.begin < mapping.address + mapping.size
                         /\ (mapping.offset + place.begin - mapping.address) % Long # 0}
        inFile(m) == (image.mappings[m].offset + place.begin - image.mappings[m].address) % Long
                        <= image.size - AcceleratorSize
        older == image.mappingOffset < HeaderSizes[8]
    IN CASE end = "Assertion" -> older
         [] end = "OutsideTheFile" -> slidesLeave \/ \E m \in holding : ~inFile(m)
         [] OTHER -> end = "Listed" /\ (older \/ ~slidesLeave)

(***************************************************************************)
(* The ranges of a cache as the header means them, and as CollectDscRange- *)
(* List may take them: the read-write part of Rosetta for the read-only    *)
(* part (PrintHeader.cpp:537), and the image texts with an end that is a   *)
(* product of size and offset (Headers.h:551), which may be too large.     *)
(***************************************************************************)
RangeOf(kind) ==
    CASE kind = "MappingInfoList" ->
           [begin |-> image.mappingOffset, size |-> InfoSize * Len(image.mappings)]
      [] kind = "ImageInfoList" ->
           [begin |-> image.images.begin, size |-> InfoSize * image.images.size]
      [] kind = "ImageTextInfoList" ->
           [begin |-> image.imageTexts.begin, size |-> InfoSize * image.imageTexts.size]
      [] OTHER -> image.places[kind]
Takes(kind) ==
    {RangeOf(kind)} \cup
        CASE kind = "RosettaReadWrite" -> {image.places["RosettaReadOnly"]}
          [] kind = "ImageTextInfoList" ->
               {[begin |-> image.imageTexts.begin, size |->
                    (InfoSize - 1) * image.imageTexts.begin + image.imageTexts.size]}
          [] OTHER -> {}

\* A range tells of each one before it, in the order of the fields, that it meets,
\* whatever lies between them; of an empty one nothing is said.
Collide(p, q) == p.begin < q.begin + q.size /\ q.begin < p.begin + p.size
TellsOf(line, kind) ==
    LET position(k) == CHOOSE n \in DOMAIN RangeKinds : RangeKinds[n] = k
    IN /\ \A other \in line.overlaps : position(other) < position(line.key)
       /\ \E range \in Takes(kind) : range.size > 0 =>
            \A k \in 1..(position(kind) - 1) :
               \E other \in Takes(RangeKinds[k]) :
                  \/ other.size = 0
                  \/ RangeKinds[k] \in line.overlaps <=> Collide(range, other)
                  \/ RangeKinds[k] = "ImageTextInfoList" /\ other.begin + other.size >= Long

\* Ranges that meet are told in the later one's line.  With --verbose none may be
\* told (PrintHeader.cpp:558), and the line of the array of dylib images may tell
\* of what their group meets (1295).  A range that leaves the file is marked if it
\* is one of offsets; an empty one at the end of the file may be.
RangeIsShown(line) ==
    LET size == image.places[line.key].size
        offset == line.key \in {"CodeSignature", "SlideInfo", "LocalSymbolInfo", "SwiftOpts"}
    IN /\ offset /\ line.begin + size > image.size => line.past
       /\ line.past => offset /\ (line.begin + size > image.size \/ line.begin = image.size)
       /\ \/ TellsOf(line, line.key)
          \/ options.verbose /\ line.overlaps = {}
          \/ line.key = "DylibsImageArray" /\ TellsOf(line, "DylibsImageGroup")

\* The lines of a header have the ranges of the cache, marked where they leave
\* the file, and a list where its first entry does; the accelerator info is where
\* a mapping puts it.
HeaderIsShown ==
    pc = "end" /\ options.operation = "header" =>
        \A n \in DOMAIN output :
            LET line == output[n]
                address == image.places["AcceleratorInfo"].begin
            IN /\ line.key \in DOMAIN image.places =>
                    /\ line.begin = image.places[line.key].begin
                    /\ RangeIsShown(line)
                    /\ options.verbose /\ image.places[line.key].size > 0 =>
                         LET sum == line.begin + image.places[line.key].size
                         IN sum < Long => line.shown = sum
               /\ line.key \in {"BranchPools", "ImageTexts", "InvalidImageTexts", "MappingsWithSlide",
                               "SubCacheArray", "AcceleratorList"}
                  => (line.past <=> line.begin >= image.size)
               /\ line.key = "Accelerator" =>
                    /\ line.begin # 0 /\ line.begin + AcceleratorSize <= image.size
                    /\ \E m \in DOMAIN image.mappings :
                         LET mapping == image.mappings[m]
                         IN /\ (line.begin + mapping.address - mapping.offset - address) % Long = 0
                            /\ address >= mapping.address
                            /\ address + AcceleratorSize <= mapping.address + mapping.size
                            /\ \A j \in 1..(m - 1) :
                                 \/ address < image.mappings[j].address
                                 \/ address >= image.mappings[j].address + image.mappings[j].size
                                 \/ (image.mappings[j].offset + address
                                       - image.mappings[j].address) % Long = 0

==============================================================================

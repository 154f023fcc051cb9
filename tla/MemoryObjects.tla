--------------------------- MODULE MemoryObjects ---------------------------
(***************************************************************************)
(* Objects/MachOMemory.cpp, FatMachOMemory.cpp, DscMemory.cpp and          *)
(* MemoryBase.cpp: what is opened as an object, and with which error it is *)
(* not.  Offsets and sizes are counted in units of four bytes.             *)
(*                                                                         *)
(* A file is a record: its size, and in "at" what can be recognised at     *)
(* which offset; anything else is plain data.  A header is                 *)
(*  - "macho": is64, the count and size of its load commands, the file     *)
(*    sizes of its segments, and whether the commands verify and whether   *)
(*    it is a dylib that is marked as being in a cache;                    *)
(*  - "fat": is64 and its archs, each an offset and a size;                *)
(*  - "cache": whether its cpu is known, the offset of its mappings, the   *)
(*    mappings (address, size, offset), the offset of its images, taken    *)
(*    from the field its version has, and the images (name, address).      *)
(* An object is its kind with the range of the file it lies in.            *)
(***************************************************************************)
EXTENDS Sequences, Ranges

LOCAL Seqs == INSTANCE SequencesExt

CONSTANT UInt32     \* how many units of four bytes 32 bits count

ASSUME UInt32Assumption == UInt32 \in Nat \ {0}

SizeOfHeader == 7
SizeOfLoadCommand == 2
SizeOfFatHeader == 2
SizeOfHeaderV0 == 10
SizeOfHeaderV8 == 114
SizeOfInfo == 8                 \* MappingInfo and ImageInfo

HeaderSize(header) == IF header.is64 THEN SizeOfHeader + 1 ELSE SizeOfHeader
ArchSize(header) == IF header.is64 THEN 8 ELSE 5

Data == [magic |-> "data"]
HeaderAt(file, offset) == IF offset \in DOMAIN file.at THEN file.at[offset] ELSE Data

\* What a file can be: its fields are numbers, and an empty one is not mapped.
MachOHeaders ==
  [magic : {"macho"}, is64 : BOOLEAN, count : Nat, lcSize : Nat, segments : Seq(Nat),
   verifies : BOOLEAN, dylib : BOOLEAN, inCache : BOOLEAN]
FatHeaders ==
  [magic : {"fat"}, is64 : BOOLEAN, archs : Seq([offset : Nat, size : Nat])]
CacheHeaders ==
  [magic : {"cache"}, cpuKnown : BOOLEAN, mappingOffset : Nat,
   mappings : Seq([address : Nat, size : Nat, offset : Nat]),
   imagesOffset : Nat, images : Seq([path : STRING, address : Nat])]

IsHeader(h) == h \in MachOHeaders \/ h \in FatHeaders \/ h \in CacheHeaders \/ h = Data

IsFile(file) ==
  /\ file.size \in Nat \ {0}
  /\ \A offset \in DOMAIN file.at : offset \in Nat /\ IsHeader(file.at[offset])

WholeFile(file) == Range(0, file.size)

\* isLargeEnoughForType<T>() adds its count of 1 to the size of T.
LargeEnoughForType(map, size) == map.size > size

First(S) == CHOOSE i \in S : \A j \in S : i <= j

Object(kind, map) == [kind |-> kind, error |-> "None", map |-> map]
NoObject(kind, error) == [kind |-> kind, error |-> error, map |-> Range(0, 0)]

(***************************************************************************)
(* Mach-O files.                                                           *)
(***************************************************************************)

\* The product is computed in 64 bits, so it cannot overflow, and then cut to 32.
MinLoadCommandsSize(header) == (SizeOfLoadCommand * header.count) % UInt32

LoadCommandsFit(header, map) ==
  /\ HeaderSize(header) + header.lcSize <= map.size
  /\ header.lcSize >= MinLoadCommandsSize(header)

ValidateMachO(file, map) ==
  LET header == HeaderAt(file, map.begin)
  IN  CASE ~LargeEnoughForType(map, SizeOfHeader) -> "SizeTooSmall"
        [] LargeEnoughForType(map, SizeOfHeader) /\ header.magic # "macho" -> "WrongFormat"
        [] OTHER -> IF LoadCommandsFit(header, map) THEN "None" ELSE "TooManyLoadCommands"

DidMatchFormat(error) == error \notin {"WrongFormat", "SizeTooSmall"}

(***************************************************************************)
(* Fat files.  Only the size of an arch is compared with the file: that    *)
(* its end lies in the file is found out when the arch is asked for.       *)
(***************************************************************************)

ArchRange(arch) == Range(arch.offset, arch.size)

\* A variant that compares with the neighbour only.
OverlapsEarlierArch_Neighbour(archs, i) ==
  i > 1 /\ Overlaps(ArchRange(archs[i]), ArchRange(archs[i - 1]))

OverlapsEarlierArch(archs, i) == \E j \in 1..(i - 1) : Overlaps(ArchRange(archs[i]), ArchRange(archs[j]))

ArchError(file, archs, i) ==
  IF archs[i].size > file.size THEN "ArchOutOfBounds"
  ELSE IF OverlapsEarlierArch(archs, i) THEN "ArchOverlapsArch" ELSE "None"

ValidateArchList(file, header) ==
  LET archs == header.archs
      wrong == {i \in DOMAIN archs : ArchError(file, archs, i) # "None"}
  IN  CASE archs = <<>> -> "ZeroArchitectures"
        [] archs # <<>> /\ SizeOfFatHeader + ArchSize(header) * Len(archs) > file.size -> "SizeTooSmall"
        [] OTHER -> IF wrong = {} THEN "None" ELSE ArchError(file, archs, First(wrong))

ValidateFat(file) ==
  LET header == HeaderAt(file, 0)
  IN  CASE ~LargeEnoughForType(WholeFile(file), SizeOfFatHeader) -> "SizeTooSmall"
        [] LargeEnoughForType(WholeFile(file), SizeOfFatHeader) /\ header.magic # "fat" -> "WrongFormat"
        [] OTHER -> ValidateArchList(file, header)

\* A variant of GetArchObject that relies on what was validated.
GetArchObject_NoRange(file, arch) ==
  LET error == ValidateMachO(file, ArchRange(arch))
  IN  IF DidMatchFormat(error) THEN Object("MachO", ArchRange(arch))
      ELSE NoObject("MachO", "UnsupportedObjectKind")

\* A Mach-O whose load commands do not fit matches its format: the object that
\* is not there is used ("Crash").
GetArchObject(file, arch) ==
  LET map == ArchRange(arch)
      error == ValidateMachO(file, map)
  IN  CASE ~ContainsRange(WholeFile(file), map) -> NoObject("MachO", "InvalidArchRange")
        [] ContainsRange(WholeFile(file), map) /\ ~DidMatchFormat(error)
             -> NoObject("MachO", "UnsupportedObjectKind")
        [] OTHER -> IF error = "None" THEN Object("MachO", map) ELSE NoObject("MachO", "Crash")

(***************************************************************************)
(* Shared caches.                                                          *)
(***************************************************************************)

IsV8(header) == header.mappingOffset >= SizeOfHeaderV8

\* The names say multiply and add; the code adds the size of an entry to the
\* count and multiplies by the offset, in bytes.
ImageListEnd(header) == (4 * SizeOfInfo + Len(header.images)) * header.imagesOffset

MappingListRange(header) == Range(header.mappingOffset, SizeOfInfo * Len(header.mappings))
ImageListRange(header) == Range(header.imagesOffset, ImageListEnd(header) - header.imagesOffset)

\* Range::CreateWithEnd asserts that the begin is not past the end: of what is
\* allowed, and of the list of images.
ValidateCacheLists(file, header) ==
  LET allowed == Range(header.mappingOffset, file.size - header.mappingOffset)
  IN  CASE header.mappingOffset > file.size -> "Crash"
        [] header.mappingOffset <= file.size /\ ~ContainsRange(allowed, MappingListRange(header))
             -> "InvalidMappingInfoListRange"
        [] OTHER ->
             IF ImageListEnd(header) < header.imagesOffset THEN "Crash"
             ELSE IF ~ContainsRange(allowed, ImageListRange(header)) THEN "InvalidImageInfoListRange"
             ELSE IF Overlaps(MappingListRange(header), ImageListRange(header))
                  THEN "OverlappingImageMappingInfoListRange" ELSE "None"

ValidateCache(file) ==
  LET header == HeaderAt(file, 0)
      large == LargeEnoughForType(WholeFile(file), SizeOfHeaderV0)
  IN  CASE ~large -> "SizeTooSmall"
        [] large /\ header.magic # "cache" -> "WrongFormat"
        [] large /\ header.magic = "cache" /\ ~header.cpuKnown -> "UnknownCpuKind"
        [] OTHER -> ValidateCacheLists(file, header)

\* An offset of 0 says that there is none.
FileOffsetForAddress(header, address) ==
  LET OffsetIn(m) == m.offset + (address - m.address)
      holding == {i \in DOMAIN header.mappings :
                    LET m == header.mappings[i]
                    IN  HasLocation(Range(m.address, m.size), address) /\ OffsetIn(m) # 0}
  IN  IF address = 0 \/ holding = {} THEN 0 ELSE OffsetIn(header.mappings[First(holding)])

\* The sizes of all segments, one after another.
Total(sizes) == Seqs!FoldLeft(+, 0, sizes)

IsImage(file, map) ==
  LET header == HeaderAt(file, map.begin)
  IN  /\ ValidateMachO(file, map) = "None"
      /\ header.dylib /\ header.inCache
      /\ header.verifies
      /\ Total(header.segments) \in 1..map.size

\* Whatever is wrong with an image, its address is blamed.
GetImage(file, image) ==
  LET offset == FileOffsetForAddress(HeaderAt(file, 0), image.address)
      map == Range(offset, file.size - offset)
  IN  CASE offset = 0 -> NoObject("DscImage", "InvalidAddress")
        [] offset >= file.size -> NoObject("DscImage", "Crash")
        [] OTHER -> IF IsImage(file, map)
                    THEN Object("DscImage", Range(offset, Total(HeaderAt(file, offset).segments)))
                    ELSE NoObject("DscImage", "InvalidAddress")

(***************************************************************************)
(* Any file: the first format that matches decides.                        *)
(***************************************************************************)

OpenObject(file) ==
  LET macho == ValidateMachO(file, WholeFile(file))
      fat == ValidateFat(file)
      cache == ValidateCache(file)
      Opened(kind, error) == IF error = "None" THEN Object(kind, WholeFile(file)) ELSE NoObject(kind, error)
  IN  IF DidMatchFormat(macho) THEN Opened("MachO", macho)
      ELSE IF DidMatchFormat(fat) THEN Opened("FatMachO", fat)
      ELSE IF DidMatchFormat(cache) THEN Opened("DyldSharedCache", cache)
      ELSE NoObject("None", "Crash")

=============================================================================
